------------------------------ MODULE Observability ------------------------------
(***************************************************************************)
(* The counters and the heartbeat of internal/observability, as the queue  *)
(* processor sets them and as the alert loop and /readyz, in goroutines of *)
(* their own, read them.  Each counter is an atomic of its own: a snapshot *)
(* loads them one after the other while the processor goes on.             *)
(*                                                                         *)
(* Left out: the alerts on queue and retry depth, which compare one value  *)
(* of the database, the counters of received and filtered events, which    *)
(* nothing but /metrics reads, and the text of the metrics.                *)
(***************************************************************************)
EXTENDS Integers

CONSTANTS
    SendLimit,      \* processingLease - 2s, the deadline of the sends it reaches
    RestLimit,      \* time of everything else an iteration does, the poll included
    MaxStaleness,   \* readyConsumerMaxStaleness
    StreakLimit,    \* alertReconnectStreakThreshold
    MinSample,      \* alertFailureMinSampleSize
    MaxDeliveries,  \* bound: attempts to deliver
    MaxFaults       \* bound: failed queries of the alert loop

\* A heartbeat is stored in whole seconds and so up to one second early.
ASSUME ConstantsAssumption ==
    /\ SendLimit \in Nat /\ RestLimit \in Nat /\ StreakLimit \in Nat \ {0}
    /\ MinSample \in Nat \ {0} /\ MaxStaleness \in Nat
    /\ SendLimit + RestLimit + 1 <= MaxStaleness
    /\ MaxDeliveries \in Nat /\ MaxFaults \in Nat

VARIABLES
    counters,   \* forwardedEventsTotal, failedEventsTotal and the others
    heartbeat,  \* age of consumerHeartbeatUnix, -1 while it is 0
    pc,         \* where the processor is in its iteration
    al,         \* where the alert loop is
    snapshot, previous,   \* of runAlertLoop
    alerts,     \* raised by the last evaluation
    bounded,    \* the deadline reaches the send of this iteration, if it has one
    \* history: age of the iteration, and what was evaluated or skipped
    iteration, evaluated, skipped,
    deliveries, faults   \* counters of the bounds

processorVars == <<pc, bounded, deliveries>>
timeVars == <<heartbeat, iteration>>
alertVars == <<al, snapshot, previous, alerts, evaluated, skipped>>
vars == <<counters, processorVars, timeVars, alertVars, faults>>

Counter == {"forwarded", "failed", "streak", "retries"}
Zero == [c \in Counter |-> 0]

Init ==
    /\ counters = Zero
    /\ heartbeat = -1 /\ iteration = 0
    /\ pc = "top" /\ bounded = TRUE /\ deliveries = 0
    /\ al = "waiting" /\ snapshot = Zero /\ previous = Zero /\ alerts = {}
    /\ evaluated = Zero /\ skipped = Zero
    /\ faults = 0

Fault == faults < MaxFaults /\ faults' = faults + 1
NoFault == UNCHANGED faults

--------------------------------------------------------------------------------
(* The processor: StartProcessor and what processQueuedEvent registers.     *)

\* Mutant: the heartbeat tells of events, not of iterations.
Beat_OnClaim(claimed) == IF claimed THEN {0, 1} ELSE {heartbeat}
\* MarkConsumerHeartbeat, in seconds.
Beat(claimed) == {0, 1}

\* A new iteration claims an event, or sleeps for the poll interval.  The deadline
\* is that of a webhook's request and of a file's download; the client libraries
\* of Telegram and Discord do not take it, and their requests may be slow, be
\* repeated, or never return.
BeginIteration(claimed) ==
    /\ pc = "top"
    /\ heartbeat' \in Beat(claimed)
    /\ iteration' = 0
    /\ claimed => deliveries < MaxDeliveries
    /\ deliveries' = IF claimed THEN deliveries + 1 ELSE deliveries
    /\ pc' = IF claimed THEN "sending" ELSE "resting"
    /\ bounded' \in BOOLEAN /\ (claimed \/ bounded')
    /\ UNCHANGED <<counters, alertVars, faults>>

Rest ==
    /\ pc \in {"resting", "rescheduled"}
    /\ pc' = "top"
    /\ UNCHANGED <<counters, bounded, deliveries, timeVars, alertVars, faults>>

\* RegisterEventsForwarded, an Add and a Store.  A filtered, digested or delayed
\* event ends in neither.
SendSucceeds ==
    /\ pc = "sending"
    /\ \/ pc' = "forwarded" /\ counters' = [counters EXCEPT !["forwarded"] = @ + 1]
       \/ pc' = "resting" /\ UNCHANGED counters
    /\ UNCHANGED <<bounded, deliveries, timeVars, alertVars, faults>>

ResetStreak ==
    /\ pc = "forwarded"
    /\ pc' = "resting" /\ counters' = [counters EXCEPT !["streak"] = 0]
    /\ UNCHANGED <<bounded, deliveries, timeVars, alertVars, faults>>

\* RegisterDeliveryFailure, two Adds when the reason is like a reconnect's.
SendFails ==
    /\ pc = "sending"
    /\ counters' = [counters EXCEPT !["failed"] = @ + 1]
    /\ pc' \in {"reconnect", "failed"}
    /\ UNCHANGED <<bounded, deliveries, timeVars, alertVars, faults>>

CountStreak ==
    /\ pc = "reconnect"
    /\ pc' = "failed" /\ counters' = [counters EXCEPT !["streak"] = @ + 1]
    /\ UNCHANGED <<bounded, deliveries, timeVars, alertVars, faults>>

\* handleDeliveryFailure calls neither RegisterRetryScheduled nor
\* RegisterDeadLetterMoved; nothing else does.
Reschedule ==
    /\ pc = "failed"
    /\ pc' = "rescheduled"
    /\ UNCHANGED <<counters, bounded, deliveries, timeVars, alertVars, faults>>

MoveToDeadLetter ==
    /\ pc = "failed"
    /\ pc' = "resting"
    /\ UNCHANGED <<counters, bounded, deliveries, timeVars, alertVars, faults>>

Processor == \/ \E claimed \in BOOLEAN : BeginIteration(claimed)
             \/ Rest \/ SendSucceeds \/ ResetStreak \/ SendFails \/ CountStreak
             \/ Reschedule \/ MoveToDeadLetter

--------------------------------------------------------------------------------
(* /readyz.                                                                 *)

Stale == heartbeat > MaxStaleness

\* readyHandler, which changes nothing, when the database answers its Ping.
Answer == CASE heartbeat = -1 -> "not started"
            [] heartbeat # -1 /\ Stale -> "stale"
            [] OTHER -> "ready"

--------------------------------------------------------------------------------
(* runAlertLoop.                                                            *)

Load(from, c, to) ==
    /\ al = from
    /\ al' = to
    /\ snapshot' = [snapshot EXCEPT ![c] = counters[c]]
    /\ UNCHANGED <<counters, processorVars, timeVars, previous, alerts, evaluated,
                   skipped, faults>>

\* snapshotCounters loads in the order of its fields.
LoadForwarded == Load("waiting", "forwarded", "failed")
LoadFailed == Load("failed", "failed", "streak")
LoadStreak == Load("streak", "streak", "stats")

Delta == [c \in Counter |-> snapshot[c] - previous[c]]
Added(total) == [c \in Counter |-> total[c] + Delta[c]]

\* The share of failures is at least a quarter, the default threshold.
RateAlert == /\ Delta["forwarded"] + Delta["failed"] >= MinSample
             /\ 4 * Delta["failed"] >= Delta["forwarded"] + Delta["failed"]
StreakAlert == snapshot["streak"] >= StreakLimit

\* Mutant: the counters are read again at the end of the evaluation.
Kept_Now == counters
\* What the next window is compared with.
Kept == snapshot

Evaluate ==
    /\ al = "stats"
    /\ alerts' = (IF RateAlert THEN {"rate"} ELSE {}) \cup (IF StreakAlert THEN {"streak"} ELSE {})
    /\ previous' = Kept
    /\ evaluated' = Added(evaluated)
    /\ al' = "waiting"
    /\ UNCHANGED <<counters, processorVars, timeVars, snapshot, skipped, faults>>

\* Mutant: the loop ends.
AfterStatsError_Return == "ended"
AfterStatsError == "waiting"

\* GetQueueStats fails: continue, with this snapshot as the previous one.
StatsFail ==
    /\ al = "stats"
    /\ Fault
    /\ alerts' = {}
    /\ previous' = snapshot
    /\ skipped' = Added(skipped)
    /\ al' = AfterStatsError
    /\ UNCHANGED <<counters, processorVars, timeVars, snapshot, evaluated>>

AlertLoop == LoadForwarded \/ LoadFailed \/ LoadStreak \/ Evaluate \/ StatsFail

--------------------------------------------------------------------------------
\* The deadline of a send, and the time the rest takes.
InTime == iteration < SendLimit + RestLimit

Tick ==
    /\ pc # "top"
    /\ bounded => InTime
    /\ heartbeat <= MaxStaleness
    /\ heartbeat' = IF heartbeat = -1 THEN -1 ELSE heartbeat + 1
    /\ iteration' = iteration + 1
    /\ UNCHANGED <<counters, processorVars, alertVars, faults>>

Next == Processor \/ AlertLoop \/ Tick

Spec == Init /\ [][Next]_vars

\* The ticker of the alert loop fires.
FairSpec == Spec /\ WF_vars(AlertLoop)

--------------------------------------------------------------------------------
\* Counters, heartbeat and the alert loop have the values the code gives them.
TypeOK ==
    /\ counters \in [Counter -> Nat] /\ counters["streak"] <= counters["failed"]
    /\ heartbeat \in -1 .. MaxStaleness + 1 /\ iteration \in Nat
    /\ pc \in {"top", "sending", "forwarded", "reconnect", "failed", "rescheduled",
             "resting"}
    /\ bounded \in BOOLEAN
    /\ al \in {"waiting", "failed", "streak", "stats"}
    /\ snapshot \in [Counter -> Nat] /\ previous \in [Counter -> Nat]
    /\ alerts \subseteq {"rate", "streak"}

\* runAlertLoop: every forwarded and every failed event falls into one window,
\* evaluated or skipped for a failed query, although the processor counts on
\* while the counters are loaded and compared.
OneWindowEach ==
    \A c \in {"forwarded", "failed"} :
        /\ evaluated[c] + skipped[c] = previous[c]
        /\ previous[c] <= counters[c]

\* /readyz: a consumer is called stale only if it really has been in one iteration
\* for as long as the limit, in a send that no deadline reaches: one that hangs or
\* an upload that is slow.  Once it has been there longer it is not called ready.
\* An empty queue, or a send that takes all the time it is given, is no reason.
ProbeTellsHang ==
    /\ Answer = "stale" => ~bounded /\ iteration >= MaxStaleness
    /\ iteration > MaxStaleness => Answer # "ready"

\* A reconnect loop is reported, although evaluations are skipped: a streak at
\* its limit ends, or an evaluation raises the alert.
StreakReported ==
    counters["streak"] >= StreakLimit ~>
        ("streak" \in alerts \/ counters["streak"] < StreakLimit)

\* observability.go:323, "Total number of retry attempts scheduled": each retry
\* that is scheduled is counted.
RetriesCounted ==
    [][Reschedule => counters'["retries"] = counters["retries"] + 1]_vars
================================================================================
