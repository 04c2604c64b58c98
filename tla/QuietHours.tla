------------------------------- MODULE QuietHours -------------------------------
(***************************************************************************)
(* EvaluateTimeRule and what becomes of a file it defers: the event waits  *)
(* in the queue until available_at, the consumer then fetches the file     *)
(* from the URL the producer resolved on arrival, which Telegram serves    *)
(* for an hour.  Minutes and days are scaled: a day has Day steps.         *)
(***************************************************************************)
EXTENDS Integers, FiniteSetsExt

CONSTANTS
    Day,          \* length of a day
    UrlLife,      \* how long the source serves a file under one URL
    MaxRetries,   \* maxDeliveryRetries
    Backoff,      \* delay of a retry
    MaxFaults,    \* bound: failed sends
    Horizon       \* bound: last moment looked at

ASSUME ConstantsAssumption ==
    /\ Day \in Nat \ {0} /\ UrlLife \in Nat
    /\ MaxRetries \in Nat /\ Backoff \in Nat
    /\ MaxFaults \in Nat /\ Horizon \in Nat

Minute == 0 .. Day - 1

VARIABLES
    start, end,   \* QuietHoursStart and QuietHoursEnd
    clock,
    state,        \* of the message: "unsent", "waiting", "delivered", "dead"
    arrived, available, retry,
    faults

vars == <<start, end, clock, state, arrived, available, retry, faults>>

Init ==
    /\ start \in Minute /\ end \in Minute
    /\ clock = 0
    /\ state = "unsent" /\ arrived = 0 /\ available = 0 /\ retry = 0
    /\ faults = 0

--------------------------------------------------------------------------------
(* EvaluateTimeRule.                                                        *)

\* Mutant: the minute the quiet hours end is still quiet.
InQuietHours_Inclusive(m) == IF start < end THEN m >= start /\ m <= end
                                            ELSE m >= start \/ m <= end
\* Mutant: hours that pass midnight are taken for an empty span.
InQuietHours_NoWrap(m) == m >= start /\ m < end
InQuietHours(m) == IF start < end THEN m >= start /\ m < end
                                  ELSE m >= start \/ m < end

\* The next time the clock shows the end of the quiet hours.
NextEnd(now) == (now - (now % Day)) + end + (IF now % Day < end THEN 0 ELSE Day)

AvailableAt(now) == IF InQuietHours(now % Day) THEN NextEnd(now) ELSE now

--------------------------------------------------------------------------------
(* The message.                                                             *)

Arrive ==
    /\ state = "unsent"
    /\ state' = "waiting"
    /\ arrived' = clock
    /\ available' = AvailableAt(clock)
    /\ UNCHANGED <<start, end, clock, retry, faults>>

\* Telegram's part: the file can be fetched for a while.
Served == clock <= arrived + UrlLife

Deliver ==
    /\ state = "waiting" /\ clock >= available
    /\ Served
    /\ state' = "delivered"
    /\ UNCHANGED <<start, end, clock, arrived, available, retry, faults>>

\* The fetch answers 404, or the send fails for another reason.
Fail ==
    /\ state = "waiting" /\ clock >= available
    /\ \/ ~Served /\ UNCHANGED faults
       \/ faults < MaxFaults /\ faults' = faults + 1
    /\ \/ /\ retry < MaxRetries
          /\ retry' = retry + 1
          /\ available' = clock + Backoff
          /\ UNCHANGED state
       \/ /\ retry = MaxRetries
          /\ state' = "dead"
          /\ UNCHANGED <<retry, available>>
    /\ UNCHANGED <<start, end, clock, arrived>>

Tick ==
    /\ clock < Horizon
    /\ clock' = clock + 1
    /\ UNCHANGED <<start, end, state, arrived, available, retry, faults>>

Next == Arrive \/ Deliver \/ Fail \/ Tick

Spec == Init /\ [][Next]_vars

--------------------------------------------------------------------------------
\* The state has its types, and no deferral ends before it begins.
TypeOK ==
    /\ start \in Minute /\ end \in Minute /\ clock \in 0 .. Horizon
    /\ state \in {"unsent", "waiting", "delivered", "dead"}
    /\ arrived \in 0 .. clock /\ retry \in 0 .. MaxRetries
    /\ available \in Nat /\ available >= arrived /\ faults \in 0 .. MaxFaults

\* The quiet minutes of the day, by walking the clock from start to end.
Quiet == {(start + i) % Day : i \in 0 .. ((end - start) % Day) - 1}

\* A message waits for the first minute outside the quiet hours and for no
\* later one, also when the quiet hours pass midnight.
WaitsForFirstChance ==
    state = "waiting" /\ retry = 0 /\ start # end =>
        available = Min({t \in arrived .. arrived + Day : t % Day \notin Quiet})

\* README.md:15, "queue content during quiet hours, deliver later": when a
\* deferred message is first due, its file can still be fetched, as long as the
\* quiet hours are no longer than the life of the URL.  After longer ones it
\* cannot.
DeferredIsFetchable ==
    /\ state = "waiting" /\ retry = 0 /\ clock = available
    /\ start # end /\ (end - start) % Day <= UrlLife
    => Served
================================================================================
