--------------------------- MODULE ObservabilityProofs ---------------------------
(***************************************************************************)
(* Proofs about Observability for any limits: why /readyz is right about a *)
(* consumer that is stuck, and why no event is counted in two alert        *)
(* windows.                                                                *)
(***************************************************************************)
EXTENDS Observability, TLAPS

USE DEF processorVars, timeVars, alertVars, vars

CountersOK == /\ counters \in [Counter -> Nat] /\ counters["streak"] <= counters["failed"]
              /\ pc = "reconnect" => counters["streak"] < counters["failed"]
PcOK == pc \in {"top", "sending", "forwarded", "reconnect", "failed", "rescheduled", "resting"}
AlertsOK == /\ al \in {"waiting", "failed", "streak", "stats"}
            /\ snapshot \in [Counter -> Nat] /\ previous \in [Counter -> Nat]
            /\ alerts \subseteq {"rate", "streak"}
            /\ evaluated \in [Counter -> Int] /\ skipped \in [Counter -> Int]
TypesOK == CountersOK /\ PcOK /\ AlertsOK

\* The heartbeat is as old as the iteration, rounded up to a second, and only an
\* iteration whose send has no deadline outlasts the limits.
HeartbeatOfIteration ==
    /\ iteration \in Nat /\ bounded \in BOOLEAN
    /\ heartbeat \in -1 .. MaxStaleness + 1
    /\ heartbeat = -1 => pc = "top"
    /\ heartbeat # -1 => heartbeat \in {iteration, iteration + 1}
    /\ bounded => iteration <= SendLimit + RestLimit

\* A snapshot lies between the previous one and what is counted by now.
WindowsInOrder ==
    \A c \in {"forwarded", "failed"} :
        /\ evaluated[c] + skipped[c] = previous[c]
        /\ previous[c] <= snapshot[c] /\ snapshot[c] <= counters[c]

IInv == TypesOK /\ HeartbeatOfIteration /\ WindowsInOrder

LEMMA InitInv == Init => IInv
<1> SUFFICES ASSUME Init PROVE IInv
  OBVIOUS
<1> USE ConstantsAssumption DEF ConstantsAssumption, Init
<1>1. Zero \in [Counter -> Nat] /\ \A c \in Counter : Zero[c] = 0
  BY DEF Zero
<1>2. TypesOK
  BY <1>1 DEF TypesOK, CountersOK, PcOK, AlertsOK, Counter
<1>3. HeartbeatOfIteration
  <2>1. bounded \in BOOLEAN
    OBVIOUS
  <2>2. /\ iteration = 0 /\ iteration \in Nat /\ heartbeat = -1 /\ pc = "top"
        /\ heartbeat \in -1 .. MaxStaleness + 1 /\ iteration <= SendLimit + RestLimit
    OBVIOUS
  <2>3. QED
    BY <2>1, <2>2, Zenon DEF HeartbeatOfIteration
<1>4. WindowsInOrder
  BY <1>1 DEF WindowsInOrder, Counter
<1>5. QED
  BY <1>2, <1>3, <1>4 DEF IInv

--------------------------------------------------------------------------------
LEMMA TypeStep == TypesOK /\ [Next]_vars => TypesOK'
<1> SUFFICES ASSUME TypesOK, [Next]_vars PROVE TypesOK'
  OBVIOUS
<1>0. CountersOK /\ PcOK /\ AlertsOK
  BY DEF TypesOK
<1>1. CountersOK'
  <2> USE <1>0 DEF CountersOK, Counter
  <2>1. CASE SendSucceeds \/ ResetStreak
    BY <2>1 DEF SendSucceeds, ResetStreak
  <2>2. CASE SendFails
    BY <2>2 DEF SendFails
  <2>3. CASE CountStreak
    BY <2>3 DEF CountStreak
  <2>4. CASE UNCHANGED counters /\ (pc' = "reconnect" => pc = "reconnect")
    BY <2>4
  <2>5. QED
    BY <2>1, <2>2, <2>3, <2>4
    DEF Next, Processor, BeginIteration, Rest, Reschedule, MoveToDeadLetter, AlertLoop, LoadForwarded, LoadFailed, LoadStreak, Load, Evaluate,
        StatsFail, Tick
<1>2. PcOK'
  BY <1>0
  DEF PcOK, Next, Processor, BeginIteration, Rest, SendSucceeds, ResetStreak, SendFails,
      CountStreak, Reschedule, MoveToDeadLetter, AlertLoop,
      LoadForwarded, LoadFailed, LoadStreak, Load, Evaluate, StatsFail, Tick
<1>3. AlertsOK'
  <2> USE <1>0 DEF CountersOK, AlertsOK
  <2>1. CASE LoadForwarded \/ LoadFailed \/ LoadStreak
    BY <2>1 DEF LoadForwarded, LoadFailed, LoadStreak, Load, Counter
  <2>2. \A total \in [Counter -> Int] : Added(total) \in [Counter -> Int]
    BY DEF Added, Delta
  <2>3. CASE Evaluate
    BY <2>2, <2>3 DEF Evaluate, Kept
  <2>4. CASE StatsFail
    BY <2>2, <2>4 DEF StatsFail, AfterStatsError
  <2>5. CASE UNCHANGED alertVars
    BY <2>5
  <2>6. QED
    BY <2>1, <2>3, <2>4, <2>5
    DEF Next, Processor, BeginIteration, Rest, SendSucceeds, ResetStreak, SendFails,
        CountStreak, Reschedule, MoveToDeadLetter, AlertLoop, Tick
<1>4. QED
  BY <1>1, <1>2, <1>3 DEF TypesOK

LEMMA HeartbeatStep ==
    HeartbeatOfIteration /\ [Next]_vars => HeartbeatOfIteration'
<1> SUFFICES ASSUME HeartbeatOfIteration, [Next]_vars PROVE HeartbeatOfIteration'
  OBVIOUS
<1> USE ConstantsAssumption DEF ConstantsAssumption, HeartbeatOfIteration
<1>1. ASSUME NEW claimed \in BOOLEAN, BeginIteration(claimed) PROVE HeartbeatOfIteration'
  <2>1. /\ bounded' \in BOOLEAN
        /\ heartbeat' \in {0, 1} /\ iteration' = 0
    BY <1>1 DEF BeginIteration, Beat
  <2>2. QED
    BY <2>1
<1>2. CASE Tick
  BY <1>2 DEF Tick, InTime
<1>3. ASSUME UNCHANGED <<timeVars, bounded>>, pc # "top" PROVE HeartbeatOfIteration'
  BY <1>3
<1>4. CASE Rest \/ SendSucceeds \/ ResetStreak \/ SendFails \/ CountStreak
           \/ Reschedule \/ MoveToDeadLetter
  BY <1>3, <1>4
  DEF Rest, SendSucceeds, ResetStreak, SendFails, CountStreak, Reschedule, MoveToDeadLetter
<1>5. CASE UNCHANGED <<timeVars, processorVars>>
  BY <1>5
<1>6. QED
  BY <1>1, <1>2, <1>4, <1>5
  DEF Next, Processor, AlertLoop, LoadForwarded, LoadFailed, LoadStreak,
      Load, Evaluate, StatsFail

LEMMA WindowStep == TypesOK /\ WindowsInOrder /\ [Next]_vars => WindowsInOrder'
<1> SUFFICES ASSUME TypesOK, WindowsInOrder, [Next]_vars,
                    NEW c \in {"forwarded", "failed"}
             PROVE  /\ evaluated'[c] + skipped'[c] = previous'[c]
                    /\ previous'[c] <= snapshot'[c] /\ snapshot'[c] <= counters'[c]
  BY DEF WindowsInOrder
<1>0. /\ c \in Counter
      /\ counters \in [Counter -> Nat] /\ snapshot \in [Counter -> Nat]
      /\ previous \in [Counter -> Nat]
      /\ evaluated \in [Counter -> Int] /\ skipped \in [Counter -> Int]
      /\ evaluated[c] + skipped[c] = previous[c]
      /\ previous[c] <= snapshot[c] /\ snapshot[c] <= counters[c]
  BY DEF TypesOK, CountersOK, AlertsOK, WindowsInOrder, Counter
<1>1. CASE LoadForwarded \/ LoadFailed \/ LoadStreak
  BY <1>0, <1>1 DEF LoadForwarded, LoadFailed, LoadStreak, Load, Counter
<1>2. \A total \in [Counter -> Int] : Added(total)[c] = total[c] + snapshot[c] - previous[c]
  BY <1>0 DEF Added, Delta
<1>3. CASE Evaluate
  BY <1>0, <1>2, <1>3 DEF Evaluate, Kept
<1>4. CASE StatsFail
  BY <1>0, <1>2, <1>4 DEF StatsFail
<1>5. ASSUME UNCHANGED alertVars, counters'[c] >= counters[c], counters'[c] \in Nat
      PROVE  /\ evaluated'[c] + skipped'[c] = previous'[c]
             /\ previous'[c] <= snapshot'[c] /\ snapshot'[c] <= counters'[c]
  BY <1>0, <1>5
<1>6. CASE SendSucceeds \/ SendFails
  BY <1>0, <1>5, <1>6 DEF SendSucceeds, SendFails, Counter
<1>7. CASE ResetStreak \/ CountStreak
  BY <1>0, <1>5, <1>7 DEF ResetStreak, CountStreak, Counter
<1>8. CASE UNCHANGED <<counters, alertVars>>
  BY <1>0, <1>5, <1>8
<1>9. QED
  BY <1>1, <1>3, <1>4, <1>6, <1>7, <1>8
  DEF Next, Processor, BeginIteration, Rest, Reschedule, MoveToDeadLetter, AlertLoop, Tick

LEMMA Invariance == Spec => []IInv
<1>1. IInv /\ [Next]_vars => IInv'
  BY TypeStep, HeartbeatStep, WindowStep DEF IInv
<1>2. QED
  BY <1>1, InitInv, PTL DEF Spec

--------------------------------------------------------------------------------
\* Counters, heartbeat and the alert loop have the values the code gives them.
THEOREM TypeCorrect == Spec => []TypeOK
<1>1. IInv => TypeOK
  BY DEF IInv, TypesOK, CountersOK, PcOK, AlertsOK, HeartbeatOfIteration, TypeOK
<1>2. QED
  BY <1>1, Invariance, PTL

\* runAlertLoop: no event is compared twice or left out between two windows,
\* however the loads and the processor's additions interleave.
THEOREM EachInOneWindow == Spec => []OneWindowEach
<1>1. IInv => OneWindowEach
  <2> SUFFICES ASSUME IInv, NEW c \in {"forwarded", "failed"}
               PROVE  evaluated[c] + skipped[c] = previous[c] /\ previous[c] <= counters[c]
    BY DEF OneWindowEach
  <2>1. counters[c] \in Nat /\ snapshot[c] \in Nat /\ previous[c] \in Nat
    BY DEF IInv, TypesOK, CountersOK, AlertsOK, Counter
  <2>2. QED
    BY <2>1 DEF IInv, WindowsInOrder
<1>2. QED
  BY <1>1, Invariance, PTL

\* /readyz is right about the consumer for any limits of a send and of the rest
\* of an iteration whose sum is below readyConsumerMaxStaleness: stale is a send
\* without a deadline that has lasted that long.
THEOREM ProbeIsRight == Spec => []ProbeTellsHang
<1>1. ASSUME IInv PROVE ProbeTellsHang
  <2>1. /\ SendLimit \in Nat /\ RestLimit \in Nat /\ MaxStaleness \in Nat
        /\ SendLimit + RestLimit + 1 <= MaxStaleness
        /\ iteration \in Nat /\ heartbeat \in Int /\ MaxStaleness # -1
        /\ heartbeat # -1 => heartbeat \in {iteration, iteration + 1}
        /\ bounded => iteration <= SendLimit + RestLimit
    BY <1>1, ConstantsAssumption DEF ConstantsAssumption, IInv, HeartbeatOfIteration
  <2>2. CASE heartbeat = -1
    <3>1. Answer = "not started"
      BY <2>2 DEF Answer
    <3>2. QED
      BY <3>1 DEF ProbeTellsHang
  <2>3. CASE heartbeat # -1 /\ Stale
    <3>1. iteration >= MaxStaleness /\ ~bounded
      BY <2>1, <2>3 DEF Stale
    <3>2. Answer = "stale"
      BY <2>3 DEF Answer
    <3>3. QED
      BY <3>1, <3>2 DEF ProbeTellsHang
  <2>4. CASE heartbeat # -1 /\ ~Stale
    <3>1. ~(iteration > MaxStaleness)
      BY <2>1, <2>4 DEF Stale
    <3>2. Answer = "ready"
      BY <2>4 DEF Answer
    <3>3. QED
      BY <3>1, <3>2 DEF ProbeTellsHang
  <2>5. QED
    BY <2>2, <2>3, <2>4
<1>2. QED
  BY <1>1, Invariance, PTL
================================================================================
