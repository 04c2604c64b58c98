-------------------------- MODULE DeliveryQueueProofs --------------------------
(***************************************************************************)
(* Proofs about DeliveryQueue for every set of events and fingerprints and *)
(* every value of the limits, delays, retentions and bounds.               *)
(***************************************************************************)
EXTENDS DeliveryQueueRefinement, TLAPS

USE DEF queueVars, processedVars, deadVars, dedupeVars, procVars, historyVars,
        boundVars, vars

\* The exponential backoff is a number of seconds on every attempt.
LEMMA BackoffType ==
    ASSUME TypeOK, pc = "failed"
    PROVE  Backoff \in Int
<1>1. NextRetry - 1 \in Nat
  BY ConstantsAssumption DEF TypeOK, NextRetry, ConstantsAssumption
<1>2. 2^(NextRetry - 1) \in Int
  BY <1>1
<1>3. QED
  BY <1>2, ConstantsAssumption DEF Backoff, Doubled, ConstantsAssumption

\* A row's age stays a number when it grows older.
LEMMA OlderType ==
    ASSUME NEW age \in Nat, NEW keep \in Nat
    PROVE  Older(age, keep) \in Nat
BY DEF Older

\* TypeOK in four groups, so that a step has to say only what it disturbs.
QueueOK == /\ pending \in SUBSET Event
           /\ due \in [Event -> Int] /\ retry \in [Event -> 0 .. MaxRetries]
StoreOK == /\ processed \in SUBSET Event /\ processedAge \in [Event -> Nat]
           /\ dead \in [DeadId -> Event \cup {NoEvent}] /\ deadAge \in [DeadId -> Nat]
           /\ deadSeq \in 0 .. MaxDead
           /\ dedupe \in SUBSET Key /\ dedupeAge \in [Key -> Nat]
ProcOK == /\ pc \in {"idle", "claimed", "send", "settle", "failed"}
          /\ job \in [event : Event \cup {NoEvent}, retry : 0 .. MaxRetries]
          /\ (pc = "idle") <=> (job.event = NoEvent)
          /\ delivered \in BOOLEAN
HistoryOK == /\ accepted \in SUBSET Event /\ disposed \in SUBSET Event
             /\ abandoned \in SUBSET (Event \cup {NoEvent})
             /\ sends \in [Event -> Nat] /\ excuse \in [Event -> Nat]
             /\ strikes \in [Event -> Nat] /\ sinceAccept \in [Key -> Nat]
             /\ offers \in [Event -> Nat] /\ faults \in Nat
             /\ crashes \in Nat /\ replays \in Nat

\* The processor lets go of its event.
LEMMA NoJobType == NoJob \in [event : Event \cup {NoEvent}, retry : 0 .. MaxRetries]
BY ConstantsAssumption DEF NoJob, ConstantsAssumption

LEMMA IdleOK == Idle => ProcOK'
<1> SUFFICES ASSUME Idle PROVE ProcOK'
  OBVIOUS
<1>1. job' \in [event : Event \cup {NoEvent}, retry : 0 .. MaxRetries]
  BY NoJobType DEF Idle
<1>2. (pc' = "idle") <=> (job'.event = NoEvent)
  BY DEF Idle, NoJob
<1>3. pc' \in {"idle", "claimed", "send", "settle", "failed"} /\ delivered' \in BOOLEAN
  BY DEF Idle
<1>4. QED
  BY <1>1, <1>2, <1>3 DEF ProcOK

LEMMA InitType == Init => TypeOK
<1> SUFFICES ASSUME Init PROVE TypeOK
  OBVIOUS
<1> USE ConstantsAssumption DEF ConstantsAssumption, Init
<1>1. QueueOK
  BY DEF QueueOK
<1>2. StoreOK
  BY DEF StoreOK
<1>3. ProcOK
  <2>1. job \in [event : Event \cup {NoEvent}, retry : 0 .. MaxRetries]
    BY NoJobType
  <2>2. QED
    BY <2>1 DEF ProcOK, NoJob
<1>4. HistoryOK
  BY DEF HistoryOK
<1>5. QED
  BY <1>1, <1>2, <1>3, <1>4 DEF TypeOK, QueueOK, StoreOK, ProcOK, HistoryOK

LEMMA TypeStep == TypeOK /\ [Next]_vars => TypeOK'
<1> SUFFICES ASSUME TypeOK, [Next]_vars
             PROVE  TypeOK'
  OBVIOUS
<1> USE ConstantsAssumption DEF ConstantsAssumption
<1>1. CASE Offer
  <2>a. PICK e \in Event :
            \E k \in {KeyOf[e], NoKey}, delay \in {0, QuietDelay} : Enqueue(e, k, delay)
    BY <1>1 DEF Offer
  <2>b. PICK k \in {KeyOf[e], NoKey}, delay \in {0, QuietDelay} : Enqueue(e, k, delay)
    BY <2>a
  <2>1. CASE Duplicate(e, k)
    BY <2>b, <2>1 DEF TypeOK, Enqueue
  <2>2. CASE ~Duplicate(e, k)
    <3>1. k \in Key \cup {NoKey} /\ delay \in Int
      BY <2>b
    <3>2. dedupe' \in SUBSET Key /\ dedupeAge' \in [Key -> Nat]
      BY <2>b, <2>2, <3>1 DEF TypeOK, Enqueue, Accept, RecordMedia, LiveKeys
    <3>3. sinceAccept' \in [Key -> Nat]
      BY <2>b, <2>2, <3>1 DEF TypeOK, Enqueue, Accept
    <3>4. QED
      BY <2>b, <2>2, <3>2, <3>3 DEF TypeOK, Enqueue, Accept
  <2>3. QED
    BY <2>1, <2>2
<1>2. ASSUME NEW e \in Event, Claim(e)
      PROVE  TypeOK'
  BY <1>2 DEF TypeOK, Claim, NextDue
<1>3. CASE Dispose
  BY <1>3 DEF TypeOK, Dispose
<1>4. CASE RouteFails \/ Admit
  BY <1>4 DEF TypeOK, RouteFails, Admit, RouteTo
<1>5. CASE HoldBack
  <2>1. job.event \in Event /\ job.retry \in 0 .. MaxRetries
    BY <1>5 DEF TypeOK, HoldBack
  <2>2. QueueOK'
    BY <1>5, <2>1 DEF TypeOK, HoldBack, Reschedule, QueueOK
  <2>3. StoreOK' /\ HistoryOK'
    BY <1>5 DEF TypeOK, HoldBack, Fault, NoFault, StoreOK, HistoryOK
  <2>4. QED
    BY <1>5, <2>2, <2>3, IdleOK DEF TypeOK, QueueOK, StoreOK, ProcOK, HistoryOK, HoldBack
<1>6. CASE SendSucceeds
  BY <1>6 DEF TypeOK, SendSucceeds
<1>7. CASE SendFails
  BY <1>7 DEF TypeOK, SendFails
<1>8. CASE AnswerLost
  BY <1>8 DEF TypeOK, AnswerLost, Fault
<1>9. CASE Settle
  <2>1. job.event \in Event
    BY <1>9 DEF TypeOK, Settle
  <2>2. QueueOK'
    BY <1>9, <2>1 DEF TypeOK, Settle, Dequeue, QueueOK
  <2>3. StoreOK'
    BY <1>9, <2>1 DEF TypeOK, Settle, StoreOK
  <2>4. HistoryOK'
    BY <1>9, <2>1 DEF TypeOK, Settle, Fault, NoFault, ExcuseDelivered, HistoryOK
  <2>5. QED
    BY <1>9, <2>2, <2>3, <2>4, IdleOK DEF TypeOK, QueueOK, StoreOK, ProcOK, HistoryOK, Settle
<1>10. CASE Retry
  <2>1. Backoff \in Int
    BY <1>10, BackoffType DEF Retry
  <2>2. NextRetry \in 0 .. MaxRetries
    BY <1>10 DEF Retry, RetriesLeft, NextRetry, TypeOK
  <2>3. job.event \in Event
    BY <1>10 DEF TypeOK, Retry
  <2>4. QueueOK'
    BY <1>10, <2>1, <2>2, <2>3 DEF TypeOK, Retry, Reschedule, QueueOK
  <2>5. StoreOK' /\ HistoryOK'
    BY <1>10, <2>3 DEF TypeOK, Retry, Strike, Fault, NoFault, StoreOK, HistoryOK
  <2>6. QED
    BY <1>10, <2>4, <2>5, IdleOK DEF TypeOK, QueueOK, StoreOK, ProcOK, HistoryOK, Retry
<1>11. CASE GiveUp
  <2>1. job.event \in Event
    BY <1>11 DEF GiveUp, TypeOK
  <2>2. UNCHANGED <<queueVars, deadVars>> \/ MoveToDeadLetter(job.event)
    BY <1>11 DEF GiveUp
  <2>3. QueueOK'
    BY <2>1, <2>2 DEF TypeOK, MoveToDeadLetter, Dequeue, QueueOK
  <2>4. /\ dead' \in [DeadId -> Event \cup {NoEvent}]
        /\ deadAge' \in [DeadId -> Nat] /\ deadSeq' \in 0 .. MaxDead
    BY <2>1, <2>2 DEF TypeOK, MoveToDeadLetter
  <2>5. StoreOK'
    BY <1>11, <2>4 DEF TypeOK, GiveUp, StoreOK
  <2>6. HistoryOK'
    BY <1>11, <2>1 DEF TypeOK, GiveUp, Strike, Fault, NoFault, HistoryOK
  <2>7. QED
    BY <1>11, <2>3, <2>5, <2>6, IdleOK DEF TypeOK, QueueOK, StoreOK, ProcOK, HistoryOK, GiveUp
<1>12. ASSUME NEW d \in DeadId, Replay(d)
       PROVE  TypeOK'
  BY <1>12 DEF TypeOK, Replay, DropDead
<1>13. CASE PurgeProcessed
  <2> PICK E \in SUBSET {e \in processed : processedAge[e] > ProcessedKeep} :
           /\ processed' = processed \ E
           /\ processedAge' = [e \in Event |-> IF e \in E THEN 0 ELSE processedAge[e]]
           /\ excuse' = [e \in Event |-> IF e \in E /\ sends[e] > excuse[e]
                                         THEN excuse[e] + 1 ELSE excuse[e]]
    BY <1>13 DEF PurgeProcessed
  <2>1. processedAge' \in [Event -> Nat] /\ excuse' \in [Event -> Nat]
    BY DEF TypeOK
  <2>2. processed' \in SUBSET Event
    BY DEF TypeOK
  <2>3. QED
    BY <1>13, <2>1, <2>2 DEF TypeOK, PurgeProcessed
<1>14. CASE PurgeDead
  <2> PICK D \in SUBSET DeadId : DropDead(D) /\ abandoned' = abandoned \cup {dead[d] : d \in D}
    BY <1>14 DEF PurgeDead
  <2>1. dead' \in [DeadId -> Event \cup {NoEvent}] /\ deadAge' \in [DeadId -> Nat]
    BY DEF TypeOK, DropDead
  <2>2. abandoned' \in SUBSET (Event \cup {NoEvent})
    BY DEF TypeOK
  <2>3. QED
    BY <1>14, <2>1, <2>2 DEF TypeOK, PurgeDead, DropDead
<1>15. CASE PurgeDedupe
  BY <1>15 DEF TypeOK, PurgeDedupe, LiveKeys
<1>16. CASE Crash
  <2>1. excuse' \in [Event -> Nat]
    BY <1>16 DEF TypeOK, Crash, ExcuseDelivered
  <2>2. QueueOK' /\ StoreOK' /\ HistoryOK'
    BY <1>16, <2>1 DEF TypeOK, Crash, QueueOK, StoreOK, HistoryOK
  <2>3. QED
    BY <1>16, <2>2, IdleOK DEF TypeOK, QueueOK, StoreOK, ProcOK, HistoryOK, Crash
<1>17. CASE Tick
  <2>1. due' \in [Event -> Int]
    BY <1>17 DEF TypeOK, Tick
  <2>2. processedAge' \in [Event -> Nat]
    BY <1>17, OlderType DEF TypeOK, Tick
  <2>3. deadAge' \in [DeadId -> Nat]
    BY <1>17, OlderType DEF TypeOK, Tick
  <2>4. dedupeAge' \in [Key -> Nat] /\ sinceAccept' \in [Key -> Nat]
    BY <1>17, OlderType DEF TypeOK, Tick
  <2>5. QED
    BY <1>17, <2>1, <2>2, <2>3, <2>4 DEF TypeOK, Tick
<1>18. CASE UNCHANGED vars
  BY <1>18 DEF TypeOK
<1>19. QED
  BY <1>1, <1>2, <1>3, <1>4, <1>5, <1>6, <1>7, <1>8, <1>9, <1>10, <1>11, <1>12,
     <1>13, <1>14, <1>15, <1>16, <1>17, <1>18
  DEF Next, Processor, Route, Send, Retention

\* The tables, the processor and the history keep their types for every set
\* of events and every value of the constants.
THEOREM TypeCorrect == Spec => []TypeOK
BY InitType, TypeStep, PTL DEF Spec

--------------------------------------------------------------------------------
(* The inductive invariant.  Three facts about an attempt in progress make  *)
(* the safety properties inductive: an event is acknowledged only after it  *)
(* was disposed of, a copy that was sent but not yet acknowledged belongs   *)
(* to the attempt that is about to acknowledge it, and the retry count the  *)
(* processor copied was paid for by failed attempts.                        *)

SettleIsDisposed == pc = "settle" => job.event \in disposed

Unsettled(e) == delivered /\ job.event = e

SendsAccounted ==
    /\ delivered => pc = "settle"
    /\ \A e \in Event : IF e \in processed \/ Unsettled(e)
                        THEN sends[e] <= 1 + excuse[e]
                        ELSE sends[e] <= excuse[e]

RetriesPaid ==
    /\ \A e \in Event : retry[e] <= strikes[e]
    /\ pc # "idle" => job.retry <= strikes[job.event]

\* AUTOINCREMENT: a new dead letter takes an id that holds none.
FreshIds == \A d \in DeadId : d > deadSeq => dead[d] = NoEvent

Inv == /\ ProcessedNotQueued
       /\ ClaimKeepsRow
       /\ ProcessedWasDisposed
       /\ SettleIsDisposed
       /\ FreshIds
       /\ NoEventLost
       /\ SendsAccounted
       /\ RetriesPaid

IInv == TypeOK /\ Inv

LEMMA InitInv == Init => Inv
BY ConstantsAssumption
DEF Init, NoJob, Inv, ProcessedNotQueued, ClaimKeepsRow, ProcessedWasDisposed,
    SettleIsDisposed, FreshIds, NoEventLost, SendsAccounted, Unsettled, RetriesPaid,
    ConstantsAssumption

\* The claim holds its row and processed rows are not queued.
LEMMA RowStep ==
    ASSUME IInv, [Next]_vars
    PROVE  ProcessedNotQueued' /\ ClaimKeepsRow'
<1> USE DEF IInv, Inv, ProcessedNotQueued, ClaimKeepsRow
<1>1. CASE Offer
  BY <1>1 DEF Offer, Enqueue, Duplicate, Accept
<1>2. ASSUME NEW e \in Event, Claim(e)
      PROVE  ProcessedNotQueued' /\ ClaimKeepsRow'
  BY <1>2 DEF Claim, NextDue
<1>3. CASE Dispose \/ RouteFails \/ Admit
  BY <1>3 DEF Dispose, RouteFails, Admit, RouteTo
<1>4. CASE HoldBack
  BY <1>4 DEF HoldBack, Reschedule, Idle
<1>5. CASE Send
  BY <1>5 DEF Send, SendSucceeds, SendFails, AnswerLost
<1>6. CASE Settle
  BY <1>6 DEF Settle, Dequeue, Idle
<1>7. CASE Retry
  BY <1>7 DEF Retry, Reschedule, Idle
<1>8. CASE GiveUp
  BY <1>8 DEF GiveUp, MoveToDeadLetter, Dequeue, Idle
<1>9. ASSUME NEW d \in DeadId, Replay(d)
      PROVE  ProcessedNotQueued' /\ ClaimKeepsRow'
  BY <1>9 DEF Replay, AlreadyDone
<1>10. CASE PurgeProcessed
  BY <1>10 DEF PurgeProcessed
<1>11. CASE PurgeDead \/ PurgeDedupe
  BY <1>11 DEF PurgeDead, PurgeDedupe
<1>12. CASE Crash
  BY <1>12 DEF Crash, Idle
<1>13. CASE Tick
  BY <1>13 DEF Tick
<1>14. CASE UNCHANGED vars
  BY <1>14
<1>15. QED
  BY <1>1, <1>2, <1>3, <1>4, <1>5, <1>6, <1>7, <1>8, <1>9, <1>10, <1>11, <1>12,
     <1>13, <1>14 DEF Next, Processor, Route, Retention

\* An event is acknowledged only after an outcome.
LEMMA DisposedStep ==
    ASSUME IInv, [Next]_vars
    PROVE  ProcessedWasDisposed' /\ SettleIsDisposed'
<1> USE DEF IInv, Inv, ProcessedWasDisposed, SettleIsDisposed
<1>1. CASE Offer
  BY <1>1 DEF Offer, Enqueue
<1>2. ASSUME NEW e \in Event, Claim(e)
      PROVE  ProcessedWasDisposed' /\ SettleIsDisposed'
  BY <1>2 DEF Claim
<1>3. CASE Dispose \/ RouteFails \/ Admit
  BY <1>3 DEF Dispose, RouteFails, Admit, RouteTo
<1>4. CASE HoldBack
  BY <1>4 DEF HoldBack, Idle
<1>5. CASE Send
  BY <1>5 DEF Send, SendSucceeds, SendFails, AnswerLost
<1>6. CASE Settle
  BY <1>6 DEF Settle, Idle
<1>7. CASE Retry \/ GiveUp
  BY <1>7 DEF Retry, GiveUp, Idle
<1>8. ASSUME NEW d \in DeadId, Replay(d)
      PROVE  ProcessedWasDisposed' /\ SettleIsDisposed'
  BY <1>8 DEF Replay
<1>9. CASE Retention
  BY <1>9 DEF Retention, PurgeProcessed, PurgeDead, PurgeDedupe
<1>10. CASE Crash
  BY <1>10 DEF Crash, Idle
<1>11. CASE Tick
  BY <1>11 DEF Tick
<1>12. CASE UNCHANGED vars
  BY <1>12
<1>13. QED
  BY <1>1, <1>2, <1>3, <1>4, <1>5, <1>6, <1>7, <1>8, <1>9, <1>10, <1>11, <1>12
  DEF Next, Processor, Route

\* Dead letters are written under unused ids only.
LEMMA FreshIdsStep ==
    ASSUME IInv, [Next]_vars
    PROVE  FreshIds'
<1> USE DEF IInv, Inv, FreshIds
<1>1. CASE GiveUp
  <2>1. UNCHANGED deadVars \/ MoveToDeadLetter(job.event)
    BY <1>1 DEF GiveUp
  <2>2. CASE UNCHANGED deadVars
    BY <2>2
  <2>3. CASE MoveToDeadLetter(job.event)
    <3>1. deadSeq' = deadSeq + 1 /\ deadSeq \in Int
      BY <2>3 DEF MoveToDeadLetter, TypeOK
    <3>2. \A d \in DeadId : d > deadSeq + 1 => dead'[d] = dead[d]
      BY <2>3, <3>1 DEF MoveToDeadLetter, TypeOK, DeadId
    <3>3. QED
      BY <3>1, <3>2 DEF DeadId
  <2>4. QED
    BY <2>1, <2>2, <2>3
<1>2. ASSUME NEW d \in DeadId, Replay(d)
      PROVE  FreshIds'
  BY <1>2 DEF Replay, DropDead
<1>3. CASE PurgeDead
  BY <1>3 DEF PurgeDead, DropDead
<1>4. CASE UNCHANGED <<dead, deadSeq>>
  BY <1>4
<1>5. QED
  BY <1>1, <1>2, <1>3, <1>4
  DEF Next, Offer, Enqueue, Processor, Claim, Route, Dispose, RouteFails, Admit, RouteTo,
      HoldBack, Send, SendSucceeds, SendFails, AnswerLost, Settle, Retry, Retention,
      PurgeProcessed, PurgeDedupe, Crash, Tick

\* A dead letter is added and none is overwritten.
LEMMA DeadGrows ==
    ASSUME IInv, GiveUp, MoveToDeadLetter(job.event)
    PROVE  DeadEvents' = DeadEvents \cup {job.event}
<1>1. deadSeq \in 0 .. MaxDead /\ deadSeq < MaxDead /\ MaxDead \in Nat
  BY ConstantsAssumption DEF MoveToDeadLetter, IInv, TypeOK, ConstantsAssumption
<1>2. deadSeq + 1 \in DeadId /\ deadSeq + 1 > deadSeq
  BY <1>1 DEF DeadId
<1>3. dead[deadSeq + 1] = NoEvent
  BY <1>2 DEF IInv, Inv, FreshIds
<1>4. job.event # NoEvent
  BY DEF GiveUp, IInv, TypeOK
<1>5. QED
  BY <1>2, <1>3, <1>4 DEF MoveToDeadLetter, IInv, TypeOK, DeadEvents

\* An event without an outcome that leaves the queue becomes a dead letter,
\* and one that leaves the dead letters is queued again or given up.
LEMMA CustodyStep ==
    ASSUME IInv, [Next]_vars
    PROVE  NoEventLost'
<1> USE DEF IInv, Inv, NoEventLost, DeadEvents
<1>1. CASE Offer
  BY <1>1 DEF Offer, Enqueue, Accept
<1>2. CASE Settle
  <2>1. job.event \in disposed
    BY <1>2 DEF Settle, SettleIsDisposed
  <2>2. QED
    BY <1>2, <2>1 DEF Settle, Dequeue
<1>3. CASE GiveUp
  <2>1. CASE UNCHANGED <<queueVars, deadVars>>
    BY <1>3, <2>1 DEF GiveUp
  <2>2. CASE MoveToDeadLetter(job.event)
    <3>3. DeadEvents' = DeadEvents \cup {job.event}
      BY <1>3, <2>2, DeadGrows
    <3>4. pending' = pending \ {job.event}
      BY <2>2 DEF MoveToDeadLetter, Dequeue
    <3>5. QED
      BY <1>3, <3>3, <3>4 DEF GiveUp
  <2>3. QED
    BY <1>3, <2>1, <2>2 DEF GiveUp
<1>4. ASSUME NEW d \in DeadId, Replay(d)
      PROVE  NoEventLost'
  <2>1. DeadEvents \subseteq DeadEvents' \cup {dead[d]}
    BY <1>4 DEF Replay, DropDead
  <2>2. dead[d] \in pending' \cup disposed /\ pending \subseteq pending'
    BY <1>4 DEF Replay, AlreadyDone, ProcessedWasDisposed
  <2>3. QED
    BY <1>4, <2>1, <2>2 DEF Replay
<1>5. CASE PurgeDead
  <2> PICK D \in SUBSET DeadId : DropDead(D) /\ abandoned' = abandoned \cup {dead[d] : d \in D}
    BY <1>5 DEF PurgeDead
  <2>1. DeadEvents \subseteq DeadEvents' \cup abandoned'
    BY DEF DropDead
  <2>2. QED
    BY <1>5, <2>1 DEF PurgeDead
<1>6. CASE /\ disposed \subseteq disposed'
           /\ UNCHANGED <<accepted, pending, dead, abandoned>>
  BY <1>6
<1>7. QED
  BY <1>1, <1>2, <1>3, <1>4, <1>5, <1>6
  DEF Next, Processor, Claim, Route, Dispose, RouteFails, Admit, RouteTo,
      HoldBack, Reschedule, Send, SendSucceeds, SendFails, AnswerLost, Retry, Retention,
      PurgeProcessed, PurgeDedupe, Crash, Tick

\* A copy is sent only by an attempt at an event that is not processed, and
\* that attempt's copy is the only one without an excuse.
LEMMA SendsStep ==
    ASSUME IInv, [Next]_vars
    PROVE  SendsAccounted'
<1> USE DEF IInv, Inv, SendsAccounted, Unsettled
<1>1. CASE Offer
  BY <1>1 DEF Offer, Enqueue
<1>2. ASSUME NEW e \in Event, Claim(e)
      PROVE  SendsAccounted'
  BY <1>2 DEF Claim
<1>3. CASE Dispose \/ RouteFails \/ Admit
  BY <1>3 DEF Dispose, RouteFails, Admit, RouteTo
<1>4. CASE HoldBack
  BY <1>4 DEF HoldBack, Idle
<1>5. CASE SendSucceeds
  <2>1. job.event \in Event \ processed
    BY <1>5 DEF SendSucceeds, TypeOK, ClaimKeepsRow, ProcessedNotQueued
  <2>2. QED
    BY <1>5, <2>1 DEF SendSucceeds, TypeOK
<1>6. CASE SendFails
  BY <1>6 DEF SendFails
<1>7. CASE AnswerLost
  BY <1>7 DEF AnswerLost, TypeOK
<1>8. CASE Settle
  BY <1>8 DEF Settle, Idle, ExcuseDelivered, TypeOK
<1>9. CASE Retry \/ GiveUp
  BY <1>9 DEF Retry, GiveUp, Idle
<1>10. ASSUME NEW d \in DeadId, Replay(d)
       PROVE  SendsAccounted'
  BY <1>10 DEF Replay
<1>11. CASE PurgeProcessed
  BY <1>11 DEF PurgeProcessed, TypeOK
<1>12. CASE PurgeDead \/ PurgeDedupe
  BY <1>12 DEF PurgeDead, PurgeDedupe
<1>13. CASE Crash
  BY <1>13 DEF Crash, Idle, ExcuseDelivered, TypeOK
<1>14. CASE Tick
  BY <1>14 DEF Tick
<1>15. CASE UNCHANGED vars
  BY <1>15
<1>16. QED
  BY <1>1, <1>2, <1>3, <1>4, <1>5, <1>6, <1>7, <1>8, <1>9, <1>10, <1>11, <1>12,
     <1>13, <1>14, <1>15
  DEF Next, Processor, Route, Send, Retention

\* The stored retry count and the processor's copy never run ahead of the
\* failed attempts.
LEMMA RetriesStep ==
    ASSUME IInv, [Next]_vars
    PROVE  RetriesPaid'
<1> USE DEF IInv, Inv, RetriesPaid
<1>1. CASE Offer
  BY <1>1 DEF Offer, Enqueue, Accept, TypeOK
<1>2. ASSUME NEW e \in Event, Claim(e)
      PROVE  RetriesPaid'
  BY <1>2 DEF Claim, NextDue
<1>3. CASE Dispose \/ RouteFails \/ Admit
  BY <1>3 DEF Dispose, RouteFails, Admit, RouteTo
<1>4. CASE HoldBack
  BY <1>4 DEF HoldBack, Reschedule, Idle, TypeOK
<1>5. CASE Send
  BY <1>5 DEF Send, SendSucceeds, SendFails, AnswerLost
<1>6. CASE Settle
  BY <1>6 DEF Settle, Dequeue, Idle, TypeOK
<1>7. CASE Retry
  BY <1>7 DEF Retry, Reschedule, Strike, NextRetry, Idle, TypeOK
<1>8. CASE GiveUp
  <2>1. job.event \in pending
    BY <1>8 DEF GiveUp, ClaimKeepsRow
  <2>2. QED
    BY <1>8, <2>1 DEF GiveUp, MoveToDeadLetter, Dequeue, Strike, Idle, TypeOK
<1>9. ASSUME NEW d \in DeadId, Replay(d)
      PROVE  RetriesPaid'
  BY <1>9 DEF Replay, TypeOK
<1>10. CASE Retention
  BY <1>10 DEF Retention, PurgeProcessed, PurgeDead, PurgeDedupe
<1>11. CASE Crash
  BY <1>11 DEF Crash, Idle
<1>12. CASE Tick
  BY <1>12 DEF Tick
<1>13. CASE UNCHANGED vars
  BY <1>13
<1>14. QED
  BY <1>1, <1>2, <1>3, <1>4, <1>5, <1>6, <1>7, <1>8, <1>9, <1>10, <1>11, <1>12, <1>13
  DEF Next, Processor, Route

--------------------------------------------------------------------------------
(* Theorems.                                                                *)

LEMMA InvStep == IInv /\ [Next]_vars => IInv'
BY TypeStep, RowStep, DisposedStep, FreshIdsStep, CustodyStep, SendsStep, RetriesStep
DEF IInv, Inv

LEMMA Invariance == Spec => []IInv
<1>1. Init => IInv
  BY InitType, InitInv DEF IInv
<1>2. QED
  BY <1>1, InvStep, PTL DEF Spec

\* Whatever fails or crashes, an accepted event is handled, queued, a dead
\* letter, or lost to the retention of the dead letters.
THEOREM EventsAreKept == Spec => []NoEventLost
<1>1. IInv => NoEventLost
  BY DEF IInv, Inv
<1>2. QED
  BY <1>1, Invariance, PTL

\* processed_events records only events that had an outcome.
THEOREM ProcessedIsFinal == Spec => []ProcessedWasDisposed
<1>1. IInv => ProcessedWasDisposed
  BY DEF IInv, Inv
<1>2. QED
  BY <1>1, Invariance, PTL

\* AckPendingEvent: an event recorded in processed_events has no
\* row left in pending_events.
THEOREM ProcessedHasLeftQueue == Spec => []ProcessedNotQueued
<1>1. IInv => ProcessedNotQueued
  BY DEF IInv, Inv
<1>2. QED
  BY <1>1, Invariance, PTL

\* The row of the event in hand is in the queue until its outcome is recorded.
THEOREM ClaimIsSafe == Spec => []ClaimKeepsRow
<1>1. IInv => ClaimKeepsRow
  BY DEF IInv, Inv
<1>2. QED
  BY <1>1, Invariance, PTL

\* Copies beyond the first never outnumber the faults that explain them.
THEOREM DuplicatesHaveCauses == Spec => []DuplicatesExplained
<1>1. IInv => DuplicatesExplained
  <2> SUFFICES ASSUME IInv, NEW e \in Event
               PROVE  sends[e] <= 1 + excuse[e]
    BY DEF DuplicatesExplained
  <2>1. sends[e] \in Nat /\ excuse[e] \in Nat
    BY DEF IInv, TypeOK
  <2>2. sends[e] <= 1 + excuse[e] \/ sends[e] <= excuse[e]
    BY DEF IInv, Inv, SendsAccounted
  <2>3. QED
    BY <2>1, <2>2
<1>2. QED
  BY <1>1, Invariance, PTL

\* No event is given up before it used all its attempts.
THEOREM DeadLettersAreEarned == Spec => DeadLetterEarned
<1> DEFINE Earned == \A e \in Event :
                        (deadSeq' # deadSeq /\ dead'[deadSeq'] = e) => strikes[e] >= MaxRetries
<1>1. IInv /\ [Next]_vars => [Earned]_vars
  <2> SUFFICES ASSUME IInv, Next, NEW e \in Event,
                      deadSeq' # deadSeq, dead'[deadSeq'] = e
               PROVE  strikes[e] >= MaxRetries
    OBVIOUS
  <2>1. GiveUp
    BY DEF Next, Offer, Enqueue, Processor, Claim, Route, Dispose, RouteFails, Admit,
           RouteTo, HoldBack, Send, SendSucceeds, SendFails, AnswerLost, Settle, Retry,
           Replay, DropDead, Retention, PurgeProcessed, PurgeDead, PurgeDedupe, Crash, Tick
  <2>2. MoveToDeadLetter(job.event)
    BY <2>1 DEF GiveUp
  <2>3. deadSeq + 1 \in DeadId
    BY <2>2, ConstantsAssumption
    DEF IInv, TypeOK, MoveToDeadLetter, DeadId, ConstantsAssumption
  <2>4. e = job.event
    BY <2>2, <2>3 DEF MoveToDeadLetter, IInv, TypeOK
  <2>5. job.retry <= strikes[job.event]
    BY <2>1 DEF IInv, Inv, RetriesPaid, GiveUp
  <2>6. job.retry >= MaxRetries
    BY <2>1, ConstantsAssumption
    DEF GiveUp, RetriesLeft, NextRetry, IInv, TypeOK, ConstantsAssumption
  <2>7. QED
    BY <2>4, <2>5, <2>6, ConstantsAssumption DEF IInv, TypeOK, ConstantsAssumption
<1>2. QED
  BY <1>1, Invariance, PTL DEF Spec, DeadLetterEarned

--------------------------------------------------------------------------------
(* The dedupe window.  Whoever deletes from media_dedupe, the fingerprint of *)
(* media queued within the window stays there, and is no older than that.   *)

FingerprintKept ==
    \A k \in Key : sinceAccept[k] <= DedupeWindow =>
                       k \in dedupe /\ dedupeAge[k] <= sinceAccept[k]

LEMMA FingerprintInit == Init => FingerprintKept
BY ConstantsAssumption DEF Init, FingerprintKept, ConstantsAssumption

\* recordMediaDedupe drops expired fingerprints only, and adds the new one.
LEMMA FingerprintEnqueue ==
    ASSUME TypeOK, FingerprintKept, NEW e \in Event, NEW k \in Key \cup {NoKey},
           NEW delay, Enqueue(e, k, delay)
    PROVE  FingerprintKept'
<1> USE ConstantsAssumption DEF ConstantsAssumption
<1>1. CASE UNCHANGED <<dedupeVars, sinceAccept>>
  BY <1>1 DEF FingerprintKept
<1>2. CASE k # NoKey /\ k \notin LiveKeys /\ Accept(e, k, delay)
  <2>1. /\ dedupe' = LiveKeys \cup {k}
        /\ dedupeAge' = [j \in Key |-> IF j \in LiveKeys THEN dedupeAge[j] ELSE 0]
    BY <1>2 DEF Accept, RecordMedia
  <2>2. \A j \in Key : sinceAccept'[j] = sinceAccept[j] \/ (j = k /\ sinceAccept'[j] = 0)
    BY <1>2 DEF Accept, TypeOK
  <2>3. ASSUME NEW j \in Key, sinceAccept'[j] <= DedupeWindow
        PROVE  j \in dedupe' /\ dedupeAge'[j] <= sinceAccept'[j]
    <3>1. CASE j = k
      <4>1. dedupeAge'[j] = 0 /\ j \in dedupe'
        BY <1>2, <2>1, <3>1
      <4>2. sinceAccept'[j] >= 0
        BY <2>2 DEF TypeOK
      <4>3. QED
        BY <4>1, <4>2
    <3>2. CASE j # k
      <4>1. /\ sinceAccept'[j] = sinceAccept[j] /\ j \in dedupe
            /\ dedupeAge[j] <= sinceAccept[j]
        BY <2>2, <2>3, <3>2 DEF FingerprintKept
      <4>2. dedupeAge[j] <= DedupeWindow
        BY <2>3, <4>1 DEF TypeOK
      <4>3. j \in LiveKeys
        BY <4>1, <4>2 DEF LiveKeys
      <4>4. QED
        BY <2>1, <4>1, <4>3
    <3>3. QED
      BY <3>1, <3>2
  <2>4. QED
    BY <2>3 DEF FingerprintKept
<1>3. QED
  BY <1>1, <1>2 DEF Enqueue, Duplicate, Accept, RecordMedia

LEMMA FingerprintStep == TypeOK /\ FingerprintKept /\ [Next]_vars => FingerprintKept'
<1> SUFFICES ASSUME TypeOK, FingerprintKept, [Next]_vars PROVE FingerprintKept'
  OBVIOUS
<1> USE ConstantsAssumption DEF ConstantsAssumption
<1>1. CASE Offer
  BY <1>1, FingerprintEnqueue DEF Offer
<1>2. CASE PurgeDedupe
  <2>1. PICK K \in SUBSET (dedupe \ LiveKeys) :
            /\ dedupe' = dedupe \ K /\ sinceAccept' = sinceAccept
            /\ dedupeAge' = [k \in Key |-> IF k \in K THEN 0 ELSE dedupeAge[k]]
    BY <1>2 DEF PurgeDedupe
  <2>2. ASSUME NEW k \in Key, sinceAccept[k] <= DedupeWindow
        PROVE  k \in LiveKeys /\ dedupeAge[k] <= sinceAccept[k]
    BY <2>2 DEF FingerprintKept, LiveKeys, TypeOK
  <2>3. QED
    BY <2>1, <2>2 DEF FingerprintKept
<1>3. CASE Tick
  <2>1. ASSUME NEW k \in Key, sinceAccept'[k] <= DedupeWindow
        PROVE  k \in dedupe' /\ dedupeAge'[k] <= sinceAccept'[k]
    <3>1. /\ sinceAccept'[k] = Older(sinceAccept[k], DedupeWindow) /\ dedupe' = dedupe
          /\ k \in dedupe => dedupeAge'[k] = Older(dedupeAge[k], DedupeWindow)
          /\ sinceAccept[k] \in Nat /\ dedupeAge[k] \in Nat
      BY <1>3 DEF Tick, TypeOK
    <3>2. sinceAccept[k] <= DedupeWindow /\ sinceAccept'[k] = sinceAccept[k] + 1
      BY <2>1, <3>1 DEF Older
    <3>3. k \in dedupe /\ dedupeAge[k] <= sinceAccept[k]
      BY <3>2 DEF FingerprintKept
    <3>4. dedupeAge'[k] = dedupeAge[k] + 1
      BY <3>1, <3>2, <3>3 DEF Older
    <3>5. QED
      BY <3>1, <3>2, <3>3, <3>4
  <2>2. QED
    BY <2>1 DEF FingerprintKept
<1>4. CASE UNCHANGED <<dedupeVars, sinceAccept>>
  BY <1>4 DEF FingerprintKept
<1>5. QED
  BY <1>1, <1>2, <1>3, <1>4
  DEF Next, Processor, Claim, Route, Dispose, RouteFails, Admit, RouteTo, HoldBack, Send,
      SendSucceeds, SendFails, AnswerLost, Settle, Retry, GiveUp, Replay, Retention,
      PurgeProcessed, PurgeDead, Crash

\* EnqueuePendingEvent queues media with one fingerprint at most once per
\* dedupe window, for any events, fingerprints, window and retentions.
THEOREM MediaIsSpaced == Spec => DedupeSpacing
<1>1. TypeOK /\ FingerprintKept /\ [Next]_vars
      => [\A e \in Event, k \in Key, delay \in {0, QuietDelay} :
             Enqueue(e, k, delay) /\ pending' # pending => sinceAccept[k] > DedupeWindow]_vars
  <2> SUFFICES ASSUME TypeOK, FingerprintKept, NEW e \in Event, NEW k \in Key,
                      NEW delay \in {0, QuietDelay}, Enqueue(e, k, delay), pending' # pending
               PROVE  sinceAccept[k] > DedupeWindow
    OBVIOUS
  <2>1. k \notin LiveKeys
    BY DEF Enqueue, Duplicate
  <2>2. sinceAccept[k] \in Nat /\ dedupeAge[k] \in Nat /\ DedupeWindow \in Nat
    BY ConstantsAssumption DEF TypeOK, ConstantsAssumption
  <2>3. QED
    BY <2>1, <2>2 DEF FingerprintKept, LiveKeys
<1>2. Spec => [](TypeOK /\ FingerprintKept)
  BY InitType, TypeStep, FingerprintInit, FingerprintStep, PTL DEF Spec
<1>3. QED
  BY <1>1, <1>2, PTL DEF Spec, DedupeSpacing

--------------------------------------------------------------------------------
(* The queue implements EventCustody.                                       *)

\* The status of every event, case by case.
LEMMA StatusCases ==
    ASSUME NEW e \in Event
    PROVE  /\ e \in processed => Status[e] = "settled"
           /\ e \notin processed /\ e \in pending => Status[e] = "queued"
           /\ e \notin processed /\ e \notin pending /\ e \in DeadEvents
                  => Status[e] = "parked"
           /\ e \notin processed /\ e \notin pending /\ e \notin DeadEvents
                  => Status[e] = "new"
BY DEF Status

LEMMA StatusType == Status \in [Event -> {"new", "queued", "settled", "parked"}]
BY DEF Status

LEMMA StatusTypeNext == Status' \in [Event -> {"new", "queued", "settled", "parked"}]
BY DEF Status

LEMMA CustodyInit == Init => Custody!Init
<1> SUFFICES ASSUME Init PROVE Custody!Init
  OBVIOUS
<1>1. DeadEvents = {}
  BY DEF Init, DeadEvents
<1>2. QED
  BY <1>1 DEF Init, Status, Custody!Init

\* A step that leaves the four tables' keys alone leaves the status alone.
LEMMA StatusFrame ==
    ASSUME UNCHANGED <<pending, processed, dead>>
    PROVE  UNCHANGED Status
BY DEF Status, DeadEvents

\* The processor's event is queued.
LEMMA InHandIsQueued ==
    ASSUME IInv, pc # "idle"
    PROVE  job.event \in Event \ processed /\ Status[job.event] = "queued"
<1>1. job.event \in pending \ processed
  BY DEF IInv, Inv, ClaimKeepsRow, ProcessedNotQueued
<1>2. QED
  BY <1>1, StatusCases DEF IInv, TypeOK

LEMMA CustodyNext ==
    ASSUME IInv, [Next]_vars
    PROVE  [Custody!Next]_(Custody!vars)
<1> USE DEF Custody!vars
<1>1. CASE UNCHANGED <<pending, processed, dead, disposed>>
  BY <1>1, StatusFrame
<1>2. CASE Offer
  <2> PICK e \in Event : \E k \in {KeyOf[e], NoKey}, delay \in {0, QuietDelay} :
                             Enqueue(e, k, delay)
    BY <1>2 DEF Offer
  <2>1. UNCHANGED <<processed, dead, disposed>>
    BY DEF Enqueue
  <2>2. \/ pending' = pending
        \/ pending' = pending \cup {e} /\ e \notin processed
    BY DEF Enqueue, Accept, Duplicate
  <2>3. CASE pending' = pending
    BY <1>1, <2>1, <2>3
  <2>4. CASE pending' = pending \cup {e} /\ e \notin processed /\ e \notin pending
    <3>1. Status[e] \in {"new", "parked"}
      BY <2>4, StatusCases
    <3>2. Status' = [Status EXCEPT ![e] = "queued"]
      BY <2>1, <2>4 DEF Status, DeadEvents
    <3>3. Custody!Queue(e)
      BY <2>1, <3>1, <3>2 DEF Custody!Queue
    <3>4. QED
      BY <3>3 DEF Custody!Next
  <2>5. QED
    BY <2>2, <2>3, <2>4
<1>3. CASE Dispose \/ SendSucceeds
  <2>1. UNCHANGED Status /\ disposed' = disposed \cup {job.event}
    BY <1>3, StatusFrame DEF Dispose, SendSucceeds
  <2>2. Custody!Handle(job.event)
    BY <1>3, <2>1, InHandIsQueued DEF Dispose, SendSucceeds, Custody!Handle
  <2>3. QED
    BY <1>3, <2>2, InHandIsQueued DEF Custody!Next, Dispose, SendSucceeds
<1>4. CASE Settle /\ ~UNCHANGED <<pending, processed, dead, disposed>>
  <2>1. /\ processed' = processed \cup {job.event} /\ pending' = pending \ {job.event}
        /\ UNCHANGED <<dead, disposed>>
    BY <1>4 DEF Settle, Dequeue
  <2>2. job.event \in Event /\ Status[job.event] = "queued"
    BY <1>4, InHandIsQueued DEF Settle
  <2>3. Status' = [Status EXCEPT ![job.event] = "settled"]
    BY <2>1, <2>2 DEF Status, DeadEvents
  <2>4. Custody!Settle(job.event)
    BY <1>4, <2>1, <2>2, <2>3 DEF Custody!Settle, Settle, IInv, Inv, SettleIsDisposed
  <2>5. QED
    BY <2>2, <2>4 DEF Custody!Next
<1>5. CASE GiveUp /\ ~UNCHANGED <<pending, processed, dead, disposed>>
  <2>1. MoveToDeadLetter(job.event) /\ UNCHANGED <<processed, disposed>>
    BY <1>5 DEF GiveUp
  <2>2. job.event \in Event \ processed /\ Status[job.event] = "queued"
    BY <1>5, InHandIsQueued DEF GiveUp
  <2>3. DeadEvents' = DeadEvents \cup {job.event} /\ pending' = pending \ {job.event}
    BY <1>5, <2>1, DeadGrows DEF MoveToDeadLetter, Dequeue
  <2>4. Status' = [Status EXCEPT ![job.event] = "parked"]
    BY <2>1, <2>2, <2>3 DEF Status
  <2>5. Custody!Park(job.event)
    BY <2>1, <2>2, <2>4 DEF Custody!Park
  <2>6. QED
    BY <2>2, <2>5 DEF Custody!Next
<1>6. ASSUME NEW d \in DeadId, Replay(d)
      PROVE  [Custody!Next]_(Custody!vars)
  <2> DEFINE e == dead[d]
  <2>1. /\ UNCHANGED <<processed, disposed>> /\ e \in Event
        /\ e \in DeadEvents
    BY <1>6 DEF Replay, IInv, TypeOK, DeadEvents
  <2>2. \A f \in Event \ {e} : f \in DeadEvents' <=> f \in DeadEvents
    BY <1>6 DEF Replay, DropDead, DeadEvents
  <2>3. CASE e \in processed
    <3>1. pending' = pending
      BY <1>6, <2>3 DEF Replay, AlreadyDone
    <3>2. Status' = Status
      BY <2>1, <2>2, <2>3, <3>1 DEF Status
    <3>3. QED
      BY <2>1, <3>2
  <2>4. CASE e \notin processed
    <3>1. pending' = pending \cup {e}
      BY <1>6, <2>4 DEF Replay, AlreadyDone
    <3>2. Status' = [Status EXCEPT ![e] = "queued"]
      BY <2>1, <2>2, <2>4, <3>1 DEF Status
    <3>3. CASE e \in pending
      <4>1. Status[e] = "queued"
        BY <2>1, <2>4, <3>3, StatusCases
      <4>2. Status' = Status
        BY <3>2, <4>1, StatusType
      <4>3. QED
        BY <2>1, <4>2
    <3>4. CASE e \notin pending
      <4>1. Status[e] = "parked"
        BY <2>1, <2>4, <3>4, StatusCases
      <4>2. Custody!Queue(e)
        BY <2>1, <3>2, <4>1 DEF Custody!Queue
      <4>3. QED
        BY <2>1, <4>2 DEF Custody!Next
    <3>5. QED
      BY <3>3, <3>4
  <2>5. QED
    BY <2>3, <2>4
<1>7. CASE PurgeProcessed
  <2>1. processed' \subseteq processed /\ UNCHANGED <<pending, dead, disposed>>
    BY <1>7 DEF PurgeProcessed
  <2>2. DeadEvents' = DeadEvents
    BY <2>1 DEF DeadEvents
  <2>3. \A f \in Event : Custody!MayForget(Status[f], Status'[f])
    BY <2>1, <2>2 DEF Status, Custody!MayForget, IInv, Inv, ProcessedNotQueued
  <2>4. Custody!Forget
    BY <2>1, <2>3, StatusType, StatusTypeNext DEF Custody!Forget
  <2>5. QED
    BY <2>4 DEF Custody!Next
<1>8. CASE PurgeDead
  <2>1. DeadEvents' \subseteq DeadEvents /\ UNCHANGED <<pending, processed, disposed>>
    BY <1>8 DEF PurgeDead, DropDead, DeadEvents
  <2>2. \A f \in Event : Custody!MayForget(Status[f], Status'[f])
    BY <2>1 DEF Status, Custody!MayForget
  <2>3. Custody!Forget
    BY <2>1, <2>2, StatusType, StatusTypeNext DEF Custody!Forget
  <2>4. QED
    BY <2>3 DEF Custody!Next
<1>9. QED
  BY <1>1, <1>2, <1>3, <1>4, <1>5, <1>6, <1>7, <1>8
  DEF Next, Processor, Claim, Route, RouteFails, Admit, RouteTo, HoldBack, Reschedule,
      Send, SendFails, AnswerLost, Retry, Retention, PurgeDedupe, Crash, Tick

\* The tables, leases, retries and sweeps implement the custody of EventCustody.
THEOREM QueueImplementsCustody == Spec => ImplementsCustody
<1>1. Init => Custody!Init
  BY CustodyInit
<1>2. IInv /\ [Next]_vars => [Custody!Next]_(Custody!vars)
  BY CustodyNext
<1>3. QED
  BY <1>1, <1>2, Invariance, PTL DEF Spec, ImplementsCustody, Custody!Spec
================================================================================
