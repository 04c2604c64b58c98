------------------------------ MODULE DigestProofs ------------------------------
(***************************************************************************)
(* Proofs about DigestScheduler for any events, groups, intervals and      *)
(* bounds: why a digest run may delete what it deletes, and how often an   *)
(* event can reach its target.                                             *)
(***************************************************************************)
EXTENDS DigestScheduler, TLAPS

USE DEF procVars, tableVars, passVars, historyVars, boundVars, vars

QueueOK == queued \subseteq Event /\ unacked \in queued \cup {NoEvent}
TableOK == /\ row \subseteq Event /\ wait \in [Event -> Int] /\ age \in [Event -> Nat]
           /\ \A e \in Event : wait[e] >= -MaxPass /\ age[e] <= Keep + 1
PassOK == /\ sc \in {"idle", "next", "send", "clear"}
          /\ todo \subseteq Group /\ group \in Group \cup {NoGroup}
          /\ elapsed \in 0 .. MaxPass /\ counted \subseteq Event
          /\ (sc \in {"send", "clear"}) <=> (group # NoGroup)
HistoryOK == /\ dropped \subseteq Event
             /\ copies \in [Event -> Nat] /\ excuse \in [Event -> Nat]
TypesOK == QueueOK /\ TableOK /\ PassOK /\ HistoryOK /\ paired \subseteq Group

\* What the cutoff of the pass makes due in the group at hand was counted: rows
\* that became due later are not due by the cutoff.
DueWasCounted == sc \in {"send", "clear"} => DueByCutoff(group) \subseteq counted

\* An event that left the queue, or is about to, is somewhere.
Somewhere(e) == e \in row \/ copies[e] > 0 \/ e \in dropped
NothingLost == /\ \A e \in Event \ queued : Somewhere(e)
               /\ unacked # NoEvent => Somewhere(unacked)
               /\ sc = "clear" => \A e \in counted : copies[e] > 0

\* The copies that reached the target, and those that still may: of a row the
\* digest at hand does not cover, of the digest, of the event in the queue.
InGroup(e) == sc \in {"send", "clear"} /\ e \in DueByCutoff(group)
Waiting(e) == IF e \in row /\ ~InGroup(e) THEN 1 ELSE 0
InDigest(e) == IF sc = "send" /\ e \in counted THEN 1 ELSE 0
InQueue(e) == IF e \in queued /\ e # unacked THEN 1 ELSE 0
CopiesExcused ==
    \A e \in Event : copies[e] + Waiting(e) + InDigest(e) + InQueue(e) <= 1 + excuse[e]

IInv == TypesOK /\ DueWasCounted /\ NothingLost /\ CopiesExcused

LEMMA InitInv == Init => IInv
<1> SUFFICES ASSUME Init PROVE IInv
  OBVIOUS
<1> USE ConstantsAssumption DEF ConstantsAssumption, Init
<1>1. TypesOK
  BY DEF TypesOK, QueueOK, TableOK, PassOK, HistoryOK
<1>2. DueWasCounted /\ NothingLost
  BY DEF DueWasCounted, NothingLost
<1>3. CopiesExcused
  BY DEF CopiesExcused, Waiting, InGroup, InDigest, InQueue
<1>4. QED
  BY <1>1, <1>2, <1>3 DEF IInv

--------------------------------------------------------------------------------
LEMMA BumpType ==
    ASSUME NEW f \in [Event -> Nat], NEW E
    PROVE  /\ Bump(f, E) \in [Event -> Nat]
           /\ \A e \in Event : Bump(f, E)[e] = IF e \in E THEN f[e] + 1 ELSE f[e]
BY DEF Bump

LEMMA DeleteEffect ==
    ASSUME TableOK, NEW E, Delete(E)
    PROVE  /\ TableOK' /\ row' = row \ E
           /\ \A e \in row' : wait'[e] = wait[e]
BY ConstantsAssumption DEF ConstantsAssumption, TableOK, Delete

\* Time does not change what is due by the cutoff.
LEMMA TickKeepsDue ==
    ASSUME TypesOK, Tick, sc # "idle"
    PROVE  \A g : DueByCutoff(g)' = DueByCutoff(g)
<1>1. /\ elapsed \in Nat /\ elapsed < MaxPass /\ elapsed' = elapsed + 1 /\ row' = row
      /\ MaxPass \in Nat
  BY ConstantsAssumption DEF ConstantsAssumption, Tick, TypesOK, PassOK
<1>2. \A e \in row : /\ wait[e] \in Int
                     /\ wait'[e] = IF wait[e] > -MaxPass THEN wait[e] - 1 ELSE wait[e]
  BY DEF Tick, TypesOK, TableOK
<1>3. \A e \in row : wait'[e] <= -elapsed' <=> wait[e] <= -elapsed
  BY <1>1, <1>2
<1>4. QED
  BY <1>1, <1>3 DEF DueByCutoff

\* A row that is added, or stays, is due by the cutoff only if it was.
LEMMA BufferKeepsDue ==
    ASSUME TypesOK, NEW e \in Event, NEW interval \in Intervals, Buffer(e, interval)
    PROVE  \A g : DueByCutoff(g)' = DueByCutoff(g)
<1>1. interval \in Int /\ interval > 0 /\ elapsed \in Nat /\ elapsed' = elapsed
  BY ConstantsAssumption DEF ConstantsAssumption, TypesOK, PassOK, Buffer
<1>2. row' = row \cup {e} /\ \A o \in row : wait'[o] = wait[o]
  BY DEF Buffer, TypesOK, TableOK
<1>3. e \notin row => wait'[e] = interval
  BY DEF Buffer, TypesOK, TableOK
<1>4. e \notin row => ~(wait'[e] <= -elapsed)
  BY <1>1, <1>3
<1>5. QED
  BY <1>1, <1>2, <1>4 DEF DueByCutoff

--------------------------------------------------------------------------------
LEMMA TypeStep == TypesOK /\ [Next]_vars => TypesOK'
<1> SUFFICES ASSUME TypesOK, [Next]_vars PROVE TypesOK'
  OBVIOUS
<1> USE ConstantsAssumption DEF ConstantsAssumption
<1>0. QueueOK /\ TableOK /\ PassOK /\ HistoryOK /\ paired \subseteq Group
  BY DEF TypesOK
<1>1. ASSUME NEW e \in Event, Forward(e) PROVE TypesOK'
  BY <1>0, <1>1, BumpType DEF Forward, TypesOK, QueueOK, TableOK, PassOK, HistoryOK
<1>2. ASSUME NEW e \in Event, NEW i \in Intervals, Buffer(e, i) PROVE TypesOK'
  BY <1>0, <1>2 DEF Buffer, TypesOK, QueueOK, TableOK, PassOK, HistoryOK
<1>3. CASE Ack
  BY <1>0, <1>3, BumpType DEF Ack, TypesOK, QueueOK, TableOK, PassOK, HistoryOK
<1>4. CASE StartPass
  <2>1. todo' \subseteq Group
    BY <1>0, <1>4 DEF StartPass, Batch, DueGroups, Due, TableOK
  <2>2. QED
    BY <1>0, <1>4, <2>1 DEF StartPass, TypesOK, QueueOK, TableOK, PassOK, HistoryOK
<1>5. ASSUME NEW g \in Group, DropGroup(g) PROVE TypesOK'
  <2>1. TableOK' /\ dropped' \subseteq Event
    BY <1>0, <1>5, DeleteEffect DEF DropGroup, DropDue, DueByCutoff, TableOK, HistoryOK
  <2>2. QED
    BY <1>0, <1>5, <2>1 DEF DropGroup, TypesOK, QueueOK, PassOK, HistoryOK
<1>6. ASSUME NEW g \in Group, CountGroup(g) PROVE TypesOK'
  <2>1. DueByCutoff(g) \subseteq Event
    BY <1>0 DEF DueByCutoff, TableOK
  <2>2. QED
    BY <1>0, <1>6, <2>1 DEF CountGroup, TypesOK, QueueOK, TableOK, PassOK, HistoryOK
<1>7. ASSUME NEW g \in Group, SendSucceeds(g) PROVE TypesOK'
  BY <1>0, <1>7, BumpType DEF SendSucceeds, TypesOK, QueueOK, TableOK, PassOK, HistoryOK
<1>8. CASE SendFails \/ AnswerLost
  BY <1>0, <1>8, BumpType
  DEF SendFails, AnswerLost, AfterFailure, EndGroup, TypesOK, QueueOK, TableOK, PassOK,
      HistoryOK
<1>9. CASE Clear
  <2>1. TableOK'
    BY <1>0, <1>9, DeleteEffect DEF Clear, TableOK
  <2>2. excuse' \in [Event -> Nat]
    BY <1>0, <1>9, BumpType DEF Clear, HistoryOK
  <2>3. QED
    BY <1>0, <1>9, <2>1, <2>2 DEF Clear, EndGroup, TypesOK, QueueOK, PassOK, HistoryOK
<1>10. CASE EndPass
  BY <1>0, <1>10 DEF EndPass, TypesOK, QueueOK, TableOK, PassOK, HistoryOK
<1>11. ASSUME NEW g \in Group, Relink(g) PROVE TypesOK'
  BY <1>0, <1>11 DEF Relink, TypesOK, QueueOK, TableOK, PassOK, HistoryOK
<1>12. CASE Purge
  <2>1. PICK E \in SUBSET row : Delete(E) /\ dropped' = dropped \cup E
    BY <1>12 DEF Purge
  <2>2. TableOK' /\ dropped' \subseteq Event
    BY <1>0, <2>1, DeleteEffect DEF TableOK, HistoryOK
  <2>3. QED
    BY <1>0, <1>12, <2>2 DEF Purge, TypesOK, QueueOK, PassOK, HistoryOK
<1>13. CASE Crash
  <2>1. excuse' \in [Event -> Nat]
    BY <1>0, <1>13, BumpType DEF Crash, HistoryOK
  <2>2. HistoryOK' /\ QueueOK' /\ TableOK' /\ paired' \subseteq Group
    BY <1>0, <1>13, <2>1 DEF Crash, QueueOK, TableOK, HistoryOK
  <2>3. /\ sc' = "idle" /\ todo' = {} /\ elapsed' = 0
        /\ group' = NoGroup /\ counted' = {}
    BY <1>13 DEF Crash, EndGroup
  <2>4. PassOK'
    BY <2>3 DEF PassOK
  <2>5. QED
    BY <2>2, <2>4 DEF TypesOK
<1>14. CASE Tick
  <2>1. elapsed' \in 0 .. MaxPass
    BY <1>0, <1>14 DEF Tick, PassOK
  <2>2. TableOK'
    BY <1>0, <1>14 DEF Tick, TableOK
  <2>3. QED
    BY <1>0, <1>14, <2>1, <2>2 DEF Tick, TypesOK, QueueOK, PassOK, HistoryOK
<1>15. CASE UNCHANGED vars
  BY <1>0, <1>15 DEF TypesOK, QueueOK, TableOK, PassOK, HistoryOK
<1>16. QED
  BY <1>1, <1>2, <1>3, <1>4, <1>5, <1>6, <1>7, <1>8, <1>9, <1>10, <1>11, <1>12, <1>13, <1>14,
     <1>15
  DEF Next, Scheduler

--------------------------------------------------------------------------------
LEMMA DueStays ==
    ASSUME DueWasCounted, UNCHANGED <<group, counted>>, sc' \in {sc, "next", "clear"},
           sc' = "clear" => sc \in {"send", "clear"},
           \A g : DueByCutoff(g)' \subseteq DueByCutoff(g)
    PROVE  DueWasCounted'
BY DEF DueWasCounted, DueByCutoff

LEMMA DeleteShrinksDue ==
    ASSUME TableOK, NEW E, Delete(E), UNCHANGED elapsed
    PROVE  \A g : DueByCutoff(g)' \subseteq DueByCutoff(g)
BY DeleteEffect DEF DueByCutoff

LEMMA DueStep == TypesOK /\ DueWasCounted /\ [Next]_vars => DueWasCounted'
<1> SUFFICES ASSUME TypesOK, DueWasCounted, [Next]_vars PROVE DueWasCounted'
  OBVIOUS
<1>0. TableOK
  BY DEF TypesOK
<1>1. ASSUME UNCHANGED <<tableVars, passVars>> PROVE DueWasCounted'
  BY <1>1 DEF DueWasCounted, DueByCutoff
<1>2. ASSUME sc' \notin {"send", "clear"} PROVE DueWasCounted'
  BY <1>2 DEF DueWasCounted
<1>3. ASSUME NEW e \in Event, NEW i \in Intervals, Buffer(e, i) PROVE DueWasCounted'
  <2>1. UNCHANGED <<sc, group, counted>>
    BY <1>3 DEF Buffer
  <2>2. QED
    BY <1>3, <2>1, BufferKeepsDue, DueStays
<1>4. ASSUME NEW g \in Group, CountGroup(g) PROVE DueWasCounted'
  <2>1. CASE DueByCutoff(g) = {}
    BY <1>2, <1>4, <2>1 DEF CountGroup
  <2>2. CASE DueByCutoff(g) # {}
    BY <1>4, <2>2 DEF CountGroup, DueWasCounted, DueByCutoff
  <2>3. QED
    BY <2>1, <2>2
<1>5. ASSUME NEW g \in Group, SendSucceeds(g) PROVE DueWasCounted'
  BY <1>5 DEF SendSucceeds, DueWasCounted, DueByCutoff
<1>6. CASE Purge
  <2>1. PICK E : Delete(E) /\ UNCHANGED passVars
    BY <1>6 DEF Purge
  <2>2. QED
    BY <1>0, <2>1, DeleteShrinksDue, DueStays
<1>7. CASE Tick
  <2>1. UNCHANGED <<sc, group, counted>>
    BY <1>7 DEF Tick
  <2>2. CASE sc = "idle"
    BY <1>2, <2>1, <2>2
  <2>3. CASE sc # "idle"
    BY <1>7, <2>1, <2>3, TickKeepsDue, DueStays
  <2>4. QED
    BY <2>2, <2>3
<1>8. ASSUME NEW e \in Event, Forward(e) PROVE DueWasCounted'
  BY <1>1, <1>8 DEF Forward
<1>9. CASE Ack \/ UNCHANGED vars \/ \E g \in Group : Relink(g)
  BY <1>1, <1>9 DEF Ack, Relink
<1>10. ASSUME NEW g \in Group, DropGroup(g) PROVE DueWasCounted'
  BY <1>2, <1>10 DEF DropGroup
<1>11. CASE StartPass \/ SendFails \/ AnswerLost \/ Clear \/ EndPass \/ Crash
  BY <1>2, <1>11 DEF StartPass, SendFails, AfterFailure, AnswerLost, Clear, EndPass, Crash
<1>12. QED
  BY <1>3, <1>4, <1>5, <1>6, <1>7, <1>8, <1>9, <1>10, <1>11 DEF Next, Scheduler

--------------------------------------------------------------------------------
\* Rows that are deleted were counted by a digest that arrived, or are dropped.
LEMMA SomewhereStays ==
    ASSUME TypesOK, DueWasCounted, NothingLost, [Next]_vars, NEW e \in Event, Somewhere(e)
    PROVE  Somewhere(e)'
<1>0. TableOK /\ copies[e] \in Nat /\ copies \in [Event -> Nat]
  BY DEF TypesOK, HistoryOK
<1>1. ASSUME row \subseteq row', UNCHANGED <<copies, dropped>> PROVE Somewhere(e)'
  BY <1>1 DEF Somewhere
<1>2. ASSUME UNCHANGED <<row, dropped>>, NEW E, copies' = Bump(copies, E) PROVE Somewhere(e)'
  <2>1. copies'[e] >= copies[e] /\ copies'[e] \in Nat
    BY <1>0, <1>2, BumpType
  <2>2. QED
    BY <1>0, <1>2, <2>1 DEF Somewhere
<1>3. ASSUME NEW E, Delete(E), dropped' = dropped \cup E, UNCHANGED copies
      PROVE  Somewhere(e)'
  BY <1>3 DEF Somewhere, Delete
<1>4. CASE Clear
  <2>1. CASE Delete(Cleared(group))
    <3>1. DueByCutoff(group) \subseteq counted /\ \A x \in counted : copies[x] > 0
      BY <1>4 DEF Clear, DueWasCounted, NothingLost
    <3>2. row \ row' \subseteq DueByCutoff(group) /\ UNCHANGED <<copies, dropped>>
      BY <1>4, <2>1 DEF Clear, Delete, Cleared
    <3>3. QED
      BY <3>1, <3>2 DEF Somewhere
  <2>2. CASE UNCHANGED tableVars
    BY <1>1, <1>4, <2>2 DEF Clear
  <2>3. QED
    BY <1>4, <2>1, <2>2 DEF Clear
<1>5. ASSUME NEW g \in Group, DropGroup(g) PROVE Somewhere(e)'
  <2>1. UNCHANGED copies
    BY <1>5 DEF DropGroup
  <2>2. CASE DropDue(g)
    BY <1>3, <2>1, <2>2 DEF DropDue
  <2>3. CASE UNCHANGED <<tableVars, dropped>>
    BY <1>1, <2>1, <2>3
  <2>4. QED
    BY <1>5, <2>2, <2>3 DEF DropGroup
<1>6. CASE Purge
  BY <1>3, <1>6 DEF Purge
<1>7. ASSUME NEW x \in Event, Forward(x) PROVE Somewhere(e)'
  BY <1>2, <1>7 DEF Forward
<1>8. ASSUME NEW x \in Event, NEW i \in Intervals, Buffer(x, i) PROVE Somewhere(e)'
  BY <1>1, <1>8 DEF Buffer
<1>9. ASSUME NEW g \in Group, SendSucceeds(g) PROVE Somewhere(e)'
  BY <1>2, <1>9 DEF SendSucceeds
<1>10. CASE AnswerLost
  BY <1>2, <1>10 DEF AnswerLost
<1>11. ASSUME NEW g \in Group, CountGroup(g) PROVE Somewhere(e)'
  BY <1>1, <1>11 DEF CountGroup
<1>12. CASE Ack \/ StartPass \/ SendFails \/ EndPass \/ Crash \/ Tick \/ UNCHANGED vars
  BY <1>1, <1>12 DEF Ack, StartPass, SendFails, EndPass, Crash, Tick
<1>13. ASSUME NEW g \in Group, Relink(g) PROVE Somewhere(e)'
  BY <1>1, <1>13 DEF Relink
<1>14. QED
  BY <1>4, <1>5, <1>6, <1>7, <1>8, <1>9, <1>10, <1>11, <1>12, <1>13 DEF Next, Scheduler

LEMMA LossStep == TypesOK /\ DueWasCounted /\ NothingLost /\ [Next]_vars => NothingLost'
<1> SUFFICES ASSUME TypesOK, DueWasCounted, NothingLost, [Next]_vars PROVE NothingLost'
  OBVIOUS
<1>0. /\ \A e \in Event : Somewhere(e) => Somewhere(e)'
      /\ NoEvent \notin Event /\ counted \subseteq Event /\ copies \in [Event -> Nat]
      /\ queued \subseteq Event /\ unacked \in queued \cup {NoEvent}
  BY SomewhereStays, ConstantsAssumption
  DEF ConstantsAssumption, TypesOK, QueueOK, PassOK, HistoryOK
<1>1. \A e \in Event \ queued' : Somewhere(e)'
  <2>1. CASE Ack
    BY <1>0, <2>1 DEF Ack, NothingLost
  <2>2. CASE UNCHANGED queued
    BY <1>0, <2>2 DEF NothingLost
  <2>3. QED
    BY <2>1, <2>2
    DEF Next, Scheduler, Forward, Buffer, StartPass, DropGroup, CountGroup, SendSucceeds,
        SendFails, AnswerLost, Clear, EndPass, Relink, Purge, Crash, Tick
<1>2. unacked' # NoEvent => Somewhere(unacked)'
  <2>1. ASSUME NEW x \in Event, NEW i \in Intervals, Buffer(x, i)
        PROVE  Somewhere(unacked)'
    BY <2>1 DEF Buffer, Somewhere
  <2>2. CASE UNCHANGED unacked
    <3>1. SUFFICES ASSUME unacked # NoEvent PROVE Somewhere(unacked)'
      BY <2>2
    <3>2. unacked \in Event /\ Somewhere(unacked)
      BY <1>0, <3>1 DEF NothingLost
    <3>3. PICK u \in Event : u = unacked
      BY <3>2
    <3>4. Somewhere(u)'
      BY <1>0, <3>2, <3>3 DEF Somewhere
    <3>5. QED
      BY <2>2, <3>3, <3>4 DEF Somewhere
  <2>3. CASE unacked' = NoEvent
    BY <2>3
  <2>4. ASSUME NEW x \in Event, Forward(x), unacked' = x
        PROVE  Somewhere(unacked)'
    <3>1. copies'[x] = copies[x] + 1 /\ copies[x] \in Nat
      BY <1>0, <2>4, BumpType DEF Forward
    <3>2. QED
      BY <2>4, <3>1 DEF Somewhere
  <2>5. QED
    BY <2>1, <2>2, <2>3, <2>4
    DEF Next, Scheduler, Forward, Ack, StartPass, DropGroup, CountGroup, SendSucceeds,
        SendFails, AnswerLost, Clear, EndPass, Relink, Purge, Crash, Tick
<1>3. sc' = "clear" => \A e \in counted' : copies'[e] > 0
  <2>1. ASSUME NEW g \in Group, SendSucceeds(g) PROVE \A e \in counted' : copies'[e] > 0
    BY <1>0, <2>1, BumpType DEF SendSucceeds
  <2>2. CASE UNCHANGED <<sc, counted>>
    <3>1. ASSUME NEW e \in Event, copies[e] > 0 PROVE copies'[e] > 0
      <4>1. CASE UNCHANGED copies
        BY <3>1, <4>1
      <4>2. CASE \E E : copies' = Bump(copies, E)
        BY <1>0, <3>1, <4>2, BumpType
      <4>3. QED
        BY <4>1, <4>2
        DEF Next, Scheduler, Forward, Buffer, Ack, StartPass, DropGroup, CountGroup,
            SendSucceeds, SendFails, AnswerLost, Clear, EndPass, Relink, Purge, Crash, Tick
    <3>2. QED
      BY <1>0, <2>2, <3>1 DEF NothingLost
  <2>3. CASE sc' # "clear"
    BY <2>3
  <2>4. QED
    BY <2>1, <2>2, <2>3
    DEF Next, Scheduler, Forward, Buffer, Ack, StartPass, DropGroup, CountGroup, SendFails,
        AfterFailure, AnswerLost, Clear, EndPass, Relink, Purge, Crash, Tick
<1>4. QED
  BY <1>1, <1>2, <1>3 DEF NothingLost, Somewhere

--------------------------------------------------------------------------------
\* Each of the three chances of a further copy is worth one.
LEMMA Chances ==
    ASSUME NEW e
    PROVE  /\ Waiting(e) \in {0, 1} /\ InDigest(e) \in {0, 1} /\ InQueue(e) \in {0, 1}
           /\ Waiting(e)' \in {0, 1} /\ InDigest(e)' \in {0, 1} /\ InQueue(e)' \in {0, 1}
BY DEF Waiting, InDigest, InQueue

\* A step whose effect on the sum is no larger than its effect on excuse.
LEMMA Balance ==
    ASSUME TypesOK, TypesOK', CopiesExcused, NEW e \in Event,
           copies'[e] + Waiting(e)' + InDigest(e)' + InQueue(e)' + excuse[e]
               <= copies[e] + Waiting(e) + InDigest(e) + InQueue(e) + excuse'[e]
    PROVE  copies'[e] + Waiting(e)' + InDigest(e)' + InQueue(e)' <= 1 + excuse'[e]
<1>1. /\ copies[e] \in Nat /\ copies'[e] \in Nat /\ excuse[e] \in Nat /\ excuse'[e] \in Nat
  BY DEF TypesOK, HistoryOK
<1>2. copies[e] + Waiting(e) + InDigest(e) + InQueue(e) <= 1 + excuse[e]
  BY DEF CopiesExcused
<1>3. QED
  BY <1>1, <1>2, Chances

Owes(e) == copies'[e] + Waiting(e)' + InDigest(e)' + InQueue(e)' + excuse[e]
               <= copies[e] + Waiting(e) + InDigest(e) + InQueue(e) + excuse'[e]

LEMMA RepeatStep ==
    IInv /\ TypesOK' /\ [Next]_vars => CopiesExcused'
<1> SUFFICES ASSUME IInv, TypesOK', [Next]_vars, NEW e \in Event PROVE Owes(e)
  BY Balance DEF IInv, CopiesExcused, Owes
<1>0. /\ TypesOK /\ DueWasCounted /\ QueueOK /\ TableOK /\ PassOK
      /\ copies \in [Event -> Nat] /\ excuse \in [Event -> Nat]
      /\ copies[e] \in Nat /\ excuse[e] \in Nat
      /\ NoEvent \notin Event /\ NoGroup \notin Group
  BY ConstantsAssumption DEF ConstantsAssumption, IInv, TypesOK, HistoryOK
<1>1. ASSUME NEW x \in Event, Forward(x) PROVE Owes(e)
  <2>1. /\ Waiting(e)' = Waiting(e) /\ InDigest(e)' = InDigest(e)
        /\ copies'[e] = copies[e] + IF e = x THEN 1 ELSE 0
    BY <1>0, <1>1, BumpType DEF Forward, Waiting, InGroup, InDigest, DueByCutoff
  <2>2. CASE unacked' = x /\ UNCHANGED excuse
    <3>1. InQueue(e) = InQueue(e)' + IF e = x THEN 1 ELSE 0
      BY <1>0, <1>1, <2>2 DEF Forward, InQueue
    <3>2. QED
      BY <1>0, <2>1, <2>2, <3>1, Chances DEF Owes
  <2>3. CASE UNCHANGED unacked /\ excuse' = Bump(excuse, {x})
    <3>1. InQueue(e)' = InQueue(e) /\ excuse'[e] = excuse[e] + IF e = x THEN 1 ELSE 0
      BY <1>0, <1>1, <2>3, BumpType DEF Forward, InQueue
    <3>2. QED
      BY <1>0, <2>1, <3>1, Chances DEF Owes
  <2>4. QED
    BY <1>1, <2>2, <2>3 DEF Forward
<1>2. ASSUME NEW x \in Event, NEW i \in Intervals, Buffer(x, i) PROVE Owes(e)
  <2>1. InDigest(e)' = InDigest(e) /\ UNCHANGED <<copies, excuse>>
    BY <1>2 DEF Buffer, InDigest
  <2>2. CASE e = x
    <3>1. InQueue(e) = 1 /\ InQueue(e)' = 0
      BY <1>0, <1>2, <2>2 DEF Buffer, InQueue
    <3>2. CASE e \in row
      <4>1. Waiting(e)' = Waiting(e)
        BY <1>0, <1>2, <3>2, BufferKeepsDue DEF Buffer, Waiting, InGroup
      <4>2. QED
        BY <1>0, <2>1, <3>1, <4>1, Chances DEF Owes
    <3>3. CASE e \notin row
      <4>1. Waiting(e) = 0
        BY <3>3 DEF Waiting
      <4>2. QED
        BY <1>0, <2>1, <3>1, <4>1, Chances DEF Owes
    <3>4. QED
      BY <3>2, <3>3
  <2>3. CASE e # x
    <3>1. Waiting(e)' = Waiting(e)
      BY <1>0, <1>2, <2>3, BufferKeepsDue DEF Buffer, Waiting, InGroup
    <3>2. InQueue(e)' = InQueue(e)
      BY <1>0, <1>2, <2>3 DEF Buffer, InQueue
    <3>3. QED
      BY <1>0, <2>1, <3>1, <3>2, Chances DEF Owes
  <2>4. QED
    BY <2>2, <2>3
<1>3. CASE Ack
  <2>1. Waiting(e)' = Waiting(e) /\ InDigest(e)' = InDigest(e) /\ UNCHANGED copies
    BY <1>3 DEF Ack, Waiting, InGroup, InDigest, DueByCutoff
  <2>2. CASE queued' = queued \ {unacked} /\ UNCHANGED excuse
    <3>1. InQueue(e)' = InQueue(e)
      BY <1>0, <1>3, <2>2 DEF Ack, InQueue
    <3>2. QED
      BY <1>0, <2>1, <2>2, <3>1, Chances DEF Owes
  <2>3. CASE UNCHANGED queued /\ excuse' = Bump(excuse, {unacked})
    <3>1. CASE e = unacked
      <4>1. InQueue(e) = 0 /\ excuse'[e] = excuse[e] + 1
        BY <1>0, <2>3, <3>1, BumpType DEF InQueue
      <4>2. QED
        BY <1>0, <2>1, <4>1, Chances DEF Owes
    <3>2. CASE e # unacked
      <4>1. InQueue(e)' = InQueue(e) /\ excuse'[e] = excuse[e]
        BY <1>0, <1>3, <2>3, <3>2, BumpType DEF Ack, InQueue
      <4>2. QED
        BY <1>0, <2>1, <4>1, Chances DEF Owes
    <3>3. QED
      BY <3>1, <3>2
  <2>4. QED
    BY <1>3, <2>2, <2>3 DEF Ack
<1>4. CASE StartPass \/ EndPass
  <2>1. /\ Waiting(e)' = Waiting(e) /\ InDigest(e)' = InDigest(e) /\ InQueue(e)' = InQueue(e)
        /\ UNCHANGED <<copies, excuse>>
    BY <1>4 DEF StartPass, EndPass, Waiting, InGroup, InDigest, InQueue
  <2>2. QED
    BY <1>0, <2>1, Chances DEF Owes
<1>5. ASSUME UNCHANGED <<queued, unacked, copies, excuse, sc, group, counted>>,
             row' \subseteq row, \A x \in row' : e = x => (InGroup(x)' <=> InGroup(x))
      PROVE  Owes(e)
  <2>1. InQueue(e)' = InQueue(e) /\ InDigest(e)' = InDigest(e) /\ Waiting(e)' <= Waiting(e)
    <3>1. InQueue(e)' = InQueue(e) /\ InDigest(e)' = InDigest(e)
      BY <1>5 DEF InQueue, InDigest
    <3>2. CASE e \in row'
      <4>1. InGroup(e)' <=> InGroup(e)
        BY <1>5, <3>2
      <4>2. QED
        BY <1>5, <3>1, <3>2, <4>1 DEF Waiting
    <3>3. CASE e \notin row'
      BY <3>1, <3>3, Chances DEF Waiting
    <3>4. QED
      BY <3>2, <3>3
  <2>2. QED
    BY <1>0, <1>5, <2>1, Chances DEF Owes
<1>6. ASSUME NEW E, Delete(E), UNCHANGED <<queued, unacked, copies, excuse, sc, group,
                                           counted, elapsed>>
      PROVE  Owes(e)
  <2>1. row' \subseteq row /\ \A x \in row' : wait'[x] = wait[x]
    BY <1>0, <1>6, DeleteEffect
  <2>2. \A x \in row' : e = x => (InGroup(x)' <=> InGroup(x))
    BY <1>6, <2>1 DEF InGroup, DueByCutoff
  <2>3. QED
    BY <1>5, <1>6, <2>1, <2>2
<1>7. ASSUME UNCHANGED <<queued, unacked, copies, excuse, sc, group, counted, elapsed,
                         tableVars>>
      PROVE  Owes(e)
  BY <1>5, <1>7 DEF InGroup, DueByCutoff
<1>8. ASSUME NEW g \in Group, DropGroup(g) PROVE Owes(e)
  BY <1>6, <1>7, <1>8 DEF DropGroup, DropDue
<1>9. CASE Purge
  BY <1>6, <1>9 DEF Purge
<1>10. CASE UNCHANGED vars \/ \E g \in Group : Relink(g)
  BY <1>7, <1>10 DEF Relink
<1>11. ASSUME NEW g \in Group, CountGroup(g) PROVE Owes(e)
  <2>1. CASE DueByCutoff(g) = {}
    BY <1>7, <1>11, <2>1 DEF CountGroup
  <2>2. CASE DueByCutoff(g) # {}
    <3>1. InQueue(e)' = InQueue(e) /\ InDigest(e) = 0 /\ UNCHANGED <<copies, excuse>>
      BY <1>11 DEF CountGroup, InQueue, InDigest
    <3>2. CASE e \in DueByCutoff(g)
      <4>1. Waiting(e) = 1 /\ Waiting(e)' = 0
        BY <1>11, <2>2, <3>2 DEF CountGroup, Waiting, InGroup, DueByCutoff
      <4>2. QED
        BY <1>0, <3>1, <4>1, Chances DEF Owes
    <3>3. CASE e \notin DueByCutoff(g)
      <4>1. Waiting(e)' = Waiting(e) /\ InDigest(e)' = 0
        BY <1>11, <2>2, <3>3 DEF CountGroup, Waiting, InGroup, InDigest, DueByCutoff
      <4>2. QED
        BY <1>0, <3>1, <4>1, Chances DEF Owes
    <3>4. QED
      BY <3>2, <3>3
  <2>3. QED
    BY <2>1, <2>2
<1>12. ASSUME NEW g \in Group, SendSucceeds(g) PROVE Owes(e)
  <2>1. InQueue(e)' = InQueue(e) /\ Waiting(e)' = Waiting(e) /\ UNCHANGED excuse
    BY <1>12 DEF SendSucceeds, InQueue, Waiting, InGroup, DueByCutoff
  <2>2. copies'[e] = copies[e] + InDigest(e) /\ InDigest(e)' = 0
    BY <1>0, <1>12, BumpType DEF SendSucceeds, InDigest
  <2>3. QED
    BY <1>0, <2>1, <2>2, Chances DEF Owes
\* The digest at hand is given up: its rows wait again.
<1>13. ASSUME sc \in {"send", "clear"}, sc' \in {"next", "idle"}, UNCHANGED tableVars
       PROVE  /\ e \notin counted => Waiting(e)' = Waiting(e)
              /\ InDigest(e)' = 0
              /\ sc = "send" => InDigest(e) = IF e \in counted THEN 1 ELSE 0
              /\ e \in row /\ Waiting(e) = 0 => e \in counted
              /\ Waiting(e)' = IF e \in row THEN 1 ELSE 0
  <2>1. DueByCutoff(group) \subseteq counted
    BY <1>0, <1>13 DEF DueWasCounted
  <2>2. QED
    BY <1>13, <2>1 DEF Waiting, InDigest, InGroup
<1>14. CASE SendFails
  <2>1. InQueue(e)' = InQueue(e) /\ UNCHANGED <<copies, excuse, tableVars>>
        /\ sc = "send" /\ sc' = "next"
    BY <1>14 DEF SendFails, AfterFailure, InQueue
  <2>2. Waiting(e)' + InDigest(e)' <= Waiting(e) + InDigest(e)
    BY <1>13, <2>1, Chances
  <2>3. QED
    BY <1>0, <2>1, <2>2, Chances DEF Owes
<1>15. CASE AnswerLost
  <2>1. /\ InQueue(e)' = InQueue(e) /\ sc = "send" /\ sc' = "next" /\ UNCHANGED tableVars
        /\ copies'[e] = copies[e] + IF e \in counted THEN 1 ELSE 0
        /\ excuse'[e] = excuse[e] + IF e \in counted THEN 1 ELSE 0
    BY <1>0, <1>15, BumpType DEF AnswerLost, InQueue
  <2>2. Waiting(e)' + InDigest(e)' <= Waiting(e) + InDigest(e)
    BY <1>13, <2>1, Chances
  <2>3. QED
    BY <1>0, <2>1, <2>2, Chances DEF Owes
<1>16. CASE Clear
  <2>1. InQueue(e)' = InQueue(e) /\ UNCHANGED copies /\ sc = "clear" /\ sc' = "next"
    BY <1>16 DEF Clear, InQueue
  <2>2. InDigest(e) = 0 /\ InDigest(e)' = 0
    BY <2>1 DEF InDigest
  <2>3. CASE Delete(Cleared(group)) /\ UNCHANGED excuse
    <3>1. Waiting(e)' = Waiting(e)
      BY <2>1, <2>3 DEF Delete, Cleared, Waiting, InGroup
    <3>2. QED
      BY <1>0, <2>1, <2>2, <2>3, <3>1, Chances DEF Owes
  <2>4. CASE UNCHANGED tableVars /\ excuse' = Bump(excuse, counted)
    <3>1. excuse'[e] = excuse[e] + IF e \in counted THEN 1 ELSE 0
      BY <1>0, <2>4, BumpType
    <3>2. Waiting(e)' + excuse[e] <= Waiting(e) + excuse'[e]
      BY <1>0, <1>13, <2>1, <2>4, <3>1, Chances
    <3>3. QED
      BY <1>0, <2>1, <2>2, <3>1, <3>2, Chances DEF Owes
  <2>5. QED
    BY <1>16, <2>3, <2>4 DEF Clear
<1>17. CASE Crash
  <2>1. /\ UNCHANGED <<queued, copies, tableVars>> /\ sc' = "idle" /\ unacked' = NoEvent
        /\ InDigest(e)' = 0
    BY <1>17 DEF Crash, InDigest
  <2> DEFINE hidden == IF sc = "clear" /\ e \in counted THEN 1 ELSE 0
             again == IF e = unacked THEN 1 ELSE 0
  <2>2. excuse'[e] = excuse[e] + hidden + again
    <3> DEFINE once == Bump(excuse, IF sc = "clear" THEN counted ELSE {})
    <3>1. once \in [Event -> Nat] /\ once[e] = excuse[e] + hidden
      BY <1>0, BumpType
    <3>2. excuse' = Bump(once, {unacked})
      BY <1>17 DEF Crash
    <3> HIDE DEF once
    <3>3. excuse'[e] = IF e \in {unacked} THEN once[e] + 1 ELSE once[e]
      BY <3>1, <3>2, BumpType
    <3>4. QED
      BY <1>0, <3>1, <3>3
  <2>3. InQueue(e)' <= InQueue(e) + again
    BY <1>0, <2>1 DEF InQueue
  <2>4. Waiting(e)' + InDigest(e)' <= Waiting(e) + InDigest(e) + hidden
    <3>1. CASE sc \in {"send", "clear"}
      BY <1>13, <2>1, <3>1, Chances
    <3>2. CASE sc \notin {"send", "clear"}
      <4>1. Waiting(e)' = Waiting(e)
        BY <2>1, <3>2 DEF Waiting, InGroup
      <4>2. QED
        BY <2>1, <4>1, Chances
    <3>3. QED
      BY <3>1, <3>2
  <2>5. hidden \in {0, 1} /\ again \in {0, 1}
    OBVIOUS
  <2> HIDE DEF hidden, again
  <2>6. QED
    BY <1>0, <2>1, <2>2, <2>3, <2>4, <2>5, Chances DEF Owes
<1>18. CASE Tick
  <2>1. UNCHANGED <<queued, unacked, copies, excuse, sc, group, counted, row>>
    BY <1>18 DEF Tick
  <2>2. \A x \in row' : InGroup(x)' <=> InGroup(x)
    <3>1. CASE sc = "idle"
      BY <2>1, <3>1 DEF InGroup
    <3>2. CASE sc # "idle"
      <4>1. DueByCutoff(group)' = DueByCutoff(group)
        BY <1>0, <1>18, <2>1, <3>2, TickKeepsDue DEF DueByCutoff
      <4>2. QED
        BY <2>1, <4>1 DEF InGroup
    <3>3. QED
      BY <3>1, <3>2
  <2>3. QED
    BY <1>5, <2>1, <2>2
<1>19. QED
  BY <1>1, <1>2, <1>3, <1>4, <1>8, <1>9, <1>10, <1>11, <1>12, <1>14, <1>15, <1>16, <1>17,
     <1>18
  DEF Next, Scheduler

--------------------------------------------------------------------------------
LEMMA Invariance == Spec => []IInv
<1>1. IInv /\ [Next]_vars => IInv'
  BY TypeStep, DueStep, LossStep, RepeatStep DEF IInv
<1>2. QED
  BY <1>1, InitInv, PTL DEF Spec

\* The tables, the pass and the history have the shape the code gives them.
THEOREM TypeCorrect == Spec => []TypeOK
<1>1. IInv => TypeOK
  BY DEF IInv, TypesOK, QueueOK, TableOK, PassOK, HistoryOK, TypeOK
<1>2. QED
  BY <1>1, Invariance, PTL

\* For any events, intervals and length of the send: the DELETE that follows a
\* digest removes only rows the digest counted, because the cutoff of the pass
\* is taken once and no row becomes due by it later.
THEOREM ClearsWhatWasCounted == Spec => ClearedWasCounted
<1>1. IInv /\ [Next]_vars => [Clear => (row \ row') \subseteq counted]_vars
  <2>1. ASSUME DueWasCounted, Clear PROVE (row \ row') \subseteq counted
    BY <2>1 DEF DueWasCounted, Clear, Delete, Cleared
  <2>2. QED
    BY <2>1 DEF IInv
<1>2. QED
  BY <1>1, Invariance, PTL DEF Spec, ClearedWasCounted

\* An event the queue has given up is in the table, reached its target, or was
\* deleted with its pairing or by the retention sweep.
THEOREM DigestLossIsExplained == Spec => []DigestLossExplained
<1>1. IInv => DigestLossExplained
  BY DEF IInv, NothingLost, Somewhere, DigestLossExplained
<1>2. QED
  BY <1>1, Invariance, PTL

\* An event is delivered at most once, and once more for each time the
\* scheduler or the processor could not learn what it had done.
THEOREM RepeatsAreExplained == Spec => []RepeatsExplained
<1>1. IInv => RepeatsExplained
  <2> SUFFICES ASSUME IInv, NEW e \in Event PROVE copies[e] <= 1 + excuse[e]
    BY DEF RepeatsExplained
  <2>1. copies[e] \in Nat /\ excuse[e] \in Nat
    BY DEF IInv, TypesOK, HistoryOK
  <2>2. copies[e] + Waiting(e) + InDigest(e) + InQueue(e) <= 1 + excuse[e]
    BY DEF IInv, CopiesExcused
  <2>3. QED
    BY <2>1, <2>2, Chances
<1>2. QED
  BY <1>1, Invariance, PTL

--------------------------------------------------------------------------------
(* DigestScheduler implements DigestCustody.                                *)

\* What a digest counted is in the table until it is sent, or was dropped since,
\* and belongs to the target of the digest.
CountedIsOwed ==
    sc = "send" => counted \subseteq {e \in row \cup dropped : GroupOf[e] = group}

LEMMA CountedStep == CountedIsOwed /\ [Next]_vars => CountedIsOwed'
<1> SUFFICES ASSUME CountedIsOwed, [Next]_vars PROVE CountedIsOwed'
  OBVIOUS
<1>1. ASSUME UNCHANGED <<sc, group, counted>>, row \subseteq row' \cup dropped',
             dropped \subseteq dropped'
      PROVE  CountedIsOwed'
  BY <1>1 DEF CountedIsOwed
<1>2. ASSUME sc' # "send" PROVE CountedIsOwed'
  BY <1>2 DEF CountedIsOwed
<1>3. ASSUME NEW g \in Group, CountGroup(g) PROVE CountedIsOwed'
  BY <1>2, <1>3 DEF CountGroup, DueByCutoff, CountedIsOwed
<1>4. ASSUME NEW g \in Group, DropGroup(g) \/ SendSucceeds(g) PROVE CountedIsOwed'
  BY <1>2, <1>4 DEF DropGroup, SendSucceeds
<1>5. CASE Purge
  BY <1>1, <1>5 DEF Purge, Delete
<1>6. CASE StartPass \/ SendFails \/ AnswerLost \/ Clear \/ EndPass \/ Crash
  BY <1>2, <1>6 DEF StartPass, SendFails, AfterFailure, AnswerLost, Clear, EndPass, Crash
<1>7. CASE Ack \/ Tick \/ UNCHANGED vars \/ \E g \in Group : Relink(g)
  BY <1>1, <1>7 DEF Ack, Tick, Relink
<1>8. ASSUME NEW e \in Event, Forward(e) \/ \E i \in Intervals : Buffer(e, i)
      PROVE  CountedIsOwed'
  BY <1>1, <1>8 DEF Forward, Buffer
<1>9. QED
  BY <1>3, <1>4, <1>5, <1>6, <1>7, <1>8 DEF Next, Scheduler

LEMMA BumpReaches ==
    ASSUME HistoryOK, NEW E, E \subseteq Event, copies' = Bump(copies, E)
    PROVE  Reached' = Reached \cup E
<1>1. \A e \in Event : copies'[e] = IF e \in E THEN copies[e] + 1 ELSE copies[e]
  BY BumpType DEF HistoryOK
<1>2. \A e \in Event : copies[e] \in Nat
  BY DEF HistoryOK
<1>3. \A e \in Event : copies'[e] > 0 <=> e \in E \/ copies[e] > 0
  BY <1>1, <1>2
<1>4. QED
  BY <1>3 DEF Reached

\* A step that leaves the two tables together and the history as they were.
LEMMA CustodyStutter ==
    ASSUME Owed' = Owed, UNCHANGED <<copies, dropped>>
    PROVE  UNCHANGED Custody!vars
BY DEF Custody!vars, Reached

\* Forward is a delivery of one event, which stays owed until it is acknowledged.
LEMMA ForwardDelivers ==
    ASSUME TypesOK, NEW e \in Event, Forward(e)
    PROVE  Custody!Next
<1>1. HistoryOK /\ {e} \subseteq Event /\ GroupOf[e] \in Group
  BY ConstantsAssumption DEF TypesOK, ConstantsAssumption
<1>2. Reached' = Reached \cup {e}
  BY <1>1, BumpReaches DEF Forward
<1>3. Owed' = Owed /\ e \in Owed /\ UNCHANGED dropped
  BY DEF Forward, Owed
<1>4. Custody!Deliver(GroupOf[e], {e})
  BY <1>2, <1>3 DEF Custody!Deliver
<1>5. QED
  BY <1>1, <1>4 DEF Custody!Next

\* A digest that reaches its target is a delivery of what it counted.
LEMMA DigestDelivers ==
    ASSUME TypesOK, CountedIsOwed, sc = "send", copies' = Bump(copies, counted),
           UNCHANGED <<queued, row, dropped>>
    PROVE  Custody!Next
<1>1. HistoryOK /\ counted \subseteq Event /\ group \in Group
  BY ConstantsAssumption DEF TypesOK, PassOK, ConstantsAssumption
<1>2. Reached' = Reached \cup counted
  BY <1>1, BumpReaches
<1>3. Owed' = Owed /\ counted \subseteq {e \in Owed \cup dropped : GroupOf[e] = group}
  BY DEF Owed, CountedIsOwed
<1>4. Custody!Deliver(group, counted)
  BY <1>2, <1>3 DEF Custody!Deliver
<1>5. QED
  BY <1>1, <1>4 DEF Custody!Next

\* Acknowledged, the event is owed by the other table, or need not be.
LEMMA AckReleases ==
    ASSUME TypesOK, NothingLost, Ack
    PROVE  [Custody!Next]_(Custody!vars)
<1>1. UNCHANGED <<row, copies, dropped>> /\ unacked \in Event
  BY DEF Ack, TypesOK, QueueOK
<1>2. CASE UNCHANGED queued
  BY <1>1, <1>2, CustodyStutter DEF Owed
<1>3. CASE queued' = queued \ {unacked}
  <2>1. CASE unacked \in row
    <3>1. Owed' = Owed
      BY <1>1, <1>3, <2>1 DEF Owed
    <3>2. QED
      BY <1>1, <3>1, CustodyStutter
  <2>2. CASE unacked \notin row
    <3>1. Owed' = Owed \ {unacked} /\ UNCHANGED <<Reached, dropped>>
      BY <1>1, <1>3, <2>2 DEF Owed, Reached
    <3>2. {unacked} \subseteq Reached \cup dropped
      BY <1>1, <2>2 DEF Ack, NothingLost, Somewhere, Reached
    <3>3. Custody!Release({unacked})
      BY <3>1, <3>2 DEF Custody!Release
    <3>4. QED
      BY <1>1, <3>3 DEF Custody!Next
  <2>3. QED
    BY <2>1, <2>2
<1>4. QED
  BY <1>2, <1>3 DEF Ack

\* What the DELETE after a digest removes has reached its target.
LEMMA ClearReleases ==
    ASSUME TypesOK, DueWasCounted, NothingLost, Clear
    PROVE  [Custody!Next]_(Custody!vars)
<1>1. UNCHANGED <<queued, copies, dropped>>
  BY DEF Clear
<1>2. CASE UNCHANGED tableVars
  BY <1>1, <1>2, CustodyStutter DEF Owed
<1>3. CASE Delete(Cleared(group))
  <2> DEFINE E == DueByCutoff(group) \ queued
  <2>1. DueByCutoff(group) \subseteq counted /\ counted \subseteq Event
    BY DEF Clear, DueWasCounted, TypesOK, PassOK
  <2>2. E \subseteq Reached
    BY <2>1 DEF Clear, NothingLost, Reached
  <2>3. Owed' = Owed \ E /\ UNCHANGED <<Reached, dropped>>
    BY <1>1, <1>3 DEF Delete, Cleared, Owed, Reached
  <2>4. Custody!Release(E) /\ E \in SUBSET Event
    BY <2>1, <2>2, <2>3 DEF Custody!Release
  <2>5. QED
    BY <2>4 DEF Custody!Next
<1>4. QED
  BY <1>2, <1>3 DEF Clear

\* Rows deleted unsent are given up, although pending_events may have them yet.
LEMMA DroppedIsGivenUp ==
    ASSUME TypesOK, NEW E, E \subseteq row, Delete(E), dropped' = dropped \cup E,
           UNCHANGED <<queued, copies>>
    PROVE  Custody!Next
<1>1. E \in SUBSET Event /\ E \subseteq Owed
  BY DEF TypesOK, TableOK, Owed
<1>2. Owed' \subseteq Owed /\ Owed \ Owed' \subseteq E /\ UNCHANGED Reached
  BY DEF Delete, Owed, Reached
<1>3. Custody!GiveUp(E)
  BY <1>1, <1>2 DEF Custody!GiveUp
<1>4. QED
  BY <1>1, <1>3 DEF Custody!Next

LEMMA CustodyNext ==
    TypesOK /\ DueWasCounted /\ NothingLost /\ CountedIsOwed /\ [Next]_vars
        => [Custody!Next]_(Custody!vars)
<1> SUFFICES ASSUME TypesOK, DueWasCounted, NothingLost, CountedIsOwed, [Next]_vars
             PROVE  [Custody!Next]_(Custody!vars)
  OBVIOUS
<1>1. ASSUME UNCHANGED <<queued, row, copies, dropped>> PROVE UNCHANGED Custody!vars
  BY <1>1, CustodyStutter DEF Owed
<1>2. ASSUME NEW e \in Event, Forward(e) PROVE Custody!Next
  BY <1>2, ForwardDelivers
<1>3. ASSUME NEW e \in Event, NEW i \in Intervals, Buffer(e, i)
      PROVE  UNCHANGED Custody!vars
  <2>1. Owed' = Owed /\ UNCHANGED <<copies, dropped>>
    BY <1>3 DEF Buffer, Owed
  <2>2. QED
    BY <2>1, CustodyStutter
<1>4. ASSUME NEW g \in Group, DropGroup(g) PROVE [Custody!Next]_(Custody!vars)
  <2>1. CASE DropDue(g)
    <3>1. DueByCutoff(g) \subseteq row /\ UNCHANGED <<queued, copies>>
      BY <1>4 DEF DropGroup, DueByCutoff
    <3>2. QED
      BY <2>1, <3>1, DroppedIsGivenUp DEF DropDue
  <2>2. CASE UNCHANGED <<tableVars, dropped>>
    BY <1>1, <1>4, <2>2 DEF DropGroup
  <2>3. QED
    BY <1>4, <2>1, <2>2 DEF DropGroup
<1>5. ASSUME NEW g \in Group, SendSucceeds(g) PROVE Custody!Next
  BY <1>5, DigestDelivers DEF SendSucceeds
<1>6. CASE AnswerLost
  BY <1>6, DigestDelivers DEF AnswerLost
<1>7. CASE Ack
  BY <1>7, AckReleases
<1>8. CASE Clear
  BY <1>8, ClearReleases
<1>9. CASE Purge
  <2>1. PICK E \in SUBSET {e \in row : age[e] > Keep} :
            Delete(E) /\ dropped' = dropped \cup E /\ UNCHANGED <<queued, copies>>
    BY <1>9 DEF Purge
  <2>2. QED
    BY <2>1, DroppedIsGivenUp
<1>10. ASSUME NEW g \in Group, CountGroup(g) \/ Relink(g) PROVE UNCHANGED Custody!vars
  BY <1>1, <1>10 DEF CountGroup, Relink
<1>11. CASE StartPass \/ SendFails \/ EndPass \/ Crash \/ Tick \/ UNCHANGED vars
  BY <1>1, <1>11 DEF StartPass, SendFails, EndPass, Crash, Tick
<1>12. QED
  BY <1>2, <1>3, <1>4, <1>5, <1>6, <1>7, <1>8, <1>9, <1>10, <1>11 DEF Next, Scheduler

\* Between pending_events and digest_events, with acknowledgements that fail,
\* answers that are lost, a pass that takes long and crashes, digest mode does
\* with an event what DigestCustody allows, for any events, groups and intervals.
THEOREM DigestsImplementCustody == Spec => ImplementsDigestCustody
<1>1. Init => Custody!Init
  BY DEF Init, Custody!Init, Owed, Reached
<1>2. Init => CountedIsOwed
  BY DEF Init, CountedIsOwed
<1>3. Spec => []CountedIsOwed
  BY <1>2, CountedStep, PTL DEF Spec
<1>4. IInv /\ CountedIsOwed /\ [Next]_vars => [Custody!Next]_(Custody!vars)
  BY CustodyNext DEF IInv
<1>5. QED
  BY <1>1, <1>3, <1>4, Invariance, PTL DEF Spec, ImplementsDigestCustody, Custody!Spec
================================================================================
