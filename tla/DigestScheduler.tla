---------------------------- MODULE DigestScheduler ----------------------------
(***************************************************************************)
(* Digest mode: the queue processor moves an event into digest_events, or  *)
(* sends it when its pairing has no digest, and then acknowledges it in a  *)
(* transaction of its own.  Once a minute the digest scheduler sends one   *)
(* summary per group, a source and target pair, and deletes what the       *)
(* summary covered.  Both goroutines, the retention sweep, the admin       *)
(* commands and crashes interleave between transactions.                   *)
(*                                                                         *)
(* An event in the dead letters counts as queued: its retries, replays and *)
(* retention are DeliveryQueue's.  Events that are filtered are left out.  *)
(*                                                                         *)
(* wait[e] is deliver_after - now, elapsed the time since the scheduler    *)
(* took its cutoff, so a row is due by the cutoff iff wait <= -elapsed.    *)
(***************************************************************************)
EXTENDS Integers, FiniteSetsExt

CONSTANTS
    Event, NoEvent,
    Group, NoGroup,
    GroupOf,      \* the (source, target) pair of each event
    Broken,       \* groups whose target never takes a digest
    Intervals,    \* values of digest_interval_minutes
    Keep,         \* retention of digest_events (7 days in the code)
    BatchLimit,   \* digestBatchLimit: groups per pass
    MaxPass,      \* bound: how long one pass takes
    MaxFaults,    \* bound: failed transactions, lost answers
    MaxCrashes    \* bound: crashes

ASSUME ConstantsAssumption ==
    /\ NoEvent \notin Event /\ NoGroup \notin Group
    /\ GroupOf \in [Event -> Group]
    /\ Broken \subseteq Group
    /\ Intervals \subseteq Nat \ {0}
    /\ Keep \in Nat /\ BatchLimit \in Nat \ {0} /\ MaxPass \in Nat
    /\ MaxFaults \in Nat /\ MaxCrashes \in Nat

VARIABLES
    queued,     \* events the queue has yet to dispose of
    unacked,    \* the event the processor has buffered or sent, and not acknowledged
    row, wait, age,   \* table digest_events
    paired,     \* groups that have a pairing
    sc, todo, group, elapsed, counted,   \* the scheduler's pass
    \* history: copies that reached the target in a digest or directly, faults
    \* that explain a further copy, rows deleted without being sent
    copies, excuse, dropped,
    faults, crashes   \* counters of the bounds

procVars == <<queued, unacked>>
tableVars == <<row, wait, age>>
passVars == <<sc, todo, group, elapsed, counted>>
historyVars == <<copies, excuse, dropped>>
boundVars == <<faults, crashes>>

vars == <<procVars, tableVars, paired, passVars, historyVars, boundVars>>

Init ==
    /\ queued = Event /\ unacked = NoEvent
    /\ row = {} /\ wait = [e \in Event |-> 0] /\ age = [e \in Event |-> 0]
    /\ paired = Group
    /\ sc = "idle" /\ todo = {} /\ group = NoGroup /\ elapsed = 0 /\ counted = {}
    /\ copies = [e \in Event |-> 0] /\ excuse = [e \in Event |-> 0] /\ dropped = {}
    /\ faults = 0 /\ crashes = 0

Fault == faults < MaxFaults /\ faults' = faults + 1
NoFault == UNCHANGED faults

Bump(f, E) == [e \in Event |-> IF e \in E THEN f[e] + 1 ELSE f[e]]

Delete(E) == /\ row' = row \ E
             /\ wait' = [e \in Event |-> IF e \in E THEN 0 ELSE wait[e]]
             /\ age' = [e \in Event |-> IF e \in E THEN 0 ELSE age[e]]

--------------------------------------------------------------------------------
(* The queue processor.  An attempt that fails without reaching the target   *)
(* leaves the event queued, in pending_events or in the dead letters.        *)

\* The pairing has digests enabled.  AddDigestEvent: ON CONFLICT(event_id) DO NOTHING keeps an earlier row.
Buffer(e, interval) ==
    /\ unacked = NoEvent
    /\ e \in queued /\ GroupOf[e] \in paired
    /\ unacked' = e
    /\ row' = row \cup {e}
    /\ wait' = IF e \in row THEN wait ELSE [wait EXCEPT ![e] = interval]
    /\ UNCHANGED <<queued, age, paired, passVars, historyVars, boundVars>>

\* The pairing is gone or its digest mode off by the time the event is claimed.
\* A send that is answered is acknowledged next; one whose answer is lost counts
\* as failed although the target has it, and the event is claimed again.
Forward(e) ==
    /\ unacked = NoEvent
    /\ e \in queued
    /\ copies' = Bump(copies, {e})
    /\ \/ unacked' = e /\ NoFault /\ UNCHANGED excuse
       \/ UNCHANGED unacked /\ Fault /\ excuse' = Bump(excuse, {e})
    /\ UNCHANGED <<queued, tableVars, paired, passVars, dropped, crashes>>

\* ackEvent: if it fails the event is claimed again later, and buffered or sent
\* again.
Ack ==
    /\ unacked # NoEvent
    /\ \/ queued' = queued \ {unacked} /\ NoFault /\ UNCHANGED excuse
       \/ UNCHANGED queued /\ Fault /\ excuse' = Bump(excuse, {unacked})
    /\ unacked' = NoEvent
    /\ UNCHANGED <<tableVars, paired, passVars, copies, dropped, crashes>>

--------------------------------------------------------------------------------
(* processDigests.                                                          *)

Due == {e \in row : wait[e] <= 0}
DueGroups == {GroupOf[e] : e \in Due}
Earliest(g) == CHOOSE w \in {wait[e] : e \in {x \in Due : GroupOf[x] = g}} :
                   \A e \in Due : GroupOf[e] = g => w <= wait[e]

\* Mutant: one group per pass.
Batch_One == {S \in SUBSET DueGroups : S # {} /\ \A g, h \in S : g = h}
Batch == {S \in SUBSET DueGroups :
             Cardinality(S) = IF Cardinality(DueGroups) < BatchLimit
                              THEN Cardinality(DueGroups) ELSE BatchLimit}

\* ListDigestGroupsDue: the groups that have waited longest.
StartPass ==
    /\ sc = "idle" /\ Due # {}
    /\ \E S \in Batch :
        /\ \A g \in S, h \in DueGroups \ S : Earliest(g) <= Earliest(h)
        /\ todo' = S
    /\ sc' = "next" /\ elapsed' = 0
    /\ UNCHANGED <<procVars, tableVars, paired, group, counted, historyVars, boundVars>>

DueByCutoff(g) == {e \in row : GroupOf[e] = g /\ wait[e] <= -elapsed}

DropDue(g) == Delete(DueByCutoff(g)) /\ dropped' = dropped \cup DueByCutoff(g)

\* GetPairing fails: the pairing is gone, or the read itself failed.  Either
\* way the group's due rows are deleted unsent, unless the DELETE fails too.
DropGroup(g) ==
    /\ sc = "next" /\ g \in todo
    /\ todo' = todo \ {g}
    /\ \/ g \notin paired /\ NoFault /\ DropDue(g)
       \/ Fault /\ DropDue(g)
       \/ Fault /\ UNCHANGED <<tableVars, dropped>>
    /\ UNCHANGED <<procVars, paired, sc, group, elapsed, counted, copies, excuse, crashes>>

\* ListDigestEventsForGroup: what the summary counts.
CountGroup(g) ==
    /\ sc = "next" /\ g \in todo
    /\ g \in paired
    /\ todo' = todo \ {g}
    /\ IF DueByCutoff(g) # {}
       THEN sc' = "send" /\ group' = g /\ counted' = DueByCutoff(g)
       ELSE UNCHANGED <<sc, group, counted>>
    /\ UNCHANGED <<procVars, tableVars, paired, elapsed, historyVars, boundVars>>

EndGroup == group' = NoGroup /\ counted' = {}

\* Mutant: a digest that was not sent is cleared as well.
AfterFailure_Clear == sc' = "clear" /\ UNCHANGED <<group, counted>>
AfterFailure == sc' = "next" /\ EndGroup

\* Destination limit, missing consumer or failed send: the rows stay.
SendFails ==
    /\ sc = "send"
    /\ AfterFailure
    /\ UNCHANGED <<procVars, tableVars, paired, todo, elapsed, historyVars, boundVars>>

SendSucceeds(g) ==
    /\ sc = "send" /\ group = g /\ g \notin Broken
    /\ sc' = "clear"
    /\ copies' = Bump(copies, counted)
    /\ UNCHANGED <<procVars, tableVars, paired, todo, group, elapsed, counted, excuse,
                   dropped, boundVars>>

AnswerLost ==
    /\ sc = "send" /\ group \notin Broken
    /\ Fault
    /\ sc' = "next" /\ EndGroup
    /\ copies' = Bump(copies, counted) /\ excuse' = Bump(excuse, counted)
    /\ UNCHANGED <<procVars, tableVars, paired, todo, elapsed, dropped, crashes>>

\* Mutant: the DELETE takes the present time for the cutoff.
Cleared_Now(g) == {e \in row : GroupOf[e] = g /\ wait[e] <= 0}
\* Mutant: the DELETE compares with < where the summary compared with <=.
Cleared_Strict(g) == {e \in row : GroupOf[e] = g /\ wait[e] < -elapsed}
Cleared(g) == DueByCutoff(g)

\* DeleteDigestEventsForGroup with the cutoff of the whole pass.
Clear ==
    /\ sc = "clear"
    /\ \/ Delete(Cleared(group)) /\ NoFault /\ UNCHANGED excuse
       \/ UNCHANGED tableVars /\ Fault /\ excuse' = Bump(excuse, counted)
    /\ sc' = "next" /\ EndGroup
    /\ UNCHANGED <<procVars, paired, todo, elapsed, copies, dropped, crashes>>

EndPass ==
    /\ sc = "next" /\ todo = {}
    /\ sc' = "idle" /\ elapsed' = 0
    /\ UNCHANGED <<procVars, tableVars, paired, todo, group, counted, historyVars, boundVars>>

--------------------------------------------------------------------------------
(* Everything else that touches the tables.                                 *)

\* LinkChannel and UnlinkChannel.
Relink(g) ==
    /\ paired' = IF g \in paired THEN paired \ {g} ELSE paired \cup {g}
    /\ UNCHANGED <<procVars, tableVars, passVars, historyVars, boundVars>>

\* cleanupTable on digest_events goes by created_at, sent or not.
Purge ==
    \E E \in SUBSET {e \in row : age[e] > Keep} :
        /\ E # {}
        /\ Delete(E)
        /\ dropped' = dropped \cup E
        /\ UNCHANGED <<procVars, paired, passVars, copies, excuse, boundVars>>

Crash ==
    /\ crashes < MaxCrashes
    /\ crashes' = crashes + 1
    /\ sc' = "idle" /\ todo' = {} /\ elapsed' = 0 /\ EndGroup
    /\ unacked' = NoEvent
    /\ excuse' = Bump(Bump(excuse, IF sc = "clear" THEN counted ELSE {}), {unacked})
    /\ UNCHANGED <<queued, tableVars, paired, copies, dropped, faults>>

\* Past the longest pass all overdue rows are alike.
Tick ==
    /\ elapsed < MaxPass
    /\ elapsed' = IF sc = "idle" THEN 0 ELSE elapsed + 1
    /\ wait' = [e \in Event |-> IF e \in row /\ wait[e] > -MaxPass
                                THEN wait[e] - 1 ELSE wait[e]]
    /\ age' = [e \in Event |-> IF e \in row /\ age[e] <= Keep THEN age[e] + 1 ELSE age[e]]
    /\ UNCHANGED <<procVars, row, paired, sc, todo, group, counted, historyVars, boundVars>>

--------------------------------------------------------------------------------
Scheduler == \/ StartPass
             \/ \E g \in Group : DropGroup(g) \/ CountGroup(g) \/ SendSucceeds(g)
             \/ SendFails \/ AnswerLost \/ Clear \/ EndPass

Next == \/ \E e \in Event : Forward(e) \/ \E interval \in Intervals : Buffer(e, interval)
        \/ Ack
        \/ Scheduler
        \/ \E g \in Group : Relink(g)
        \/ Purge
        \/ Crash
        \/ Tick

Spec == Init /\ [][Next]_vars

\* The ticker keeps firing, every send ends (digestSendTimeout; assumed of the
\* Telegram API), and the target of a group that is not broken takes a digest
\* if asked often enough.
FairSpec == /\ Spec
            /\ WF_vars(Scheduler)
            /\ \A g \in Group : SF_vars(SendSucceeds(g))
            /\ WF_vars(Clear)
            /\ WF_vars(Tick)

--------------------------------------------------------------------------------
\* The table, the pass and the history have the shape the code gives them.
TypeOK ==
    /\ queued \subseteq Event /\ unacked \in queued \cup {NoEvent}
    /\ row \subseteq Event
    /\ \A e \in Event : wait[e] >= -MaxPass /\ age[e] \in 0 .. Keep + 1
    /\ paired \subseteq Group
    /\ sc \in {"idle", "next", "send", "clear"}
    /\ todo \subseteq Group /\ group \in Group \cup {NoGroup}
    /\ elapsed \in 0 .. MaxPass /\ counted \subseteq Event
    /\ (sc \in {"send", "clear"}) <=> (group # NoGroup)
    /\ dropped \subseteq Event
    /\ copies \in [Event -> Nat] /\ excuse \in [Event -> Nat]

\* A summary's DELETE removes nothing the summary did not count, however long
\* the send took and whatever became due meanwhile.
ClearedWasCounted == [][Clear => (row \ row') \subseteq counted]_vars

\* An acknowledged event is still buffered, was sent in a digest or directly,
\* or was deleted because its pairing could not be read or its row expired.
DigestLossExplained ==
    \A e \in Event \ queued : e \in row \/ copies[e] > 0 \/ e \in dropped

\* An event reaches its target once, and once more for each time a failed
\* DELETE, a failed acknowledgement, a lost answer or a crash hid from the
\* scheduler or from the processor what it had done.
RepeatsExplained == \A e \in Event : copies[e] <= 1 + excuse[e]

\* A buffered event of a target that takes messages is not kept for ever, as
\* long as fewer than digestBatchLimit groups are broken.
HealthyServed ==
    \A e \in Event : (e \in row /\ GroupOf[e] \notin Broken) ~> (e \notin row)

\* An event is owed to its target while pending_events or digest_events has it.
Owed == queued \cup row
Reached == {e \in Event : copies[e] > 0}

Custody == INSTANCE DigestCustody WITH owed <- Owed, reached <- Reached

\* Processor, scheduler, retention, commands and crashes implement
\* DigestCustody: between the two tables no event is let go before it reached
\* its target or was given up, none comes back, and a digest holds only events
\* of its target that were in the table when it was counted.
ImplementsDigestCustody == Custody!Spec
================================================================================
