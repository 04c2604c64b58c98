----------------------------- MODULE DeliveryQueue -----------------------------
(***************************************************************************)
(* The persistent delivery queue of the bridge and everything that works   *)
(* on it: the producers' EnqueuePendingEvent, the single queue processor   *)
(* (claim under a lease, route, send, acknowledge, retry or dead-letter),  *)
(* the operator's ReplayDeadLetter, the retention sweeps, and crashes of   *)
(* the process between any two database transactions.                      *)
(*                                                                         *)
(* The SQLite tables are the only state that survives a crash.  A table is *)
(* the set of its keys plus one function per column; the column of an      *)
(* absent row has a fixed value.  One database transaction is one step,    *)
(* and it may fail and leave the tables alone.                             *)
(*                                                                         *)
(* Time is relative: due[e] is available_at - now, and a table with a      *)
(* retention keeps the age of each row, up to the first age past it.       *)
(***************************************************************************)
EXTENDS Integers

CONSTANTS
    Event,          \* event ids the producers can build
    NoEvent,        \* stands for "no event"
    Key,            \* (source, target, file hash) fingerprints of media
    NoKey,          \* an event whose FileHash is empty
    KeyOf,          \* the fingerprint of each event's media, or NoKey
    MaxRetries,     \* maxDeliveryRetries
    Lease,          \* processingLease
    BackoffBase,    \* retryBaseDelay
    BackoffCap,     \* the 300 s cap of the backoff
    RateDelay,      \* delay of an event held back by the destination limit
    QuietDelay,     \* delay of an event accepted in quiet hours
    ProcessedKeep,  \* retention of processed_events (7 days in the code)
    DeadKeep,       \* retention of dead_letters (14 days in the code)
    DedupeWindow,   \* duplicateMediaWindow
    MaxOffers,      \* bound: how often a source offers one event
    MaxFaults,      \* bound: failed transactions and lost answers
    MaxCrashes,     \* bound: crashes
    MaxReplays,     \* bound: operator replays
    MaxDead,        \* bound: dead letters ever created
    MaxLag          \* bound: how far the processor runs behind a due row

DeadId == 1 .. MaxDead

ASSUME ConstantsAssumption ==
    /\ NoEvent \notin Event
    /\ NoKey \notin Key
    /\ KeyOf \in [Event -> Key \cup {NoKey}]
    /\ MaxRetries \in Nat
    /\ Lease \in Nat /\ BackoffBase \in Nat /\ BackoffCap \in Nat
    /\ RateDelay \in Nat /\ QuietDelay \in Nat
    /\ ProcessedKeep \in Nat /\ DeadKeep \in Nat /\ DedupeWindow \in Nat
    /\ MaxOffers \in Nat /\ MaxFaults \in Nat /\ MaxCrashes \in Nat
    /\ MaxReplays \in Nat /\ MaxDead \in Nat /\ MaxLag \in Nat

VARIABLES
    \* table pending_events
    pending, due, retry,
    \* table processed_events
    processed, processedAge,
    \* table dead_letters; deadSeq is the AUTOINCREMENT counter of its ids
    dead, deadAge, deadSeq,
    \* table media_dedupe
    dedupe, dedupeAge,
    \* the processor goroutine: where it is, and its snapshot of the claim
    pc, job,
    \* history, read by no guard: events ever accepted, handed to an outcome
    \* (delivered, filtered or digested), lost to dead-letter retention
    accepted, disposed, abandoned,
    \* history: copies that reached the target, faults that explain a further
    \* copy, did the current attempt deliver, failed attempts since the last
    \* dead letter, time since media with a fingerprint was accepted
    sends, excuse, delivered, strikes, sinceAccept,
    \* counters of the bounds
    offers, faults, crashes, replays

queueVars == <<pending, due, retry>>
processedVars == <<processed, processedAge>>
deadVars == <<dead, deadAge, deadSeq>>
dedupeVars == <<dedupe, dedupeAge>>
procVars == <<pc, job, delivered>>
historyVars == <<accepted, disposed, abandoned, sends, excuse, strikes>>
boundVars == <<offers, faults, crashes, replays>>

vars == <<queueVars, processedVars, deadVars, dedupeVars, procVars,
          historyVars, sinceAccept, boundVars>>

--------------------------------------------------------------------------------
NoJob == [event |-> NoEvent, retry |-> 0]

Init ==
    /\ pending = {} /\ processed = {} /\ dedupe = {}
    /\ due = [e \in Event |-> 0] /\ retry = [e \in Event |-> 0]
    /\ processedAge = [e \in Event |-> 0]
    /\ dead = [d \in DeadId |-> NoEvent] /\ deadAge = [d \in DeadId |-> 0]
    /\ deadSeq = 0
    /\ dedupeAge = [k \in Key |-> 0]
    /\ pc = "idle" /\ job = NoJob /\ delivered = FALSE
    /\ accepted = {} /\ disposed = {} /\ abandoned = {}
    /\ sends = [e \in Event |-> 0] /\ excuse = [e \in Event |-> 0]
    /\ strikes = [e \in Event |-> 0]
    /\ sinceAccept = [k \in Key |-> DedupeWindow + 1]
    /\ offers = [e \in Event |-> 0] /\ faults = 0 /\ crashes = 0 /\ replays = 0

\* A transaction that failed or an answer that was lost.
Fault == /\ faults < MaxFaults
         /\ faults' = faults + 1
NoFault == UNCHANGED faults

--------------------------------------------------------------------------------
(* EnqueuePendingEvent, called by a producer for one event and target.      *)

\* Mutant: the fingerprint expires one second early.
LiveKeys_Early == {k \in dedupe : dedupeAge[k] < DedupeWindow}
LiveKeys == {k \in dedupe : dedupeAge[k] <= DedupeWindow}

\* Mutant: processed_events is not consulted.
Duplicate_OnlyMedia(e, k) == k \in LiveKeys
\* What the code reports as "duplicate event detected".
Duplicate(e, k) == e \in processed \/ k \in LiveKeys

\* recordMediaDedupe: drop the expired fingerprints, add this one.
RecordMedia(k) ==
    IF k = NoKey
    THEN UNCHANGED dedupeVars
    ELSE /\ dedupe' = LiveKeys \cup {k}
         /\ dedupeAge' = [j \in Key |-> IF j \in LiveKeys THEN dedupeAge[j] ELSE 0]

Accept(e, k, delay) ==
    /\ pending' = pending \cup {e}
    /\ due' = IF e \in pending THEN due ELSE [due EXCEPT ![e] = delay]
    /\ accepted' = accepted \cup {e}
    /\ RecordMedia(k)
    /\ sinceAccept' = IF e \in pending \/ k = NoKey THEN sinceAccept
                      ELSE [sinceAccept EXCEPT ![k] = 0]

\* The hash is empty when the producer could not download the file.
Enqueue(e, k, delay) ==
    /\ offers[e] < MaxOffers
    /\ offers' = [offers EXCEPT ![e] = @ + 1]
    /\ \/ /\ Duplicate(e, k)
          /\ UNCHANGED <<pending, due, accepted, dedupeVars, sinceAccept>>
       \/ /\ ~Duplicate(e, k)
          /\ Accept(e, k, delay)
    /\ UNCHANGED <<retry, processedVars, deadVars, procVars, disposed, abandoned,
                   sends, excuse, strikes, faults, crashes, replays>>

Offer == \E e \in Event : \E k \in {KeyOf[e], NoKey}, delay \in {0, QuietDelay} :
            Enqueue(e, k, delay)

--------------------------------------------------------------------------------
(* The queue processor: one goroutine, one event at a time.                 *)

\* The row of e leaves pending_events.
Dequeue(e) == /\ pending' = pending \ {e}
              /\ due' = [due EXCEPT ![e] = 0]
              /\ retry' = [retry EXCEPT ![e] = 0]

Idle == pc' = "idle" /\ job' = NoJob /\ delivered' = FALSE

\* Mutant: the claim query finds only rows that were never tried.
NextDue_Fresh(e) == /\ e \in pending /\ retry[e] = 0
                    /\ due[e] <= 0
                    /\ \A f \in pending : due[e] <= due[f]
\* ORDER BY available_at; equal times are served in any order.
NextDue(e) == /\ e \in pending
              /\ due[e] <= 0
              /\ \A f \in pending : due[e] <= due[f]

\* Mutant: the claim takes the row out of the table.
Claim_Pop(e) ==
    /\ pc = "idle"
    /\ NextDue(e)
    /\ Dequeue(e)
    /\ pc' = "claimed"
    /\ job' = [event |-> e, retry |-> retry[e]]
    /\ UNCHANGED <<processedVars, deadVars, dedupeVars, delivered, historyVars,
                   sinceAccept, boundVars>>

\* ClaimNextPendingEvent: the lease hides the row, the processor keeps a copy.
Claim(e) ==
    /\ pc = "idle"
    /\ NextDue(e)
    /\ due' = [due EXCEPT ![e] = Lease]
    /\ pc' = "claimed"
    /\ job' = [event |-> e, retry |-> retry[e]]
    /\ UNCHANGED <<pending, retry, processedVars, deadVars, dedupeVars, delivered,
                   historyVars, sinceAccept, boundVars>>

\* processQueuedEvent up to consumer.Send.  The pairing's rules, the blocked
\* words and the moderation score are read afresh on every attempt, so any
\* verdict is possible on any of them.
Dispose ==  \* filtered by keyword or moderation, or buffered by AddDigestEvent
    /\ pc = "claimed"
    /\ pc' = "settle"
    /\ disposed' = disposed \cup {job.event}
    /\ UNCHANGED <<queueVars, processedVars, deadVars, dedupeVars, job, delivered,
                   accepted, abandoned, sends, excuse, strikes, sinceAccept, boundVars>>

RouteTo(next) ==
    /\ pc = "claimed"
    /\ pc' = next
    /\ UNCHANGED <<queueVars, processedVars, deadVars, dedupeVars, job, delivered,
                   historyVars, sinceAccept, boundVars>>

\* Mutant: an unreadable blocklist is taken for a filtered event.
RouteFails_Settled == RouteTo("settle")
RouteFails == RouteTo("failed")  \* blocked words or digest table unreadable, no consumer
Admit == RouteTo("send")

\* ReschedulePendingEvent: an UPDATE, so nothing happens to an absent row.
Reschedule(e, n, delay) ==
    /\ due' = IF e \in pending THEN [due EXCEPT ![e] = delay] ELSE due
    /\ retry' = IF e \in pending THEN [retry EXCEPT ![e] = n] ELSE retry
    /\ UNCHANGED pending

\* The destination limit is exceeded: try again later, no retry counted.
HoldBack ==
    /\ pc = "claimed"
    /\ \/ Reschedule(job.event, job.retry, RateDelay) /\ NoFault
       \/ UNCHANGED queueVars /\ Fault
    /\ Idle
    /\ UNCHANGED <<processedVars, deadVars, dedupeVars, historyVars, sinceAccept,
                   offers, crashes, replays>>

\* consumer.Send: the target has the message and the answer arrives, the
\* message gets nowhere, or the message arrives and its answer is lost.
SendSucceeds ==
    /\ pc = "send"
    /\ pc' = "settle" /\ delivered' = TRUE
    /\ sends' = [sends EXCEPT ![job.event] = @ + 1]
    /\ disposed' = disposed \cup {job.event}
    /\ UNCHANGED <<queueVars, processedVars, deadVars, dedupeVars, job, accepted,
                   abandoned, excuse, strikes, sinceAccept, boundVars>>

SendFails ==
    /\ pc = "send"
    /\ pc' = "failed"
    /\ UNCHANGED <<queueVars, processedVars, deadVars, dedupeVars, job, delivered,
                   historyVars, sinceAccept, boundVars>>

AnswerLost ==
    /\ pc = "send"
    /\ Fault
    /\ pc' = "failed"
    /\ sends' = [sends EXCEPT ![job.event] = @ + 1]
    /\ excuse' = [excuse EXCEPT ![job.event] = @ + 1]
    /\ UNCHANGED <<queueVars, processedVars, deadVars, dedupeVars, job, delivered,
                   accepted, disposed, abandoned, strikes, sinceAccept, offers, crashes, replays>>

\* A copy already delivered will be sent again.
ExcuseDelivered == excuse' = IF delivered
                             THEN [excuse EXCEPT ![job.event] = @ + 1] ELSE excuse

\* AckPendingEvent; its error is logged and otherwise ignored.
Settle ==
    /\ pc = "settle"
    /\ \/ /\ processed' = processed \cup {job.event}
          /\ processedAge' = [processedAge EXCEPT ![job.event] = 0]
          /\ Dequeue(job.event)
          /\ NoFault /\ UNCHANGED excuse
       \/ UNCHANGED <<queueVars, processedVars>> /\ Fault /\ ExcuseDelivered
    /\ Idle
    /\ UNCHANGED <<deadVars, dedupeVars, accepted, disposed, abandoned, sends,
                   strikes, sinceAccept, offers, crashes, replays>>

\* handleDeliveryFailure.
\* Mutant: every failure costs two retries.
NextRetry_Twice == job.retry + 2
NextRetry == job.retry + 1
\* Mutant: one retry too many.
RetriesLeft_OffByOne == NextRetry <= MaxRetries + 1
RetriesLeft == NextRetry <= MaxRetries
Doubled == BackoffBase * 2^(NextRetry - 1)
Backoff == IF Doubled > BackoffCap THEN BackoffCap ELSE Doubled

Strike == strikes' = [strikes EXCEPT ![job.event] = @ + 1]

Retry ==
    /\ pc = "failed"
    /\ RetriesLeft
    /\ \/ Reschedule(job.event, NextRetry, Backoff) /\ NoFault
       \/ UNCHANGED queueVars /\ Fault
    /\ Strike
    /\ Idle
    /\ UNCHANGED <<processedVars, deadVars, dedupeVars, accepted, disposed, abandoned,
                   sends, excuse, sinceAccept, offers, crashes, replays>>

\* Mutant: the DELETE is committed before the INSERT and the INSERT is lost.
MoveToDeadLetter_Split(e) ==
    /\ e \in pending
    /\ Dequeue(e)
    /\ UNCHANGED deadVars
\* MovePendingEventToDeadLetter: one transaction, the row must still be there.
MoveToDeadLetter(e) ==
    /\ e \in pending
    /\ deadSeq < MaxDead
    /\ deadSeq' = deadSeq + 1
    /\ dead' = [dead EXCEPT ![deadSeq + 1] = e]
    /\ deadAge' = [deadAge EXCEPT ![deadSeq + 1] = 0]
    /\ Dequeue(e)

GiveUp ==
    /\ pc = "failed"
    /\ ~RetriesLeft
    /\ \/ /\ MoveToDeadLetter(job.event)
          /\ strikes' = [strikes EXCEPT ![job.event] = 0]
          /\ NoFault
       \/ /\ job.event \notin pending
          /\ Strike
          /\ UNCHANGED <<queueVars, deadVars>> /\ NoFault
       \/ UNCHANGED <<queueVars, deadVars>> /\ Strike /\ Fault
    /\ Idle
    /\ UNCHANGED <<processedVars, dedupeVars, accepted, disposed, abandoned,
                   sends, excuse, sinceAccept, offers, crashes, replays>>

--------------------------------------------------------------------------------
(* The operator, the retention sweeps, crashes and the clock.               *)

DropDead(D) == /\ dead' = [d \in DeadId |-> IF d \in D THEN NoEvent ELSE dead[d]]
               /\ deadAge' = [d \in DeadId |-> IF d \in D THEN 0 ELSE deadAge[d]]
               /\ UNCHANGED deadSeq

\* Mutant: a replay does not look at processed_events.
AlreadyDone_Unchecked(e) == FALSE
AlreadyDone(e) == e \in processed

\* ReplayDeadLetter(d): requeue with a fresh retry count, or only drop the
\* dead letter when its event has been processed meanwhile.
Replay(d) ==
    LET e == dead[d] IN
    /\ e # NoEvent
    /\ replays < MaxReplays
    /\ replays' = replays + 1
    /\ DropDead({d})
    /\ \/ AlreadyDone(e) /\ UNCHANGED queueVars
       \/ /\ ~AlreadyDone(e)
          /\ pending' = pending \cup {e}
          /\ due' = [due EXCEPT ![e] = 0]
          /\ retry' = [retry EXCEPT ![e] = 0]
    /\ UNCHANGED <<processedVars, dedupeVars, procVars, historyVars, sinceAccept,
                   offers, faults, crashes>>

\* cleanupTable deletes expired rows in batches, in any order, and stops at
\* the first error, so a step may delete any of them.
PurgeProcessed ==
    \E E \in SUBSET {e \in processed : processedAge[e] > ProcessedKeep} :
        /\ E # {}
        /\ processed' = processed \ E
        /\ processedAge' = [e \in Event |-> IF e \in E THEN 0 ELSE processedAge[e]]
        \* The bridge forgets what it has sent.
        /\ excuse' = [e \in Event |-> IF e \in E /\ sends[e] > excuse[e]
                                      THEN excuse[e] + 1 ELSE excuse[e]]
        /\ UNCHANGED <<queueVars, deadVars, dedupeVars, procVars, accepted, disposed,
                       abandoned, sends, strikes, sinceAccept, boundVars>>

PurgeDead ==
    \E D \in SUBSET {d \in DeadId : dead[d] # NoEvent /\ deadAge[d] > DeadKeep} :
        /\ D # {}
        /\ DropDead(D)
        /\ abandoned' = abandoned \cup {dead[d] : d \in D}
        /\ UNCHANGED <<queueVars, processedVars, dedupeVars, procVars, accepted, disposed,
                       sends, excuse, strikes, sinceAccept, boundVars>>

PurgeDedupe ==
    \E K \in SUBSET (dedupe \ LiveKeys) :
        /\ K # {}
        /\ dedupe' = dedupe \ K
        /\ dedupeAge' = [k \in Key |-> IF k \in K THEN 0 ELSE dedupeAge[k]]
        /\ UNCHANGED <<queueVars, processedVars, deadVars, procVars, historyVars,
                       sinceAccept, boundVars>>

\* The process dies and starts again with what the database holds.
Crash ==
    /\ pc # "idle"
    /\ crashes < MaxCrashes
    /\ crashes' = crashes + 1
    /\ Idle
    /\ ExcuseDelivered
    /\ UNCHANGED <<queueVars, processedVars, deadVars, dedupeVars, accepted, disposed,
                   abandoned, sends, strikes, sinceAccept, offers, faults, replays>>

Older(age, keep) == IF age > keep THEN age ELSE age + 1

Tick ==
    /\ \A e \in pending : due[e] > -MaxLag
    /\ due' = [e \in Event |-> IF e \in pending THEN due[e] - 1 ELSE 0]
    /\ processedAge' = [e \in Event |-> IF e \in processed
                            THEN Older(processedAge[e], ProcessedKeep) ELSE 0]
    /\ deadAge' = [d \in DeadId |-> IF dead[d] # NoEvent
                            THEN Older(deadAge[d], DeadKeep) ELSE 0]
    /\ dedupeAge' = [k \in Key |-> IF k \in dedupe
                            THEN Older(dedupeAge[k], DedupeWindow) ELSE 0]
    /\ sinceAccept' = [k \in Key |-> Older(sinceAccept[k], DedupeWindow)]
    /\ UNCHANGED <<pending, retry, processed, dead, deadSeq, dedupe, procVars,
                   historyVars, boundVars>>

--------------------------------------------------------------------------------
Route == Dispose \/ RouteFails \/ Admit \/ HoldBack
Send == SendSucceeds \/ SendFails \/ AnswerLost
Processor == (\E e \in Event : Claim(e)) \/ Route \/ Send \/ Settle \/ Retry \/ GiveUp
Retention == PurgeProcessed \/ PurgeDead \/ PurgeDedupe

Next == \/ Offer
        \/ Processor
        \/ \E d \in DeadId : Replay(d)
        \/ Retention
        \/ Crash
        \/ Tick

Spec == Init /\ [][Next]_vars

\* The loop of StartProcessor never stops, every consumer.Send ends (assumed of
\* the Telegram API, which is called without a timeout), and time passes.
\* Strong fairness for the way past the destination limit: the limit is a
\* window that empties while the event waits.
Fairness == /\ WF_vars(Processor)
            /\ SF_vars(Dispose \/ RouteFails \/ Admit)
            /\ WF_vars(Tick)

FairSpec == Spec /\ Fairness

--------------------------------------------------------------------------------
(* Properties.                                                              *)

\* Every table, the processor and the history have the shape the code gives
\* them; the column of an absent row is not left behind.
TypeOK ==
    /\ pending \in SUBSET Event
    /\ due \in [Event -> Int] /\ retry \in [Event -> 0 .. MaxRetries]
    /\ processed \in SUBSET Event /\ processedAge \in [Event -> Nat]
    /\ dead \in [DeadId -> Event \cup {NoEvent}] /\ deadAge \in [DeadId -> Nat]
    /\ deadSeq \in 0 .. MaxDead
    /\ dedupe \in SUBSET Key /\ dedupeAge \in [Key -> Nat]
    /\ pc \in {"idle", "claimed", "send", "settle", "failed"}
    /\ job \in [event : Event \cup {NoEvent}, retry : 0 .. MaxRetries]
    /\ (pc = "idle") <=> (job.event = NoEvent)
    /\ delivered \in BOOLEAN
    /\ accepted \in SUBSET Event /\ disposed \in SUBSET Event
    /\ abandoned \in SUBSET (Event \cup {NoEvent})
    /\ sends \in [Event -> Nat] /\ excuse \in [Event -> Nat]
    /\ strikes \in [Event -> Nat] /\ sinceAccept \in [Key -> Nat]
    /\ offers \in [Event -> Nat] /\ faults \in Nat
    /\ crashes \in Nat /\ replays \in Nat

DeadEvents == {dead[d] : d \in DeadId} \ {NoEvent}

\* "Persistent queue (survives restarts)": an accepted event that has not
\* been delivered, filtered or digested is still in the queue or in the dead
\* letters, whatever crashed or failed, unless retention deleted its dead letter.
NoEventLost ==
    accepted \ disposed \subseteq pending \cup DeadEvents \cup abandoned

\* processed_events vouches for an outcome: the bridge never marks an event
\* processed (and so refuses it for ever) without having dealt with it.
ProcessedWasDisposed == processed \subseteq disposed

\* An event marked processed is never queued as well, so that neither the
\* claim query nor a replay can send what is known to be done.
ProcessedNotQueued == processed \cap pending = {}

\* While the processor works on an event its row is still in the queue: a
\* crash at any point loses nothing, and retry and dead-letter find the row.
ClaimKeepsRow == pc # "idle" => job.event \in pending

\* Every copy of an event beyond the first has a cause: an answer lost, a
\* crash or a failed acknowledgement after the send, or a processed row that
\* retention deleted while something could still bring the event back.
DuplicatesExplained == \A e \in Event : sends[e] <= 1 + excuse[e]

\* An event is dead-lettered only after maxDeliveryRetries + 1 failed attempts
\* of its own since its last dead letter, replays and redeliveries included.
DeadLetterEarned ==
    [][\A e \in Event :
          (deadSeq' # deadSeq /\ dead'[deadSeq'] = e) => strikes[e] >= MaxRetries]_vars

\* Media with one fingerprint is queued at most once per dedupe window, even
\* across failures, retention sweeps and the expiry inside recordMediaDedupe.
DedupeSpacing ==
    [][\A e \in Event, k \in Key, delay \in {0, QuietDelay} :
          Enqueue(e, k, delay) /\ pending' # pending => sinceAccept[k] > DedupeWindow]_vars

\* Every queued event leaves the queue: after a crash its lease runs out and it
\* is claimed again, and it is not retried or held back for ever.
QueueDrains == \A e \in Event : (e \in pending) ~> (e \notin pending)
================================================================================
