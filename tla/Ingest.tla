--------------------------------- MODULE Ingest ---------------------------------
(***************************************************************************)
(* The producers: how a message of one source becomes one pending event    *)
(* per accepted target.  The Telegram loop handles one update at a time;   *)
(* the client library fetches updates ahead of it and confirms to the      *)
(* server what it has fetched, not what was handled.  Discord's handlers   *)
(* run concurrently and their messages are delivered once.  Rules are read *)
(* once per message, then one event per target is stored, each in a        *)
(* transaction of its own, while admins change pairings and rules, and     *)
(* while the queue handles, gives up and forgets what was stored.          *)
(*                                                                         *)
(* The life of an event in the queue is DeliveryQueue's, burst counting is *)
(* Limits'.  Updates that wait are handled in any order.                   *)
(***************************************************************************)
EXTENDS Naturals

CONSTANTS
    Message,
    File, NoFile,
    Contents,    \* what the messages may carry: a file each, or none
    Target,
    Unlinked,    \* no pairing
    RuleSets,    \* the sets of rules that reject these messages
    Initial,     \* the pairings the source may have at the start
    MaxChanges,  \* bound: admin commands, events the queue gives up or forgets
    MaxFaults    \* bound: failed transactions and requests, restarts

Rule == {"filter", "tag", "spam", "file"}

\* A pairing: the rules that reject the messages at hand, and simulation_mode.
Pairing == [rejects : RuleSets, simulation : BOOLEAN]

ASSUME ConstantsAssumption ==
    /\ RuleSets \subseteq SUBSET Rule /\ {} \in RuleSets
    /\ Contents \subseteq [Message -> File \cup {NoFile}]
    /\ Initial \subseteq [Target -> Pairing \cup {Unlinked}]
    /\ MaxChanges \in Nat /\ MaxFaults \in Nat

VARIABLES
    platform,   \* of the source, never changed
    file,       \* the file each message carries, or none
    pairing,    \* table pairings of the source, by target
    at,         \* where each message is
    confirmed,  \* messages their platform will not deliver again
    read,       \* the pairings each message was checked against
    hash,       \* fileHash of the Telegram loop, NoFile if it could not be computed
    todo,       \* targets its handler has still to store an event for
    known,      \* <<message, target>> with a row in pending_events or processed_events
    media,      \* media_dedupe: <<file, target>> within the window
    \* history variables: how often each event was stored, how often the queue
    \* gave it up or forgot it, and <<message, target>> hit by a failure
    stored, forgotten, failed,
    changes, faults, crashes   \* counters of the bounds

source == <<platform, file>>
handlerVars == <<at, confirmed, read, hash, todo>>
storeVars == <<known, media, stored, forgotten>>
boundVars == <<changes, faults, crashes>>
vars == <<source, pairing, handlerVars, storeVars, failed, boundVars>>

Telegram == IF platform = "telegram" THEN Message ELSE {}
Discord == IF platform = "discord" THEN Message ELSE {}
NoPairings == [t \in Target |-> Unlinked]
Never == [m \in Message |-> [t \in Target |-> 0]]

Init ==
    /\ platform \in {"telegram", "discord"} /\ file \in Contents
    /\ pairing \in Initial
    /\ at = [m \in Message |-> "server"] /\ confirmed = {}
    /\ read = [m \in Message |-> NoPairings] /\ hash = [m \in Message |-> NoFile]
    /\ todo = [m \in Message |-> {}]
    /\ known = {} /\ media = {}
    /\ stored = Never /\ forgotten = Never /\ failed = {}
    /\ changes = 0 /\ faults = 0 /\ crashes = 0

Fault == faults + crashes < MaxFaults /\ faults' = faults + 1
NoFault == UNCHANGED faults

--------------------------------------------------------------------------------
(* Delivery by the platforms.                                               *)

\* One getUpdates of the library: its offset confirms all that was fetched
\* before, handled or not.
FetchUpdates(M) ==
    /\ M \subseteq {m \in Telegram : at[m] = "server"}
    /\ at' = [m \in Message |-> IF m \in M THEN "buffer" ELSE at[m]]
    /\ confirmed' = confirmed \cup {m \in Telegram : at[m] # "server"}
    /\ UNCHANGED <<source, pairing, read, hash, todo, storeVars, failed, boundVars>>

\* The gateway starts a handler goroutine and keeps nothing.
Dispatch(m) ==
    /\ m \in Discord /\ at[m] = "server"
    /\ at' = [at EXCEPT ![m] = "buffer"]
    /\ confirmed' = confirmed \cup {m}
    /\ UNCHANGED <<source, pairing, read, hash, todo, storeVars, failed, boundVars>>

--------------------------------------------------------------------------------
(* The handlers: Producer.Start and handleMessageCreate.                    *)

\* The Telegram loop takes its next update when it is done with the last one.
Free(m) == /\ at[m] = "buffer"
           /\ m \in Telegram => \A o \in Telegram : at[o] \notin {"resolving", "storing"}

Text(m) == file[m] = NoFile
Applicable(m) == IF Text(m) THEN {"filter", "tag"} ELSE Rule

\* The rules of t that reject m; full holds the targets over their burst limit.
Rejecting(m, t, full) ==
    (pairing[t].rejects \cap Applicable(m)) \ (IF t \in full THEN {} ELSE {"spam"})

\* Mutant: only the rule checked last decides.
Accepted_LastRule(m, full) ==
    {t \in Target : /\ pairing[t] # Unlinked
                    /\ \/ pairing[t].simulation
                       \/ "file" \notin Rejecting(m, t, full)}
Accepted(m, full) ==
    {t \in Target : /\ pairing[t] # Unlinked
                    /\ pairing[t].simulation \/ Rejecting(m, t, full) = {}}

\* Telegram's loop asks for the file before it stores anything.
AfterCheck(m, accepted) == IF accepted = {} THEN "done"
                           ELSE IF m \in Telegram THEN "resolving" ELSE "storing"

\* GetPairingsBySource, then every rule of every target on what was read.
CheckRules(m) ==
    /\ Free(m)
    /\ m \in Telegram => ~Text(m)
    /\ \E full \in SUBSET Target :
        /\ todo' = [todo EXCEPT ![m] = Accepted(m, full)]
        /\ at' = [at EXCEPT ![m] = AfterCheck(m, Accepted(m, full))]
    /\ read' = [read EXCEPT ![m] = pairing]
    /\ UNCHANGED <<source, pairing, confirmed, hash, storeVars, failed, boundVars>>

\* The source is over its rate limit, its pairings could not be read, or a
\* Telegram message has no file.
Refuse(m) ==
    /\ Free(m)
    /\ at' = [at EXCEPT ![m] = "done"]
    /\ read' = [read EXCEPT ![m] = NoPairings]
    /\ UNCHANGED <<source, pairing, confirmed, hash, todo, storeVars, failed, boundVars>>

\* GetFileDirectURL: without a URL no target is served.  computeRemoteFileHash:
\* without a hash the file is not compared with earlier ones.
ResolveFile(m) ==
    /\ at[m] = "resolving"
    /\ \/ /\ at' = [at EXCEPT ![m] = "storing"]
          /\ \E h \in {file[m], NoFile} : hash' = [hash EXCEPT ![m] = h]
          /\ UNCHANGED <<todo, failed, faults>>
       \/ /\ Fault
          /\ at' = [at EXCEPT ![m] = "done"]
          /\ todo' = [todo EXCEPT ![m] = {}]
          /\ failed' = failed \cup ({m} \X todo[m])
          /\ UNCHANGED hash
    /\ UNCHANGED <<source, pairing, confirmed, read, storeVars, changes, crashes>>

\* The hash an event for m may have: Discord's handler computes it per target.
Hashes(m) == IF m \in Telegram THEN {hash[m]} ELSE {file[m], NoFile}

\* Mutant: the loop over the targets ends at the first failure.
Rest_StopOnFailure(m, t, ok) == IF ok THEN todo[m] \ {t} ELSE {}
\* The targets still to serve once t was tried.
Rest(m, t, ok) == todo[m] \ {t}

\* Mutant: the handler does not end.
AfterStore_Forever(m, rest) == "storing"
AfterStore(m, rest) == IF rest = {} THEN "done" ELSE "storing"

Serve(m, t, ok) ==
    /\ at[m] = "storing" /\ t \in todo[m]
    /\ todo' = [todo EXCEPT ![m] = Rest(m, t, ok)]
    /\ at' = [at EXCEPT ![m] = AfterStore(m, Rest(m, t, ok))]
    /\ UNCHANGED <<source, pairing, confirmed, read, hash, forgotten, changes, crashes>>

\* Mutant: the id is not looked up.
Known_Never(m, t) == FALSE
\* The deterministic id of m and t is in pending_events or processed_events.
Known(m, t) == <<m, t>> \in known

Fingerprint(h, t) == IF h = NoFile THEN {} ELSE {<<h, t>>}
\* recordMediaDedupe finds the fingerprint, and the transaction is rolled back.
Seen(h, t) == Fingerprint(h, t) \cap media # {}

\* EnqueuePendingEvent stores the event and the file's fingerprint.
Enqueue(m, t) ==
    /\ Serve(m, t, TRUE)
    /\ ~Known(m, t)
    /\ \E h \in Hashes(m) :
        /\ ~Seen(h, t)
        /\ media' = media \cup Fingerprint(h, t)
    /\ known' = known \cup {<<m, t>>}
    /\ stored' = [stored EXCEPT ![m][t] = @ + 1]
    /\ UNCHANGED <<failed, faults>>

\* It finds the id or the fingerprint and stores nothing.  An id that is pending
\* yet lets a fingerprint that has expired be recorded anew.
Skip(m, t) ==
    /\ Serve(m, t, TRUE)
    /\ \E h \in Hashes(m) :
        \/ Seen(h, t) /\ UNCHANGED media
        \/ Known(m, t) /\ media' \in {media, media \cup Fingerprint(h, t)}
    /\ UNCHANGED <<known, stored, failed, faults>>

\* Mutant: the fingerprint is recorded in a transaction of its own.
Rollback_ButMedia(m, t) ==
    \E h \in Hashes(m) : media' = media \cup Fingerprint(h, t)
Rollback(m, t) == UNCHANGED media

\* EnqueuePendingEvent returns an error.
EnqueueFails(m, t) ==
    /\ Serve(m, t, FALSE)
    /\ Fault
    /\ Rollback(m, t)
    /\ failed' = failed \cup {<<m, t>>}
    /\ UNCHANGED <<known, stored>>

\* The handler tells event_history of a duplicate.  The Telegram loop logs the
\* error of an enqueue instead, the Discord handler ignores it.
Skipped(m, t) == Skip(m, t) \/ (m \in Discord /\ EnqueueFails(m, t))

--------------------------------------------------------------------------------
(* The queue, as far as an enqueue sees it.                                 *)

\* The event is dead-lettered, or was processed and retention forgets it.
Forget(m, t) ==
    /\ <<m, t>> \in known
    /\ changes < MaxChanges
    /\ changes' = changes + 1
    /\ known' = known \ {<<m, t>>}
    /\ forgotten' = [forgotten EXCEPT ![m][t] = @ + 1]
    /\ UNCHANGED <<source, pairing, handlerVars, media, stored, failed, faults, crashes>>

\* ReplayDeadLetter.
Replay(m, t) ==
    /\ forgotten[m][t] > 0
    /\ known' = known \cup {<<m, t>>}
    /\ UNCHANGED <<source, pairing, handlerVars, media, stored, forgotten, failed,
                   boundVars>>

\* A fingerprint leaves the dedupe window.
Expire(print) ==
    /\ print \in media
    /\ media' = media \ {print}
    /\ UNCHANGED <<source, pairing, handlerVars, known, stored, forgotten, failed,
                   boundVars>>

--------------------------------------------------------------------------------
(* Admin commands and restarts.                                             *)

\* LinkChannel keeps the rules of a pairing that exists.
Link(t) == pairing' = IF pairing[t] = Unlinked
                      THEN [pairing EXCEPT ![t] = [rejects |-> {}, simulation |-> FALSE]]
                      ELSE pairing

Unlink(t) == pairing' = [pairing EXCEPT ![t] = Unlinked]

\* UpdateRuleConfig changes no row, and reports no error, without a pairing.
SetRule(t) == IF pairing[t] = Unlinked THEN UNCHANGED pairing
              ELSE \E c \in Pairing : pairing' = [pairing EXCEPT ![t] = c]

Admin ==
    /\ changes < MaxChanges
    /\ changes' = changes + 1
    /\ \E t \in Target : Link(t) \/ Unlink(t) \/ SetRule(t)
    /\ UNCHANGED <<source, handlerVars, storeVars, failed, faults, crashes>>

\* After a restart the server delivers again what was not confirmed.
AfterCrash(m) == IF m \notin confirmed THEN "server"
                 ELSE IF at[m] = "done" THEN "done" ELSE "lost"

Crash ==
    /\ faults + crashes < MaxFaults
    /\ crashes' = crashes + 1
    /\ at' = [m \in Message |-> AfterCrash(m)]
    /\ todo' = [m \in Message |-> {}]
    /\ UNCHANGED <<source, pairing, confirmed, read, hash, storeVars, failed, changes,
                   faults>>

--------------------------------------------------------------------------------
Handler(m) == CheckRules(m) \/ Refuse(m) \/ ResolveFile(m)
              \/ \E t \in Target : Enqueue(m, t) \/ Skip(m, t) \/ EnqueueFails(m, t)

Queue == \/ \E m \in Message, t \in Target : Forget(m, t) \/ Replay(m, t)
         \/ \E print \in media : Expire(print)

Next == \/ \E M \in SUBSET Telegram : FetchUpdates(M)
        \/ \E m \in Message : Dispatch(m) \/ Handler(m)
        \/ Queue
        \/ Admin
        \/ Crash

Spec == Init /\ [][Next]_vars

\* The library polls for ever, the gateway delivers, and a handler goes on: its
\* requests end in an answer or an error.
FairSpec ==
    /\ Spec
    /\ WF_vars(FetchUpdates({m \in Telegram : at[m] = "server"}))
    /\ \A m \in Message : WF_vars(Dispatch(m)) /\ WF_vars(Handler(m))

--------------------------------------------------------------------------------
\* The tables and the handlers' state have the shape the code gives them; a
\* handler that is storing has targets left, and no other has.
TypeOK ==
    /\ platform \in {"telegram", "discord"} /\ file \in Contents
    /\ pairing \in [Target -> Pairing \cup {Unlinked}]
    /\ at \in [Message -> {"server", "buffer", "resolving", "storing", "done", "lost"}]
    /\ confirmed \subseteq Message
    /\ read \in [Message -> [Target -> Pairing \cup {Unlinked}]]
    /\ \A m \in Message : hash[m] \in {file[m], NoFile}
    /\ todo \in [Message -> SUBSET Target]
    /\ \A m \in Message : at[m] \in {"resolving", "storing"} <=> todo[m] # {}
    /\ known \subseteq Message \X Target
    /\ stored \in [Message -> [Target -> Nat]] /\ forgotten \in [Message -> [Target -> Nat]]
    /\ failed \subseteq Message \X Target

\* An event was stored for the target with m, or with a message with m's file.
Served(m, t) == \E o \in Message : /\ stored[o][t] > 0
                                   /\ o = m \/ (file[o] = file[m] /\ ~Text(m))

\* Every target whose rules let a message pass, or only simulate, has been
\* stored its event, or one with the same file, once the handler is through,
\* whatever the other targets' rules and failures and the other messages'
\* handlers were: only its own transaction or the file's URL may have failed.
FanOutComplete ==
    \A m \in Message, t \in Target :
        /\ at[m] = "done"
        /\ read[m][t] # Unlinked
        /\ read[m][t].simulation \/ read[m][t].rejects = {}
        => Served(m, t) \/ <<m, t>> \in failed

\* An event is only ever stored for a target that was linked when the rules
\* were read and that rejected the message at most in simulation or by its
\* burst limit.
OnlyAccepted ==
    [][\A m \in Message, t \in Target :
           stored'[m][t] > stored[m][t] =>
               /\ read[m][t] # Unlinked
               /\ \/ read[m][t].simulation
                  \/ read[m][t].rejects \cap Applicable(m) \subseteq {"spam"}]_vars

\* One event is stored twice only when two things come together: a restart made
\* Telegram deliver the update again, and the queue had given the event up or
\* forgotten it meanwhile.  Discord's events are never stored again.
StoredAgainExplained ==
    \A m \in Message, t \in Target :
        /\ stored[m][t] <= 1 + forgotten[m][t]
        /\ stored[m][t] <= 1 + IF m \in Telegram THEN crashes ELSE 0

\* Every message is handled in the end, or lost in a restart, although one
\* update waits for the other in the Telegram loop.
EventuallyHandled == \A m \in Message : <>[](at[m] \in {"done", "lost"})

\* producer.go:126 records "duplicate event detected": a message is reported as
\* skipped only if its event, or its file, was stored for the target.
SkippedIsDuplicate ==
    [][\A m \in Message, t \in Target : Skipped(m, t) => Served(m, t)]_vars
================================================================================
