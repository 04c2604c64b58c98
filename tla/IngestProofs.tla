------------------------------ MODULE IngestProofs ------------------------------
(***************************************************************************)
(* Proofs about Ingest for any messages, files, targets and rules, any     *)
(* number of admin commands, failures and restarts.                        *)
(***************************************************************************)
EXTENDS Ingest, TLAPS

USE DEF source, handlerVars, storeVars, boundVars, vars

\* The pairing read for m and t lets the message pass, or only simulates.
Passes(m, t) == /\ read[m][t] # Unlinked
                /\ read[m][t].simulation \/ read[m][t].rejects = {}

\* What a handler has still to do covers the targets whose rules pass it.
NoneForgotten ==
    \A m \in Message, t \in Target :
        at[m] \in {"resolving", "storing"} /\ Passes(m, t) =>
            t \in todo[m] \/ Served(m, t) \/ <<m, t>> \in failed

MayStore(m, t) ==
    /\ read[m][t] # Unlinked
    /\ \/ read[m][t].simulation
       \/ read[m][t].rejects \cap Applicable(m) \subseteq {"spam"}

\* A handler has nothing to do for a target that rejected its message.
OnlyPassing == \A m \in Message, t \in Target : t \in todo[m] => MayStore(m, t)

\* What the tables remember, or have forgotten, was stored: the id of an event,
\* the file of a fingerprint.  A transaction that fails leaves neither behind.
TablesTell ==
    /\ \A m \in Message, t \in Target :
           <<m, t>> \in known \/ forgotten[m][t] > 0 => stored[m][t] > 0
    /\ \A m \in Message, t \in Target :
           ~Text(m) /\ <<file[m], t>> \in media => Served(m, t)

\* The times an event was stored that the queue has not forgotten, and the times
\* it may be stored in the deliveries that have begun or are due.
Remembered(m, t) == IF <<m, t>> \in known THEN 1 ELSE 0
Chance(m, t) == IF \/ at[m] \in {"server", "buffer"}
                   \/ at[m] \in {"resolving", "storing"} /\ t \in todo[m]
                THEN 1 ELSE 0
Deliveries(m) == 1 + IF m \in Telegram THEN crashes ELSE 0
StoredCounted ==
    \A m \in Message, t \in Target :
        /\ stored[m][t] <= forgotten[m][t] + Remembered(m, t)
        /\ stored[m][t] + Chance(m, t) <= Deliveries(m)

\* A Discord message that was dispatched is not delivered again.
DispatchedOnce == \A m \in Discord : at[m] # "server" => m \in confirmed

TypesOK == TypeOK /\ crashes \in Nat
Fanned == NoneForgotten /\ FanOutComplete /\ OnlyPassing
IInv == TypesOK /\ Fanned /\ TablesTell /\ StoredCounted /\ DispatchedOnce

LEMMA InitInv == Init => IInv
<1> SUFFICES ASSUME Init PROVE IInv
  OBVIOUS
<1>1. TypesOK
  BY ConstantsAssumption DEF Init, TypesOK, TypeOK, NoPairings, Never, ConstantsAssumption
<1>2. Fanned
  BY DEF Init, Fanned, NoneForgotten, FanOutComplete, OnlyPassing
<1>3. TablesTell /\ DispatchedOnce
  BY DEF Init, TablesTell, DispatchedOnce, Discord
<1>4. StoredCounted
  BY DEF Init, StoredCounted, Never, Remembered, Chance, Deliveries
<1>5. QED
  BY <1>1, <1>2, <1>3, <1>4 DEF IInv

--------------------------------------------------------------------------------
(* Frames: what a step leaves of the invariant that it does not touch.      *)

\* Events are only ever added to what was stored.
LEMMA ServedStays ==
    ASSUME TypesOK, UNCHANGED source,
           stored' \in [Message -> [Target -> Nat]],
           \A m \in Message, t \in Target : stored'[m][t] >= stored[m][t],
           NEW m \in Message, NEW t \in Target, Served(m, t)
    PROVE  Served(m, t)'
<1>1. PICK o \in Message : /\ stored[o][t] > 0
                           /\ o = m \/ (file[o] = file[m] /\ ~Text(m))
  BY DEF Served
<1>2. stored[o][t] \in Nat /\ stored'[o][t] \in Nat /\ stored'[o][t] >= stored[o][t]
  BY DEF TypesOK, TypeOK
<1>3. stored'[o][t] > 0
  BY <1>1, <1>2
<1>4. QED
  BY <1>1, <1>3 DEF Served, Text

\* Handlers that do not move leave the fan-out as it is.
LEMMA FannedStays ==
    ASSUME IInv, UNCHANGED <<source, read, stored>>, failed \subseteq failed',
           NEW m \in Message, todo'[m] = todo[m],
           at'[m] = at[m] \/ at'[m] \in {"server", "buffer", "lost"},
           NEW t \in Target
    PROVE  /\ at'[m] \in {"resolving", "storing"} /\ Passes(m, t)' =>
                  t \in todo'[m] \/ Served(m, t)' \/ <<m, t>> \in failed'
           /\ at'[m] = "done" /\ Passes(m, t)' => Served(m, t)' \/ <<m, t>> \in failed'
           /\ t \in todo'[m] => MayStore(m, t)'
BY DEF IInv, Fanned, NoneForgotten, FanOutComplete, OnlyPassing, Passes, MayStore, Served, Text,
       Applicable

\* The same for what was stored: a message that moves on gains no chance.
LEMMA CountedStays ==
    ASSUME IInv, UNCHANGED <<source, known, stored, forgotten, crashes>>,
           \A m \in Message, t \in Target : Chance(m, t)' <= Chance(m, t)
    PROVE  StoredCounted'
<1> SUFFICES ASSUME NEW m \in Message, NEW t \in Target
             PROVE  /\ stored[m][t] <= forgotten[m][t] + Remembered(m, t)
                    /\ stored[m][t] + Chance(m, t)' <= Deliveries(m)
  BY DEF StoredCounted, Remembered, Deliveries, Telegram
<1>1. /\ stored[m][t] \in Nat /\ Chance(m, t) \in Nat /\ Chance(m, t)' \in Nat
      /\ Deliveries(m) \in Nat
  BY DEF IInv, TypesOK, TypeOK, Chance, Deliveries
<1>2. QED
  BY <1>1 DEF IInv, StoredCounted

LEMMA TablesStay ==
    ASSUME IInv, UNCHANGED <<source, stored, forgotten>>, known' \subseteq known,
           media' \subseteq media
    PROVE  TablesTell'
BY DEF IInv, TablesTell, Served, Text

--------------------------------------------------------------------------------
(* Steps that only move messages, or change pairings.                       *)

LEMMA DeliveryStep ==
    ASSUME IInv,
           \/ \E M \in SUBSET Telegram : FetchUpdates(M)
           \/ \E m \in Message : Dispatch(m)
    PROVE  IInv'
<1>1. /\ UNCHANGED <<source, pairing, read, hash, todo, known, media, stored, forgotten,
                     failed, crashes>>
      /\ \A m \in Message : at'[m] = at[m] \/ (at[m] = "server" /\ at'[m] = "buffer")
      /\ at' \in [Message -> {"server", "buffer", "resolving", "storing", "done", "lost"}]
      /\ confirmed \subseteq confirmed' /\ confirmed' \subseteq Message
  BY DEF IInv, TypesOK, TypeOK, FetchUpdates, Dispatch, Telegram, Discord
<1>2. TypesOK'
  BY <1>1 DEF IInv, TypesOK, TypeOK
<1>3. Fanned'
  BY <1>1, FannedStays DEF Fanned, NoneForgotten, FanOutComplete, OnlyPassing, Passes
<1>4. TablesTell'
  BY <1>1, TablesStay
<1>5. StoredCounted'
  BY <1>1, CountedStays DEF Chance
<1>6. DispatchedOnce'
  <2>1. CASE \E M \in SUBSET Telegram : FetchUpdates(M)
    BY <1>1, <2>1 DEF FetchUpdates, IInv, DispatchedOnce, Telegram, Discord
  <2>2. CASE \E m \in Message : Dispatch(m)
    <3>1. PICK m \in Message : Dispatch(m)
      BY <2>2
    <3>2. \A o \in Message : o # m => at'[o] = at[o]
      BY <3>1 DEF Dispatch, IInv, TypesOK, TypeOK
    <3>3. m \in confirmed'
      BY <3>1 DEF Dispatch
    <3>4. QED
      BY <1>1, <3>2, <3>3 DEF IInv, DispatchedOnce, Discord
  <2>3. QED
    BY <2>1, <2>2
<1>7. QED
  BY <1>2, <1>3, <1>4, <1>5, <1>6 DEF IInv

LEMMA AdminStep == IInv /\ Admin => IInv'
<1> SUFFICES ASSUME IInv, Admin PROVE IInv'
  OBVIOUS
<1>1. UNCHANGED <<source, handlerVars, storeVars, failed, crashes>>
  BY DEF Admin
<1>2. pairing' \in [Target -> Pairing \cup {Unlinked}]
  <2>1. [rejects |-> {}, simulation |-> FALSE] \in Pairing
    BY ConstantsAssumption DEF ConstantsAssumption, Pairing
  <2>2. QED
    BY <2>1 DEF IInv, TypesOK, TypeOK, Admin, Link, Unlink, SetRule
<1>3. TypesOK'
  BY <1>1, <1>2 DEF IInv, TypesOK, TypeOK
<1>4. Fanned'
  BY <1>1, FannedStays DEF Fanned, NoneForgotten, FanOutComplete, OnlyPassing, Passes
<1>5. TablesTell'
  BY <1>1, TablesStay
<1>6. StoredCounted'
  BY <1>1, CountedStays DEF Chance
<1>7. DispatchedOnce'
  BY <1>1 DEF IInv, DispatchedOnce, Discord
<1>8. QED
  BY <1>3, <1>4, <1>5, <1>6, <1>7 DEF IInv

\* A restart is one more delivery of what was not confirmed, and the end of the rest.
LEMMA CrashStep == IInv /\ Crash => IInv'
<1> SUFFICES ASSUME IInv, Crash PROVE IInv'
  OBVIOUS
<1>1. /\ UNCHANGED <<source, pairing, confirmed, read, hash, known, media, stored, forgotten,
                     failed>>
      /\ \A m \in Message : at'[m] = IF m \notin confirmed THEN "server"
                                     ELSE IF at[m] = "done" THEN "done" ELSE "lost"
      /\ \A m \in Message : todo'[m] = {}
      /\ at' \in [Message -> {"server", "buffer", "resolving", "storing", "done", "lost"}]
      /\ todo' \in [Message -> SUBSET Target]
      /\ crashes' = crashes + 1 /\ crashes \in Nat
  BY DEF IInv, TypesOK, Crash, AfterCrash
<1>2. TypesOK'
  <2>1. \A m \in Message : at'[m] \notin {"resolving", "storing"} /\ todo'[m] = {}
    BY <1>1
  <2>2. QED
    BY <1>1, <2>1 DEF IInv, TypesOK, TypeOK
<1>3. Fanned'
  BY <1>1 DEF IInv, Fanned, NoneForgotten, FanOutComplete, OnlyPassing, Passes, Served, Text
<1>4. TablesTell'
  BY <1>1, TablesStay
<1>5. StoredCounted'
  <2> SUFFICES ASSUME NEW m \in Message, NEW t \in Target
               PROVE  /\ stored[m][t] <= forgotten[m][t] + Remembered(m, t)
                      /\ stored[m][t] + Chance(m, t)' <= Deliveries(m)'
    BY <1>1 DEF StoredCounted, Remembered
  <2>1. /\ stored[m][t] \in Nat /\ Chance(m, t) \in {0, 1} /\ Chance(m, t)' \in {0, 1}
        /\ Deliveries(m) \in Nat
        /\ stored[m][t] <= forgotten[m][t] + Remembered(m, t)
        /\ stored[m][t] + Chance(m, t) <= Deliveries(m)
    BY DEF IInv, TypesOK, TypeOK, Chance, Deliveries, StoredCounted
  <2>2. CASE m \in Telegram
    <3>1. Deliveries(m)' = Deliveries(m) + 1
      BY <1>1, <2>2 DEF Deliveries, Telegram
    <3>2. QED
      BY <2>1, <3>1
  <2>3. CASE m \notin Telegram
    <3>1. Deliveries(m)' = Deliveries(m) /\ m \in Discord
      BY <1>1, <2>3 DEF Deliveries, Telegram, Discord, IInv, TypesOK, TypeOK
    <3>2. CASE m \in confirmed
      <4>1. Chance(m, t)' = 0
        BY <1>1, <3>2 DEF Chance
      <4>2. QED
        BY <2>1, <3>1, <4>1
    <3>3. CASE m \notin confirmed
      <4>1. Chance(m, t) = 1
        BY <3>1, <3>3 DEF IInv, DispatchedOnce, Chance
      <4>2. QED
        BY <2>1, <3>1, <4>1
    <3>4. QED
      BY <3>2, <3>3
  <2>4. QED
    BY <2>2, <2>3
<1>6. DispatchedOnce'
  BY <1>1 DEF IInv, DispatchedOnce, Discord
<1>7. QED
  BY <1>2, <1>3, <1>4, <1>5, <1>6 DEF IInv

--------------------------------------------------------------------------------
(* The handlers.                                                            *)

\* A handler that takes a message on, or turns it down, stores nothing.
LEMMA HandlerFrame ==
    ASSUME IInv, UNCHANGED <<source, pairing, confirmed, storeVars, crashes>>,
           NEW m \in Message, at[m] \notin {"server", "done", "lost"},
           at'[m] \in {"resolving", "storing", "done"},
           at[m] = "buffer" \/ todo'[m] \subseteq todo[m],
           \A o \in Message \ {m} : at'[o] = at[o] /\ todo'[o] = todo[o]
    PROVE  TablesTell' /\ StoredCounted' /\ DispatchedOnce'
<1>1. TablesTell'
  BY TablesStay
<1>2. ASSUME NEW o \in Message, NEW t \in Target PROVE Chance(o, t)' <= Chance(o, t)
  <2>1. CASE o = m
    BY <2>1 DEF Chance, IInv, TypesOK, TypeOK
  <2>2. CASE o # m
    BY <2>2 DEF Chance
  <2>3. QED
    BY <2>1, <2>2
<1>3. StoredCounted'
  BY <1>2, CountedStays
<1>4. DispatchedOnce'
  BY DEF IInv, DispatchedOnce, Discord
<1>5. QED
  BY <1>1, <1>3, <1>4

\* The rules are checked: what is accepted passes, and all that passes is.
LEMMA CheckRulesStep == \A m \in Message : IInv /\ CheckRules(m) => IInv'
<1> SUFFICES ASSUME NEW m \in Message, IInv, CheckRules(m) PROVE IInv'
  OBVIOUS
<1>1. PICK full \in SUBSET Target :
        /\ todo' = [todo EXCEPT ![m] = Accepted(m, full)]
        /\ at' = [at EXCEPT ![m] = AfterCheck(m, Accepted(m, full))]
  BY DEF CheckRules
<1>2. /\ UNCHANGED <<source, pairing, confirmed, hash, storeVars, failed, boundVars>>
      /\ read' = [read EXCEPT ![m] = pairing] /\ at[m] = "buffer"
  BY DEF CheckRules, Free
<1>3. /\ Accepted(m, full) = {} => at'[m] = "done"
      /\ Accepted(m, full) # {} => at'[m] \in {"resolving", "storing"}
  BY <1>1 DEF IInv, TypesOK, TypeOK, AfterCheck
<1>4. Accepted(m, full) \subseteq Target
  BY DEF Accepted
<1>5. \A t \in Accepted(m, full) : MayStore(m, t)'
  BY <1>2 DEF IInv, TypesOK, TypeOK, Accepted, Rejecting, MayStore, Applicable, Text
<1>6. \A t \in Target : Passes(m, t)' => t \in Accepted(m, full)
  BY <1>2 DEF IInv, TypesOK, TypeOK, Accepted, Rejecting, Passes
<1>7. \A o \in Message \ {m} : at'[o] = at[o] /\ todo'[o] = todo[o] /\ read'[o] = read[o]
  BY <1>1, <1>2 DEF IInv, TypesOK, TypeOK
<1>8. todo'[m] = Accepted(m, full)
  BY <1>1 DEF IInv, TypesOK, TypeOK
<1>9. TypesOK'
  <2>1. /\ at' \in [Message -> {"server", "buffer", "resolving", "storing", "done", "lost"}]
        /\ read' \in [Message -> [Target -> Pairing \cup {Unlinked}]]
        /\ todo' \in [Message -> SUBSET Target]
    BY <1>1, <1>2, <1>3, <1>4 DEF IInv, TypesOK, TypeOK, AfterCheck
  <2>2. \A o \in Message : at'[o] \in {"resolving", "storing"} <=> todo'[o] # {}
    BY <1>3, <1>7, <1>8 DEF IInv, TypesOK, TypeOK
  <2>3. QED
    BY <1>2, <2>1, <2>2 DEF IInv, TypesOK, TypeOK
<1>10. Fanned'
  <2>1. \A o \in Message, t \in Target : Served(o, t)' <=> Served(o, t)
    BY <1>2 DEF Served, Text
  <2>2. NoneForgotten' /\ FanOutComplete'
    BY <1>2, <1>3, <1>6, <1>7, <1>8, <2>1
    DEF IInv, Fanned, NoneForgotten, FanOutComplete, Passes
  <2>3. OnlyPassing'
    BY <1>2, <1>5, <1>7, <1>8 DEF IInv, Fanned, OnlyPassing, MayStore, Applicable, Text
  <2>4. QED
    BY <2>2, <2>3 DEF Fanned
<1>11. TablesTell' /\ StoredCounted' /\ DispatchedOnce'
  BY <1>2, <1>3, <1>7, HandlerFrame
<1>12. QED
  BY <1>9, <1>10, <1>11 DEF IInv

LEMMA RefuseStep == \A m \in Message : IInv /\ Refuse(m) => IInv'
<1> SUFFICES ASSUME NEW m \in Message, IInv, Refuse(m) PROVE IInv'
  OBVIOUS
<1>1. /\ at[m] = "buffer" /\ at' = [at EXCEPT ![m] = "done"]
      /\ read' = [read EXCEPT ![m] = NoPairings]
      /\ UNCHANGED <<source, pairing, confirmed, hash, todo, storeVars, failed, boundVars>>
  BY DEF Refuse, Free
<1>2. NoPairings \in [Target -> Pairing \cup {Unlinked}]
      /\ \A t \in Target : NoPairings[t] = Unlinked
  BY DEF NoPairings
<1>3. todo[m] = {}
  BY <1>1 DEF IInv, TypesOK, TypeOK
<1>4. TypesOK'
  BY <1>1, <1>2, <1>3 DEF IInv, TypesOK, TypeOK
<1>5. /\ at'[m] = "done" /\ read'[m] = NoPairings
      /\ \A o \in Message \ {m} : at'[o] = at[o] /\ read'[o] = read[o]
  BY <1>1 DEF IInv, TypesOK, TypeOK
<1>6. Fanned'
  <2>1. \A o \in Message, t \in Target : Served(o, t)' <=> Served(o, t)
    BY <1>1 DEF Served, Text
  <2>2. QED
    BY <1>1, <1>2, <1>3, <1>5, <2>1
    DEF IInv, Fanned, NoneForgotten, FanOutComplete, OnlyPassing, Passes, MayStore, Applicable,
        Text
<1>7. TablesTell' /\ StoredCounted' /\ DispatchedOnce'
  BY <1>1, <1>5, HandlerFrame
<1>8. QED
  BY <1>4, <1>6, <1>7 DEF IInv

LEMMA ResolveFileStep == \A m \in Message : IInv /\ ResolveFile(m) => IInv'
<1> SUFFICES ASSUME NEW m \in Message, IInv, ResolveFile(m) PROVE IInv'
  OBVIOUS
<1>1. /\ at[m] = "resolving"
      /\ UNCHANGED <<source, pairing, confirmed, read, storeVars, changes, crashes>>
  BY DEF ResolveFile
<1>2. CASE /\ at' = [at EXCEPT ![m] = "storing"] /\ UNCHANGED <<todo, failed>>
           /\ \E h \in {file[m], NoFile} : hash' = [hash EXCEPT ![m] = h]
  <2>1. /\ at'[m] = "storing" /\ todo'[m] = todo[m]
        /\ \A o \in Message \ {m} : at'[o] = at[o] /\ todo'[o] = todo[o]
    BY <1>2 DEF IInv, TypesOK, TypeOK
  <2>2. TypesOK'
    BY <1>1, <1>2, <2>1 DEF IInv, TypesOK, TypeOK
  <2>3. Fanned'
    <3>1. \A o \in Message, t \in Target : Served(o, t)' <=> Served(o, t)
      BY <1>1 DEF Served, Text
    <3>2. QED
      BY <1>1, <1>2, <2>1, <3>1
      DEF IInv, Fanned, NoneForgotten, FanOutComplete, OnlyPassing, Passes, MayStore,
          Applicable, Text
  <2>4. TablesTell' /\ StoredCounted' /\ DispatchedOnce'
    BY <1>1, <2>1, HandlerFrame
  <2>5. QED
    BY <2>2, <2>3, <2>4 DEF IInv
<1>3. CASE /\ at' = [at EXCEPT ![m] = "done"] /\ todo' = [todo EXCEPT ![m] = {}]
           /\ failed' = failed \cup ({m} \X todo[m]) /\ UNCHANGED hash
  <2>1. /\ at'[m] = "done" /\ todo'[m] = {}
        /\ \A o \in Message \ {m} : at'[o] = at[o] /\ todo'[o] = todo[o]
    BY <1>3 DEF IInv, TypesOK, TypeOK
  <2>2. TypesOK'
    BY <1>1, <1>3, <2>1 DEF IInv, TypesOK, TypeOK
  <2>3. Fanned'
    <3>1. \A t \in Target : t \in todo[m] => <<m, t>> \in failed'
      BY <1>3
    <3>2. \A o \in Message, t \in Target : Served(o, t)' <=> Served(o, t)
      BY <1>1 DEF Served, Text
    <3>3. NoneForgotten' /\ FanOutComplete'
      BY <1>1, <1>3, <2>1, <3>1, <3>2
      DEF IInv, Fanned, NoneForgotten, FanOutComplete, Passes
    <3>4. OnlyPassing'
      BY <1>1, <2>1 DEF IInv, Fanned, OnlyPassing, MayStore, Applicable, Text
    <3>5. QED
      BY <3>3, <3>4 DEF Fanned
  <2>4. TablesTell' /\ StoredCounted' /\ DispatchedOnce'
    BY <1>1, <2>1, HandlerFrame
  <2>5. QED
    BY <2>2, <2>3, <2>4 DEF IInv
<1>4. QED
  BY <1>2, <1>3 DEF ResolveFile

\* A target is served or has failed, and its handler goes on with the others.
LEMMA ServeFrame ==
    ASSUME IInv, NEW m \in Message, NEW t \in Target, NEW ok, Serve(m, t, ok),
           known' \subseteq Message \X Target, failed \subseteq failed',
           failed' \subseteq Message \X Target,
           stored' \in [Message -> [Target -> Nat]],
           \A o \in Message, u \in Target : stored'[o][u] >= stored[o][u],
           Served(m, t)' \/ <<m, t>> \in failed'
    PROVE  TypesOK' /\ Fanned' /\ DispatchedOnce'
<1>1. /\ UNCHANGED <<source, pairing, confirmed, read, hash, forgotten, crashes>>
      /\ at[m] = "storing" /\ t \in todo[m]
      /\ todo' = [todo EXCEPT ![m] = todo[m] \ {t}]
      /\ at' = [at EXCEPT ![m] = AfterStore(m, todo[m] \ {t})]
  BY DEF Serve, Rest
<1>2. /\ todo'[m] = todo[m] \ {t}
      /\ at'[m] = IF todo[m] \ {t} = {} THEN "done" ELSE "storing"
      /\ \A o \in Message \ {m} : at'[o] = at[o] /\ todo'[o] = todo[o]
  BY <1>1 DEF IInv, TypesOK, TypeOK, AfterStore
<1>3. TypesOK'
  <2>1. /\ at' \in [Message -> {"server", "buffer", "resolving", "storing", "done", "lost"}]
        /\ todo' \in [Message -> SUBSET Target]
    BY <1>1 DEF IInv, TypesOK, TypeOK, AfterStore
  <2>2. \A o \in Message : at'[o] \in {"resolving", "storing"} <=> todo'[o] # {}
    BY <1>2 DEF IInv, TypesOK, TypeOK
  <2>3. QED
    BY <1>1, <2>1, <2>2 DEF IInv, TypesOK, TypeOK
<1>4. \A o \in Message, u \in Target : Served(o, u) => Served(o, u)'
  BY <1>1, ServedStays DEF IInv
<1>5. NoneForgotten'
  <2> SUFFICES ASSUME NEW o \in Message, NEW u \in Target,
                      at'[o] \in {"resolving", "storing"}, Passes(o, u)'
               PROVE  u \in todo'[o] \/ Served(o, u)' \/ <<o, u>> \in failed'
    BY DEF NoneForgotten
  <2>1. at[o] \in {"resolving", "storing"} /\ Passes(o, u)
    BY <1>1, <1>2 DEF Passes
  <2>2. u \in todo[o] \/ Served(o, u) \/ <<o, u>> \in failed
    BY <2>1 DEF IInv, Fanned, NoneForgotten
  <2>3. QED
    BY <1>2, <1>4, <2>2
<1>6. FanOutComplete'
  <2> SUFFICES ASSUME NEW o \in Message, NEW u \in Target, at'[o] = "done", Passes(o, u)'
               PROVE  Served(o, u)' \/ <<o, u>> \in failed'
    BY DEF FanOutComplete, Passes
  <2>1. Passes(o, u)
    BY <1>1 DEF Passes
  <2>2. CASE o = m
    <3>1. u = t \/ u \notin todo[m]
      BY <1>2, <2>2
    <3>2. u \in todo[m] \/ Served(m, u) \/ <<m, u>> \in failed
      BY <1>1, <2>1, <2>2 DEF IInv, Fanned, NoneForgotten
    <3>3. QED
      BY <1>4, <2>2, <3>1, <3>2
  <2>3. CASE o # m
    <3>1. Served(o, u) \/ <<o, u>> \in failed
      BY <1>2, <2>1, <2>3 DEF IInv, Fanned, FanOutComplete, Passes
    <3>2. QED
      BY <1>4, <3>1
  <2>4. QED
    BY <2>2, <2>3
<1>7. OnlyPassing'
  BY <1>1, <1>2 DEF IInv, Fanned, OnlyPassing, MayStore, Applicable, Text
<1>8. DispatchedOnce'
  BY <1>1, <1>2 DEF IInv, DispatchedOnce, Discord
<1>9. QED
  BY <1>3, <1>5, <1>6, <1>7, <1>8 DEF Fanned

\* The target it tried is not tried again in this delivery.
LEMMA ServeChance ==
    ASSUME IInv, NEW m \in Message, NEW t \in Target, NEW ok, Serve(m, t, ok)
    PROVE  /\ \A o \in Message, u \in Target : Chance(o, u)' <= Chance(o, u)
           /\ Chance(m, t) = 1 /\ Chance(m, t)' = 0
<1>1. /\ at[m] = "storing" /\ t \in todo[m] /\ todo'[m] = todo[m] \ {t}
      /\ at'[m] \in {"done", "storing"}
      /\ \A o \in Message \ {m} : at'[o] = at[o] /\ todo'[o] = todo[o]
  BY DEF Serve, Rest, IInv, TypesOK, TypeOK, AfterStore
<1>2. Chance(m, t) = 1 /\ Chance(m, t)' = 0
  BY <1>1 DEF Chance
<1>3. ASSUME NEW o \in Message, NEW u \in Target PROVE Chance(o, u)' <= Chance(o, u)
  <2>1. CASE o = m
    BY <1>1, <2>1 DEF Chance
  <2>2. CASE o # m
    BY <1>1, <2>2 DEF Chance
  <2>3. QED
    BY <2>1, <2>2
<1>4. QED
  BY <1>2, <1>3

\* A fingerprint that is recorded is that of a message served by then.
LEMMA FingerprintTells ==
    ASSUME IInv, UNCHANGED source,
           NEW m \in Message, NEW t \in Target, NEW h \in Hashes(m),
           media' \subseteq media \cup Fingerprint(h, t), Served(m, t)',
           stored' \in [Message -> [Target -> Nat]],
           \A o \in Message, u \in Target : stored'[o][u] >= stored[o][u],
           NEW o \in Message, NEW u \in Target, ~Text(o), <<file[o], u>> \in media'
    PROVE  Served(o, u)'
<1>1. CASE <<file[o], u>> \in media
  <2>1. Served(o, u)
    BY <1>1 DEF IInv, TablesTell
  <2>2. QED
    BY <2>1, ServedStays DEF IInv
<1>2. CASE <<file[o], u>> \notin media
  <2>1. <<file[o], u>> \in Fingerprint(h, t)
    BY <1>2
  <2>2. file[o] = h /\ u = t /\ h # NoFile
    BY <2>1 DEF Fingerprint
  <2>3. h \in {file[m], NoFile}
    BY DEF Hashes, IInv, TypesOK, TypeOK
  <2>4. file[o] = file[m]
    BY <2>2, <2>3
  <2>5. QED
    BY <2>2, <2>4 DEF Served, Text
<1>3. QED
  BY <1>1, <1>2

\* The file of a message that is skipped, or its id, was stored before.
LEMMA SeenServed ==
    ASSUME IInv, NEW m \in Message, NEW t \in Target, NEW h \in Hashes(m),
           Seen(h, t) \/ Known(m, t)
    PROVE  Served(m, t)
<1>1. CASE Seen(h, t)
  <2>1. h \in {file[m], NoFile} /\ h # NoFile /\ <<h, t>> \in media
    BY <1>1 DEF Seen, Fingerprint, Hashes, IInv, TypesOK, TypeOK
  <2>2. ~Text(m) /\ <<file[m], t>> \in media
    BY <2>1 DEF Text
  <2>3. QED
    BY <2>2 DEF IInv, TablesTell
<1>2. CASE Known(m, t)
  BY <1>2 DEF Known, IInv, TablesTell, Served
<1>3. QED
  BY <1>1, <1>2

LEMMA EnqueueStep == \A m \in Message, t \in Target : IInv /\ Enqueue(m, t) => IInv'
<1> SUFFICES ASSUME NEW m \in Message, NEW t \in Target, IInv, Enqueue(m, t) PROVE IInv'
  OBVIOUS
<1>1. /\ Serve(m, t, TRUE) /\ <<m, t>> \notin known
      /\ known' = known \cup {<<m, t>>}
      /\ stored' = [stored EXCEPT ![m][t] = @ + 1]
      /\ UNCHANGED <<source, forgotten, failed, crashes>>
  BY DEF Enqueue, Known, Serve
<1>2. PICK h \in Hashes(m) : media' = media \cup Fingerprint(h, t)
  BY DEF Enqueue
<1>3. /\ stored' \in [Message -> [Target -> Nat]]
      /\ stored'[m][t] = stored[m][t] + 1 /\ stored[m][t] \in Nat
      /\ \A o \in Message, u \in Target : <<o, u>> # <<m, t>> => stored'[o][u] = stored[o][u]
  BY <1>1 DEF IInv, TypesOK, TypeOK
<1>4. \A o \in Message, u \in Target : stored'[o][u] >= stored[o][u]
  BY <1>3 DEF IInv, TypesOK, TypeOK
<1>5. Served(m, t)'
  BY <1>3 DEF Served
<1>6. TypesOK' /\ Fanned' /\ DispatchedOnce'
  <2>1. known' \subseteq Message \X Target /\ failed \subseteq failed'
        /\ failed' \subseteq Message \X Target
    BY <1>1 DEF IInv, TypesOK, TypeOK
  <2>2. QED
    BY <1>1, <1>3, <1>4, <1>5, <2>1, ServeFrame
<1>7. TablesTell'
  <2>1. ASSUME NEW o \in Message, NEW u \in Target, <<o, u>> \in known' \/ forgotten'[o][u] > 0
        PROVE  stored'[o][u] > 0
    BY <1>1, <1>3, <2>1 DEF IInv, TablesTell
  <2>2. \A o \in Message, u \in Target :
            ~Text(o) /\ <<file[o], u>> \in media' => Served(o, u)'
    BY <1>1, <1>2, <1>3, <1>4, <1>5, FingerprintTells
  <2>3. QED
    BY <1>1, <2>1, <2>2 DEF TablesTell, Text
<1>8. StoredCounted'
  <2> SUFFICES ASSUME NEW o \in Message, NEW u \in Target
               PROVE  /\ stored'[o][u] <= forgotten[o][u] + Remembered(o, u)'
                      /\ stored'[o][u] + Chance(o, u)' <= Deliveries(o)
    BY <1>1 DEF StoredCounted, Deliveries, Telegram
  <2>1. /\ stored[o][u] \in Nat /\ forgotten[o][u] \in Nat /\ Deliveries(o) \in Nat
        /\ Chance(o, u) \in Nat /\ Chance(o, u)' \in Nat
        /\ stored[o][u] <= forgotten[o][u] + Remembered(o, u)
        /\ stored[o][u] + Chance(o, u) <= Deliveries(o)
    BY DEF IInv, TypesOK, TypeOK, Chance, Deliveries, StoredCounted
  <2>2. Chance(o, u)' <= Chance(o, u) /\ Chance(m, t) = 1 /\ Chance(m, t)' = 0
    BY <1>1, ServeChance
  <2>3. CASE <<o, u>> = <<m, t>>
    <3>1. Remembered(m, t) = 0 /\ Remembered(m, t)' = 1
      BY <1>1 DEF Remembered
    <3>2. QED
      BY <1>3, <2>1, <2>2, <2>3, <3>1
  <2>4. CASE <<o, u>> # <<m, t>>
    <3>1. Remembered(o, u)' = Remembered(o, u) /\ stored'[o][u] = stored[o][u]
      BY <1>1, <1>3, <2>4 DEF Remembered
    <3>2. QED
      BY <2>1, <2>2, <3>1
  <2>5. QED
    BY <2>3, <2>4
<1>9. QED
  BY <1>6, <1>7, <1>8 DEF IInv

LEMMA SkipStep == \A m \in Message, t \in Target : IInv /\ Skip(m, t) => IInv'
<1> SUFFICES ASSUME NEW m \in Message, NEW t \in Target, IInv, Skip(m, t) PROVE IInv'
  OBVIOUS
<1>1. /\ Serve(m, t, TRUE)
      /\ UNCHANGED <<source, known, stored, forgotten, failed, crashes>>
  BY DEF Skip, Serve
<1>2. PICK h \in Hashes(m) : /\ Seen(h, t) \/ Known(m, t)
                             /\ media' \subseteq media \cup Fingerprint(h, t)
  BY DEF Skip
<1>3. /\ stored' \in [Message -> [Target -> Nat]]
      /\ \A o \in Message, u \in Target : stored'[o][u] >= stored[o][u]
  BY <1>1 DEF IInv, TypesOK, TypeOK
<1>4. Served(m, t)'
  <2>1. Served(m, t)
    BY <1>2, SeenServed
  <2>2. QED
    BY <1>1, <2>1 DEF Served, Text
<1>5. TypesOK' /\ Fanned' /\ DispatchedOnce'
  <2>1. known' \subseteq Message \X Target /\ failed \subseteq failed'
        /\ failed' \subseteq Message \X Target
    BY <1>1 DEF IInv, TypesOK, TypeOK
  <2>2. QED
    BY <1>1, <1>3, <1>4, <2>1, ServeFrame
<1>6. TablesTell'
  <2>1. \A o \in Message, u \in Target :
            ~Text(o) /\ <<file[o], u>> \in media' => Served(o, u)'
    BY <1>1, <1>2, <1>3, <1>4, FingerprintTells
  <2>2. QED
    BY <1>1, <2>1 DEF IInv, TablesTell, Text
<1>7. StoredCounted'
  BY <1>1, ServeChance, CountedStays
<1>8. QED
  BY <1>5, <1>6, <1>7 DEF IInv

LEMMA EnqueueFailsStep == \A m \in Message, t \in Target : IInv /\ EnqueueFails(m, t) => IInv'
<1> SUFFICES ASSUME NEW m \in Message, NEW t \in Target, IInv, EnqueueFails(m, t) PROVE IInv'
  OBVIOUS
<1>1. /\ Serve(m, t, FALSE) /\ failed' = failed \cup {<<m, t>>}
      /\ UNCHANGED <<source, known, media, stored, forgotten, crashes>>
  BY DEF EnqueueFails, Rollback, Serve
<1>2. TypesOK' /\ Fanned' /\ DispatchedOnce'
  <2>1. /\ known' \subseteq Message \X Target /\ failed \subseteq failed'
        /\ failed' \subseteq Message \X Target /\ <<m, t>> \in failed'
        /\ stored' \in [Message -> [Target -> Nat]]
        /\ \A o \in Message, u \in Target : stored'[o][u] >= stored[o][u]
    BY <1>1 DEF IInv, TypesOK, TypeOK
  <2>2. QED
    BY <1>1, <2>1, ServeFrame
<1>3. TablesTell'
  BY <1>1, TablesStay
<1>4. StoredCounted'
  BY <1>1, ServeChance, CountedStays
<1>5. QED
  BY <1>2, <1>3, <1>4 DEF IInv

--------------------------------------------------------------------------------
(* The queue.                                                               *)

\* What the queue does to its tables leaves the handlers alone.
LEMMA QueueFrame ==
    ASSUME IInv, UNCHANGED <<source, pairing, handlerVars, stored, failed, crashes>>,
           known' \subseteq Message \X Target, forgotten' \in [Message -> [Target -> Nat]]
    PROVE  TypesOK' /\ Fanned' /\ DispatchedOnce'
<1>1. TypesOK'
  BY DEF IInv, TypesOK, TypeOK
<1>2. Fanned'
  BY DEF IInv, Fanned, NoneForgotten, FanOutComplete, OnlyPassing, Passes, MayStore, Served,
         Text, Applicable
<1>3. DispatchedOnce'
  BY DEF IInv, DispatchedOnce, Discord
<1>4. QED
  BY <1>1, <1>2, <1>3

\* What the queue forgets may be stored again, and is counted.
LEMMA ForgetStep == \A m \in Message, t \in Target : IInv /\ Forget(m, t) => IInv'
<1> SUFFICES ASSUME NEW m \in Message, NEW t \in Target, IInv, Forget(m, t) PROVE IInv'
  OBVIOUS
<1>1. /\ UNCHANGED <<source, pairing, handlerVars, media, stored, failed, crashes>>
      /\ <<m, t>> \in known /\ known' = known \ {<<m, t>>}
      /\ forgotten' = [forgotten EXCEPT ![m][t] = @ + 1]
  BY DEF Forget
<1>2. /\ forgotten' \in [Message -> [Target -> Nat]]
      /\ forgotten'[m][t] = forgotten[m][t] + 1
      /\ \A o \in Message, u \in Target :
             <<o, u>> # <<m, t>> => forgotten'[o][u] = forgotten[o][u]
  BY <1>1 DEF IInv, TypesOK, TypeOK
<1>3. TypesOK' /\ Fanned' /\ DispatchedOnce'
  <2>1. known' \subseteq Message \X Target
    BY <1>1 DEF IInv, TypesOK, TypeOK
  <2>2. QED
    BY <1>1, <1>2, <2>1, QueueFrame
<1>4. TablesTell'
  <2>1. \A o \in Message, u \in Target :
            <<o, u>> \in known' \/ forgotten'[o][u] > 0 => stored[o][u] > 0
    BY <1>1, <1>2 DEF IInv, TablesTell
  <2>2. QED
    BY <1>1, <2>1 DEF IInv, TablesTell, Served, Text
<1>5. StoredCounted'
  <2> SUFFICES ASSUME NEW o \in Message, NEW u \in Target
               PROVE  /\ stored[o][u] <= forgotten'[o][u] + Remembered(o, u)'
                      /\ stored[o][u] + Chance(o, u) <= Deliveries(o)
    BY <1>1 DEF StoredCounted, Deliveries, Telegram, Chance
  <2>1. /\ stored[o][u] \in Nat /\ forgotten[o][u] \in Nat
        /\ stored[o][u] <= forgotten[o][u] + Remembered(o, u)
        /\ stored[o][u] + Chance(o, u) <= Deliveries(o)
    BY DEF IInv, TypesOK, TypeOK, StoredCounted
  <2>2. CASE <<o, u>> = <<m, t>>
    <3>1. Remembered(m, t) = 1 /\ Remembered(m, t)' = 0
      BY <1>1 DEF Remembered
    <3>2. QED
      BY <1>2, <2>1, <2>2, <3>1
  <2>3. CASE <<o, u>> # <<m, t>>
    BY <1>1, <1>2, <2>1, <2>3 DEF Remembered
  <2>4. QED
    BY <2>2, <2>3
<1>6. QED
  BY <1>3, <1>4, <1>5 DEF IInv

\* A replay and a fingerprint that expires store nothing.
LEMMA ReplayStep == \A m \in Message, t \in Target : IInv /\ Replay(m, t) => IInv'
<1> SUFFICES ASSUME NEW m \in Message, NEW t \in Target, IInv, Replay(m, t) PROVE IInv'
  OBVIOUS
<1>1. /\ UNCHANGED <<source, pairing, handlerVars, media, stored, forgotten, failed, crashes>>
      /\ forgotten[m][t] > 0 /\ known' = known \cup {<<m, t>>}
  BY DEF Replay
<1>2. TypesOK' /\ Fanned' /\ DispatchedOnce'
  <2>1. /\ known' \subseteq Message \X Target
        /\ forgotten' \in [Message -> [Target -> Nat]]
    BY <1>1 DEF IInv, TypesOK, TypeOK
  <2>2. QED
    BY <1>1, <2>1, QueueFrame
<1>3. TablesTell'
  BY <1>1 DEF IInv, TablesTell, Served, Text
<1>4. StoredCounted'
  <2> SUFFICES ASSUME NEW o \in Message, NEW u \in Target
               PROVE  /\ stored[o][u] <= forgotten[o][u] + Remembered(o, u)'
                      /\ stored[o][u] + Chance(o, u) <= Deliveries(o)
    BY <1>1 DEF StoredCounted, Deliveries, Telegram, Chance
  <2>1. Remembered(o, u) <= Remembered(o, u)' /\ Remembered(o, u) \in Nat
        /\ Remembered(o, u)' \in Nat
    BY <1>1 DEF Remembered
  <2>2. QED
    BY <2>1 DEF IInv, TypesOK, TypeOK, StoredCounted
<1>5. QED
  BY <1>2, <1>3, <1>4 DEF IInv

LEMMA ExpireStep == \A print \in media : IInv /\ Expire(print) => IInv'
<1> SUFFICES ASSUME NEW print \in media, IInv, Expire(print) PROVE IInv'
  OBVIOUS
<1>1. /\ UNCHANGED <<source, pairing, handlerVars, known, stored, forgotten, failed, crashes>>
      /\ media' \subseteq media
  BY DEF Expire
<1>2. TypesOK' /\ Fanned' /\ DispatchedOnce'
  <2>1. /\ known' \subseteq Message \X Target
        /\ forgotten' \in [Message -> [Target -> Nat]]
    BY <1>1 DEF IInv, TypesOK, TypeOK
  <2>2. QED
    BY <1>1, <2>1, QueueFrame
<1>3. TablesTell'
  BY <1>1, TablesStay
<1>4. StoredCounted'
  BY <1>1 DEF IInv, StoredCounted, Remembered, Chance, Deliveries, Telegram
<1>5. QED
  BY <1>2, <1>3, <1>4 DEF IInv

--------------------------------------------------------------------------------
LEMMA StepInv == IInv /\ [Next]_vars => IInv'
<1> SUFFICES ASSUME IInv, [Next]_vars PROVE IInv'
  OBVIOUS
<1>1. CASE \/ \E M \in SUBSET Telegram : FetchUpdates(M)
           \/ \E m \in Message : Dispatch(m)
  BY <1>1, DeliveryStep
<1>2. CASE \E m \in Message : Handler(m)
  BY <1>2, CheckRulesStep, RefuseStep, ResolveFileStep, EnqueueStep, SkipStep, EnqueueFailsStep
  DEF Handler
<1>3. CASE Queue
  BY <1>3, ForgetStep, ReplayStep, ExpireStep DEF Queue
<1>4. CASE Admin
  BY <1>4, AdminStep
<1>5. CASE Crash
  BY <1>5, CrashStep
<1>6. CASE UNCHANGED vars
  <2>1. TypesOK' /\ Fanned' /\ DispatchedOnce'
    <3>1. known' \subseteq Message \X Target /\ forgotten' \in [Message -> [Target -> Nat]]
      BY <1>6 DEF IInv, TypesOK, TypeOK
    <3>2. QED
      BY <1>6, <3>1, QueueFrame
  <2>2. TablesTell'
    BY <1>6, TablesStay
  <2>3. StoredCounted'
    BY <1>6, CountedStays DEF Chance
  <2>4. QED
    BY <2>1, <2>2, <2>3 DEF IInv
<1>7. CASE Next
  BY <1>1, <1>2, <1>3, <1>4, <1>5, <1>7 DEF Next
<1>8. QED
  BY <1>6, <1>7

LEMMA Invariance == Spec => []IInv
BY InitInv, StepInv, PTL DEF Spec

\* Any number of handlers, commands and restarts keep the tables and the
\* handlers' state in shape.
THEOREM TypeCorrect == Spec => []TypeOK
<1>1. IInv => TypeOK
  BY DEF IInv, TypesOK
<1>2. QED
  BY <1>1, Invariance, PTL

\* However many targets a source has and whatever fails for the others, a
\* message that passes the rules of one is stored for it, or its file was.
THEOREM FanOutIsComplete == Spec => []FanOutComplete
<1>1. IInv => FanOutComplete
  BY DEF IInv, Fanned
<1>2. QED
  BY <1>1, Invariance, PTL

\* However often an update is delivered and the queue forgets, one event is
\* stored once and then at most as often as both happened.
THEOREM StoredAgainIsExplained == Spec => []StoredAgainExplained
<1>1. ASSUME IInv PROVE StoredAgainExplained
  <2> SUFFICES ASSUME NEW m \in Message, NEW t \in Target
               PROVE  /\ stored[m][t] <= 1 + forgotten[m][t]
                      /\ stored[m][t] <= Deliveries(m)
    BY DEF StoredAgainExplained, Deliveries
  <2>1. /\ stored[m][t] \in Nat /\ forgotten[m][t] \in Nat /\ Deliveries(m) \in Nat
        /\ Remembered(m, t) \in {0, 1} /\ Chance(m, t) \in {0, 1}
    BY <1>1 DEF IInv, TypesOK, TypeOK, Deliveries, Remembered, Chance
  <2>2. QED
    BY <1>1, <2>1 DEF IInv, StoredCounted
<1>2. QED
  BY <1>1, Invariance, PTL

\* No interleaving of handlers, commands and restarts stores an event for a
\* target whose rules, as they were read, reject the message.
THEOREM OnlyAcceptedIsStored == Spec => OnlyAccepted
<1>1. IInv /\ [Next]_vars
      => [\A m \in Message, t \in Target : stored'[m][t] > stored[m][t] => MayStore(m, t)]_vars
  <2> SUFFICES ASSUME IInv, Next, NEW m \in Message, NEW t \in Target,
                      stored'[m][t] > stored[m][t]
               PROVE  MayStore(m, t)
    OBVIOUS
  <2>1. stored' # stored
    BY DEF IInv, TypesOK, TypeOK
  <2>2. PICK o \in Message, u \in Target : Enqueue(o, u)
    BY <2>1 DEF Next, FetchUpdates, Dispatch, Handler, CheckRules, Refuse, ResolveFile, Skip,
                EnqueueFails, Queue, Forget, Replay, Expire, Admin, Crash
  <2>3. stored' = [stored EXCEPT ![o][u] = @ + 1] /\ u \in todo[o]
    BY <2>2 DEF Enqueue, Serve
  <2>4. o = m /\ u = t
    BY <2>3 DEF IInv, TypesOK, TypeOK
  <2>5. QED
    BY <2>3, <2>4 DEF IInv, Fanned, OnlyPassing
<1>2. QED
  BY <1>1, Invariance, PTL DEF Spec, OnlyAccepted, MayStore
================================================================================
