---------------------------- MODULE MigrationsProofs ----------------------------
(***************************************************************************)
(* Proofs about Migrations for any number of processes that start at the   *)
(* same time, any pairings and words, and any number of failures.          *)
(***************************************************************************)
EXTENDS Migrations, TLAPS

USE DEF schemaVars, dataVars, processVars, wantVars, startVars, boundVars, vars

\* SchemaMatchesVersion, version by version.
Shape ==
    \/ versions = {} /\ tables \subseteq Baseline
    \/ versions = {1} /\ tables = Baseline /\ columns = Column
    \/ /\ versions = {1, 2} /\ tables = Baseline \cup {"blocked_words"}
       /\ columns = Column \ {"blocked_words"}
    \/ /\ versions = {1, 2, 3} /\ tables = Baseline \cup {"blocked_words", "event_history"}
       /\ columns = Column \ {"blocked_words"}
    \/ versions = {1, 2, 3, 4} /\ tables = Table /\ columns = Column \ {"blocked_words"}

\* A version a process tries is at most the one after the last.
WithinReach ==
    \A p \in Process : at[p] = "migrating" => next[p] = 1 \/ next[p] - 1 \in versions

\* The old list is gone with its column, and with its pairing.
LegacyLives ==
    \A t \in Target : "blocked_words" \notin columns \/ t \notin linked => legacy[t] = {}

\* A process whose version is applied already has a reason to fail left.
StaleHasCause ==
    \A p \in Process : at[p] = "migrating" /\ next[p] \in versions => failures[p] < causes[p]

IInv == /\ TypeOK /\ Shape /\ WithinReach /\ LegacyLives
        /\ DataSurvives /\ UpMeansCurrent
        /\ FailuresExplained /\ StaleHasCause

--------------------------------------------------------------------------------
LEMMA Versions == Version = {1, 2, 3, 4}
BY DEF Version, Latest

LEMMA ShapeIsSchema ==
    /\ Shape <=> SchemaMatchesVersion
    /\ Shape' <=> SchemaMatchesVersion'
<1>1. \A n : n \in Version <=> n \in {1, 2, 3, 4}
  BY Versions
<1>2. /\ 1 .. 1 = {1} /\ 1 .. 2 = {1, 2} /\ 1 .. 3 = {1, 2, 3} /\ 1 .. 4 = {1, 2, 3, 4}
  OBVIOUS
<1>3. /\ TablesAt(1) = Baseline
      /\ TablesAt(2) = Baseline \cup {"blocked_words"}
      /\ TablesAt(3) = Baseline \cup {"blocked_words", "event_history"}
      /\ TablesAt(4) = Table
  BY DEF TablesAt, Table
<1>4. /\ ColumnsAt(1) = Column /\ ColumnsAt(2) = Column \ {"blocked_words"}
      /\ ColumnsAt(3) = Column \ {"blocked_words"}
      /\ ColumnsAt(4) = Column \ {"blocked_words"}
  BY DEF ColumnsAt
<1>5. QED
  BY <1>1, <1>2, <1>3, <1>4 DEF Shape, SchemaMatchesVersion

\* The words of an old list are words, and none for an empty list.
LEMMA NormalizedType ==
    /\ \A R \in SUBSET Raw : Normalized(R) \subseteq Word
    /\ Normalized({}) = {}
BY ConstantsAssumption DEF ConstantsAssumption, Normalized

\* The version read is the last one recorded.
LEMMA LastVersionIs ==
    ASSUME Shape
    PROVE  /\ LastVersion \in 0 .. Latest
           /\ LastVersion + 1 \notin versions
           /\ LastVersion = 0 \/ LastVersion \in versions
<1>1. CASE versions = {}
  BY <1>1 DEF LastVersion, Latest
<1>2. CASE versions # {}
  <2>1. /\ versions \subseteq {1, 2, 3, 4}
        /\ \E v \in versions : \A u \in versions : u <= v
    BY <1>2 DEF Shape
  <2>2. LastVersion \in versions /\ \A u \in versions : u <= LastVersion
    BY <1>2, <2>1 DEF LastVersion
  <2>3. QED
    BY <2>1, <2>2 DEF Latest
<1>3. QED
  BY <1>1, <1>2

--------------------------------------------------------------------------------
\* A migration runs on the version before its own, and makes the next.
LEMMA MigrateShape ==
    ASSUME IInv, NEW p \in Process, NEW n \in Version, Migrate(p, n)
    PROVE  /\ Shape' /\ n \notin versions /\ n + 1 \notin versions'
           /\ versions' = versions \cup {n}
           /\ tables' \subseteq Table /\ columns' \subseteq Column
<1>1. n \in {1, 2, 3, 4} /\ n \notin versions /\ versions' = versions \cup {n} /\ Up(n)
  BY Versions DEF Migrate, Recorded
<1>2. n = 1 \/ n - 1 \in versions
  BY DEF Migrate, IInv, WithinReach
<1>3. columns \subseteq Column /\ Shape
  BY DEF IInv, TypeOK
<1>4. CASE n = 1
  <2>1. versions = {} /\ tables \subseteq Baseline
    BY <1>1, <1>3, <1>4 DEF Shape
  <2>2. tables' = tables \cup Baseline /\ columns' = columns \cup Column
    BY <1>1, <1>4 DEF Up, V1Init
  <2>3. tables' = Baseline /\ columns' = Column
    BY <1>3, <2>1, <2>2
  <2>4. versions' = {1}
    BY <1>1, <1>4, <2>1
  <2>5. QED
    BY <1>1, <1>4, <2>3, <2>4 DEF Shape, Table
<1>5. CASE n = 2
  <2>1. versions = {1} /\ tables = Baseline /\ columns = Column
    BY <1>1, <1>2, <1>3, <1>5 DEF Shape
  <2>2. /\ tables' = tables \cup {"blocked_words"}
        /\ columns' = columns \ {"blocked_words"}
    BY <1>1, <1>5 DEF Up, V2NormalizeBlockedWords
  <2>3. versions' = {1, 2}
    BY <1>1, <1>5, <2>1
  <2>4. QED
    BY <1>1, <1>5, <2>1, <2>2, <2>3 DEF Shape, Table
<1>6. CASE n = 3
  <2>1. /\ versions = {1, 2} /\ tables = Baseline \cup {"blocked_words"}
        /\ columns = Column \ {"blocked_words"}
    BY <1>1, <1>2, <1>3, <1>6 DEF Shape
  <2>2. tables' = tables \cup {"event_history"} /\ columns' = columns
    BY <1>1, <1>6 DEF Up, V3CreateEventHistory
  <2>3. versions' = {1, 2, 3}
    BY <1>1, <1>6, <2>1
  <2>4. tables' = Baseline \cup {"blocked_words", "event_history"}
    BY <2>1, <2>2
  <2>5. QED
    BY <1>1, <1>6, <2>1, <2>2, <2>3, <2>4 DEF Shape, Table
<1>7. CASE n = 4
  <2>1. /\ versions = {1, 2, 3}
        /\ tables = Baseline \cup {"blocked_words", "event_history"}
        /\ columns = Column \ {"blocked_words"}
    BY <1>1, <1>2, <1>3, <1>7 DEF Shape
  <2>2. tables' = tables \cup {"digest_events"} /\ columns' = columns
    BY <1>1, <1>7 DEF Up, V4CreateDigestEvents
  <2>3. versions' = {1, 2, 3, 4}
    BY <1>1, <1>7, <2>1
  <2>4. tables' = Table
    BY <2>1, <2>2 DEF Table
  <2>5. QED
    BY <1>1, <1>7, <2>1, <2>2, <2>3, <2>4 DEF Shape
<1>8. QED
  BY <1>1, <1>4, <1>5, <1>6, <1>7

\* A migration keeps the pairings and the words, and moves the old list at most
\* into the table.
LEMMA MigrateData ==
    ASSUME IInv, NEW p \in Process, NEW n \in Version, Migrate(p, n)
    PROVE  /\ linked' = linked /\ UNCHANGED wantVars
           /\ legacy' \in [Target -> SUBSET Raw] /\ words' \in [Target -> SUBSET Word]
           /\ LegacyLives' /\ DataSurvives'
<1> USE DEF Migrate
<1>0. TypeOK /\ LegacyLives /\ DataSurvives /\ Up(n)
  BY DEF IInv
<1>1. CASE n # 2
  <2>1. UNCHANGED <<linked, legacy, words>>
    BY <1>0, <1>1 DEF Up, V1Init, V3CreateEventHistory, V4CreateDigestEvents
  <2>2. "blocked_words" \in columns' \/ columns' = columns
    BY <1>0, <1>1 DEF Up, V1Init, V3CreateEventHistory, V4CreateDigestEvents, Column
  <2>3. LegacyLives'
    BY <1>0, <2>1, <2>2 DEF LegacyLives
  <2>4. DataSurvives'
    BY <1>0, <2>1 DEF DataSurvives, Normalized
  <2>5. QED
    BY <1>0, <2>1, <2>3, <2>4 DEF TypeOK
<1>2. CASE n = 2
  <2>1. V2NormalizeBlockedWords
    BY <1>0, <1>2 DEF Up
  <2>2. \A t \in Target : Normalized(legacy[t]) \subseteq Word /\ words[t] \subseteq Word
    BY <1>0, NormalizedType DEF TypeOK
  <2>3. \A t \in Target : legacy'[t] = {} /\ words'[t] = MovedWords(t)
    BY <2>1 DEF V2NormalizeBlockedWords
  <2>4. \A t \in Target : MovedWords(t) = words[t] \cup Normalized(legacy[t])
    BY <1>0, NormalizedType DEF MovedWords, LegacyLives
  <2>5. linked' = linked /\ UNCHANGED wantVars
    BY <2>1 DEF V2NormalizeBlockedWords
  <2>6. legacy' \in [Target -> SUBSET Raw] /\ words' \in [Target -> SUBSET Word]
    BY <2>1, <2>2, <2>4 DEF V2NormalizeBlockedWords
  <2>7. LegacyLives'
    BY <2>3 DEF LegacyLives
  <2>8. DataSurvives'
    <3>1. \A t \in Target : wantWords'[t] = words'[t] \cup {}
      BY <1>0, <2>3, <2>4, <2>5 DEF DataSurvives
    <3>2. \A t \in Target : Normalized(legacy[t])' = {}
      BY <2>3 DEF Normalized
    <3>3. QED
      BY <1>0, <2>5, <3>1, <3>2 DEF DataSurvives
  <2>9. QED
    BY <2>5, <2>6, <2>7, <2>8
<1>3. QED
  BY <1>1, <1>2

\* While a process is up, the old list is gone.
LEMMA UpWithoutLegacy ==
    ASSUME IInv, NEW p \in Process, at[p] = "up"
    PROVE  \A t \in Target : legacy[t] = {}
<1>1. versions = {1, 2, 3, 4}
  BY Versions DEF IInv, UpMeansCurrent
<1>2. 2 \in versions /\ Shape
  BY <1>1 DEF IInv
<1>3. columns = Column \ {"blocked_words"}
  BY <1>2 DEF Shape
<1>4. QED
  BY <1>3 DEF IInv, LegacyLives

\* Commands change the tables as they change what there should be.
DataCommand(p) ==
    \E t \in Target :
        \/ LinkChannel(p, t) \/ UnlinkChannel(p, t)
        \/ \E w \in Word : AddBlockedWord(p, t, w) \/ RemoveBlockedWord(p, t, w)

LEMMA CommandData ==
    ASSUME IInv, NEW p \in Process, DataCommand(p)
    PROVE  /\ linked' \subseteq Target /\ wantLinked' \subseteq Target
           /\ words' \in [Target -> SUBSET Word] /\ wantWords' \in [Target -> SUBSET Word]
           /\ LegacyLives' /\ DataSurvives'
           /\ commands' \in 0 .. MaxCommands
           /\ UNCHANGED <<schemaVars, legacy, processVars, startVars, faults, crashes>>
<1>1. TypeOK /\ DataSurvives
  BY DEF IInv
<1>2. at[p] = "up" /\ UNCHANGED <<schemaVars, legacy, processVars, startVars, faults, crashes>>
  BY DEF DataCommand, LinkChannel, UnlinkChannel, AddBlockedWord, RemoveBlockedWord, Command
<1>3. \A t \in Target : legacy[t] = {} /\ legacy'[t] = {}
  BY <1>2, UpWithoutLegacy
<1>4. LegacyLives'
  BY <1>3 DEF LegacyLives
<1>5. commands' \in 0 .. MaxCommands
  BY <1>1, ConstantsAssumption
  DEF DataCommand, LinkChannel, UnlinkChannel, AddBlockedWord, RemoveBlockedWord, Command,
      TypeOK, ConstantsAssumption
<1>6. /\ linked' \subseteq Target /\ wantLinked' \subseteq Target
      /\ words' \in [Target -> SUBSET Word] /\ wantWords' \in [Target -> SUBSET Word]
  BY <1>1
  DEF DataCommand, LinkChannel, UnlinkChannel, AddBlockedWord, RemoveBlockedWord, TypeOK
<1>7. linked = wantLinked /\ \A t \in Target : wantWords[t] = words[t]
  BY <1>1, <1>3, NormalizedType DEF DataSurvives
<1>8. linked' = wantLinked' /\ \A t \in Target : wantWords'[t] = words'[t]
  <2>1. linked = wantLinked /\ wantWords = words
    BY <1>1, <1>7 DEF TypeOK
  <2>2. linked' = wantLinked' /\ wantWords' = words'
    BY <2>1
    DEF DataCommand, LinkChannel, UnlinkChannel, AddBlockedWord, RemoveBlockedWord
  <2>3. QED
    BY <2>2
<1>9. \A t \in Target : Normalized(legacy[t])' = {}
  BY <1>3 DEF Normalized
<1>10. QED
  BY <1>2, <1>4, <1>5, <1>6, <1>8, <1>9 DEF DataSurvives

--------------------------------------------------------------------------------
\* The steps of a process that leave the tables alone.
Quietly(p) == \/ Start(p) \/ ReadVersion(p) \/ OpenFails(p) \/ Ready(p) \/ Stop(p)
              \/ Crash(p) \/ \E n \in Version : MigrateFails(p, n)

LEMMA Steps ==
    ASSUME Next
    PROVE  \E p \in Process :
               Quietly(p) \/ DataCommand(p) \/ \E n \in Version : Migrate(p, n)
BY DEF Next, RunMigrations, Quietly, DataCommand

LEMMA QuietTables ==
    ASSUME NEW p \in Process, Quietly(p)
    PROVE  UNCHANGED <<schemaVars, dataVars, wantVars, commands>>
BY DEF Quietly, Start, ReadVersion, OpenFails, Ready, Stop, Crash, MigrateFails

LEMMA InitInv == Init => IInv
<1> SUFFICES ASSUME Init PROVE IInv
  OBVIOUS
<1>1. SchemaMatchesVersion /\ tables \subseteq Table /\ columns \subseteq Column
  BY DEF Init, InitSchema, Unversioned, SchemaMatchesVersion, TablesAt, ColumnsAt, Table
<1>2. Shape
  BY <1>1, ShapeIsSchema
<1>3. TypeOK
  <2>1. versions \subseteq Version
    BY <1>2, Versions DEF Shape
  <2>2. \A t \in Target : Normalized(legacy[t]) \subseteq Word
    BY NormalizedType DEF Init
  <2>3. wantWords \in [Target -> SUBSET Word]
    BY <2>2 DEF Init
  <2>4. QED
    BY <1>1, <2>1, <2>3, ConstantsAssumption DEF Init, TypeOK, ConstantsAssumption, Latest
<1>4. WithinReach /\ UpMeansCurrent /\ FailuresExplained /\ StaleHasCause
  BY DEF Init, WithinReach, UpMeansCurrent, FailuresExplained, StaleHasCause
<1>5. LegacyLives
  BY DEF Init, LegacyLives
<1>6. DataSurvives
  BY DEF Init, DataSurvives
<1>7. QED
  BY <1>2, <1>3, <1>4, <1>5, <1>6 DEF IInv

\* The schema and its data after any step.
LEMMA TablesStep ==
    ASSUME IInv, NEW p \in Process,
           Quietly(p) \/ DataCommand(p) \/ \E n \in Version : Migrate(p, n)
    PROVE  Shape' /\ LegacyLives' /\ DataSurvives'
<1>1. CASE Quietly(p)
  BY <1>1, QuietTables DEF IInv, Shape, LegacyLives, DataSurvives, Normalized
<1>2. CASE DataCommand(p)
  <2>1. Shape'
    BY <1>2, CommandData DEF IInv, Shape
  <2>2. QED
    BY <1>2, <2>1, CommandData
<1>3. CASE \E n \in Version : Migrate(p, n)
  BY <1>3, MigrateShape, MigrateData
<1>4. QED
  BY <1>1, <1>2, <1>3

LEMMA TypeStep ==
    ASSUME IInv, NEW p \in Process,
           Quietly(p) \/ DataCommand(p) \/ \E n \in Version : Migrate(p, n)
    PROVE  TypeOK'
<1> USE ConstantsAssumption DEF ConstantsAssumption, TypeOK, Latest
<1>0. TypeOK /\ Shape
  BY DEF IInv
<1>1. CASE Quietly(p)
  <2>1. UNCHANGED <<schemaVars, dataVars, wantVars, commands>>
    BY <1>1, QuietTables
  <2>2. /\ at' \in [Process -> {"down", "opening", "migrating", "up"}]
        /\ causes' \in [Process -> Nat] /\ failures' \in [Process -> Nat]
    BY <1>0, <1>1 DEF Quietly, Start, ReadVersion, OpenFails, Ready, Stop, Crash, MigrateFails,
                      Cause, Fatal, AfterFailure
  <2>3. next' \in [Process -> 1 .. Latest + 1]
    BY <1>0, <1>1, LastVersionIs
    DEF Quietly, Start, ReadVersion, OpenFails, Ready, Stop, Crash, MigrateFails, FirstAfter
  <2>4. faults' \in 0 .. MaxFaults /\ crashes' \in 0 .. MaxCrashes
    BY <1>0, <1>1 DEF Quietly, Start, ReadVersion, OpenFails, Ready, Stop, Crash, MigrateFails,
                      Fault, NoFault
  <2>5. QED
    BY <1>0, <2>1, <2>2, <2>3, <2>4
<1>2. CASE DataCommand(p)
  BY <1>0, <1>2, CommandData
<1>3. CASE \E n \in Version : Migrate(p, n)
  <2>1. PICK n \in Version : Migrate(p, n)
    BY <1>3
  <2>2. versions' \subseteq Version /\ tables' \subseteq Table /\ columns' \subseteq Column
    BY <1>0, <2>1, MigrateShape
  <2>3. causes' \in [Process -> Nat] /\ next' \in [Process -> 1 .. Latest + 1]
    BY <1>0, <2>1, Versions DEF Migrate, Cause
  <2>4. UNCHANGED <<at, failures, boundVars>>
    BY <2>1 DEF Migrate
  <2>5. QED
    BY <1>0, <2>1, <2>2, <2>3, <2>4, MigrateData
<1>4. QED
  BY <1>1, <1>2, <1>3

\* The position of every process after any step.
LEMMA ProcessStep ==
    ASSUME IInv, NEW p \in Process,
           Quietly(p) \/ DataCommand(p) \/ \E n \in Version : Migrate(p, n)
    PROVE  WithinReach' /\ UpMeansCurrent'
<1>0. TypeOK /\ Shape /\ WithinReach /\ UpMeansCurrent
  BY DEF IInv
<1>1. CASE Quietly(p)
  <2>1. versions' = versions
    BY <1>1, QuietTables
  <2>2. WithinReach'
    <3>1. ASSUME NEW q \in Process, at'[q] = "migrating"
          PROVE  next'[q] = 1 \/ next'[q] - 1 \in versions
      <4>1. CASE at[q] = "migrating" /\ next'[q] = next[q]
        BY <1>0, <4>1 DEF WithinReach
      <4>2. CASE q = p /\ ReadVersion(p)
        BY <1>0, <4>2, LastVersionIs DEF ReadVersion, FirstAfter, TypeOK, Latest
      <4>3. QED
        BY <1>0, <1>1, <3>1, <4>1, <4>2
        DEF Quietly, Start, ReadVersion, OpenFails, Ready, Stop, Crash, MigrateFails,
            AfterFailure, Fatal, TypeOK
    <3>2. QED
      BY <2>1, <3>1 DEF WithinReach
  <2>3. UpMeansCurrent'
    <3>1. CASE Ready(p)
      <4>1. next[p] = 5 /\ at[p] = "migrating"
        BY <1>0, <3>1 DEF Ready, TypeOK, Latest
      <4>2. 4 \in versions
        BY <1>0, <4>1 DEF WithinReach
      <4>3. versions = Version
        BY <1>0, <4>2, Versions DEF Shape
      <4>4. QED
        BY <2>1, <4>3 DEF UpMeansCurrent, Version
    <3>2. CASE ~Ready(p)
      <4>1. \A q \in Process : at'[q] = "up" => at[q] = "up"
        BY <1>0, <1>1, <3>2
        DEF Quietly, Start, ReadVersion, OpenFails, Stop, Crash, MigrateFails,
            AfterFailure, Fatal, TypeOK
      <4>2. QED
        BY <1>0, <2>1, <4>1 DEF UpMeansCurrent, Version
    <3>3. QED
      BY <3>1, <3>2
  <2>4. QED
    BY <2>2, <2>3
<1>2. CASE DataCommand(p)
  BY <1>0, <1>2, CommandData DEF WithinReach, UpMeansCurrent
<1>3. CASE \E n \in Version : Migrate(p, n)
  <2>1. PICK n \in Version : Migrate(p, n)
    BY <1>3
  <2>2. /\ at' = at /\ next' = [next EXCEPT ![p] = n + 1]
        /\ versions' = versions \cup {n} /\ n \in {1, 2, 3, 4} /\ n \notin versions
    BY <2>1, Versions DEF Migrate, Recorded
  <2>3. WithinReach'
    BY <1>0, <2>2 DEF WithinReach, TypeOK
  <2>4. UpMeansCurrent'
    BY <1>0, <2>2, Versions DEF UpMeansCurrent
  <2>5. QED
    BY <2>3, <2>4
<1>4. QED
  BY <1>1, <1>2, <1>3

\* The failures of every process, and its reasons, after any step.
LEMMA FailureStep ==
    ASSUME IInv, NEW p \in Process,
           Quietly(p) \/ DataCommand(p) \/ \E n \in Version : Migrate(p, n)
    PROVE  FailuresExplained' /\ StaleHasCause'
<1>0. /\ TypeOK /\ Shape /\ WithinReach /\ FailuresExplained /\ StaleHasCause
      /\ causes \in [Process -> Nat] /\ failures \in [Process -> Nat]
      /\ at \in [Process -> {"down", "opening", "migrating", "up"}]
      /\ next \in [Process -> 1 .. 5]
  BY DEF IInv, TypeOK, Latest
<1>1. CASE Start(p) \/ Ready(p) \/ Stop(p) \/ Crash(p)
  <2>1. UNCHANGED <<versions, next, causes, failures>>
    BY <1>1 DEF Start, Ready, Stop, Crash
  <2>2. \A q \in Process : at'[q] = "migrating" => at[q] = "migrating"
    BY <1>0, <1>1 DEF Start, Ready, Stop, Crash
  <2>3. QED
    BY <1>0, <2>1, <2>2 DEF FailuresExplained, StaleHasCause
<1>2. CASE ReadVersion(p)
  <2>1. UNCHANGED <<versions, failures>> /\ at' = [at EXCEPT ![p] = "migrating"]
    BY <1>2 DEF ReadVersion
  <2>2. CASE next' = [next EXCEPT ![p] = FirstAfter(LastVersion)] /\ UNCHANGED causes
    BY <1>0, <2>1, <2>2, LastVersionIs DEF FailuresExplained, StaleHasCause, FirstAfter
  <2>3. CASE next' = [next EXCEPT ![p] = FirstAfter(0)] /\ Cause({p})
    BY <1>0, <2>1, <2>3 DEF FailuresExplained, StaleHasCause, Cause
  <2>4. QED
    BY <1>2, <2>2, <2>3 DEF ReadVersion
<1>3. CASE OpenFails(p)
  <2>1. UNCHANGED <<versions, next>> /\ Fatal(p) /\ Cause({p})
    BY <1>3 DEF OpenFails
  <2>2. QED
    BY <1>0, <2>1 DEF FailuresExplained, StaleHasCause, Fatal, Cause
<1>4. CASE \E n \in Version : MigrateFails(p, n)
  <2>1. PICK n \in Version : MigrateFails(p, n)
    BY <1>4
  <2>2. UNCHANGED <<versions, next>> /\ Fatal(p) /\ at[p] = "migrating" /\ next[p] = n
    BY <2>1 DEF MigrateFails, AfterFailure
  <2>3. CASE Cause({p})
    BY <1>0, <2>2, <2>3 DEF FailuresExplained, StaleHasCause, Fatal, Cause
  <2>4. CASE (Refused(n) \/ Recorded(n)) /\ UNCHANGED causes
    <3>1. n \in versions
      <4>1. n = 1 \/ n - 1 \in versions
        BY <1>0, <2>2 DEF WithinReach
      <4>2. CASE Recorded(n)
        BY <4>2 DEF Recorded
      <4>3. CASE Refused(n)
        BY <1>0, <4>1, <4>3 DEF Refused, Shape, Baseline, Column
      <4>4. QED
        BY <2>4, <4>2, <4>3
    <3>2. failures[p] < causes[p]
      BY <1>0, <2>2, <3>1 DEF StaleHasCause
    <3>3. QED
      BY <1>0, <2>2, <2>4, <3>2 DEF FailuresExplained, StaleHasCause, Fatal
  <2>5. QED
    BY <2>1, <2>3, <2>4 DEF MigrateFails
<1>5. CASE DataCommand(p)
  BY <1>0, <1>5, CommandData DEF FailuresExplained, StaleHasCause
<1>6. CASE \E n \in Version : Migrate(p, n)
  <2>1. PICK n \in Version : Migrate(p, n)
    BY <1>6
  <2>2. /\ UNCHANGED <<at, failures>> /\ next' = [next EXCEPT ![p] = n + 1]
        /\ versions' = versions \cup {n} /\ Cause(Overtaken(p, n))
    BY <2>1 DEF Migrate
  <2>3. n + 1 \notin versions' /\ n \in Nat
    BY <2>1, MigrateShape, Versions
  <2>4. \A q \in Process : /\ causes'[q] \in Nat /\ causes'[q] >= causes[q]
                           /\ q \in Overtaken(p, n) => causes'[q] = causes[q] + 1
    BY <1>0, <2>2 DEF Cause
  <2>5. FailuresExplained'
    BY <1>0, <2>2, <2>4 DEF FailuresExplained
  <2>6. ASSUME NEW q \in Process, at'[q] = "migrating", next'[q] \in versions'
        PROVE  failures'[q] < causes'[q]
    <3>1. q # p /\ at[q] = "migrating" /\ next'[q] = next[q]
      BY <1>0, <2>2, <2>3, <2>6
    <3>2. CASE next[q] \in versions
      BY <1>0, <2>2, <2>4, <3>1, <3>2 DEF StaleHasCause
    <3>3. CASE next[q] = n
      <4>1. q \in Overtaken(p, n)
        BY <2>2, <2>3, <3>1, <3>3 DEF Overtaken
      <4>2. QED
        BY <1>0, <2>2, <2>4, <4>1 DEF FailuresExplained
    <3>4. QED
      BY <2>2, <2>6, <3>1, <3>2, <3>3
  <2>7. QED
    BY <2>5, <2>6 DEF StaleHasCause
<1>7. QED
  BY <1>1, <1>2, <1>3, <1>4, <1>5, <1>6 DEF Quietly

--------------------------------------------------------------------------------
LEMMA StepInv == IInv /\ [Next]_vars => IInv'
<1> SUFFICES ASSUME IInv, [Next]_vars PROVE IInv'
  OBVIOUS
<1>1. CASE Next
  <2>1. PICK p \in Process :
            Quietly(p) \/ DataCommand(p) \/ \E n \in Version : Migrate(p, n)
    BY <1>1, Steps
  <2>2. Shape' /\ LegacyLives' /\ DataSurvives'
    BY <2>1, TablesStep
  <2>3. TypeOK'
    BY <2>1, TypeStep
  <2>4. WithinReach' /\ UpMeansCurrent'
    BY <2>1, ProcessStep
  <2>5. FailuresExplained' /\ StaleHasCause'
    BY <2>1, FailureStep
  <2>6. QED
    BY <2>2, <2>3, <2>4, <2>5 DEF IInv
<1>2. CASE UNCHANGED vars
  BY <1>2 DEF IInv, TypeOK, Shape, WithinReach, LegacyLives, DataSurvives, Normalized,
              UpMeansCurrent, FailuresExplained, StaleHasCause
<1>3. QED
  BY <1>1, <1>2

LEMMA Invariance == Spec => []IInv
BY InitInv, StepInv, PTL DEF Spec

\* The schema, its data and the processes are well typed, however many processes
\* call InitDB.
THEOREM TypeCorrect == Spec => []TypeOK
<1>1. IInv => TypeOK
  BY DEF IInv
<1>2. QED
  BY <1>1, Invariance, PTL

\* RunMigrations: the recorded versions are the first n and the schema is that of
\* version n, with any number of processes, failures and restarts.
THEOREM SchemaIsVersioned == Spec => []SchemaMatchesVersion
<1>1. IInv => SchemaMatchesVersion
  BY ShapeIsSchema DEF IInv
<1>2. QED
  BY <1>1, Invariance, PTL

\* v2NormalizeBlockedWords and the commands that follow: no pairing and no word
\* is lost, and none comes back.
THEOREM DataIsKept == Spec => []DataSurvives
<1>1. IInv => DataSurvives
  BY DEF IInv
<1>2. QED
  BY <1>1, Invariance, PTL

\* InitDB returns only when the schema is the latest, and it stays so.
THEOREM UpIsCurrent == Spec => []UpMeansCurrent
<1>1. IInv => UpMeansCurrent
  BY DEF IInv
<1>2. QED
  BY <1>1, Invariance, PTL

\* A process fails at most once for each failed statement and for each version
\* that was applied while it was at work on it.
THEOREM FailuresHaveCauses == Spec => []FailuresExplained
<1>1. IInv => FailuresExplained
  BY DEF IInv
<1>2. QED
  BY <1>1, Invariance, PTL

--------------------------------------------------------------------------------
(* The refinement.  The schema's version follows from its shape, the data a *)
(* reader finds are the history's, and every step of a process is one of    *)
(* SchemaUpgrade or changes nothing of this.                                *)

\* The version of a schema.
LEMMA LastVersionOf ==
    /\ Shape => /\ LastVersion \in 0 .. Latest
                /\ \A n \in Version : versions = 1 .. n => LastVersion = n
                /\ versions = {} => LastVersion = 0
                /\ versions = {} \/ versions = 1 .. LastVersion
    /\ Shape' => /\ \A n \in Version : versions' = 1 .. n => LastVersion' = n
                 /\ versions' = {} => LastVersion' = 0
<1> DEFINE Highest(S) == IF S = {} THEN 0 ELSE CHOOSE v \in S : \A u \in S : u <= v
<1>1. Highest({}) = 0
  OBVIOUS
<1>2. ASSUME NEW n \in 1 .. 4 PROVE Highest(1 .. n) = n
  <2>1. 1 .. n # {} /\ n \in 1 .. n /\ \A u \in 1 .. n : u <= n
    OBVIOUS
  <2>2. \A v \in 1 .. n : (\A u \in 1 .. n : u <= v) => v = n
    OBVIOUS
  <2>3. (CHOOSE v \in 1 .. n : \A u \in 1 .. n : u <= v) = n
    BY <2>1, <2>2
  <2>4. QED
    BY <2>1, <2>3
<1>3. LastVersion = Highest(versions) /\ LastVersion' = Highest(versions')
  BY DEF LastVersion
<1> HIDE DEF Highest
<1>4. /\ 1 .. 1 = {1} /\ 1 .. 2 = {1, 2} /\ 1 .. 3 = {1, 2, 3} /\ 1 .. 4 = {1, 2, 3, 4}
  OBVIOUS
<1>5. Shape => versions = {} \/ \E n \in 1 .. 4 : versions = 1 .. n
  BY <1>4 DEF Shape
<1>6. Version = 1 .. 4 /\ Latest = 4
  BY DEF Version, Latest
<1>7. \A n \in Version : /\ versions = 1 .. n => LastVersion = n
                         /\ versions' = 1 .. n => LastVersion' = n
  BY <1>2, <1>3, <1>6
<1>8. /\ versions = {} => LastVersion = 0
      /\ versions' = {} => LastVersion' = 0
  BY <1>1, <1>3
<1>9. Shape => /\ LastVersion \in 0 .. Latest
               /\ versions = {} \/ versions = 1 .. LastVersion
  <2>1. CASE versions = {}
    BY <1>6, <1>8, <2>1
  <2>2. CASE \E n \in 1 .. 4 : versions = 1 .. n
    <3>1. PICK n \in 1 .. 4 : versions = 1 .. n
      BY <2>2
    <3>2. LastVersion = n
      BY <1>6, <1>7, <3>1
    <3>3. QED
      BY <1>6, <3>1, <3>2
  <2>3. QED
    BY <1>5, <2>1, <2>2
<1>10. QED
  BY <1>7, <1>8, <1>9

\* What a reader finds is what there should be.
LEMMA BlockedIsWanted ==
    /\ IInv => Blocked = wantWords /\ linked = wantLinked
    /\ IInv' => Blocked' = wantWords' /\ linked' = wantLinked'
BY DEF IInv, TypeOK, DataSurvives, Blocked

LEMMA UpgradeInit == Init => Upgrade!Init
<1> SUFFICES ASSUME Init PROVE Upgrade!Init
  OBVIOUS
<1>1. IInv
  BY InitInv
<1>2. Blocked \in [Target -> SUBSET Word] /\ linked \in SUBSET Target
  BY <1>1, BlockedIsWanted DEF IInv, TypeOK
<1>3. LastVersion \in 0 .. Latest
  BY <1>1, LastVersionOf DEF IInv
<1>4. Running = {}
  BY DEF Init, Running
<1>5. QED
  BY <1>2, <1>3, <1>4 DEF Upgrade!Init

\* A migration is one step up and leaves the data alone.
LEMMA MigrateClimbs ==
    ASSUME IInv, IInv', NEW p \in Process, NEW n \in Version, Migrate(p, n)
    PROVE  Upgrade!Climb
<1>1. n \in 1 .. 4 /\ n \notin versions /\ versions' = versions \cup {n} /\ Shape /\ Shape'
  BY MigrateShape, Versions DEF IInv
<1>2. n = 1 \/ n - 1 \in versions
  BY DEF Migrate, IInv, WithinReach
<1>3. versions' = 1 .. n /\ ((n = 1 /\ versions = {}) \/ (n > 1 /\ versions = 1 .. (n - 1)))
  <2>1. versions = {} \/ (versions = 1 .. LastVersion /\ LastVersion \in 0 .. 4)
    BY <1>1, LastVersionOf DEF Latest
  <2>2. CASE versions = {}
    BY <1>1, <1>2, <2>2
  <2>3. CASE versions = 1 .. LastVersion /\ LastVersion \in 0 .. 4
    <3>1. n = LastVersion + 1
      BY <1>1, <1>2, <2>3
    <3>2. versions' = 1 .. n
      BY <1>1, <2>3, <3>1
    <3>3. QED
      BY <1>1, <2>3, <3>1, <3>2
  <2>4. QED
    BY <2>1, <2>2, <2>3
<1>4. LastVersion' = n /\ LastVersion = n - 1
  <2>1. LastVersion' = n
    BY <1>1, <1>3, LastVersionOf
  <2>2. CASE n = 1
    BY <1>1, <1>3, <2>2, LastVersionOf
  <2>3. CASE n > 1
    <3>1. n - 1 \in Version /\ versions = 1 .. (n - 1)
      BY <1>1, <1>3, <2>3 DEF Version, Latest
    <3>2. QED
      BY <1>1, <3>1, LastVersionOf
  <2>4. QED
    BY <1>1, <2>1, <2>2, <2>3
<1>5. UNCHANGED <<linked, Blocked, Running>>
  <2>1. UNCHANGED wantVars /\ UNCHANGED at
    BY DEF Migrate
  <2>2. QED
    BY <2>1, BlockedIsWanted DEF Running
<1>6. QED
  BY <1>1, <1>4, <1>5 DEF Upgrade!Climb, Latest

\* A command changes a pairing or a word, with its process in.
LEMMA CommandChangesData ==
    ASSUME IInv, IInv', NEW p \in Process, DataCommand(p)
    PROVE  Upgrade!Next
<1>1. p \in Running /\ UNCHANGED <<LastVersion, Running>>
  <2>1. at[p] = "up" /\ UNCHANGED <<versions, at>>
    BY DEF DataCommand, LinkChannel, UnlinkChannel, AddBlockedWord, RemoveBlockedWord, Command
  <2>2. QED
    BY <2>1 DEF Running, LastVersion
<1>2. PICK t \in Target :
          \/ LinkChannel(p, t) \/ UnlinkChannel(p, t)
          \/ \E w \in Word : AddBlockedWord(p, t, w) \/ RemoveBlockedWord(p, t, w)
  BY DEF DataCommand
<1>3. CASE LinkChannel(p, t) \/ UnlinkChannel(p, t)
  <2>1. linked' \in {linked \cup {t}, linked \ {t}} /\ UNCHANGED wantWords
    BY <1>3 DEF LinkChannel, UnlinkChannel
  <2>2. UNCHANGED Blocked
    BY <2>1, BlockedIsWanted
  <2>3. Upgrade!Link(t)
    BY <1>1, <2>1, <2>2 DEF Upgrade!Link
  <2>4. QED
    BY <1>1, <2>3 DEF Upgrade!Next
<1>4. ASSUME NEW w \in Word, AddBlockedWord(p, t, w) \/ RemoveBlockedWord(p, t, w)
      PROVE  Upgrade!Next
  <2>1. /\ UNCHANGED linked
        /\ \/ wantWords' = [wantWords EXCEPT ![t] = @ \cup {w}]
           \/ wantWords' = [wantWords EXCEPT ![t] = @ \ {w}]
    BY <1>4 DEF AddBlockedWord, RemoveBlockedWord
  <2>2. \/ Blocked' = [Blocked EXCEPT ![t] = @ \cup {w}]
        \/ Blocked' = [Blocked EXCEPT ![t] = @ \ {w}]
    BY <2>1, BlockedIsWanted
  <2>3. Upgrade!Block(t, w)
    BY <1>1, <2>1, <2>2 DEF Upgrade!Block
  <2>4. QED
    BY <1>1, <2>3 DEF Upgrade!Next
<1>5. QED
  BY <1>2, <1>3, <1>4

\* The other steps let a process in or out, or show nothing.
LEMMA QuietUpgrade ==
    ASSUME IInv, NEW p \in Process, Quietly(p)
    PROVE  [Upgrade!Next]_(Upgrade!vars)
<1>1. UNCHANGED <<LastVersion, linked, Blocked>>
  <2>1. UNCHANGED <<versions, linked, legacy, words>>
    BY QuietTables
  <2>2. UNCHANGED LastVersion
    BY <2>1 DEF LastVersion
  <2>3. UNCHANGED Blocked
    BY <2>1 DEF Blocked, Normalized
  <2>4. QED
    BY <2>1, <2>2, <2>3
<1>2. at \in [Process -> {"down", "opening", "migrating", "up"}]
  BY DEF IInv, TypeOK
<1>3. CASE Ready(p)
  <2>1. Running' = Running \cup {p}
    BY <1>2, <1>3 DEF Ready, Running
  <2>2. LastVersion = Latest
    <3>1. next[p] = 5 /\ at[p] = "migrating"
      BY <1>3 DEF Ready, IInv, TypeOK, Latest
    <3>2. 4 \in versions
      BY <3>1 DEF IInv, WithinReach
    <3>3. versions = 1 .. 4
      BY <3>2 DEF IInv, Shape
    <3>4. QED
      BY <3>3, LastVersionOf DEF IInv, Version, Latest
  <2>3. Upgrade!Enter(p)
    BY <1>1, <2>1, <2>2 DEF Upgrade!Enter
  <2>4. QED
    BY <2>3 DEF Upgrade!Next
<1>4. CASE Stop(p)
  <2>1. Running' = Running \ {p}
    BY <1>2, <1>4 DEF Stop, Running
  <2>2. Upgrade!Leave(p)
    BY <1>1, <2>1 DEF Upgrade!Leave
  <2>3. QED
    BY <2>2 DEF Upgrade!Next
<1>5. CASE ~Ready(p) /\ ~Stop(p)
  <2>1. PICK x \in {"down", "opening", "migrating"} :
            at' = [at EXCEPT ![p] = x] /\ at[p] # "up"
    BY <1>5 DEF Quietly, Start, ReadVersion, OpenFails, Crash, MigrateFails, AfterFailure, Fatal
  <2>2. Running' = Running
    BY <1>2, <2>1 DEF Running
  <2>3. QED
    BY <1>1, <2>2 DEF Upgrade!vars
<1>6. QED
  BY <1>3, <1>4, <1>5

LEMMA UpgradeNext == IInv /\ IInv' /\ [Next]_vars => [Upgrade!Next]_(Upgrade!vars)
<1> SUFFICES ASSUME IInv, IInv', [Next]_vars PROVE [Upgrade!Next]_(Upgrade!vars)
  OBVIOUS
<1>1. CASE Next
  <2>1. PICK p \in Process :
            Quietly(p) \/ DataCommand(p) \/ \E n \in Version : Migrate(p, n)
    BY <1>1, Steps
  <2>2. CASE Quietly(p)
    BY <2>2, QuietUpgrade
  <2>3. CASE DataCommand(p)
    BY <2>3, CommandChangesData
  <2>4. CASE \E n \in Version : Migrate(p, n)
    BY <2>4, MigrateClimbs DEF Upgrade!Next
  <2>5. QED
    BY <2>1, <2>2, <2>3, <2>4
<1>2. CASE UNCHANGED vars
  BY <1>2 DEF Upgrade!vars, LastVersion, Blocked, Running, Normalized
<1>3. QED
  BY <1>1, <1>2

\* Any number of processes that run RunMigrations, fail and start again
\* implement the climb of SchemaUpgrade.
THEOREM MigrationsImplementUpgrade == Spec => ImplementsUpgrade
<1>1. Init => Upgrade!Init
  BY UpgradeInit
<1>2. IInv /\ IInv' /\ [Next]_vars => [Upgrade!Next]_(Upgrade!vars)
  BY UpgradeNext
<1>3. QED
  BY <1>1, <1>2, Invariance, PTL DEF Spec, ImplementsUpgrade, Upgrade!Spec
================================================================================
