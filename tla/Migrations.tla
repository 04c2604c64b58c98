------------------------------- MODULE Migrations -------------------------------
(***************************************************************************)
(* InitDB: the bridge and the CLI bring the schema of the same database    *)
(* file up to date, each with the version it read before its first         *)
(* transaction.  A migration and the row that records it are one           *)
(* transaction; it may fail, or the process may stop between two of them.  *)
(* The database is new, one of the time before versions, or any later one; *)
(* a process that is up links targets and blocks words while the other     *)
(* one starts.                                                             *)
(*                                                                         *)
(* The schema is the set of the tables that exist, an index standing with  *)
(* the table it is created with, and the set of the columns of pairings    *)
(* beyond its key.                                                         *)
(***************************************************************************)
EXTENDS Naturals

CONSTANTS
    Process,       \* the processes that call InitDB
    Target,        \* the targets of one source
    Raw, Word,     \* parts of the old comma separated list, and words
    Normal,        \* normalizeBlockedWord; NoWord when nothing is left
    NoWord,
    MaxFaults,     \* bound: failed statements and transactions
    MaxCrashes,    \* bound: processes stopped while they start
    MaxCommands    \* bound: commands of the processes that are up

ASSUME ConstantsAssumption ==
    /\ Normal \in [Raw -> Word \cup {NoWord}] /\ NoWord \notin Word
    /\ MaxFaults \in Nat /\ MaxCrashes \in Nat /\ MaxCommands \in Nat

Latest == 4
Version == 1 .. Latest
Column == {"blocked_words", "rule_config", "webhook_secret"}
Baseline == {"pairings", "queue", "audit_log"}
Table == Baseline \cup {"blocked_words", "event_history", "digest_events"}

VARIABLES
    versions,   \* table schema_migrations
    tables,     \* the tables that exist
    columns,    \* of pairings
    linked,     \* rows of pairings
    legacy,     \* column blocked_words of pairings, by target
    words,      \* table blocked_words, by target
    at,         \* where each process is
    next,       \* the version its loop tries next
    \* history: the pairings and words there should be, and what kept a
    \* process from starting
    wantLinked, wantWords, causes, failures,
    faults, crashes, commands   \* counters of the bounds

schemaVars == <<versions, tables, columns>>
dataVars == <<linked, legacy, words>>
processVars == <<at, next>>
wantVars == <<wantLinked, wantWords>>
startVars == <<causes, failures>>
boundVars == <<faults, crashes, commands>>
vars == <<schemaVars, dataVars, processVars, wantVars, startVars, boundVars>>

Normalized(R) == {Normal[r] : r \in R} \ {NoWord}

\* The shape of the schema at version n > 0.
TablesAt(n) == Baseline \cup (IF n >= 2 THEN {"blocked_words"} ELSE {})
                        \cup (IF n >= 3 THEN {"event_history"} ELSE {})
                        \cup (IF n >= 4 THEN {"digest_events"} ELSE {})
ColumnsAt(n) == IF n = 1 THEN Column ELSE Column \ {"blocked_words"}

\* Databases without versions: new, or with some of the tables and columns.
Unversioned ==
    /\ versions = {}
    /\ tables \in SUBSET Baseline
    /\ columns \in SUBSET Column
    /\ "pairings" \notin tables => columns = {}

InitSchema ==
    \/ Unversioned
    \/ \E n \in Version :
        versions = 1 .. n /\ tables = TablesAt(n) /\ columns = ColumnsAt(n)

Init ==
    /\ InitSchema
    /\ linked \in SUBSET Target
    /\ "pairings" \notin tables => linked = {}
    /\ legacy \in [Target -> SUBSET Raw]
    /\ \A t \in Target : t \notin linked \/ "blocked_words" \notin columns => legacy[t] = {}
    /\ words \in [Target -> SUBSET Word]
    /\ "blocked_words" \notin tables => \A t \in Target : words[t] = {}
    /\ at = [p \in Process |-> "down"] /\ next = [p \in Process |-> 1]
    /\ wantLinked = linked
    /\ wantWords = [t \in Target |-> words[t] \cup Normalized(legacy[t])]
    /\ causes = [p \in Process |-> 0] /\ failures = [p \in Process |-> 0]
    /\ faults = 0 /\ crashes = 0 /\ commands = 0

--------------------------------------------------------------------------------
(* The migrations: what each does to the schema and the data, and when SQL  *)
(* lets it.                                                                 *)

\* Everything is IF NOT EXISTS or ensureColumnExistsTx.
V1Init ==
    /\ tables' = tables \cup Baseline
    /\ columns' = columns \cup Column
    /\ UNCHANGED dataVars

\* Mutant: the table is created, and the words stay behind.
MovedWords_None(t) == words[t]
\* Mutant: the parts of the list are stored as they were written.
MovedWords_Raw(t) == words[t] \cup IF t \in linked THEN legacy[t] ELSE {}
\* splitBlockedWordsLegacy, and INSERT OR IGNORE.
MovedWords(t) == words[t] \cup IF t \in linked THEN Normalized(legacy[t]) ELSE {}

\* CREATE TABLE blocked_words has no IF NOT EXISTS, and the SELECT and the INSERT
\* name the columns.
V2NormalizeBlockedWords ==
    /\ "blocked_words" \notin tables
    /\ columns = Column
    /\ words' = [t \in Target |-> MovedWords(t)]
    /\ legacy' = [t \in Target |-> {}]
    /\ tables' = tables \cup {"blocked_words"}
    /\ columns' = columns \ {"blocked_words"}
    /\ UNCHANGED linked

\* CREATE INDEX has no IF NOT EXISTS.
V3CreateEventHistory ==
    /\ "event_history" \notin tables
    /\ tables' = tables \cup {"event_history"}
    /\ UNCHANGED <<columns, dataVars>>

V4CreateDigestEvents ==
    /\ tables' = tables \cup {"digest_events"}
    /\ UNCHANGED <<columns, dataVars>>

Up(n) == \/ n = 1 /\ V1Init
         \/ n = 2 /\ V2NormalizeBlockedWords
         \/ n = 3 /\ V3CreateEventHistory
         \/ n = 4 /\ V4CreateDigestEvents

\* A statement of Up(n) fails.
Refused(n) == \/ n = 2 /\ ~("blocked_words" \notin tables /\ columns = Column)
              \/ n = 3 /\ "event_history" \in tables

--------------------------------------------------------------------------------
(* RunMigrations of process p.                                              *)

Fault == faults < MaxFaults /\ faults' = faults + 1
NoFault == UNCHANGED faults

\* log.Fatal: the process ends.
Fatal(p) == /\ at' = [at EXCEPT ![p] = "down"]
            /\ failures' = [failures EXCEPT ![p] = @ + 1]
\* One more reason for p to fail.
Cause(P) == causes' = [p \in Process |-> IF p \in P THEN causes[p] + 1 ELSE causes[p]]

\* Docker starts the bridge again, a user the CLI.
Start(p) ==
    /\ at[p] = "down"
    /\ at' = [at EXCEPT ![p] = "opening"]
    /\ UNCHANGED <<schemaVars, dataVars, next, wantVars, startVars, boundVars>>

LastVersion ==
    IF versions = {} THEN 0 ELSE CHOOSE v \in versions : \A u \in versions : u <= v

\* Mutant: the version that is there is applied again.
FirstAfter_Inclusive(v) == IF v = 0 THEN 1 ELSE v
FirstAfter(v) == v + 1

\* CREATE TABLE IF NOT EXISTS schema_migrations and SELECT MAX(version).  Any
\* error of the query, such as the NULL of an empty table, stands for version 0.
ReadVersion(p) ==
    /\ at[p] = "opening"
    /\ at' = [at EXCEPT ![p] = "migrating"]
    /\ \/ next' = [next EXCEPT ![p] = FirstAfter(LastVersion)] /\ NoFault
          /\ UNCHANGED causes
       \/ next' = [next EXCEPT ![p] = FirstAfter(0)] /\ Fault /\ Cause({p})
    /\ UNCHANGED <<schemaVars, dataVars, wantVars, failures, crashes, commands>>

\* The table cannot be created, or tableExists fails.
OpenFails(p) ==
    /\ at[p] = "opening"
    /\ Fault /\ Cause({p})
    /\ Fatal(p)
    /\ UNCHANGED <<schemaVars, dataVars, next, wantVars, crashes, commands>>

\* Mutant: INSERT OR REPLACE.
Recorded_Replace(n) == FALSE
\* The INSERT of version n, a primary key, fails.
Recorded(n) == n \in versions

\* Others at work on version n, or an earlier one, will find it applied.
Overtaken(p, n) == {q \in Process \ {p} : at[q] = "migrating" /\ next[q] <= n}

Migrate(p, n) ==
    /\ at[p] = "migrating" /\ next[p] = n /\ n \in Version
    /\ Up(n) /\ ~Recorded(n)
    /\ versions' = versions \cup {n}
    /\ next' = [next EXCEPT ![p] = n + 1]
    /\ Cause(Overtaken(p, n))
    /\ UNCHANGED <<at, wantVars, failures, boundVars>>

\* Mutant: the migration is tried again without end.
AfterFailure_Retry(p) == UNCHANGED <<at, failures>>
\* Mutant: the error is logged, and the process goes on.
AfterFailure_GoOn(p) == at' = [at EXCEPT ![p] = "up"] /\ UNCHANGED failures
AfterFailure(p) == Fatal(p)

\* The transaction is rolled back.
MigrateFails(p, n) ==
    /\ at[p] = "migrating" /\ next[p] = n /\ n \in Version
    /\ \/ /\ Refused(n) \/ Recorded(n)
          /\ NoFault /\ UNCHANGED causes
       \/ Fault /\ Cause({p})
    /\ AfterFailure(p)
    /\ UNCHANGED <<schemaVars, dataVars, next, wantVars, crashes, commands>>

Ready(p) ==
    /\ at[p] = "migrating" /\ next[p] > Latest
    /\ at' = [at EXCEPT ![p] = "up"]
    /\ UNCHANGED <<schemaVars, dataVars, next, wantVars, startVars, boundVars>>

\* The CLI is done, or the bridge is stopped.
Stop(p) ==
    /\ at[p] = "up"
    /\ at' = [at EXCEPT ![p] = "down"]
    /\ UNCHANGED <<schemaVars, dataVars, next, wantVars, startVars, boundVars>>

Crash(p) ==
    /\ at[p] \in {"opening", "migrating"}
    /\ crashes < MaxCrashes /\ crashes' = crashes + 1
    /\ at' = [at EXCEPT ![p] = "down"]
    /\ UNCHANGED <<schemaVars, dataVars, next, wantVars, startVars, faults, commands>>

--------------------------------------------------------------------------------
(* What a process that is up does to the tables the migrations rebuild.     *)

Command(p) ==
    /\ at[p] = "up"
    /\ commands < MaxCommands /\ commands' = commands + 1
    /\ UNCHANGED <<schemaVars, legacy, processVars, startVars, faults, crashes>>

LinkChannel(p, t) ==
    /\ Command(p)
    /\ linked' = linked \cup {t} /\ wantLinked' = wantLinked \cup {t}
    /\ UNCHANGED <<words, wantWords>>

UnlinkChannel(p, t) ==
    /\ Command(p)
    /\ linked' = linked \ {t} /\ wantLinked' = wantLinked \ {t}
    /\ UNCHANGED <<words, wantWords>>

AddBlockedWord(p, t, w) ==
    /\ Command(p)
    /\ words' = [words EXCEPT ![t] = @ \cup {w}]
    /\ wantWords' = [wantWords EXCEPT ![t] = @ \cup {w}]
    /\ UNCHANGED <<linked, wantLinked>>

RemoveBlockedWord(p, t, w) ==
    /\ Command(p)
    /\ words' = [words EXCEPT ![t] = @ \ {w}]
    /\ wantWords' = [wantWords EXCEPT ![t] = @ \ {w}]
    /\ UNCHANGED <<linked, wantLinked>>

--------------------------------------------------------------------------------
RunMigrations(p) ==
    ReadVersion(p) \/ Ready(p) \/ \E n \in Version : Migrate(p, n) \/ MigrateFails(p, n)

Next == \E p \in Process :
            \/ Start(p) \/ RunMigrations(p) \/ OpenFails(p) \/ Stop(p) \/ Crash(p)
            \/ \E t \in Target :
                \/ LinkChannel(p, t) \/ UnlinkChannel(p, t)
                \/ \E w \in Word : AddBlockedWord(p, t, w) \/ RemoveBlockedWord(p, t, w)

Spec == Init /\ [][Next]_vars

\* A process that is down is started again, and goes on.
FairSpec == /\ Spec
            /\ \A p \in Process : WF_vars(Start(p)) /\ WF_vars(RunMigrations(p))

--------------------------------------------------------------------------------
\* The schema, its data and the positions of the processes have the values the
\* code gives them; a process tries at most the version after the last.
TypeOK ==
    /\ versions \subseteq Version /\ tables \subseteq Table /\ columns \subseteq Column
    /\ linked \subseteq Target
    /\ legacy \in [Target -> SUBSET Raw] /\ words \in [Target -> SUBSET Word]
    /\ at \in [Process -> {"down", "opening", "migrating", "up"}]
    /\ next \in [Process -> 1 .. Latest + 1]
    /\ wantLinked \subseteq Target /\ wantWords \in [Target -> SUBSET Word]
    /\ causes \in [Process -> Nat] /\ failures \in [Process -> Nat]
    /\ faults \in 0 .. MaxFaults /\ crashes \in 0 .. MaxCrashes
    /\ commands \in 0 .. MaxCommands

\* RunMigrations: however often it was stopped, failed or was run by two
\* processes at once, also by one that took a failed query for version 0, the
\* versions recorded are the first n, and the schema is that of version n: no
\* migration is half done, done twice or done without a record.
SchemaMatchesVersion ==
    \/ versions = {} /\ tables \subseteq Baseline
    \/ \E n \in Version :
        versions = 1 .. n /\ tables = TablesAt(n) /\ columns = ColumnsAt(n)

\* v2NormalizeBlockedWords: at every moment the pairings and the words a reader
\* of the current schema finds are those there were, with what commands have
\* changed since: rebuilding the table loses none, and a word that was unblocked
\* does not come back from the old column.
DataSurvives ==
    /\ linked = wantLinked
    /\ \A t \in Target : wantWords[t] = words[t] \cup Normalized(legacy[t])

\* InitDB: a process that is up finds the schema its statements are written for.
UpMeansCurrent == (\E p \in Process : at[p] = "up") => versions = Version

\* A start fails only for a statement that failed under it or for a version
\* another process applied after the version was read, once for each: two
\* processes that start together do not keep each other down.
FailuresExplained == \A p \in Process : failures[p] <= causes[p]

\* What a reader of the latest schema finds, or will find.
Blocked == [t \in Target |-> words[t] \cup Normalized(legacy[t])]
Running == {p \in Process : at[p] = "up"}

Upgrade == INSTANCE SchemaUpgrade WITH version <- LastVersion, linked <- linked,
                                       blocked <- Blocked, up <- Running

\* RunMigrations in any number of processes is one climb to the latest version
\* that leaves the data alone: whatever fails or is overtaken, no version is
\* skipped or taken back, no process gets in before the end (log.Fatal of
\* InitDB), and the data changes by commands of processes that are in only.
ImplementsUpgrade == Upgrade!Spec

\* A process that is started again after each failure is up in the end.
ComesUp == \A p \in Process : at[p] = "down" ~> at[p] = "up"
================================================================================
