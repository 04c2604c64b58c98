# A TLA+ model of the media bridge

The bridge (`src/cmd/main.go`) copies media and text between Telegram chats,
Discord channels and webhooks. Producers turn a message into one event per
linked target and store it in SQLite; one queue processor takes the events out
again and hands them to the consumer of the target's platform, or to a digest
that is sent later. This directory models that system in TLA+, checks it with
TLC on small instances and proves its safety properties with TLAPS.

## 1. The system

| component | source | state it keeps | operations |
|---|---|---|---|
| delivery queue | `internal/database/db.go` | tables `pending_events`, `processed_events`, `dead_letters`, `media_dedupe` | enqueue, claim, acknowledge, reschedule, dead-letter, replay |
| queue processor | `internal/queue/processor.go` | a copy of the event in work | claim, apply rules, send, settle, retry |
| digest scheduler | `internal/queue/digest.go`, `internal/database/digest.go` | table `digest_events`; cutoff and groups of a pass | buffer, list, count, send, clear |
| retention | `internal/database/retention.go` | – | delete old rows table by table |
| Telegram producer | `internal/telegram/producer.go` | the update channel of the client library | fan a message out; commands in the same loop |
| Discord producer | `internal/discord/producer.go` | – | the same, in concurrent handlers |
| rules | `internal/rules/engine.go` | burst counters in memory | filter, tag, file, burst, quiet hours |
| rate limits | `internal/security/ratelimit.go` | buckets in memory | check a source, check a destination |
| pairings | `internal/database/db.go`, `export.go` | tables `pairings`, `blocked_words` | link, unlink, set rules, block words, import |
| commands | `internal/telegram/producer.go`, `internal/discord/consumer.go`, `cmd/cli` | – | sequences of the above |
| consumers | `internal/{telegram,discord,webhook}/consumer.go`, `internal/transport` | – | send |
| moderation | `internal/moderation` | – | score a caption |
| migrations | `internal/database/migrations.go` | table `schema_migrations`, the schema | bring the schema up to date, in every process that opens the database |
| observability | `internal/observability` | atomic counters, heartbeat, the last snapshot of the alert loop | metrics, readiness, alerts |
| admin panel, statistics, localisation, secrets | `internal/adminpanel`, `admin.go`, `stats.go`, `internal/i18n`, `security.go` | – | reads and pure functions |

**How they interact.** Everything meets in the database. The Telegram loop and
every Discord handler read `pairings`, ask the in-memory limits and write
`pending_events`. The single processor goroutine claims a row by moving its
`available_at` past a lease, re-reads the pairing, and ends in exactly one of:
acknowledge, reschedule, dead-letter. With digests on it writes `digest_events`
and acknowledges. The digest scheduler, the retention worker, the commands and
the CLI (another process) work on the same tables at the same time. A call of a
consumer is the only step that reaches outside, and it cannot be taken back.

**What is hard.** A crash between any two transactions. Sends whose answer is
lost. Two transactions where one would be needed (digest and acknowledgement,
send and acknowledgement, the statements of an import). Any write may fail: the
SQLite driver in use ignores the `_busy_timeout` parameter of the DSN, and the
CLI writes from another process. Values read early and used late: the digest
cutoff, the pairings of a message, the blocked words of an attempt, the file URL
of a deferred event. Retention
that forgets in a different order than the tables depend on each other. Several
errors are dropped by the callers (`ackEvent`, the Discord enqueue, the clear in
an import). Several processes that migrate the same file, each by the version it
read before its first transaction. Atomic counters that are consistent one by
one and not together. `PROJECT.json` lists each of these at its line under `hazards`.

**What makes each part correct.**
- queue: nothing accepted is lost, nothing done is done again without a cause,
  a dead letter was earned, and everything queued leaves the queue;
- digests: what is deleted was counted in a summary, losses and repeats have a
  cause, and a target that works is served although others do not;
- producers: each target gets what its own rules say, whatever happens to the
  others and to other messages with the same file, and a second time only for a
  reason; every message is handled;
- limits: what a window admits is bounded, and refusals do not go on for ever;
- pairings: imports converge after failures, secrets survive, a `/block` that is
  confirmed has happened, and what was blocked when an attempt began is not sent;
- migrations: at every moment the schema is that of a version, no pairing or
  word is lost, and every process comes up;
- observability: an event is counted in one window, and a processor that is stuck
  in a call without a deadline is told from one that is idle or keeps its
  deadlines.

## 2. The modules

| module | models | state ↔ code |
|---|---|---|
| `DeliveryQueue` | queue, processor, replay, retention, crash | a table is the set of its keys plus a function per column; `due[e]` is `available_at - now`; `pc` and `job` are the position and the copy of the event in `processQueuedEvent` |
| `EventCustody` | abstract promise of the queue | where each event stands, and which were handled |
| `DeliveryQueueRefinement` | the mapping between the two | `status` is read off the tables in the order the code reads them |
| `DigestScheduler` | processor's digest path and direct sends, scheduler, retention | `queued` and `unacked` are what the processor has to settle; `row`, `wait`, `age` are `digest_events`; `sc`, `todo`, `group`, `counted`, `elapsed` the pass, `elapsed` being the age of its cutoff |
| `DigestCustody` | abstract promise of digest mode | an event is `owed` while `pending_events` or `digest_events` has it; `reached`, `dropped` are the history of `DigestScheduler` |
| `Ingest` | the producer of one source of either platform, the library's update buffer, the dedupe of ids and files, the queue as the enqueue sees it, admin commands, restart | `at[m]` is where a message is; `read`, `todo`, `hash` are `pairings`, `validPairings`, `fileHash` of its handler; `known` the ids in `pending_events` and `processed_events`, `media` is `media_dedupe` |
| `Limits` | `checkLimit` and `EvaluateSpamRule` | a bucket is a count and the age of its window; `burstCount` and `lastAge` are the count and the age of `burstLast`; `since` and `seen` an observer's |
| `QuietHours` | `EvaluateTimeRule` and the life of a deferred file | `available` is `available_at` |
| `PairingAdmin` | pairing and blocked word commands, import | the columns of the tables by target; `tg` and `imp` are the commands between two statements |
| `Bridge` | `PairingAdmin` composed with an event on its way through the processor | `ev` is where the event is, `passed` being past the verdict and not yet sent; `config` the `ruleConfig` of this attempt |
| `Migrations` | `InitDB` and `RunMigrations` of several processes, and commands of those that are up | `versions`, `tables`, `columns` are the schema; `legacy` and `words` the old column and the new table; `at`, `next` the position in `RunMigrations` |
| `SchemaUpgrade` | abstract promise of `InitDB` | `version` is the last one recorded, `blocked` the words of the column and of the table, `up` the processes that are |
| `Observability` | counters, heartbeat, `/readyz`, alert loop | `counters` and `heartbeat` are the atomics; `snapshot`, `previous` those of `runAlertLoop`; `al` the next load; `bounded` whether the deadline of `processQueuedEvent` reaches its send |

`DeliveryQueueProofs`, `DigestProofs`, `IngestProofs`, `LimitsProofs`,
`QuietHoursProofs`, `BridgeProofs` (with those of `PairingAdmin`),
`MigrationsProofs` and `ObservabilityProofs` hold the theorems of section 4; the modules `MC...` the
sets the configurations use.

Conventions. One transaction is one step, and it may fail as long as the bound
on faults allows (`Fault`). Time is relative and advances in `Tick`; ages stop
at the first value past the limit they are compared with. Variables declared as
history are read by no guard. A definition `X_Something` before `X`, marked
"Mutant", is a plausible mistake in the code `X` models; it is part of no
specification and shows that the property named in `PROJECT.json` notices it.

**`DeliveryQueue`.** `Enqueue` is `EnqueuePendingEvent` with
`recordMediaDedupe`, including the rollback when the media is a duplicate;
`Claim`, `Settle`, `Retry`/`HoldBack`, `GiveUp` and `Replay` are the other
transactions. `Dispose`, `RouteFails`, `Admit` and `HoldBack` are the ways
through `processQueuedEvent`; because pairing, blocked words and score are read
again on each attempt, any of them may follow any claim. `SendSucceeds`,
`SendFails` and `AnswerLost` are the outcomes of a consumer. `Crash` leaves the
tables and forgets the processor. The retention sweeps delete any non-empty set
of expired rows, since `cleanupTable` works in batches and gives up at the first
error. In the code a lease is not checked when an event is settled; with one
processor that is harmless, and `ClaimKeepsRow` says why: nothing else removes
the row of the event in work.

**`DigestScheduler`.** `Buffer` and `Ack` are two steps, as `AddDigestEvent` and
`ackEvent` are. `Forward` is the direct send of an event whose pairing is gone or
has no digest by the time it is claimed: answered, it is acknowledged in a step of
its own, and if the answer is lost, the acknowledgement fails or the bridge stops
before it, the event is still queued and sent or buffered once more. A pass takes its cutoff once (`StartPass`); each group is then
counted (`CountGroup`), sent, and cleared with the same cutoff, while rows arrive
and become due. `DropGroup` is the branch where `GetPairing` fails.

**`Limits`.** Calls of `checkLimit` and `EvaluateSpamRule` come in any number
between two ticks. What a window may see is a statement about every stretch of
time, so an observer begins to count at any moment (`Observe`, `ObserveBurst`)
and counts for one window what is let through; it touches nothing the code
reads, and each stretch is one it may have chosen.

**`Ingest`.** The messages of one source, which belongs to one platform: a
Telegram chat, whose updates the one loop handles one after the other, or a
Discord channel, whose handlers run at once. Sources share neither pairings nor
ids nor fingerprints. The Telegram library fetches ahead and confirms on its next
poll (`FetchUpdates`); after a crash the server repeats what is not confirmed, the
rest is lost. `CheckRules` reads the pairings once and applies every rule to
every target; the handler then goes through the accepted targets one by one.
`EnqueuePendingEvent` has three outcomes: it stores the event and the file's
fingerprint (`Enqueue`), finds the id or the fingerprint and stores nothing
(`Skip`), or fails and rolls both back (`EnqueueFails`). An id is known while it is
pending or processed; once the queue dead-letters it, or retention forgets that it
was processed (`Forget`), it is as good as new, until an operator replays it
(`Replay`), and a fingerprint leaves its window in `Expire`. The hash may be
missing, as a request that fails leaves it. The rules that reject a message are
part of the pairing (`rejects`); the burst rule among them refuses or not,
by a count that is `Limits`'.

**`PairingAdmin`.** Statements are operators on the tables; commands are one
step when they are one statement, and a step per statement otherwise (`/block`
for all targets, `/setrule`, `import-pairings`). The import may be stopped
anywhere (`EndImport`). `asked` remembers which words somebody blocked and
nobody lifted, whatever happened to the pairing; `cut` which targets an import
left without their words.

**`Bridge`.** The processor reads the pairing (`Claim`), then the blocked words,
on which it gives its verdict (`Filter`, `Pass`), and sends what passed after it
has downloaded the file (`Send`). Every command and import of `PairingAdmin` may
step in between (`AdminStep`): rules and words may change after they were read,
and a `/block` that comes after the words were read does not stop the send.
`blockedSince` remembers whether the text has been blocked ever since the claim,
`rulesSince` which rules the pairing had until the verdict. The queue is reduced to what
`EventCustody` promises: an event that is not settled comes back. A restart ends
the Telegram command in progress; the CLI is another process and goes on.

**`Migrations`.** A migration with its row in `schema_migrations` is one
transaction; reading the version is a step of its own, so that two processes may
hold the same old version. The initial states are every database the code may
find: new, one from before the version table with any of its tables and columns,
or one of each version, with any data. `Refused` is where SQL rejects a
statement that lacks `IF NOT EXISTS` or names a column that is gone; `Recorded`
where the primary key of `schema_migrations` does. `ReadVersion` has the branch
in which the query fails and the code takes it for version 0.

**`Observability`.** Each atomic operation is a step: `RegisterEventsForwarded`
and `RegisterDeliveryFailure` are two each, `snapshotCounters` is one load per
counter, and the processor counts on in between. `heartbeat` and `iteration` are
both ages; the first may be a second older, being stored in whole seconds.
The deadline of 28 seconds reaches a webhook's request and a file's download
(`bounded`); it is not handed to the libraries of Telegram and Discord, so that an
upload may take longer or never return, and then the clock (`Tick`) may run on
while the processor stays where it is. `Answer` is what `readyHandler` says to
whoever asks in a state.

## 3. What TLC checks

Run from this directory, for instance `tlc -config QueueStore.cfg MCDeliveryQueue.tla`.

| run | module | checks | instance and why it is enough |
|---|---|---|---|
| `QueueStore` | `MCDeliveryQueue` | `TypeOK`, `NoEventLost`, `ProcessedWasDisposed`, `ProcessedNotQueued`, `ClaimKeepsRow`, `DuplicatesExplained`, `DeadLetterEarned`, `ImplementsCustody` | one event, offered twice, 2 retries, 2 faults, 1 crash, 2 replays, retentions of 1 and 2. These properties speak of one event at a time and events meet only in the choice of the next claim. Each of retry, dead letter, replay, purge and second acceptance happens, in any order |
| `QueueFair` | `MCDeliveryQueue` | `QueueDrains`, `DedupeSpacing` | two events with the same media, so that one may keep the processor from the other or shut it out as a duplicate; a fault, a crash, a replay; a dedupe window of 1: the ages 0, 1, 2 lie before, at and past its end |
| `Limits` | `MCLimits` | `TwiceTheLimit`, `BurstBounded`, `BucketRefusalEnds`, `BurstRefusalEnds` | limit 2 in a window of 2 and burst limit 3 in a window of 3, any number of calls per tick, watched from any moment: a bucket can fill in one tick and across a boundary, and refusals go on past the end of a window. One key, since keys do not affect each other |
| `Digest` | `MCDigestScheduler` | `DigestLossExplained`, `RepeatsExplained`, `ClearedWasCounted`, `ImplementsDigestCustody` | two events of one group, intervals 1 and 2, passes up to 2 long: a row may become due between the cutoff and the clear. That a digest stays within its group, which takes two of them, is in the proof of `ImplementsDigestCustody` |
| `DigestFair` | `MCDigestScheduler` | `HealthyServed` | two groups, one broken, batches of two, a crash |
| `Ingest` | `MCIngest` | `FanOutComplete`, `StoredAgainExplained`, `OnlyAccepted`, `EventuallyHandled` | two messages, with the same file or a file and a text, of Telegram or of Discord, and two targets, of which one has a rule at the start; two failures, restarts among them; one change from outside, an admin command or an event that is dead-lettered or forgotten; replays and expiries without bound. One handler's event stands in for the other's; two targets tell the failure of one from the other; a second event takes one restart and one change. Each rule rejects in the same way, so the tag rule stands for the filter and file rules; the burst rule, which may also let a message pass, is in the proofs only |
| `QuietHours` | `QuietHours` | `WaitsForFirstChance`, `DeferredIsFetchable` | a day of six steps, all 36 pairs of start and end, any arrival within two days, a URL that lives for two: quiet hours of one and two steps are within its life, three to five are not |
| `Bridge` | `MCBridge` | `ImportConverges`, `SecretsKept`, `BlocksInForce`, `BlockCovers`, `BlockedNotSent`, `VerdictFollowsRules` | two targets, both in the file, the word in the file for one of them; two imports (a failed one and its repetition), two commands, one fault, restarts; default rules, rules that block and rules that simulate |
| `Migrations` | `MCMigrations` | `TypeOK`, `SchemaMatchesVersion`, `DataSurvives`, `FailuresExplained`, `ComesUp`, `ImplementsUpgrade` | two processes, since they meet only in the schema; every initial schema; an old list with a word and a blank part; two faults, one crash, one command |
| `Observability` | `Observability` | `OneWindowEach`, `ProbeTellsHang`, `StreakReported` | a send of 1 and staleness of 2, the least that leaves a send with a deadline room, and sends without one; four deliveries and a streak limit of 2, so that a streak may be broken by a success and built again; a failed query |

Bounds. `MaxFaults`, `MaxCrashes`, `MaxReplays`, `MaxOffers`, `MaxCommands`,
`MaxImports`, `MaxChanges`, `MaxDeliveries` count events of the environment
(in `Ingest`, `MaxChanges` those of the queue and `MaxFaults` restarts as well);
`MaxDead` bounds the ids of dead letters, `MaxLag` and `MaxPass` how far the
clock may run ahead of a busy goroutine, `Horizon` the clock. Durations are scaled
down so that their order is kept where it matters (a lease outlasts a poll; dead
letters outlive processed events).
`Ingest`, `IngestSkipped`, `QuietHours` and `Bridge` do not check for deadlock:
there the environment has a last message or command and the model may stop.

The type invariants of `DigestScheduler`, `Ingest`, `Limits`, `QuietHours`,
`PairingAdmin` and `Observability` are proved for all values of the constants
(section 4) and not checked again by a run; those of `DeliveryQueue` and
`Migrations` are both. So is `UpMeansCurrent` of `Migrations` proved only, which
`ImplementsUpgrade` says as well: `Enter` needs the latest version.

### What the code's own words say otherwise

Two runs check a sentence of the repository and find it violated:

| run | sentence | what happens |
|---|---|---|
| `IngestSkipped` | discord/producer.go:126 "duplicate event detected" | also recorded when the enqueue failed and nothing was stored |
| `RetriesCounted` | observability.go:323 "Total number of retry attempts scheduled" | nothing calls `RegisterRetryScheduled`, and `bridge_retries_scheduled_total` stays 0 |

More disagreements showed while the code was modelled. They have no run of
their own; a proviso of a checked property carries each of the first seven.

| sentence | what the code does | where it shows |
|---|---|---|
| FEATURE_IDEAS.md:39 "Use event IDs to prevent double-send in reconnect scenarios." | a crash after `Send` and before the acknowledgement sends again | the excuses of `DuplicatesExplained` |
| ratelimit.go:26 "sliding-window counters" | windows are fixed, so more than the limit fits across a boundary | the factor in `TwiceTheLimit` |
| models/rules.go:21 "Messages allowed per BurstWindow" | a trickle slower than the limit is refused, as only a pause resets the count | `BurstRefusalEnds` promises an end after a pause only |
| FEATURE_IDEAS.md:28 "... so restarts do not lose messages." | updates fetched and confirmed but not handled are lost in a restart | "lost" in `EventuallyHandled` |
| cmd/cli/main.go:77 "Replace blocked words with imported values" | the error of the DELETE is dropped, the old words stay and success is reported | `~ignored` in `ImportConverges` |
| README.md:15 "queue content during quiet hours, deliver later" | the file's URL lives an hour (discord/consumer.go:51); after longer quiet hours it is gone | the last conjunct before the conclusion of `DeferredIsFetchable` |
| README.md:15, the same | quiet hours that end when they start hold for ever, and each message waits for the next such minute | `start # end` in `WaitsForFirstChance` |
| README.md:63 "`!setrule ...`: Set advanced rules" | Discord's command writes the audit log and nothing else | not a step of any model |
| observability.go:326 "Total number of events moved to dead letter queue" | nothing calls `RegisterDeadLetterMoved` either | `MoveToDeadLetter` of `Observability` changes no counter |
| README.md:121 "If present, it is loaded automatically." | the limits and the dedupe window are read from the environment at package initialisation, before `.env` is loaded | not a step of any model |

### Fairness

- `DeliveryQueue`: weak fairness of the processor (`StartProcessor` loops for
  ever), of the clock, and strong fairness of the way past the destination
  limit, which `Limits` justifies (`BucketRefusalEnds`).
- `DigestScheduler`: the ticker fires; a target that is not in `Broken` takes a
  digest if asked again and again (strong fairness of `SendSucceeds`).
- `Ingest`: the library polls, the gateway delivers, a handler goes on.
- `Migrations`: `log.Fatal` ends a process whose migration fails, and it is
  started again, the bridge by its container, the CLI by its user; a loop that
  runs goes on. Nothing is assumed of faults, which are bounded: a statement that
  finds the database locked by the other process is one of them, so what the run
  shows is that two failed statements, in any place, do not keep a process down,
  not that two processes cannot lock each other out again and again.
- `Observability`: the ticker of the alert loop fires. Nothing is assumed of the
  processor, which may be stuck.

What bounds a send differs by platform. The context of `processQueuedEvent`
(`processingLease - 2s`) and that of a digest (`digestSendTimeout`) reach a
webhook's request, which has a timeout of its own too, and the download of a file;
they are not passed on to `botInstance.Send` nor to `ChannelMessageSend`. Discord's
library has its own timeout per request and repeats some; Telegram's client and the
hashing of files (`http.DefaultClient`) have none. That such a call ends is an
assumption of the fairness of `Ingest`, `DeliveryQueue` and `DigestScheduler`; if
one hangs, its loop hangs with it. `Observability` makes no such assumption:
`/readyz` notices a processor that is stuck, and cannot tell a hang from an upload
that is slower than its limit.

## 4. What is proved

`tlapm XProofs.tla` proves what follows for every value of the constants that
satisfies the assumptions named in the module (`ConstantsAssumption`,
`BridgeAssumption`): any sets of events, targets, words or processes, any
limits, delays and retentions, and any bound on faults, crashes and commands.

| module | theorem | says |
|---|---|---|
| `DeliveryQueueProofs` | `TypeCorrect` | `Spec => []TypeOK` |
| | `EventsAreKept` | `Spec => []NoEventLost` |
| | `ProcessedIsFinal`, `ProcessedHasLeftQueue` | `Spec => []ProcessedWasDisposed`, `Spec => []ProcessedNotQueued` |
| | `ClaimIsSafe` | `Spec => []ClaimKeepsRow` |
| | `DuplicatesHaveCauses` | `Spec => []DuplicatesExplained` |
| | `DeadLettersAreEarned` | `Spec => DeadLetterEarned` |
| | `MediaIsSpaced` | `Spec => DedupeSpacing` |
| | `QueueImplementsCustody` | `Spec => ImplementsCustody` |
| `DigestProofs` | `TypeCorrect`, `ClearsWhatWasCounted`, `DigestLossIsExplained`, `RepeatsAreExplained`, `DigestsImplementCustody` | all properties of the run `Digest` |
| `IngestProofs` | `TypeCorrect`, `FanOutIsComplete`, `StoredAgainIsExplained`, `OnlyAcceptedIsStored` | all safety properties of the run `Ingest` |
| `BridgeProofs` | `TypeCorrect`, `ImportsConverge`, `SecretsAreKept`, `BlocksStayInForce`, `BlocksCover` | of `PairingAdmin`: the properties of the tables in the run `Bridge`, without the processor |
| | `TablesAreKept`, `BlocksCoverInBridge`, `BlockedIsNotSent`, `VerdictsFollowRules` | all properties of the run `Bridge` |
| `MigrationsProofs` | `TypeCorrect`, `SchemaIsVersioned`, `DataIsKept`, `UpIsCurrent`, `FailuresHaveCauses`, `MigrationsImplementUpgrade` | all safety properties of the run `Migrations`, for any number of processes |
| `ObservabilityProofs` | `TypeCorrect`, `EachInOneWindow`, `ProbeIsRight` | the safety properties of the run `Observability` |
| `LimitsProofs` | `TypeCorrect`, `AtMostTwiceTheLimit`, `BurstsAreBounded`, `BucketRefusalsEnd`, `BurstRefusalsEnd` | all properties of the run `Limits`, for any number of calls |
| `QuietHoursProofs` | `TypeCorrect`, `WaitsForTheFirstChance`, `DeferredCanBeFetched` | all properties of the run `QuietHours`, for a day of any length |

Few of these properties are inductive alone. What the invariants add:

- `DeliveryQueue`: an event at `settle` was handled (`SettleIsDisposed`), or
  `Settle` could mark an unhandled one processed; ids of dead letters above
  `deadSeq` are unused (`FreshIds`), or a new dead letter could overwrite
  another; copies, excuses, the position of the processor and the tables add up
  (`SendsAccounted`); the retries of a row and of the processor's copy were paid
  for by failed attempts (`RetriesPaid`). For `DedupeSpacing`: for a whole window
  after media was queued its fingerprint is in `media_dedupe` and looks no older
  than it is (`FingerprintKept`), since the sweep of retention takes one only when
  the enqueue would no longer look at it. The refinement is proved action by
  action: `Claim`, `Reschedule`, sends that fail and the clock are stutters of
  `EventCustody`; enqueue and replay are `Queue`, sends and `Dispose` are
  `Handle`, `Settle` is `Settle`, `GiveUp` is `Park`, the sweeps are `Forget`.
- `DigestScheduler`: between count and clear the due rows of the group are among
  those counted (`DueWasCounted`), whatever arrives; an event that left the
  queue is somewhere (`NothingLost`); and the copies of an event, with those
  that may still be made because it waits, is in the digest being sent or is
  still queued and not in hand (`Waiting`, `InDigest`, `InQueue`), are at most one more than its
  excuses (`CopiesExcused`). The refinement takes one thing more, that what a
  digest counted is still in the table or was dropped since, and belongs to its
  target (`CountedIsOwed`). `Forward`, `SendSucceeds` and `AnswerLost` are
  `Deliver`; an acknowledgement or a clear is `Release` of what neither table
  has any more, or a stutter; `DropGroup` and the sweep are `GiveUp`; everything
  else, a crash included, is a stutter.
- `Ingest`: a target a handler's pairings pass is among those it has to do, was
  served or failed (`NoneForgotten`), and it has to do no others (`OnlyPassing`).
  That another message's event served it needs that what the tables know, or have
  forgotten, was stored once (`TablesTell`). An event was stored as often as it was
  forgotten, and once more while it is known; and with the chance its message still
  has, no more often than that was delivered (`StoredCounted`), which for a Discord
  message is once (`DispatchedOnce`).
- `PairingAdmin`: words that are missing are among those the running import has
  to add, or the import was cut short (`MissingIsDue`, `LeftIsDue`); what the
  import has passed is as the file says, target by target and step by step
  (`Progress`); what `/block` has passed is blocked (`Covered`). `Bridge` adds
  steps that leave the tables alone, that the rules in use were read since the
  claim (`ConfigWasRead`), and that no text that has been blocked since the claim
  is past the verdict without simulation (`HeldBack`): a word that is asked for and
  in force is in the table when the verdict reads it (`BarredIsBlocked`).
- `Migrations`: versions are a prefix and the schema follows from it (`Shape`);
  no process expects a version more than one past the last (`WithinReach`); the
  old column lives before version 2 only (`LegacyLives`); and a process that is
  behind the database has a cause in hand for its coming failure
  (`StaleHasCause`), without which `FailuresExplained` would not survive the
  step of the other process. In the refinement a transaction of `Migrate` is
  `Climb`, `Ready` is `Enter`, a failure, a stop or a crash is `Leave`, a command
  is `Link` or `Block`; the words that move from the column to the table are the
  same words before and after, and a command finds the latest schema, so that no
  old column can bring a word back.
- `Observability`: the heartbeat and the iteration are of the same age up to a
  second (`HeartbeatOfIteration`), and the counters loaded by the alert loop lie
  between the last window's and the present ones (`WindowsInOrder`).
- `Limits`: a row of refusals is no older than the window that refuses
  (`BeforeRefusals`, `BurstBeforeRefusals`). What an observer has seen is
  in the bucket at hand, or, if the bucket began after the observation, in it and
  a full one before it (`InTwoBuckets`); of a burst, as long as the
  observation lasts, it is no more than the count, since the count is cleared
  only after a pause longer than the window (`InOneBurst`).
- `QuietHours`: no invariant beyond what `available` was computed from, but
  arithmetic of the clock: how the minute of the day moves with time
  (`MinuteNear`, `MinuteLater`), that the closed form of `InQuietHours` is the
  walk from start to end (`QuietIsWalk`), and that `AvailableAt` is the first
  moment outside it (`AvailableIsFirst`).

Each part has one lemma per action or group of actions; `Init` and the step are
put together by `PTL`.

Only model-checked are the liveness properties, which need fairness and `ENABLED`
and are out of the prover's reach: `QueueDrains`, `HealthyServed`,
`EventuallyHandled`, `ComesUp`, `StreakReported`. Every safety property of a
passing run is proved.

## 5. What is not modelled

- Texts: templates, digests, replies, localisation, metadata, `/metrics`,
  `/healthz` and the structured log.
- Scoring by `moderation.Evaluate` and the matching of filters, tags, words and
  MIME types: pure functions whose verdict the models leave free.
- Uploads and signatures of the consumers.
- The admin panel and the statistics, which only read; the alerts on queue and
  retry depth, which compare one number; loading and masking of secrets.
- Configuration: every tunable is a constant (`SetConfig` is called by tests
  alone).
- Several attachments of one Discord message, which repeat the steps for one.
- `/unblock` and `/clearblocks` are one step each, the look-up of the pairing
  included, and the second look-up of `/block` is merged with its first.
- Of the migrations, columns other than those of `pairings`, and indexes apart
  from the table they come with.
- Overflow of counters, which real values do not reach (the backoff is capped at
  a shift of `maxDeliveryRetries`, which is 5).

## 6. Plan

Order of work, the most important behaviour first; done: 1 to 10 and 12 as far as it says.

1. `DeliveryQueue` with `QueueStore`, `QueueFair`.
2. `EventCustody`, the refinement, `DeliveryQueueProofs`.
3. `Limits`.
4. `DigestScheduler`.
5. `Ingest`.
6. `QuietHours`.
7. `PairingAdmin`.
8. `Bridge`: the processor composed with `PairingAdmin`.
9. `Migrations`: the version table, partial failures, two processes.
10. `Observability`: heartbeat, staleness and the alert counters.
11. Left: pure parts against reference definitions, such as
    `resolveOptionalTargetArg`, the precedence in `EvaluateFilterRule` and the
    thresholds of moderation.
12. Proofs of the above, and the abstract `DigestCustody` and `SchemaUpgrade`
    with their refinements; left: an abstract promise of `Ingest`.
