# Live score collector: specification and proofs

TLA+ modules, TLC configurations and TLAPS proofs for the collector of
GADXlivescore. The collector polls `contest.run` for the scores of amateur-radio
contests, stores every observation in MySQL/Percona 5.7 and decides which
observation is an entry's canonical score. The code exists twice: a long-running
TypeScript service (`packages/collector-ingestion`) and a PHP port that cron
starts (`cpanel-root/private/livescore/app/src`). Both work on one schema
(`database/migrations/001_initial_schema.sql`) and are written to be able to run
side by side, in several processes. Where they agree, one definition models
both; where they differ, the difference is named below.

Paths in this file are relative to the repository's root.

## 1. Inventory

### Components, state and operations

| component | state it keeps | operations |
|---|---|---|
| single-source policy (`single-source-policy.ts`, `SingleSourcePolicy.php`) | none | `decideSingleSourceSequence` |
| canonical reconciliation (`repository.ts` 185-285, `PdoIngestionRepository.php`) | `canonical_score_events`, `current_scores`, flags of `score_snapshots` | `reconcileAcceptedSnapshot` |
| receipt ingestion (`service.ts`, `repository.ts`, `NormalizedIngestionService.php`) | `raw_messages`, `entries`, `score_snapshots` | `createReceipt`, `claim`, `persistObservations`, `finish` |
| polling cycle (`polling.ts`, `polling-repository.ts`, `CollectorCycle.php`) | `collector_runs`, `collector_source_contests.next_poll_at` | `selectDueMappings`, `startRun`, `finalizeRunAndSchedule` |
| advisory locks (`mysql-advisory-lock.ts`, `AdvisoryLock.php`) | server-side locks owned by sessions | `acquire` (GET_LOCK, timeout 0), `releaseAndClose` |
| abandoned-run recovery (`recovery.ts`, `recovery-repository.ts`) | none of its own | `selectStaleRunningRuns`, `finalizeStaleRunningRun` |
| runtime loop (`runtime.ts`, `runtime-entrypoint.ts`) | where the loop is, shutdown signal, backoff | recovery, cycles, sleep with backoff |
| catalog synchronization (`contest-run-catalog.ts`, `-repository.ts`) | `contests`, `contest_external_ids`, rows of `collector_source_contests`, discovery rows of `collector_runs` | `sync`, `syncContest`, `startDiscoveryRun`, `finishDiscoveryRun` |
| discovery (`source-adapters/contest-run-discovery.ts`) | none | `discover`, aggregate the listed records by test id |
| contest.run HTTP clients (`contest-run-http.ts`; `observe` of `tools/contest-run-poc`) | the request under way | one bounded GET: head, chunks of the body, its code |
| read-only probe and observation tools (`contest-run-readonly-probe.ts`, `tools/contest-run-poc`) | what was asked and answered | a plan of requests, a budget, a report |
| validation tools (`tools/percona57-validation`) | a fixture in the test database | seed, scenario, cleanup, count, finally block |
| scoreboard API (`ScoreboardRepository.php`, `http/scoreboard.php`) | none (reads) | latest snapshot per entry with its canonical mark |
| payload adapters, redaction, canonical JSON, configuration, logging, page, PHP test script | none | pure conversions and I/O |

### How they interact

There are no messages between components: they call each other inside a process
and meet other processes only in the database. Three mechanisms order them.

* **Rows and their locks.** A row written in a transaction is locked until its
  end. The upsert of a `entries` row in `persistObservations` and the
  `SELECT ... FOR UPDATE` of the same row in `reconcileAcceptedSnapshot` are
  what keeps the work on one entry in sequence.
* **Unique keys.** `(entry, source, normalized_fingerprint)` keeps an
  observation from being stored twice, `(source, external_id)` a test id from
  having two contests, `(source, contest)` a contest from having two mappings.
* **Advisory locks.** One per mapping, and one per source for discovery, tried
  without waiting, owned by a session of its own that is idle during the HTTP
  requests and gone with it. Polling and recovery share the name.

A cycle calls the source runner, which calls `ingest`, which calls
`persistObservations` once and `reconcileAcceptedSnapshot` once per snapshot
that was inserted. The runtime loop of a TypeScript process recovers before its
first cycle; the PHP collector has neither loop nor recovery. The catalog
synchronization is a command of its own; it creates mappings that are disabled
and that operators enable, and its runs are in the table that recovery scans.

The programs that only observe `contest.run` share nothing with the collector
but the source they ask. The validation tools run the real services, one tool
after the other, against one test database; they meet each other in the rows
that a tool leaves behind.

### What is hard

* Two processes decide on one entry. The decision reads a row that the other
  writes; whether it reads it before or after depends on the isolation level.
* An event gets its id at its INSERT and becomes visible at the COMMIT, so the
  pointer could be left at the older of two.
* A batch locks entries in payload order: batches deadlock, and a victim's
  receipt has to end as if nothing of it had been stored.
* Any statement can fail, and a COMMIT can succeed without an answer.
* A process can die between any two statements; only recovery cleans up.
* A lock session can break under a task that does not notice.
* Due mappings are selected before the lock is taken, candidates of recovery
  before theirs: what was selected may be stale by the time it is used.
* A mapping may be disabled while it is polled.
* A shutdown signal may come in the middle of anything.
* A discovery run has no lock that recovery looks at: it is failed by its age,
  possibly under a process that is alive.
* A cycle takes a limited number of due mappings. One that is never rescheduled
  keeps its place at the head of the order and another may starve.
* The plan of an observation tool grows with what its first requests discover,
  and must fit a budget that was fixed before.
* A validation tool that fails or is killed leaves rows against which foreign keys
  restrict the cleanup, and mappings that the cycles of later tools select.

`PROJECT.json` lists these hazards at their lines, with the properties that
cover each and a note where none does yet.

### What makes each component correct

* Policy and reconciliation: an entry's canonical sequence comes from one
  source, never goes back in competitive time, holds no snapshot twice;
  `current_scores` points at its event with the greatest id; an OUT_OF_ORDER flag is
  justified and final; each decision is indivisible; every transaction ends.
* Ingestion: counts of a receipt say what it stored, a receipt that succeeds
  has lost nothing and left nothing unreconciled, batches are atomic, every
  receipt ends.
* Polling: one poll of a mapping at a time, a run and its schedule change
  together, no run is left RUNNING by a live task, no lock is kept.
* Recovery: only dead runs are finalized, finished ones are left alone, a
  recorded failure stays, the schedule only moves forward, recovery ends.
* Runtime: a process that is asked to stop does, and leaves nothing behind; no
  mapping with a valid interval is left out of the cycles for ever.
* Observation: the source is asked for nothing twice and for no more than the
  bound; a report that says PASS is about everything its plan says.
* Validation: PASS means that nothing is left, a clean start passes, a failure
  cleans up after itself, and what a killed tool leaves does not make the others
  fail for ever.
* Catalog synchronization: no contest is left without its identity, operators'
  settings of mappings survive, links are never moved, a success has catalogued
  what the source listed, the audit is decided once and agrees with the report.
* Scoreboard (planned): one row per entry, the latest one, marked canonical
  exactly when `current_scores` names it.

## 2. Modules

```
SingleSourcePolicy      Decide, a pure operator
  CanonicalLedger       abstract: one timeline per entry, one atomic decision
                        per step
    Ingestion           receipts; a reconciliation is a view and, later, a
                        decision on the ledger
      Ingestion_proofs
  Reconciliation        one action per statement of the transaction;
                        implements CanonicalLedger
    Reconciliation_proofs
Polling                 cycles, tasks, advisory locks
  Recovery              recovery of several processes, composed with Polling
    Runtime             the loop around recovery and cycles, shutdown
      RuntimeTypes_proofs, RuntimeLocks_proofs
Schedule                the same loop in relative time: sleeps, backoff, and which
                        mappings a cycle takes
SourceClient            one bounded GET of either client
  Probes                the four observation programs (with Discovery)
    Readers             a collector's Schedule or one of the Probes
      Readers_proofs
Discovery               aggregation and selection, pure operators
  Discovery_proofs      used by CatalogSync_proofs and Readers_proofs
  CatalogSync           discovery lock, audit rows, a transaction per contest
    CatalogSync_proofs
TestDatabase            tables and foreign keys
  ValidationTools       what each validation tool does, as data
    Validation          runs them: faults, kills, what is left behind
      Validation_proofs
MC*                     small instances for TLC
```

`PROJECT.json` maps every definition to the lines it translates. Definitions
whose comment begins with *Slip* are not the code: they are what a plausible bug
would turn the definition after them into, kept next to it to show that a
property notices the difference. No specification uses them.

### SingleSourcePolicy

`Decide(candidate, rows)` is `decideSingleSourceSequence` and
`SingleSourcePolicy::decide`. Timestamps are natural numbers (both
implementations compare confirmed UTC times as microseconds); the canonical row
is the result set of the query, `{}` or a singleton.

### Reconciliation

| definition | code |
|---|---|
| `Begin` | BEGIN and the candidate's SELECT, `repository.ts` 185-206; under REPEATABLE READ this fixes the read view |
| `LockEntry` | `SELECT ... FOR UPDATE` of the entry, 207-212 |
| `ReadCurrent` | the plain SELECT of `current_scores` and the decision, 213-249 |
| `AppendFlag`, `InsertEvent`, `WritePointer` | the branches on the decision, 237-287 |
| `Commit`, `Rollback` | the end of the transaction, also on an error |

State: `events` (canonical_score_events per entry, in the order of their COMMITs),
`ids` (their ids), `current` (the id in current_scores, 0 for no row), `flags`
(snapshots with the OUT_OF_ORDER flag), `lock` and one transaction per worker.
An id is allotted by `InsertEvent` (AUTO_INCREMENT, `NewEventId`) and published
with the pointer by `Commit` (`PublishEvent`); that the two orders agree is not
in the shape of the model but follows from the entry lock
(`PointerIsLatestEvent`). Ids are counted per entry, since only those of one
entry are compared. `Isolation` is a constant, because the code does not
set one: InnoDB's default is REPEATABLE READ. A snapshot may be reconciled any
number of times here. Ingestion reconciles each snapshot once, so that is more
than the program does; it makes the properties stronger and stands for nothing
in the code.

`CanonicalLedger` is the promise to readers. Under READ COMMITTED the
reconciliation implements it, with `timeline <- events` and `late <- flags`.

### Ingestion

`raw` is raw_messages, `stored` is score_snapshots (which receipt inserted
each), `lock` the row locks of entries and `job` the call of `ingest` each worker
is in. One action per statement that another process can notice: `CreateReceipt`,
`Claim`, `Parse` (the adapter), per row `RejectObservation` or `ResolveEntry`
followed by `RecordDuplicate` or `InsertSnapshot`, then `CommitBatch`, then
`BeginReconciliation` and `Reconcile` for each snapshot that was inserted, once,
then `Finish`. `Abort` is the roll-back, used for failing batches and deadlock
victims; `FinishFailed` is the catch block.

An observation is identified with its fingerprint. A reconciliation is two steps,
because the row it decides on depends on `Isolation`: `BeginReconciliation` is the
first SELECT, which fixes the view of REPEATABLE READ; `Reconcile` is the grant of
the entry lock, the decision and its writes, between which nobody else can touch
the entry. It decides on the view under REPEATABLE READ and on the latest row
under READ COMMITTED (`VisibleRow`). A decision on an old view may be refused by
a unique key (`KeyRefuses`): the entry has a row in current_scores that the view
does not show, or the snapshot has an event. Nobody catches that error, so that
the receipt fails (`RefuseReconciliation`). The statements one by one are in
`Reconciliation`.

### Polling

`mapping` is what a cycle reads and writes of collector_source_contests, `runs`
is collector_runs, `lock` the advisory locks and `task` what each process is
doing with each mapping. The steps of a task are the awaits of `runMapping`:
`AcquireLock`/`LockedByOther`, `StartRun`, `RunSource`, `FinalizeSuccess` or
`FinalizeFailure` (with their failing variants), `Release` and `CorrectRun` after
an anomaly of the release: the session had lost its lock or broke while it gave
it back, or RELEASE_LOCK failed in a session that holds (`"release"` in
`Faults`), whose lock goes when the session is closed. A corrected run is
CORRECTED here (FAILED with LOCK_RELEASE_ANOMALY in the table). A time that a later statement writes is taken when
the code takes it (`at`), so a slow statement writes an old time.

Differences of the PHP port: its cycle works on the mappings one after the
other, which is one of the interleavings of the tasks here; it has no anomaly of
closing the session after a release; it also filters on the source's
own `enabled` flag. All of it is inside the behaviours of the module.

### Recovery

EXTENDS `Polling` by `rec`, the recovery of each process: `SelectStaleRuns`, then
for each candidate `ReacquireLock` or `ActiveLockHeld`, `FinalizeStaleRun` and
`ReleaseRecoveryLock`. `Recovering` says which processes have a recovery; the
others are PHP collectors. A process polls only when its recovery is done, and
one that crashes starts again with it.

### Runtime

EXTENDS `Recovery` by `loop`, the place of each process in
`CollectorRuntimeService.run` and whether its signal is aborted. `BeginRecovery`
and `BeginCycle` look at the signal first, `RecoveryFails` and `CycleFails` are
the catch blocks (only a failing selection makes a recovery or a cycle throw;
whatever fails inside is caught there), `EndCycle` is the end of `Promise.all`,
`WakeUp` the timer or the signal that ends a sleep. `RequestShutdown` can come at
any time; a second signal is `KillAndRestart`. How long a sleep lasts, and so
the backoff, is left out: the timer may fire at any time.

### Schedule

The same loop, asked another question: who is polled when. A cycle is one step
(`RunCycle`) that takes some time, in which any of the mappings it selected are
finalized and scheduled again and the others keep their time. `Recover`,
`RecoverFails`, `CycleFails` and `WakeUp` carry the sleeps and the backoff of
`runtime.ts` 98-175; `Before` is the ORDER BY of `polling-repository.ts` 51-66.

Time is relative, so that a loop that never ends has finitely many states: `due`
is `next_poll_at` minus now, and times that have passed are replaced by their
ranks (`Ranked`), because nothing but their order is ever looked at.
`ScheduleConstants` assumes fewer mappings with an invalid interval than a cycle
takes; section 5 says what happens otherwise.

### SourceClient, Probes and Readers

`SourceClient` is one GET: `Send`, `Headers`, `Chunk`s, and the eight codes in which
it can end. The client of the package checks the declared length, the status and
the content type; the one of `contest-run-poc` records them and takes whatever
parses (`Classified`).

`Probes` is what the four programs ask, one request at a time: `Plan` is the order
of requests, computed from what the earlier ones `listed`; `Needed` is the check
of the arguments against the budget; `WriteReport` ends a program. The
observation tools go on after a failed request; `discover` stops, or goes on
with the next contest if told so (`NotAnswered`).

`Readers` composes `Schedule` and `Probes` as alternatives: the programs run in
processes of their own and share no state.

### TestDatabase, ValidationTools and Validation

`TestDatabase` holds the tables and foreign keys of `001_initial_schema.sql` and what
a sequence of DELETE statements does to a fixture (`Rejected`, `Deleted`). The
rows of a fixture are the set of tables in which it has any, since each tool
deletes what its fixture has in a table with one statement.

`ValidationTools` holds for each tool its seed, the steps of its scenario with what
they assert, the order of its cleanup and the tables that it counts. `Validation`
runs them: `Start`, `SeedFixture`, the actions of `ScenarioStep`, `DeleteFixture`,
`VerifyClean` and the finally block from `GiveBackLock` to `DestroyPool`. A tool's
polling cycle selects among the mappings of all fixtures, its recovery among all
RUNNING runs; those of a synchronization (`discovery`) name no mapping and
reschedule none (`Reschedules`). `StatementFails`, `PollFails`, `SeedAnswerLost`, `LockSessionLost`,
`FinallyFails` and `Kill` are what goes wrong.

### Discovery and CatalogSync

`Aggregate` is the `Map` of `aggregateDiscoveryEvidence` as a fold over the listed
test ids, `Selection` the slice of `maxContests`. `Listed` says which test ids
must be among them, by counting instead of folding; `SuccessIsCatalogued` compares
the two through the whole synchronization.

`CatalogSync` follows `sync` and `syncContest`:

| definition | code (`contest-run-catalog.ts` unless named) |
|---|---|
| `StartSync` | the source row and `observedAt`, before the lock, 118-133 |
| `AcquireLock`, `LockedByOther` | GET_LOCK, 143-146 |
| `StartDiscoveryRun`, `Discover` | 148-160; `discover` as one step that answers or throws |
| `ReadIdentity`, `CreateContest`, `UpdateEvidence` | `syncContest`, `-repository.ts` 107-157 |
| `ReadMapping`, `InsertMapping`, `LinkMapping`, `ReuseMapping` | `-repository.ts` 159-197 |
| `CommitContest`, `ContestFails`, `CommitAnswerLost` | the end of the transaction and the catch around it, 164-175 |
| `FinishRun`, `FinishFails`, `NoRunStarted`, `FailRun` | the finalization and the catch block, 176-231 |
| `Release` | the finally block, 232-245 and 398-418 |
| `RecoverByAge` | recovery of a run without a mapping, `recovery.ts` 118-120 and 168-187 |

What a transaction writes becomes visible at `PublishContest`; until then its keys
are in `rowLock`, and a transaction that wants to insert the same key waits and
then fails (`DuplicateKey`). Under REPEATABLE READ the mapping is the one at the
first SELECT of the transaction. Contest 1 of the initial states is one an
administrator entered, with a mapping that is enabled and linked or not.

## 3. Runs

| run | instance | what it shows |
|---|---|---|
| reconcile_rc | 2 workers, 2 entries, 6 snapshots, READ COMMITTED; 56k states | decisions are atomic, timelines never regress, a late snapshot stays late, every transaction ends |
| reconcile_rr | 3 workers, 1 entry, 4 snapshots, REPEATABLE READ; 226k states | what survives stale reads: the pointer at the greatest id, uniqueness, one source, justified flags |
| reconcile_stale | 2 workers, REPEATABLE READ | **violation**: an event older than the latest is appended |
| ingest_faults | 2 workers, 4 receipts, errors, exceptions, crashes, lost answers; REPEATABLE READ; 356k states | nothing lost or left unreconciled by a success, atomic batches |
| ingest_live | the same with errors only, READ COMMITTED; 75k states | every receipt ends in spite of deadlocks, with a true accepted_count |
| ingest_ack | lost acknowledgement of a COMMIT, REPEATABLE READ | **violation**: FAILED with accepted_count 0 and stored snapshots |
| poll_operator | 1 process, an operator | **violation**: a mapping disabled during its poll leaves its run RUNNING |
| runtime_safe | 1 process with loop and recovery, 1 that cron starts, 1 mapping; crashes, errors, failing releases, lost answers, operator, failing selections, shutdowns; 3.67M states | one poll per mapping, runs and schedules agree, only dead runs are abandoned; failures and finished runs stay; a stopped process holds nothing |
| runtime_live | the same processes, 3 mappings (one invalid); broken sessions, failing selections, shutdowns; 129k states | no orphan runs, locks are given back, recovery ends, a process that is asked to stop does |
| catalog | 2 synchronizations of a list with 3 test ids, one twice and one beyond the limit; all faults; REPEATABLE READ; 922k states | identities one to one, operators' settings and links kept, a success is complete, the audit is final and agrees with the report |
| validate | the nine validation tools in any order, one fault, one kill; 333k states | PASS leaves nothing, one fault leaves nothing, a clean start passes, the polling tools come back to passing |
| readers | 4 mappings, cycles of 2, backoff 1 to 4; four observation programs; 92k states | no mapping starves; no request twice or beyond the bound; a report that passes is complete |

### Bounds, and why they are enough

* Two workers are enough for every pairwise race; the reconciliation has a run
  with three, because under REPEATABLE READ the worst case is a chain (one
  waits while two others commit).
* The snapshots of `MCReconciliation` are one of each kind the policy can tell
  apart: earlier, equal, later, another source, no confirmed time, another
  entry. The unbounded part (how many) is what the proofs are for.
* The payloads of `MCIngestion` meet the entries in opposite orders (deadlock),
  share observations across batches and inside one, and hold a malformed row,
  a misfiled one, and one that does not parse. Their snapshots are older, newer
  and of another source for one entry, so that a reconciliation that waited can
  decide wrongly or be refused by a key.
* The list of `MCCatalogSync` has a repeated test id and one beyond `MaxContests`;
  the initial states have neither, either or both of the two others entered
  before, sharing a contest or not, and a mapping of it in every state.
* `MaxRuns` bounds the rows of collector_runs and is kept by the guards of
  `SelectDueMappings` and `StartSync`; in `runtime_safe`, three let a mapping be
  polled by both processes and once more. `MaxTime` stops the clock; intervals
  and the threshold are 1 or 2, so that a mapping is due again and a run is
  stale before it does. Tasks of different mappings meet only in the length of a
  cycle and in recovery, which `runtime_live` covers with three mappings; the
  proofs are about any number.
* `Readers` has no bound on time: two mappings are due after every cycle and fill
  it, a third is due less often, the fourth is never rescheduled. `MaxLength` 1
  lets a cycle take as long as the shortest interval. `MaxBody` 1 has an empty
  body, one that fits and one that does not. The budgets of 7 and 9 are those of
  two contests with a request to spare for one program and none for the other.
* `MaxFaults` and `MaxKills` are 1: what is promised after a failure is about one,
  and a kill followed by a fault in a later tool is among the behaviours. The
  synchronization reads the real clock, which is before or after the hour that the
  other tools fix theirs to (`CatalogClock`).
* Deadlock is checked in the reconciliation runs and in `validate`. The other
  modules stop where the receipts, runs or ticks of the instance are used up, or
  where a program has written its report, and their configurations say so.

Symmetry is declared for the processes of the catalog run only: its module never
names or orders a process, and the run has no liveness property. Snapshots,
mappings and test ids are not interchangeable.

### Fairness, and why the code justifies it

Weak fairness of a worker's step, of a task's and of the loop's: a live process
goes on, its statements are answered or fail (the driver, the HTTP client and
InnoDB's lock wait have timeouts) and its timers fire. Strong fairness of the statements that
queue for an entry row (the upsert of a batch, FOR UPDATE of a reconciliation):
InnoDB grants a row lock to its waiters in turn, so one that is granted again
and again reaches each. Nothing is assumed of faults, operators, signals, the
start of a cycle or the arrival of payloads.

`Schedule` asks about an infinite run, so it assumes that what fails does not fail
each time for ever: strong fairness of `Recover`, of `Cycle` and, for each
mapping, of a cycle in which its poll gets through (`CycleFor`); weak fairness
of `WakeUp`, a timer. `Validation` assumes weak fairness of the tool that runs
and strong fairness of starting each of the two polling tools, which says that
somebody runs them again; faults and kills are bounded and need no assumption.

## 4. Proofs

Every theorem is about any number of workers, entries, snapshots, mappings,
receipts and so on. The assumptions are those the modules state on their
constants, and the hypothesis in the second column.

| theorem | hypothesis | states |
|---|---|---|
| `Reconciliation_proofs!TypeCorrect` | either isolation level | `TypeOK` |
| `PointerCorrect` | either isolation level | `PointerIsLatestEvent` |
| `UniqueEvents` | either isolation level | `OneEventPerSnapshot` |
| `OneSource` | either isolation level | `SingleSourceTimeline` |
| `JustifiedFlags` | either isolation level | `FlagsAreJustified` |
| `MonotoneTimeline` | READ COMMITTED | `EffectiveNeverRegresses` |
| `LateNeverPromoted` | READ COMMITTED | `LateStaysOut` |
| `ReconciliationImplementsLedger` | READ COMMITTED | `LedgerRefinement` |
| `Ingestion_proofs!IngestionTypes` | any faults | `IngestTypeOK` |
| `IngestionLosesNothing` | any faults | `SuccessLosesNothing` |
| `IngestionReconciles` | either isolation level, any faults | `SuccessIsReconciled` |
| `IngestionShowsNothingOlder` | READ COMMITTED, any faults | `SuccessShowsNothingOlder` |
| `IngestionIsLedger` | READ COMMITTED, any faults | the calls implement `CanonicalLedger` |
| `IngestionIsAtomic` | any faults | `BatchesAreAtomic` |
| `IngestionCounts` | no answer to a COMMIT is lost | `AcceptedCountIsTrue` |
| `RuntimeTypes_proofs!TypeCorrect` | any faults | `RecoveryTypeOK` |
| `FinishedRunsAreKept` | any faults | `RecoveryKeepsFinishedRuns` |
| `NoRunIsOrphaned` | no kill, no failing statement, no lost answer, no operator | `NoOrphanRuns` |
| `RuntimeLocks_proofs!OnePoll` | lock sessions hold | `OnePollPerMapping` |
| `LiveRuns` | lock sessions hold | `LiveRunsAreNotAbandoned` |
| `FailuresAreFinal` | lock sessions hold | `FailureIsFinal` |
| `StoppedIsIdle` | lock sessions hold | `StoppedHoldsNothing` |
| `SchedulesFollow` | lock sessions hold | `ScheduleFollowsRuns` |
| `CatalogSync_proofs!CatalogTypes` | either isolation level, any faults | `CatalogTypeOK` |
| `ContestsHaveIdentities` | either isolation level, any faults | `NoContestWithoutIdentity` |
| `ReportsAreRecorded` | either isolation level, any faults | `ReportedSuccessIsRecorded` |
| `AuditsAreFinal` | either isolation level, any faults | `AuditIsFinal` |
| `OperatorsOwnEnabled` | either isolation level, any faults | `OperatorOwnsEnabled` |
| `LinksAreKept` | either isolation level, any faults | `LinksAreRepairedOnly` |
| `SuccessesAreCatalogued` | either isolation level, any faults | `SuccessIsCatalogued` |
| `Discovery_proofs!SelectionIsListed` | any list and limit | `Selection` takes exactly what `Listed` says |
| `Readers_proofs!ProbeSparesSource` | a probe alone | `SourceIsSpared` |
| `ReadersSpareSource` | the composition `ReadersSpec` | `SourceIsSpared` |
| `ReportsComplete` | the composition `ReadersSpec` | `ReportsAreComplete` |
| `Validation_proofs!PassesLeaveNothing` | any number of faults and kills | `PassLeavesNothing` |
| `CleanupsAreAccepted` | any number of faults and kills | no DELETE of a cleanup is rejected |
| `CleanStartsPass` | as the property says | `CleanStartPasses` |
| `OneFaultIsCleanedUp` | as the property says | `OneFaultLeavesNothing` |

### Reconciliation

None of the properties is inductive: each is about committed tables, and a step
that writes a table uses what its transaction read several steps before. The
invariant `IInv` therefore adds what an open transaction knows. A transaction
past `LockEntry` holds the lock of its entry and nobody else does; so the entry's
events and pointer are those there were when it got the lock; the row it read is
an event of that entry, under READ COMMITTED the latest one. For the pointer,
`OpenEvents` says that an id which is allotted and not committed belongs to the
owner of the entry lock and follows the last committed one, so that there is at
most one such id; with `Numbered` (the committed ids ascend, and the pointer is at
the last) it is inductive. That `NewEventId` gives this id takes the maximum over
all open transactions (`NewEventIdIs`), which is where a second owner would show.
`InitIInv` and
`NextIInv` (one step per action) give `SpecIInv`, from which the results above
follow. The second part builds on it an invariant for the order and the source
of the events, and the refinement, whose only non-stuttering steps are commits:
the decision of a transaction was made on the row that is still the last of the
timeline.

### Ingestion

A receipt that succeeds has lost nothing because of what its open batch knew,
so `IInv` of `Ingestion_proofs` speaks of open batches: what one has accepted is
stored by nobody, and stays so until its COMMIT because the batch holds the lock of
the entry of each (`OpenBatch`); every other row of the payload is stored,
misfiled or still to come. A call whose batch is over has all of its rows stored,
and what it inserted is settled or waits for its reconciliation (`AfterCommit`);
the row in the view of an open reconciliation is still on the timeline (`Viewed`).
No two calls share a receipt. Each action is shown to be a move of its worker
(`Moves`): it leaves its own part in order, and it is `Gentle` to the others, of
which `GentleKeeps` needs only that it keeps their locks and receipts, stores what
nobody had and it has locked, takes nothing off a timeline and unsettles nothing.

`Settled` is two things. Under either isolation level a decision on record stays
there (`Weighed`, `RecordedEffect`): an eligible snapshot is on the timeline,
flagged, or of another source than an event, also when it was decided on an old
view, since the row in that view is still an event. `IngestionReconciles` is that
part. Under READ COMMITTED it also stays right (`Considered`, `DecidedEffect`):
the row decided on is the last one (`DecidesOnLast`), and the last one is never
replaced by an older; that is `IngestionShowsNothingOlder`, and with it every
`Reconcile` is a step of the ledger (`IngestionIsLedger`). Under REPEATABLE READ
neither holds, as `reconcile_stale` shows.

The second part adds `Accounts`: the list of accepted rows has no
repetition, and past the batch the count of the call is the number of rows with
the id of its receipt. Its hypothesis is needed: the run `ingest_ack` shows the
count wrong when an answer to a COMMIT is lost.

### Polling, recovery and the loop

The three modules are proved as the one system they compose, `RuntimeSpec`, with
any processes in `Recovering`.

* `RuntimeTypes_proofs`: `Typed` is the type invariant with what it needs to be
  inductive: the run of a task is a row of the task's mapping, the candidates of
  a recovery are rows, and the loop is in a cycle while tasks of its process are
  under way. Rows are never deleted and keep their mapping (`RowsKept`); each
  task step is one replacement of the task (`StepTo`).
* `RuntimeLocks_proofs`: `LockedInv` adds that a lock belongs to exactly the process
  whose task or recovery works on the mapping (`LockInv`), that the run of a
  task that polls is RUNNING, or SUCCESS when only the answer was lost
  (`RunInv`), and that no two tasks have one run (`RunsApart`), which a task that
  corrects its run after it gave the lock back needs. Two processes that poll a mapping would both own its lock; a
  recovery that finalizes a run owns the lock that a live task would own.
* `RuntimeLocks_proofs`, second part: `TimedInv` adds that finished runs finished in the past,
  and before the time that the task now under way is going to write, unless a
  correction or a recovery moved the schedule, an interval after it began. Steps in
  which no poll is finished are handled together (`NothingFinished`).

* `RuntimeTypes_proofs`, last part: `NoOrphanRuns` is inductive together with
  the fact that mappings are enabled (`OrphanInv`), which is what the
  finalization asks of its mapping. Its hypothesis `Reliable` excludes exactly
  the faults that refute it: a process killed between the insertion of its run
  and the finalization, two failing statements in a row, an answer that is lost
  and an operator who disables the mapping (the run `poll_operator`). Breaking
  lock sessions, failing selections and the shutdown signal are not excluded: a
  run that two processes fight for, or that a recovery takes for dead, is
  finished all the same.

The hypothesis `"session" \notin Faults` is needed: when a lock session breaks,
`LockInv` fails with the next `AcquireLock` of another process, and the code has
no other fence. A RELEASE_LOCK that fails in a session that holds is not excluded:
the lock goes all the same, and the correction that follows is among the steps. Section 5 names the properties that fail then.

### Catalog synchronization

The discovery lock may be lost, so nothing follows from it; `CatalogInv` says what
the keys of an open transaction give it instead (`Knows`). Past its identity step
a transaction owns the key of its test id, so the identity is still absent if it
made the contest, and still that of its contest if it found one; a mapping is
linked to identities of its own contest only (`LinksAreOwn`), also when two test
ids share one. A process whose run was failed by age finds it finished and
reports nothing else (`Reports`). Each action is a step of its process that
leaves the runs that are finished, the keys of the others and their identities
alone (`RunsKept`, `KeysKept`, `IdentitiesKept`); `OthersKept` is all that is
needed about the other processes. `FreshExists` counts: every contest id in use
belongs to a test id that has an identity, or whose key is held by the
transaction that made the contest. So one more id than test ids is enough, and
`ContestId` bounds nothing.

`SuccessIsCatalogued` needs an invariant of its own, `SuccessInv`: while a process
goes through its contests (`Listing`), and unless it failed at one, every test id
listed within the limit is done or still in its list `todo`; nothing that is done
is undone, as the tables only grow; and no two processes share a run (`OwnRuns`).
That `todo` starts as all of them is `SelectionIsListed`. The one assumption about
data is that there are finitely many test ids.

### Discovery

`Aggregate` is a fold, and a fold is not expanded by the provers. `Discovery_proofs`
takes the recursive function of the fold apart one record at a time, and shows
by induction over the number of records read (`Aggregates`) that it is the list of
the test ids so far, each once, in the order of their first records. The
induction is stated of a set of naturals (`Induction`) and follows from the
library's theorem that every set of naturals has a least element; no schema with
an operator parameter is needed. `ListedBefore` counts: the test id at place i has
i - 1 others listed before it; so the slice takes those of `Listed`.

### Observation programs

A program asks the requests of its `Plan`, but the plan is a function of what has
been listed, and grows while the program runs. `ProbeInv` says that what has been
asked is a prefix of the plan *as it is now*. It is inductive because the answers
that select contests (`Selects`: nearest and month 9) all come before the first
request about a contest, so a plan that changes does so behind what was asked
(`Opening`, `NothingAnswered`). No two places of a plan hold the same request,
because a selection has no repetitions; and the length of a plan is within
`Needed`, which the arguments are checked against, so a budget is never spent
before the plan is.

### Validation tools

* `CleanInv` is for `PassLeavesNothing`. Each cleanup lists every table that the seed
  and the steps of its tool write (`SeedsCovered`, `StepsCovered`); what it has not
  deleted yet it still will (`CleanupCovers`); so a fixture marked as cleaned is
  empty, and only such a tool goes on to PASS. What other tools left behind is
  not excluded: it is not the fixture of this one.
* `CleanupsAreAccepted`: `Rank` orders the fourteen tables so that none comes before
  one that refers to it. Each cleanup deletes in an order that ascends, so at
  each statement the tables that could refer to its rows are no longer in the
  fixture. That is a fact about every state, also in the finally block that
  repeats a cleanup which failed in the middle.
* `SafeInv` adds that a tool which started alone and which nothing has disturbed
  is on its plan (`OnPlan`): step by step, its fixture is the only one, and its
  mapping, its running runs and the timelines of its stations are what the next
  assertion of the scenario is about. So every assertion holds, for every time
  at which a synchronization may start. `HitsCounted` and `DestroyedClean` give
  `OneFaultLeavesNothing`: a tool hit once has its finally block undisturbed.

### Only model-checked

Liveness: `EveryReconciliationEnds`, `EveryReceiptFinishes`, `EveryLockIsReleased`,
`EveryRecoveryEnds`, `EveryShutdownStops`, `ValidationsHeal` and `NoMappingStarves`, as
fairness and ENABLED are beyond the prover. Every invariant and every action
property of the runs is stated by a theorem, with the hypothesis given above. The
other way round, `SuccessShowsNothingOlder` and the ledger of the calls are proved
and in no run.

## 5. Findings

1. `repository.ts:213`. The canonical row is read by a plain SELECT after the
   entry lock. Under REPEATABLE READ, which is the default and which nothing
   changes, it is as old as the transaction's first SELECT, and an event can be
   appended behind a newer one, against `docs/database-design.md:127`.
2. `service.ts:83`. A COMMIT of a batch whose answer is lost leaves a FAILED
   receipt with accepted_count 0 whose snapshots are stored, against
   `docs/database-design.md:102`.
3. `polling-repository.ts:119`. A mapping that is disabled while it is polled
   cannot be finalized: both attempts roll back and the run stays RUNNING.

More behaviours that TLC showed, and that differ from what the documents say or
from what a reader may expect. They are in the behaviours of the modules and are
named where a property has to leave them out.

* `recovery-repository.ts:91`. Recovery computes `next_poll_at` from the time at
  which it selected its candidates and can move the schedule of a mapping back
  behind a poll that was completed since, although it is said to advance it
  (`docs/collector-architecture.md:522`). `ScheduleFollowsRuns` names it as one of
  its two exceptions.
* `polling.ts:219`. The correction after a release anomaly is written without the
  lock, with a time read before its transaction. Another process may poll the
  mapping in between, and its schedule is put back. A failing RELEASE_LOCK is enough for
  it. This is the other exception.
* `recovery.ts:118`. The documents want age and a reacquired lock as evidence that
  a run is dead (`docs/collector-architecture.md:540`), but a run without a
  mapping is failed by its age alone, also under a live synchronization that
  holds the discovery lock. What does hold is that the synchronization notices
  (`ReportedSuccessIsRecorded`, `AuditIsFinal`).
* `polling.ts:127`. A mapping that was selected before another process polled it is
  polled again as soon as the lock is free; nothing checks that it is still due.
* `polling-repository.ts:51`. Enabled mappings with an invalid interval are never
  rescheduled and stay first in the order. As many as a cycle takes starve all
  the others; `NoMappingStarves` assumes fewer (`ScheduleConstants`).
* `tools/percona57-validation/src/integration.ts:473`. The first statement of case J
  has its `${UTC_TIMESTAMP}` between quotes, where a bound parameter does not make
  a literal, so that it is always rejected: the behaviour tool cannot pass, although
  `docs/database-design.md:312` describes its coverage. `CleanStartPasses` leaves
  it out by name. The same quotes at 351 let the test of a snapshot with another
  contest's category pass whatever the schema says.
* `index.ts`, `application-connectivity.ts` and `integration.ts` of the same tools
  print PASS before their finally block has run.
* In three tools (`collector-polling-integration.ts:221`,
  `collector-runtime-integration.ts:290`, `contest-run-catalog-integration.ts:206`) a
  finally block that cannot give back a lock, because its session is gone,
  throws before it deletes the fixture. `OneFaultLeavesNothing` leaves this case
  out (`lost`).
* The catalog tool does not count contests before it says PASS; its order of
  deletion is what makes `PassLeavesNothing` true.
* `tools/contest-run-poc/src/discovery.ts:54` looks for a `ContestRunHttpError`, which
  `discover` always wraps: every failure is printed as UNEXPECTED.

Four properties hold only while lock sessions do: `OnePollPerMapping`,
`LiveRunsAreNotAbandoned`, `FailureIsFinal` and `ScheduleFollowsRuns`. The code has
no fence against a task that goes on after its session broke, and the documents
do not claim one.

## 6. Abstractions

* A payload, an observation and a fingerprint are one model value. Band scores,
  categories and the display columns of an entry are left out.
* An error code, an environment's name, the request counts and
  `last_success_at`/`last_failure_at` are left out: no property depends on them.
* The HTTP request together with its ingestion is one step of a task with two
  outcomes; what happens inside is `Ingestion`.
* One environment and one source: a lock is named by its mapping, and there is
  one discovery lock.
* Names, evidence, categories and counters of a discovered contest are left out,
  and with them `last_observed_at`, which a delayed synchronization can set back.
* The INSERT of a contest and that of its identity are one step; they are in one
  transaction and only the second can collide.
* The read of the clock and the SELECT of due mappings are one step; a time
  that is written is read in a step before.
* An answer to an observation program is what its plan takes from it, the test ids
  it lists. Delays, URLs and the contents of the reports (schemas, hashes, score
  changes, hypotheses) decide nothing about what is asked. A report that cannot
  be written is a FAIL.
* A fixture's rows are a set of tables. The validation tools run one at a time, as
  `docs/database-design.md:300` documents them. Assertions about what nothing in a
  scenario changes are one step that holds (`Check`). The services inside a
  scenario are one or two steps; their own failures are `PollFails` and
  `StatementFails`, and their interleavings are the subject of the other modules.

Four hazards have no property. The display columns of an entry
(`repository.ts:409`), which a late observation overwrites, and the `observedAt` of
a synchronization that was delayed (`contest-run-catalog.ts:124`) are not
represented; nothing else reads them. A run whose INSERT was not answered
(`polling.ts:160`) and one that is orphaned after the recovery of its process
(`runtime.ts:98`) do stay RUNNING until somebody starts a process again: the states
are there, and the code promises nothing of them. Nor does a property say that a
mapping is not polled twice once a lock session breaks
(`mysql-advisory-lock.ts:44`): it is, and only the run and the lock are covered.

### Not modelled

* Payload adapters: a field by field validation of one response, without state.
  `Ingestion` takes their result as an input.
* Redaction, canonical JSON and fingerprints: string and hash computations, of
  which only "equal observations, equal fingerprints" is used.
* Configuration and entry points: parsing of environment variables and wiring;
  the ranges they validate are assumptions on constants.
* Logging and runtime events, the public page: output only.
* The PHP test script: unit tests without a database.
* Scoreboard API: one read-only query; see the plan.
* Of the database package, connection set-up, JSON encoding and types.

## 7. What is left

1. `Scoreboard`: the latest-snapshot query over the states of ingestion, with
   received_at, ids and the display columns of entries; one row per entry, the
   latest one, marked canonical exactly when `current_scores` names it.
2. An abstract run (RUNNING once, then one outcome, with its schedule) and the
   refinement by `Polling`, `Recovery` and `CatalogSync` while sessions hold.
