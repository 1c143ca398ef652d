# ForestPulse: TLA+ models and proofs

ForestPulse (`src/PROJECT_BRIEF.md`) receives batches of readings from field
stations, writes them to a single snapshot file together with each station's
cursor, and replays batches that failed. This directory holds TLA+ modules of
its core, the TLC configurations that check them on small instances, and
proofs, checked by TLAPS, of what matters most for every instance.

Run in this directory: `tlc -workers 2 -config MCFileStore.cfg MCFileStore`
checks a model, `tlapm FileStoreProofs.tla` a proof module. `PROJECT.json` maps
every definition to its lines of the source and lists runs, theorems, hazards
and findings.

## 1. Inventory

Paths are under `src/internal/`.

| component | state | operations | what makes it correct |
|---|---|---|---|
| `model` (station.go, batch_status.go, operators.go, telemetry.go) | none: value types | `ReadingBatch.Validate`, `FirstSequence`, `LastSequence`; notes and telemetry are used by nothing | a valid batch is one gapless run of readings of one station |
| `store` (file_store.go, store.go) | stations, cursors, batch records, readings, under one lock; a fault plan; `closed`; the snapshot file | `RegisterStation`, `SetStation`, `CommitBatch`, `MarkBatchFailed`, `PendingBatches`, reads, `OpenFile`, `Close` | a cursor describes readable data, in memory and after any restart; a batch is applied whole, once, or not at all |
| `store` (maintenance.go) | none | `CheckConsistency` | finds no problem in a healthy store |
| `stations` | none of its own | `Register`, `Pause`, `Resume`, `Retire`, `RecordFailure` (a read, then a write) | retired is final; a stale copy does no lasting harm |
| `ingest` (service.go, validator.go) | none of its own | `Receive`, `Replay` | every batch passes validation, retries are idempotent, recovery cannot bypass the rules |
| `ingest` (metrics.go), `audit` | counters; a ring of entries | `Record`, `Snapshot`; `Append`, `Recent` | counters agree with outcomes; the newest entries are kept in order |
| `policy` | none | `ValidateOrdered`, `Window`, `ExpectedAfter` | agree with the batch's own check |
| `recovery` | `running`, a goroutine; `Backoff` (unused) | `Start`, `RunOnce`; `Delay` | at most one background loop; failed batches are retried until they succeed |
| `alerts` | a queue of events | `Enqueue`, `Drain` (called by nothing) | an event for every alarming reading that was accepted |
| `query`, `health` | none | `Snapshot`: three store reads; `Check` (constructed by nothing) | what is shown fits together, is durable and never goes back |
| `httpapi` | none | a handler per request, each with a timeout | every handler runs concurrently with every other and with recovery |
| `app`, `cmd/forestpulse-server` | the process | `New`, `Serve`, `Close` | an orderly stop loses nothing that was accepted |
| `clock`, `config`, `domain` | none | time, limits, error kinds | |
| `cmd/forestpulse-smoke` | none | a script over the services | |

**Interaction.** Handlers call `stations`, `ingest` and `query`; all of them, and
the recovery goroutine, call the store. The store's lock makes each of its
operations atomic; nothing makes two calls atomic. The batch handler adds alerts
after `Receive` has returned; `Receive` appends to the journal and counts.
Of the operations of `stations` the server calls `Register`, `Pause` (`server.go:178`) and
`Resume` (`server.go:180`); `Retire` and `RecordFailure` have no caller in it, and are
modelled as the exported operations they are, with any caller at any time.
Nothing but the store persists anything, and only `CommitBatch`,
`RegisterStation`, `SetStation` and `MarkBatchFailed` write the file.

**Hard behaviours.** (1) A snapshot that cannot be written: `CommitBatch` works on
a copy, the other writers on the live maps. (2) The process can end anywhere.
(3) Read-modify-write over two store calls (`changeStatus`, `RecordFailure`,
`Replay`'s commit and mark). (4) Several replays of overlapping lists, and clients
that retry the same batches. (5) Contexts that expire between two calls. (6)
Records that are retried for ever. (7) A client's view made of several reads. (8)
Journal, counters and alerts that live in memory beside the file, each written in a
call of its own. (9) A snapshot written in several file operations without a flush.
(10) A shutdown that waits for requests, but not for ever, and not for recovery. `hazards` in `PROJECT.json` has all of them,
each at its line with the properties that would catch it, or the reason none does
yet.

## 2. Modules

| module | models |
|---|---|
| `GoMaps` | Go's map values |
| `ReadingBatches` | model/station.go: readings, batches, their validity |
| `Validation` | ingest/validator.go and policy/sequence.go, as functions of a batch and the time |
| `StationLedger` | the abstract contract: per station a durable log that grows by whole runs and is served while the service runs |
| `FileStore` | the store: every operation, failed writes, fault plans, close, crash, reopen; refines `StationLedger` |
| `OneStepStore` | the abstract contract of the snapshot file that `FileStore` builds on: memory and file change in one step |
| `SnapshotFile` | `persistStateLocked` operation by operation: temporary file, write, rename, with failures, kills and power cuts |
| `Lifecycle` | the process around `SnapshotFile`: start, requests, the recovery loop, signal, shutdown, `Close`; refines `OneStepStore` |
| `StationService` | stations over the store: each two-call operation is two steps; refines `FileStore` |
| `Ingest` | ingest and recovery over both: uploads, the runner and requested replays, with `Receive` in one step; refines `StationService` |
| `AuditJournal`, `Metrics`, `AlertQueue` | the three in-memory components beside the store, each with variables and operations of its own |
| `Reception` | `Receive` and its callers in their single calls, composed with those three and `StationService`, which it refines |
| `Query` | snapshots and pages of readings over `StationService`, each store read a step |
| `MCFileStore`, `MCStationService`, `MCIngest`, `MCReception`, `MCQuery`, `MCLifecycle` | small instances |
| `ReadingBatchProofs`, `FileStoreProofs`, `StationServiceProofs`, `IngestProofs`, `ReceptionProofs`, `ReceptionBooksProofs`, `QueryProofs`, `LifecycleProofs` | theorems |

`Ingest` and `Reception` model the same `Receive` for different questions. `Ingest` has
a moving clock, several replays and liveness; `Reception` has every call of `Receive`, the
memory beside the store and contexts that end between two calls. Both are shown to do to
the store only what `StationService` allows for.

### State and actions against the code

`FileStore`: `state` is `FileStore.state` and `disk` the snapshot file, both a
record of four maps as in `diskState`. `mode` is `open`, `closed` (after `Close`)
or `down` (no process). `fault` is the fault plan. `acked` is history: the batches
`CommitBatch` has accepted. Every exported method that changes something is an
action of the same name; a parameter `ok` says whether the snapshot could be
written. `CommitBatch` is split into its outcomes (`CommitDuplicate`,
`CommitFaulted`, `CommitApplied`, `CommitUnwritten`, `CommitRefused`), whose guards
are the early returns in the order of the code. A method holds the lock from its
first read to its last write, so it is one step; a crash within it leaves the file
as it was or as the rename made it, which is `Crash` after a failed or a
successful step. `Crash` is an exit or a kill: the file stays as it is. What a power cut
may leave of it is in `SnapshotFile` only. `SetStation` is given any copy that an earlier `GetStation` can
have returned, with any status and failure count (`HeldCopies`); that real callers
stay within this is not assumed but shown by `StationService`.

`StationService`: `held` maps an operator inside `Pause`, `Resume`, `Retire` or
`RecordFailure` to the changed copy it is about to write. `ChangeStatus` and
`RecordFailure` are the `GetStation` halves, `WriteBack` the `SetStation` half,
`GiveUp` the error return when the store was closed or the context has expired.
`Meanwhile` is whatever the rest of the program may do. Operators also call `Retire` and
`RecordFailure`, which no handler does: the server's behaviours are among those of the
module, and the properties that speak of retirement or failure counts are about the
package, not about anything a request can bring about today.

`Ingest`: `jobs` maps a replay under way to the rest of the list it read and to
what it does next, `receive` or `mark`: between the two, and between two batches,
everyone else may move. `Upload` is the batch handler, `StartReplay`,
`ReplayAccept`, `ReplayFail`, `ReplayMark` are the steps of `Replay`, `Expire` a
request that ran out of time. `clock` moves forward by any amount. `owed` is
history: the batches whose last answer was a storage error.

`Reception`: `calls` maps a caller (the handler of an upload, or a replay) to the batches
it still has to receive, the step of `Receive` it is at (`receive`, `commit`, `count`,
`log`, then `finish` for what the caller does with the outcome), whether its context is
live, and the outcome so far. `LogReceived`, `Commit`, `Count` and `LogCommitted` are the
calls of `Receive` in their order; `Answer` is the rest of the batch handler with
`Enqueue`, `FinishReplay` the rest of an iteration of `Replay` with its mark. `Die` loses
journal, counters, queue and calls. `inherited` and `drained` are history.

`Query`: `asked` maps a client inside `Snapshot` to the station and the cursor it has
read so far; `GetStation`, `GetCursor` and `GetReadings` are the three reads, `Fail` the
error return of any. `shown` and `fetched` are history: a client's last snapshot of a
station, and the pages it has collected with `?after=`.

`SnapshotFile`: `path` and `tmp` are the two files, `memory` the set of changes that
`FileStore.state` contains, `writer` the one operation that holds the lock, with its next
file operation. `acked` and `lost` (a power cut has hit the file) are history.
`Lifecycle` adds `phase`, where `main` is (only a signal cancels the context: a listener that
fails leads to `broken`, where it is still live until `log.Fatal`), and `doing`, what each handler and the recovery
loop are doing. `Call` is the look at the context before the lock, `Enter` the lock and
the look at `closed`.

### Abstractions

* Names, regions, reasons, error texts, attempt counters and the update times of
  stations and cursors are left out: no guard reads them. A batch record keeps its
  update time, because `PendingBatches` sorts by it.
* The four measurements of a reading are one value that is in range or not.
* Sequence numbers are unbounded. A log starts at 1 and grows by batches of at most
  10000 readings (`config.go:66`), so the 64 bits of the code do not run out.
* A string that is blank after trimming is `""`.
* Validation and commit of a batch are one step: validation reads only the batch
  and the clock.
* The batch state `pending` is in the type, as in the code, but nothing creates it.
* In `FileStore` the file changes in one step. `SnapshotFile` and `Lifecycle` have the
  single file operations, and `OneStepSpec` shows that they look like one step to everyone
  who needs the lock, until a power cut: because nothing is flushed, `Cut` may leave the
  old file, an empty, a partial or an older one. It over-approximates what file systems do.
* In `SnapshotFile` a snapshot is the set of changes it contains. A commit is made once
  (the duplicate and sequence checks); a change in place may be made again.
* Entries of the journal and events of the queue have no time and no text. Thresholds of
  the alert policy are sets of observations.
* Nothing in the repository calls `Drain`; `Reception` assumes a consumer that does.
* `Reception` has no clock: each call is handed any instant of `Times`.
* `Query` leaves the averages of `Summarize` out.

## 3. Runs

| run | question | instance |
|---|---|---|
| `store_core` | do the store's guarantees hold whatever its clients do? | two stations, two consecutive batches (two readings and one), a fault at sequence 2 or at 3, all write failures, closes and crashes |
| `store_memory_follows_file` (violation) | does memory change only after the file? | the same |
| `stations` | are two concurrent operators harmless to the store, and is retirement final? | one station, one batch, two symmetric operators, failure counter up to 3 |
| `stations_consistency` (violation) | does `CheckConsistency` ever report? | the same with one operator |
| `ingest` | do uploads and replays get in each other's way? | two batches, the runner and one requested replay, a fault at either batch, a clock of three instants and a maximum age of one |
| `ingest_recovery` | is a failed batch retried until it is in? | two batches, the runner, one operator who pauses and resumes, fairness |
| `ingest_idempotency` (violation) | is an accepted batch sent again a duplicate? | as `ingest`, one instant |
| `ingest_unwritten` (violation) | is a batch that could not be written recoverable? | as `ingest`, one instant |
| `reception` | do journal, counters and alerts agree with the file, whatever happens between two calls of `Receive`? | one upload handler and the runner, both with contexts that may end, four batches of which two share an identifier, one has none and one has two alarming readings, a journal of 4 entries, 3 batches received per process |
| `reception_alerts` (violation) | does every alarming reading that gets into a log raise its alert? | the same, with contexts that do not end |
| `query` | what may a client be shown? | one station, two batches, one client, one operator, a window of one reading, pages of one reading |
| `process` | is the file whole at every step, does a stop come to an end, and do the file operations look like one? | two commits and a change in place, one handler and the loop |

What the passing runs show:

* `CursorsAreReadable`, `VisibleIsDurable`, `CommittedIsReadable`,
  `AcceptedSurvives`, `OnlyAcceptedIsReadable`: the storage contract of the brief. A
  cursor is the length of a gapless log, no reader is shown what a restart would take
  back, what was accepted is in the file whole, and nothing else is.
* `AcceptedOnce`: even when the record of an accepted batch has become `failed`, the
  sequence check keeps a retry from being applied twice.
* `RecordsForGood`: a record that is in the file is never lost, nor filed with another batch,
  although every later snapshot is written from memory and over the whole file.
* `LedgerSpec`: all of it as a refinement of `StationLedger`.
* `NeverAhead`: lost updates set a station's last sequence back but never ahead of
  the cursor, and are all that `CheckConsistency` can report: it is never a missing cursor
  or a last reading that disagrees. `ProblemsHaveACause`: a station is reported anew only
  by the very step that writes back a copy from before its last commit. `RetiredForGood`: nothing leads out of retired, as far as this is true,
  that is, unless an operator holds a copy from before. `StoreIsRespected`: the
  service does only what `FileStore` allows its clients.
* `QueuedAreKnown`: a replay's list stays valid while others work on the same
  records: each batch on it is recorded, is not changed by being normalised once more (so
  the write into the store's own slice is harmless), and is next for its station or late,
  never early, so that a retry that is out of sequence has had its place taken. `CommittedForGood`: a committed record that no replay has on its list is
  never made anything else. `ServiceIsRespected`: ingestion does only what
  `StationService` assumes of its surroundings.
* `RecoveryCompletes`: liveness of recovery.

* `ShownFitsTogether`: three reads at three instants never show a station ahead of the
  cursor, a gap, or a window that ends before the cursor. (It may end after it: the read
  starts at the cursor minus the window, which is negative for a short log.)
  `ShownIsDurable`, `NeverBackwards`: what a client has seen survives restarts, and a later
  snapshot never shows less. `PagesJoin`: following a station by its last sequence neither
  repeats nor skips a reading.
* `CountersTellGrowth`: the accepted counter is the number of batches by which the file has
  grown since the process started. `JournalKeepsNewest`, `JournalTellsTruth`,
  `CommitsWereReceived`: the journal drops its oldest entries only, never reports a commit
  that the file does not hold, and reports a commit after a reception. `AnswersAreKept`:
  from its commit until it answers, a caller told `accepted` has its own batch in the file,
  under a cursor that covers it and can be read; one told `duplicate` has it too, unless
  another batch has the same identifier, in which case its readings may have been dropped.
  `AlertsAreReadable`, `EventsOnce`, `AlertsPerAnswer`: alerts are about what was accepted,
  are numbered without gap or repetition, and grow no faster than the answers given.
  `ReceptionIsService`: with calls that end between two steps and with colliding
  identifiers the store is still asked for nothing but what `StationService` allows, so it
  keeps its promises.
* `ReportedIsInFile`, `FileIsWhole`: a process killed between any two file operations, or
  one that meets the temporary file of a killed one, loses nothing and reads no half
  snapshot. `OrderlyStop`: `Serve` returns without a request under way, and after `Close` the
  recovery loop, which nobody waits for, cannot touch the file. `StopsInTime`: liveness of
  the shutdown. `OneStepSpec`: the refinement that justifies `FileStore`'s `Persist`.

`StoreInv` and `ServiceInv` are the inductive invariants of the proofs, checked
first by TLC; the type invariants `TypeOK` and `ServiceTypeOK` are parts of them.

**Bounds.** Two batches are enough for a predecessor and a successor, a gap, an
overlap, a retry and a replay list with two members; a batch of two readings for a
batch applied in part. One lost update needs one operator and one batch; two
operators overwrite each other. The failure counter reaches 3, the threshold at
which `RecordFailure` pauses. The second upload carries a reading without a station,
which `Normalize` fills in. Batches grow too old within the clock's three instants.
`SetFaultPlan` is a test hook: `Ingest` arms at most one plan in an opened store.
Counters that grow for ever (attempts, time) are cut off: attempts are left out,
`Times` bounds the clock and `MaxFailures` the failure counter.

The duplicate check looks at nothing but the identifier. `Unique(b)`, that no other batch
has the identifier of `b`, is a hypothesis where a property speaks of `b` itself; run
`reception` has two batches with one identifier. No two of its batches share a reading
(`ReadingsApart`, which `MCReception` assumes and TLC evaluates): without that the growth
of a log could not be told in batches. It has a journal that is full after two of
the three batches that `MaxCalls` lets one process receive, so that entries fall out.
`query` has a window and a page of one reading, so that two readings are more than fit.
`process` needs two commits and a change in place for a write that fails, one that is
killed and one that succeeds after either; one handler and the loop are two threads that
want the lock.

**Deadlock** is checked in every run: a process that is down can be opened again (or, in
`process`, refuses to start on an unreadable file for ever, which is a stuttering step).

**Fairness** (`Ingest!Fairness`, used by `ingest_recovery` only). The runner's goroutine
loops until its context is cancelled (`recovery/service.go:29-41`), so its steps are
weakly fair; cancellation is followed by the end of the process within five seconds,
which is `Close` and `Crash`. Strong fairness of `ReplayAccept` for each batch says of the
environment that a disk tried again and again does not fail every time (a fault plan
is finite by itself), and that the runner's attempts do not always fall into a pause
or a stop. Operators, clients, writes that fail and crashes have no fairness: nothing
obliges them to act. The property asks for the retry only while the store is open, the
station active and the batch valid and next in sequence.

`Lifecycle!LifeFairness` (run `process`): `main` goes on after the signal (`Drained`,
`CloseStore`, `Exit`), the five seconds of the shutdown context pass
(`ShutdownTimeout`, `lifecycle.go:17`), and a file operation comes to its end (`Work`). No
fairness is asked of handlers, which may never finish, nor of the recovery loop. Weak
fairness of `CloseStore` is enough although it waits for the lock: the context of the loop
is cancelled, so it makes at most the store call it has begun.

## 4. Disagreements between code and documentation

Each is a run that TLC ends with a counterexample.

1. `MemoryFollowsFile`: the comment at `file_store.go:29-30` says memory is only
   replaced after the write. Registration, status changes, injected faults and failure
   marks assign first and keep the assignment when the write fails.
2. `NoProblems`: pause reads the station, a batch is committed, pause writes its copy:
   the station's last sequence falls behind its cursor until the next batch, and
   `CheckConsistency` says so.
3. `RetryIsIdempotent`: a replay's commit fails, the client's own retry succeeds, the
   replay marks the batch failed. The next retry gets a conflict, not a duplicate, and
   the record is replayed for ever. No reading is lost or doubled. It starts from a
   failed record, which only an injected fault makes (see 4).
4. `StorageFailureIsRecoverable`: a snapshot that cannot be written leaves no failed
   record. Only the fault plan does, and nothing in the program sets one: after a real
   storage error recovery has nothing to do. (Theorem `RecoveryIsIdle` says so of every
   instance without a fault plan, and that a retry is then always a duplicate: 3 cannot
   happen there.)
5. `AlarmsAreRaised`: `project_design.md:3` lets every batch go through alert evaluation. Only
   the upload handler queues alerts, after its own `Receive` has succeeded; a batch that the
   recovery runner commits raises none. (This too starts from an injected fault.)

## 5. Proofs

All constants are arbitrary: any stations, batches, instants, fault plans, operators
and requests, with the assumptions `RangeAssumption` (values in range are values),
`StoreAssumption` (typing), and `IngestAssumption` (typing; normalised uploads are
among the batches; identifiers are finitely many, so that a list of records exists).
The other modules assume likewise: `ValidationAssumption` and `JournalAssumption` (typing),
`QueryAssumption` (the snapshot's limit is positive: the handler asks for 20),
`ReceptionAssumption` (as `IngestAssumption`, and uploads and replays have names apart), and
`ChangesAssumption` and `LifeAssumption` (commits, station edits, handlers and the recovery
loop are told apart; an unreadable file is no set of changes).
Three theorems are about some instances only and say so in their statement:
`CountersAreGrowth` (`ReadingsApart`), `RecoveryIsIdle` (no fault plan) and
`StoreStaysConsistent` (no operators).

* `FileStoreProofs` proves `StoreInv` inductive. Cursors alone are not: a restart
  replaces memory by the file, so the file must satisfy the same; the file and memory
  may differ in stations whose registration was not written, so how they may differ
  (`VisibleIsDurable`) has to be part of it; and a retry is judged by the record, so
  records must be faithful to the batches they hold: valid, filed under their identifier,
  of a known station, and not beyond its cursor (`RecordsFaithful`). From it follow
  `TypeCorrect`, `CursorsReadable`, `VisibleDurable`, `CommittedReadable`,
  `AcceptedSurvive`, `AppliedAtMostOnce` (the cursor is past every accepted batch, so the
  sequence check fails) and `Refinement`. `ReadableWasAccepted` is proved by an induction
  of its own on top of the invariant. `RecordsStay` is the action property
  `RecordsForGood`: a snapshot is written from memory, so memory must have at least the
  records of the file at every step. `OldestListed` says what `PendingBatches` returns,
  for every store and limit: there is always a list (finitely many records can be sorted,
  by a least counterexample over the cardinality), it holds distinct recoverable records,
  oldest first, as many as the limit lets through, and nothing left out is older.
* `StationServiceProofs` proves `ServiceInv` inductive: every copy in an operator's hands,
  and every station record, is one that `HeldCopies` allows, because cursors only grow
  while the process runs. So each step is a step of `FileStore` (`ServiceRespectsStore`),
  and the theorems of the store hold of the composition. `CopiesNeverAhead` and
  `RetirementIsFinal` follow. `OnlyLagsAreProblems` evaluates the three tests of
  `CheckConsistency` on any snapshot the invariant allows; with it `ProblemsAreLostUpdates`
  goes through the steps and finds a single one that can make a station lag, a write of an
  older copy, and `StoreStaysConsistent` shows that without operators there is no problem
  at all, restarts and failed writes included: the exact extent of finding 2.
* `IngestProofs` begins with the functions of `Validation`: `ValidateOrdered` refuses no batch
  that passed the batch's own check, so the second check of the validator is redundant
  (`OrderedIfValid`); `Window` of a valid batch is complete and has its first and last
  sequence; `Normalize` changes nothing in a valid batch. It then proves that the batches
  on a replay's list stay recorded and placed (records are never deleted and cursors never
  go back while the process runs), and with it `IngestRespectsService`: every step is one
  of `StationService`. `ReplaysKnowTheirBatches` follows from the faithfulness of records;
  `CommittedIsFinal` because only the replay that has a batch on its list can mark it, and
  a committed record comes on no list. `RecoveryIsIdle` has the hypothesis that no fault
  plan exists, which is how the server runs: then memory and file have the same records,
  all committed, no replay finds work, and each accepted batch has its record.
* `ReadingBatchProofs` holds the lemmas on batches: the readings of a valid batch have
  the consecutive sequences from its first to its last.
* `QueryProofs`: a call under way has read nothing that the log in the file is not past, and
  the log only grows (`LogsGrow`); a finished answer is a window of it. From this follow
  `SnapshotsFitTogether`, `SnapshotsDurable`, `PagesMakeTheLog` and `ClientsNeverSetBack`, for
  any window and page size and any number of clients.
* `ReceptionProofs`: `ReceptionInv` says that a call with a success to report, and every entry
  that reports one, speaks of a batch in the file, and that the journal is numbered. It is
  inductive because the logs only grow, so what was true at the commit is true when it is
  written down. `ReceptionRespectsService` is the refinement;
  `JournalIsNewest` (for a journal of any size) and `JournalIsTrue` follow.
* `ReceptionBooksProofs`: what journal, counters and alerts say of each other. They are
  written in calls of their own, so they disagree by the callers that are between two of
  them: each invariant is a balance in which those callers are counted on the side they
  have reached (`Those` is the set of calls at given steps; `ThoseChange`, `ThoseLeave` and
  `ThoseStart` say how its cardinality moves). `BooksAreKept` is their conjunction.
  `CommitsFollowReceipts`: commits entered in the journal, with the calls about to enter
  one, are at most the receptions entered. `AlertsAreAnswers`: alerts of a reading, with
  the calls about to answer, are at most the successes counted. `CountersAreGrowth`: the
  accepted counter, with the calls about to count, is the number of batches by which the
  file has grown; it has the hypothesis `ReadingsApart`. `EventsReachOnce`: events drained
  and events waiting are one sequence numbered from 1.
  `AlertsReadable`: the calls about to answer know a readable batch, and logs only grow.
  `AnswersKept`: what `CommitBatch` answered is so in the file it left (`AnswerIsTrue`, where
  a duplicate falls back on the one batch with its identifier), and stays so. `ReceptionKeepsLedger` and
  `ReceivedOnce` state the contract of the store of the whole composition.
* `LifecycleProofs`: `LifeInv` describes how far the holder of the lock has come: what it
  started from, that the temporary file is its whole snapshot before the rename, that the
  file is its snapshot after, and that until then the file has nothing that memory had not.
  From it follow `ReportedSurvives`, `NeverHalfWritten`, `StopsAreOrderly`, and
  `WritesLookAtomic`, the refinement of `OneStepStore`, in which the rename is the step. The
  assumptions are that the loop is no handler and that an unreadable file is no snapshot.

Every link of the chains `Ingest` => `StationService` => `FileStore` => `StationLedger` and
`Reception` => `StationService` is proved; `IngestionKeepsLedger`, `IngestedOnce`,
`ReceptionKeepsLedger` and `ReceivedOnce` state their ends.

Only model-checked: `RecoveryCompletes` and `StopsInTime`, because liveness under fairness is
out of the prover's reach, and the five violations. Every invariant and every action
property that a passing run checks has a theorem.

## 6. Not modelled, and why

Operator notes, telemetry samples, the batch progress view, `recovery.Backoff` and the health
service are used by nothing in the program: no state of the system depends on them, and what
they compute is a function of one argument that a unit test covers. Configuration is
parsed once at start; errors carry text; routing, JSON and status codes are presentation,
for which reason `httpapi` is listed as partly modelled. The smoke command is a script.
`Metrics.Snapshot` and `SequenceWindow.String` only format.

The compare-and-swap of `Runner.Start` is not a variable: `Serve` calls `Start` once, and the
second call that it guards against does not exist in the program.

## 7. Plan

Done: the core (`FileStore`, `StationService`, `Ingest`) with proofs and liveness of recovery;
then `Query`, `Validation`, the memory beside the store (`Reception` with its three
components), the file operations and the process (`SnapshotFile`, `Lifecycle`), each with
proofs. Left, in order:

1. A replay list that is cut (a limit of one in `PendingBatches`) under fairness. It needs
   a clock without a bound, because records updated at one instant may come in any order;
   `OldestListed` is the part of it that a proof can say.
2. The two `Receive` models against each other. `Reception` is no refinement of `Ingest` as
   they stand: it has no clock, so that its calls may be handed instants in any order, where
   the clock of `Ingest` only moves forward. It would need that clock, and a mapping of
   `calls` to `jobs`.
3. What recovery does of its own under a safety property: a replay that works alone
   leaves, of the records on its list, only those the store refuses.
4. `health.Check` as three reads over the store, if the program comes to construct it;
   `Backoff.Delay`, `Sample.Key` and `TimeRange` as functions against reference definitions.
