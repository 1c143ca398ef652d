------------------------------- MODULE Ingest -------------------------------
(***************************************************************************)
(* Packages ingest and recovery over the store, with the station service   *)
(* at work beside them.  Receive checks a batch and commits it; uploads    *)
(* and replays both go through it.  A replay reads the list of recoverable *)
(* batches once and then works through its copy, with one store call to    *)
(* commit each batch and, if that failed, another to mark its record.  The *)
(* recovery runner replays in the background, POST /v1/recovery/run in the *)
(* handlers of any number of requests.                                     *)
(*                                                                         *)
(* Validation and commit are one step: nothing validation reads but the    *)
(* clock is shared, and the time between its readings of the clock counts  *)
(* as none.  Metrics and the audit journal are in module Reception.        *)
(***************************************************************************)
EXTENDS StationService, Validation

CONSTANTS Uploads,     \* the batches that clients post
          Runner,      \* the background replay of the recovery runner
          Requests,    \* the replays that requests ask for
          Limit        \* the limit given to Replay

VARIABLES clock,   \* the service's clock; Times bounds it
          jobs,    \* the replays under way: what is left of the list of each
          owed     \* history: batches whose last answer was a storage error

ingestVars == <<state, disk, mode, fault, acked, held, clock, jobs, owed>>

Replays == {Runner} \cup Requests

ASSUME IngestAssumption ==
    /\ \A b \in Uploads \cup Batches : Normalize(b) \in Batches
    /\ Limit \in Int
    /\ IsFiniteSet(BatchIds)

Job == [todo : Seq(Batches) \ {<<>>}, next : {"receive", "mark"}]

IngestInit ==
    /\ ServiceInit
    /\ clock \in Times
    /\ jobs = EmptyMap
    /\ owed = {}

-----------------------------------------------------------------------------
(* Receive. *)

Accept(b) ==
    /\ Validate(b, clock)
    /\ CommitDuplicate(b) \/ CommitApplied(b, clock)
    /\ owed' = owed \ {b}

FailToStore(b) ==
    /\ Validate(b, clock)
    /\ CommitUnwritten(b) \/ \E ok \in BOOLEAN : CommitFaulted(b, clock, ok)
    /\ owed' = owed \cup {b}

\* Mutant of Refuse: a refused batch is recorded as failed.
RefuseRecorded(b) ==
    /\ ~Validate(b, clock) \/ (Admissible(b) => ~Duplicate(b) /\ ~Expected(b))
    /\ Ready
    /\ state' = WithRecord(state, b.id, Record(b, "failed", clock))
    /\ Persist(state', TRUE)
    /\ UNCHANGED <<mode, fault, acked, owed>>

Refuse(b) ==
    /\ ~Validate(b, clock) \/ CommitRefused(b)
    /\ UNCHANGED <<storeVars, owed>>

Receive(b) == Accept(b) \/ FailToStore(b) \/ Refuse(b)

\* POST /v1/stations/{id}/batches.
Upload(b) ==
    /\ mode # "down"
    /\ Receive(Normalize(b))
    /\ UNCHANGED <<held, clock, jobs>>

-----------------------------------------------------------------------------
(* Replay. *)

\* The list is read: a replay with nothing to do ends at once.
StartReplay(w) ==
    /\ Ready
    /\ w \notin DOMAIN jobs
    /\ \E list \in PendingBatches(state, Limit) :
         /\ list # <<>>
         /\ jobs' = Put(jobs, w,
              [todo |-> [i \in DOMAIN list |-> state.batches[list[i]].batch],
               next |-> "receive"])
    /\ UNCHANGED <<storeVars, held, clock, owed>>

EndJob(w) == jobs' = [x \in DOMAIN jobs \ {w} |-> jobs[x]]

\* Mutant of NextBatch: the end of the list is overlooked.
NextBatchAlways(w) ==
    jobs' = Put(jobs, w, [todo |-> Tail(jobs[w].todo), next |-> "receive"])

\* On to the next batch of the list.
NextBatch(w) ==
    IF Len(jobs[w].todo) = 1
    THEN EndJob(w)
    ELSE jobs' = Put(jobs, w, [todo |-> Tail(jobs[w].todo), next |-> "receive"])

Receiving(w, b) ==
    /\ w \in DOMAIN jobs
    /\ jobs[w].next = "receive"
    /\ b = Normalize(Head(jobs[w].todo))

ReplayAccept(w, b) ==
    /\ Receiving(w, b)
    /\ Accept(b)
    /\ NextBatch(w)
    /\ UNCHANGED <<held, clock>>

ReplayFail(w, b) ==
    /\ Receiving(w, b)
    /\ FailToStore(b) \/ Refuse(b)
    /\ jobs' = [jobs EXCEPT ![w].next = "mark"]
    /\ UNCHANGED <<held, clock>>

\* The record is marked failed, whatever has become of it meanwhile; a store
\* that is closed, or knows no such record, refuses.
ReplayMark(w) ==
    /\ w \in DOMAIN jobs
    /\ jobs[w].next = "mark"
    /\ LET bid == Head(jobs[w].todo).id
       IN  \/ \E ok \in BOOLEAN : MarkBatchFailed(bid, clock, ok)
           \/ ~(Ready /\ bid \in DOMAIN state.batches) /\ UNCHANGED storeVars
    /\ NextBatch(w)
    /\ UNCHANGED <<held, clock, owed>>

\* The request's context ends (timeout, or the client went away): every store
\* call that is left returns its error, so nothing more comes of the job.
Expire(w) ==
    /\ w \in DOMAIN jobs
    /\ EndJob(w)
    /\ UNCHANGED <<storeVars, held, clock, owed>>

Replay(w) ==
    \/ StartReplay(w)
    \/ \E b \in Batches : ReplayAccept(w, b) \/ ReplayFail(w, b)
    \/ ReplayMark(w)

-----------------------------------------------------------------------------
Tick ==
    /\ \E later \in Times : later > clock /\ clock' = later
    /\ UNCHANGED <<storeVars, held, jobs, owed>>

\* SetFaultPlan is a hook for tests: at most one plan in an opened store.
Arm ==
    /\ fault = NoFault
    /\ \E plan \in FaultPlans : SetFaultPlan(plan)

Others ==
    \/ \E o \in Operators : Operate(o)
    \/ /\ \/ \E id \in StationIds, ok \in BOOLEAN : RegisterStation(id, ok)
          \/ Arm
          \/ OpenFile
          \/ Close
       /\ UNCHANGED held

IngestNext ==
    \/ \E b \in Uploads : Upload(b)
    \/ \E w \in Replays : Replay(w)
    \/ \E w \in Requests : Expire(w)
    \/ Tick
    \/ Others /\ UNCHANGED <<clock, jobs, owed>>
    \/ /\ Crash
       /\ held' = EmptyMap /\ jobs' = EmptyMap
       /\ UNCHANGED <<clock, owed>>

IngestSpec == IngestInit /\ [][IngestNext]_ingestVars

\* The runner's goroutine never stops while the process runs, and a disk that
\* is asked again and again does not fail every time.
Fairness ==
    /\ WF_ingestVars(StartReplay(Runner))
    /\ WF_ingestVars(\E b \in Batches :
                       ReplayAccept(Runner, b) \/ ReplayFail(Runner, b))
    /\ WF_ingestVars(ReplayMark(Runner))
    /\ \A b \in Batches : SF_ingestVars(ReplayAccept(Runner, b))

FairIngestSpec == IngestSpec /\ Fairness

-----------------------------------------------------------------------------
IngestTypeOK ==
    /\ ServiceTypeOK
    /\ clock \in Times
    /\ IsMap(jobs, Replays, Job)
    /\ owed \subseteq Batches

\* What a replay has listed stays known while it works: the record it will
\* mark is there, under the identifier and with the batch it resubmits
\* (Replay, ingest/service.go:73-77), however many others commit, fail or
\* mark the same batches meanwhile.  Normalising it again changes nothing,
\* so that the write into the store's own slice (validator.go:43-46) writes
\* what is there; and the log of its station has come at least to its start,
\* so that a replay is only ever late, never early.
Queued(w) == {jobs[w].todo[i] : i \in DOMAIN jobs[w].todo}

QueuedAreKnown ==
    \A w \in DOMAIN jobs : \A b \in Queued(w) :
      /\ b.id \in DOMAIN state.batches
      /\ state.batches[b.id].batch.id = b.id
      /\ Unique(b) => state.batches[b.id].batch = b
      /\ Normalize(b) = b
      /\ b.stationId \in DOMAIN state.cursors
      /\ FirstSequence(b) <= state.cursors[b.stationId] + 1

\* A record that is committed in memory and in the file, and that no replay
\* has on its list, is never made anything else again, neither by later
\* replays nor through restarts and failed writes.
Settled(bid) ==
    /\ Committed(disk, bid)
    /\ mode # "down" => Committed(state, bid)
    /\ \A w \in DOMAIN jobs : \A b \in Queued(w) : b.id # bid

CommittedForGood ==
    [][\A bid \in BatchIds : Settled(bid) => Settled(bid)']_ingestVars

\* Uploads and replays only do to the store what the station service assumes
\* others to do, so the guarantees of StationService and of FileStore hold.
ServiceIsRespected == ServiceSpec

\* A failed batch that its station's log is waiting for is not left failed:
\* the runner retries it until it is committed or until the store stops, the
\* station is paused, the batch grows too old or another batch takes its
\* place (Runner.Start, recovery/service.go:25-42).
Waiting(b) ==
    /\ b.id \in Recoverable(state)
    /\ state.batches[b.id].batch = b
    /\ Validate(b, clock)
    /\ Admissible(b)
    /\ Expected(b)

RecoveryCompletes == \A b \in Batches : []<>~Waiting(b)

\* "Batch identity provides idempotency" (PROJECT_BRIEF.md:5): a batch that
\* was accepted, sent again, is answered as a duplicate.
RetryIsIdempotent ==
    \A b \in acked : Unique(b) /\ Admissible(b) => Duplicate(b)

\* The service "retries recoverable batches after connectivity or storage
\* interruptions" (PROJECT_BRIEF.md:3): a batch that a storage error has kept
\* out is there for recovery to retry.
StorageFailureIsRecoverable ==
    Ready => \A b \in owed : b.id \in Recoverable(state)

\* Recovery works on failed records, and only the fault plan of the tests
\* (SetFaultPlan, file_store.go:75 and 192) leads to a first one: in a process
\* that is given none, nothing is recoverable and no replay has any work.
NothingToRecover ==
    /\ Recoverable(state) = {} /\ Recoverable(disk) = {}
    /\ jobs = EmptyMap

=============================================================================
