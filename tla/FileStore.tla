------------------------------ MODULE FileStore ------------------------------
(***************************************************************************)
(* Package store: the single-snapshot file store.  `state` is the in-memory *)
(* snapshot guarded by FileStore.mu, `disk` the content of the snapshot     *)
(* file (the empty state while there is no file).  Every operation holds    *)
(* the lock from its first read to its last write, so it is one step here; *)
(* a crash between two of its file operations leaves `disk` either as it   *)
(* was or as the rename made it, which Crash after a failed or a           *)
(* successful operation covers.                                            *)
(*                                                                         *)
(* Left out of the records, because no property tells them apart: names,   *)
(* regions, error texts, attempt counters, and the update times of         *)
(* stations and cursors.                                                   *)
(***************************************************************************)
EXTENDS ReadingBatches, GoMaps, SequencesExt

CONSTANTS Batches,       \* the batches submitted to CommitBatch
          Times,         \* the instants callers pass as `now`
          FaultPlans,    \* the plans given to SetFaultPlan
          MaxFailures    \* bound on a station's failure counter

FaultPlan == [failOn : Nat, remaining : Nat]

ASSUME StoreAssumption ==
    /\ Batches \subseteq ReadingBatch
    /\ Times \subseteq Nat
    /\ FaultPlans \subseteq FaultPlan
    /\ MaxFailures \in Nat

VARIABLES state,    \* FileStore.state
          disk,     \* the snapshot file
          mode,     \* "open", "closed" (Close was called) or "down" (no process)
          fault,    \* FileStore.fault
          acked     \* history: the batches CommitBatch has accepted

storeVars == <<state, disk, mode, fault, acked>>

Statuses == {"active", "paused", "retired"}
BatchStates == {"pending", "committed", "failed"}

Station == [status : Statuses, lastSequence : Nat, failureCount : Nat]
BatchRecord == [batch : ReadingBatch, state : BatchStates, updatedAt : Times]

IsDiskState(d) ==
    /\ d = [stations |-> d.stations, cursors |-> d.cursors,
            batches |-> d.batches, readings |-> d.readings]
    /\ IsMap(d.stations, StationIds, Station)
    /\ IsMap(d.cursors, StationIds, Nat)
    /\ IsMap(d.batches, BatchIds, BatchRecord)
    /\ d.readings \in [StationIds -> Seq(Reading)]

EmptyState == [stations |-> EmptyMap, cursors |-> EmptyMap,
               batches |-> EmptyMap, readings |-> [s \in StationIds |-> <<>>]]

NoFault == [failOn |-> 0, remaining |-> 0]

StoreInit ==
    /\ state = EmptyState
    /\ disk = EmptyState
    /\ mode = "open"
    /\ fault = NoFault
    /\ acked = {}

-----------------------------------------------------------------------------
(* Writing the snapshot, and opening and closing the store. *)

\* The file is replaced by one rename: MkdirAll, WriteFile of the temporary
\* file and Rename either all succeed or the old file stays.
Persist(snapshot, ok) == disk' = IF ok THEN snapshot ELSE disk

Ready == mode = "open"

\* Mutant of OpenFile: the file is not read back.
OpenFileBlank ==
    /\ mode = "down"
    /\ mode' = "open"
    /\ state' = EmptyState
    /\ fault' = NoFault
    /\ UNCHANGED <<disk, acked>>

OpenFile ==
    /\ mode = "down"
    /\ mode' = "open"
    /\ state' = disk
    /\ fault' = NoFault
    /\ UNCHANGED <<disk, acked>>

Close ==
    /\ mode \in {"open", "closed"}
    /\ mode' = "closed"
    /\ UNCHANGED <<state, disk, fault, acked>>

\* The process ends, after Close or in the middle of anything.
Crash ==
    /\ mode # "down"
    /\ mode' = "down"
    /\ state' = EmptyState
    /\ fault' = NoFault
    /\ UNCHANGED <<disk, acked>>

SetFaultPlan(plan) ==
    /\ mode # "down"
    /\ fault' = plan
    /\ UNCHANGED <<state, disk, mode, acked>>

-----------------------------------------------------------------------------
(* Stations. *)

NewStation == [status |-> "active", lastSequence |-> 0, failureCount |-> 0]

WithStation(snapshot, id, station) ==
    [snapshot EXCEPT !.stations = Put(@, id, station)]

\* The maps are assigned in place, then written: a failed write leaves the
\* station in memory.
RegisterStation(id, ok) ==
    /\ Ready
    /\ id # ""
    /\ id \notin DOMAIN state.stations
    /\ state' = [WithStation(state, id, NewStation)
                   EXCEPT !.cursors = Put(@, id, 0)]
    /\ Persist(state', ok)
    /\ UNCHANGED <<mode, fault, acked>>

SetStation(id, station, ok) ==
    /\ Ready
    /\ id \in DOMAIN state.stations
    /\ state' = WithStation(state, id, station)
    /\ Persist(state', ok)
    /\ UNCHANGED <<mode, fault, acked>>

\* What a caller of SetStation can hold: a copy that an earlier GetStation
\* took between two batches, with a status or a failure count of its own.
HeldCopies(snapshot, id) ==
    LET batchEnds == {LastSequence(b) : b \in {c \in Batches : c.stationId = id}}
    IN  [status : Statuses,
         lastSequence : (batchEnds \cup {0}) \cap (0 .. snapshot.cursors[id]),
         failureCount : 0 .. MaxFailures]

-----------------------------------------------------------------------------
(* CommitBatch.  Its early returns, in the order of the code, are the      *)
(* guards Admissible, Duplicate, Expected and FaultHits.                   *)

Admissible(b) ==
    /\ BatchValid(b)
    /\ Ready
    /\ b.stationId \in DOMAIN state.stations
    /\ state.stations[b.stationId].status = "active"

Committed(snapshot, bid) ==
    /\ bid \in DOMAIN snapshot.batches
    /\ snapshot.batches[bid].state = "committed"

\* Mutant of Duplicate: any record of the identifier answers a retry.
DuplicateOfAnyRecord(b) == b.id \in DOMAIN state.batches

Duplicate(b) == Committed(state, b.id)

\* Mutant of Expected: a batch that overlaps the log is accepted.
ExpectedWithOverlap(b) == FirstSequence(b) <= state.cursors[b.stationId] + 1

\* Mutant of Expected: a batch that leaves a gap is accepted.
ExpectedAfterGap(b) == FirstSequence(b) > state.cursors[b.stationId]

Expected(b) == FirstSequence(b) = state.cursors[b.stationId] + 1

FaultHits(b) ==
    /\ fault.remaining > 0
    /\ fault.failOn # 0
    /\ \E i \in DOMAIN b.readings : b.readings[i].sequence = fault.failOn

Record(b, outcome, now) == [batch |-> b, state |-> outcome, updatedAt |-> now]

WithRecord(snapshot, bid, record) ==
    [snapshot EXCEPT !.batches = Put(@, bid, record)]

\* Mutant of Applied: the last reading of the batch is not appended.
AppliedButLast(snapshot, b, now) ==
    LET s == b.stationId
        last == LastSequence(b)
        station == [snapshot.stations[s] EXCEPT !.lastSequence = last,
                                                !.failureCount = 0]
    IN  [stations |-> Put(snapshot.stations, s, station),
         cursors  |-> Put(snapshot.cursors, s, last),
         batches  |-> Put(snapshot.batches, b.id, Record(b, "committed", now)),
         readings |-> [snapshot.readings EXCEPT ![s] = @ \o Front(b.readings)]]

\* Mutant of Applied: the station is moved on and the cursor is not.
AppliedWithoutCursor(snapshot, b, now) ==
    LET s == b.stationId
        station == [snapshot.stations[s] EXCEPT !.lastSequence = LastSequence(b),
                                                !.failureCount = 0]
    IN  [snapshot EXCEPT
           !.stations = Put(@, s, station),
           !.batches  = Put(@, b.id, Record(b, "committed", now)),
           !.readings = [@ EXCEPT ![s] = @ \o b.readings]]

\* Mutant of Applied: the record of the batch is dropped once it is applied.
AppliedUnrecorded(snapshot, b, now) ==
    LET s == b.stationId
        last == LastSequence(b)
        station == [snapshot.stations[s] EXCEPT !.lastSequence = last,
                                                !.failureCount = 0]
    IN  [stations |-> Put(snapshot.stations, s, station),
         cursors  |-> Put(snapshot.cursors, s, last),
         batches  |-> [x \in DOMAIN snapshot.batches \ {b.id} |->
                         snapshot.batches[x]],
         readings |-> [snapshot.readings EXCEPT ![s] = @ \o b.readings]]

\* The copied snapshot with the whole batch applied to it.
Applied(snapshot, b, now) ==
    LET s == b.stationId
        last == LastSequence(b)
        station == [snapshot.stations[s] EXCEPT !.lastSequence = last,
                                                !.failureCount = 0]
    IN  [stations |-> Put(snapshot.stations, s, station),
         cursors  |-> Put(snapshot.cursors, s, last),
         batches  |-> Put(snapshot.batches, b.id, Record(b, "committed", now)),
         readings |-> [snapshot.readings EXCEPT ![s] = @ \o b.readings]]

\* Answered from the record of the batch that was committed under this id.
CommitDuplicate(b) ==
    /\ Admissible(b)
    /\ Duplicate(b)
    /\ acked' = acked \cup {b}
    /\ UNCHANGED <<state, disk, mode, fault>>

\* Mutant of CommitFaulted: the readings before the fault stay in the log.
CommitFaultedPartly(b, now, ok) ==
    /\ Admissible(b)
    /\ ~Duplicate(b)
    /\ Expected(b)
    /\ FaultHits(b)
    /\ fault' = [fault EXCEPT !.remaining = @ - 1]
    /\ state' = [WithRecord(state, b.id, Record(b, "failed", now)) EXCEPT
                   !.readings[b.stationId] =
                     @ \o SelectSeq(b.readings,
                                    LAMBDA r : r.sequence < fault.failOn)]
    /\ Persist(state', ok)
    /\ UNCHANGED <<mode, acked>>

\* Mutant of CommitFaulted: the fault is looked for before the sequence.
CommitFaultedEarly(b, now, ok) ==
    /\ Admissible(b)
    /\ ~Duplicate(b)
    /\ FaultHits(b)
    /\ fault' = [fault EXCEPT !.remaining = @ - 1]
    /\ state' = WithRecord(state, b.id, Record(b, "failed", now))
    /\ Persist(state', ok)
    /\ UNCHANGED <<mode, acked>>

\* The injected write failure: a failed record is kept for recovery, and the
\* result of writing it is ignored.
CommitFaulted(b, now, ok) ==
    /\ Admissible(b)
    /\ ~Duplicate(b)
    /\ Expected(b)
    /\ FaultHits(b)
    /\ fault' = [fault EXCEPT !.remaining = @ - 1]
    /\ state' = WithRecord(state, b.id, Record(b, "failed", now))
    /\ Persist(state', ok)
    /\ UNCHANGED <<mode, acked>>

\* Mutant of CommitApplied: memory is replaced before the write is known to
\* have succeeded.
CommitAppliedInPlace(b, now) ==
    /\ Admissible(b)
    /\ ~Duplicate(b)
    /\ Expected(b)
    /\ ~FaultHits(b)
    /\ \E ok \in BOOLEAN : /\ Persist(Applied(state, b, now), ok)
                           /\ acked' = IF ok THEN acked \cup {b} ELSE acked
    /\ state' = Applied(state, b, now)
    /\ UNCHANGED <<mode, fault>>

\* Memory is replaced only after the write.
CommitApplied(b, now) ==
    /\ Admissible(b)
    /\ ~Duplicate(b)
    /\ Expected(b)
    /\ ~FaultHits(b)
    /\ Persist(Applied(state, b, now), TRUE)
    /\ state' = Applied(state, b, now)
    /\ acked' = acked \cup {b}
    /\ UNCHANGED <<mode, fault>>

\* The snapshot cannot be written: the error is returned and nothing changes.
CommitUnwritten(b) ==
    /\ Admissible(b)
    /\ ~Duplicate(b)
    /\ Expected(b)
    /\ ~FaultHits(b)
    /\ UNCHANGED storeVars

\* A batch that is not admissible, or that does not start after the cursor.
CommitRefused(b) ==
    /\ Admissible(b) => ~Duplicate(b) /\ ~Expected(b)
    /\ UNCHANGED storeVars

CommitBatch(b, now) ==
    \/ CommitDuplicate(b)
    \/ \E ok \in BOOLEAN : CommitFaulted(b, now, ok)
    \/ CommitApplied(b, now)
    \/ CommitUnwritten(b)
    \/ CommitRefused(b)

MarkBatchFailed(bid, now, ok) ==
    /\ Ready
    /\ bid \in DOMAIN state.batches
    /\ state' = WithRecord(state, bid,
                    Record(state.batches[bid].batch, "failed", now))
    /\ Persist(state', ok)
    /\ UNCHANGED <<mode, fault, acked>>

-----------------------------------------------------------------------------
(* The reads that others act on.  They change nothing.                     *)

\* Mutant of Recoverable: every record is listed, the committed ones too.
RecoverableAll(snapshot) == DOMAIN snapshot.batches

Recoverable(snapshot) ==
    {bid \in DOMAIN snapshot.batches :
        snapshot.batches[bid].state \in {"pending", "failed"}}

\* Mutant of PendingBatches: failed records are not listed.
PendingBatchesUntried(snapshot, limit) ==
    SetToSeqs({bid \in Recoverable(snapshot) :
                 snapshot.batches[bid].state = "pending"})

\* The lists PendingBatches may return: the recoverable records, least
\* recently updated first, cut at the limit (100 when none is given).
\* Records updated at the same instant come in any order.
PendingBatches(snapshot, limit) ==
    LET sorted == {q \in SetToSeqs(Recoverable(snapshot)) :
                     \A i, j \in DOMAIN q : i < j =>
                        snapshot.batches[q[i]].updatedAt
                          <= snapshot.batches[q[j]].updatedAt}
        most == IF limit <= 0 THEN 100 ELSE limit
    IN  {SubSeq(q, 1, IF Len(q) > most THEN most ELSE Len(q)) : q \in sorted}

\* The stations CheckConsistency reports: their record, or their last reading,
\* disagrees with the cursor.
Problems(snapshot) ==
    {s \in DOMAIN snapshot.stations :
        \/ s \notin DOMAIN snapshot.cursors
        \/ snapshot.stations[s].lastSequence # snapshot.cursors[s]
        \/ LET rows == snapshot.readings[s]
           IN  rows # <<>> /\ Last(rows).sequence # snapshot.cursors[s]}

-----------------------------------------------------------------------------
StoreNext ==
    \/ OpenFile
    \/ Close
    \/ Crash
    \/ \E plan \in FaultPlans : SetFaultPlan(plan)
    \/ \E id \in StationIds, ok \in BOOLEAN :
         \/ RegisterStation(id, ok)
         \/ /\ Ready /\ id \in DOMAIN state.stations
            /\ \E station \in HeldCopies(state, id) : SetStation(id, station, ok)
    \/ \E b \in Batches, now \in Times : CommitBatch(b, now)
    \/ \E bid \in BatchIds, now \in Times, ok \in BOOLEAN :
         MarkBatchFailed(bid, now, ok)

StoreSpec == StoreInit /\ [][StoreNext]_storeVars

-----------------------------------------------------------------------------
(* What the store guarantees. *)

TypeOK ==
    /\ IsDiskState(state)
    /\ IsDiskState(disk)
    /\ mode \in {"open", "closed", "down"}
    /\ fault \in FaultPlan
    /\ acked \subseteq Batches

\* A station's log is exactly the sequences 1, 2, ... up to its cursor, all
\* of its own; a station without a cursor has no readings.
CursorDescribes(snapshot) ==
    /\ DOMAIN snapshot.stations = DOMAIN snapshot.cursors
    /\ \A s \in StationIds :
         LET log == snapshot.readings[s]
         IN  /\ \A i \in DOMAIN log : /\ log[i].sequence = i
                                      /\ log[i].stationId = s
             /\ s \in DOMAIN snapshot.cursors => snapshot.cursors[s] = Len(log)
             /\ s \notin DOMAIN snapshot.cursors => log = <<>>

\* Cursors describe readable data: in memory and in the file, a cursor is
\* the length of a gapless log (CommitBatch, file_store.go:187-212), whatever
\* faults, failed writes and restarts came before.
CursorsAreReadable == CursorDescribes(state) /\ CursorDescribes(disk)

\* No reader is ever shown a reading or a cursor that a restart would take
\* back: an open store serves the logs of the file, and a station whose
\* registration was never written (RegisterStation, file_store.go:92-94) can
\* have nothing but the zero cursor.
VisibleIsDurable ==
    mode = "open" =>
        /\ state.readings = disk.readings
        /\ \A s \in DOMAIN state.cursors :
             state.cursors[s] = IF s \in DOMAIN disk.cursors
                                THEN disk.cursors[s]
                                ELSE 0
        /\ DOMAIN disk.cursors \subseteq DOMAIN state.cursors

Holds(snapshot, b) ==
    LET log == snapshot.readings[b.stationId]
    IN  \A i \in DOMAIN b.readings :
          /\ b.readings[i].sequence \in DOMAIN log
          /\ log[b.readings[i].sequence] = b.readings[i]

\* A batch record that says committed is never ahead of the log: its whole
\* batch can be read, in memory and in the file (CommitBatch writes record,
\* cursor and readings in one snapshot, file_store.go:196-206).
CommittedHeld(snapshot) ==
    \A bid \in BatchIds :
        Committed(snapshot, bid) => Holds(snapshot, snapshot.batches[bid].batch)

CommittedIsReadable == CommittedHeld(state) /\ CommittedHeld(disk)

\* No other batch that is ever sent has the identifier of this one.
Unique(b) == \A c \in Batches : c.id = b.id => c = b

\* Every batch the store has accepted, the first time or as a duplicate, is
\* in the file with all its readings, and stays there through crashes.  The
\* duplicate check looks at nothing but the identifier (file_store.go:184):
\* where two batches, of one station or of two, share one, it is the batch
\* that was applied under it that survives.
AcceptedSurvives ==
    \A b \in acked : \E c \in Batches : c.id = b.id /\ Holds(disk, c)

\* A batch is read in whole or not at all: every reading in the file belongs
\* to a batch that was accepted, so a commit that failed or was refused has
\* left nothing behind (file_store.go:191-211).
OnlyAcceptedIsReadable ==
    \A s \in StationIds : \A i \in DOMAIN disk.readings[s] :
      \E b \in acked : \E j \in DOMAIN b.readings :
        b.readings[j] = disk.readings[s][i]

\* An accepted batch whose identifier is its own is never applied a second
\* time, not even when its record was marked failed since (MarkBatchFailed,
\* file_store.go:227) and the duplicate check of a retry therefore finds
\* nothing: the sequence check has to stop it (file_store.go:188).
AcceptedOnce ==
    [][\A b \in acked, now \in Times :
         Unique(b) => ~CommitApplied(b, now)]_storeVars

\* A record is filed under the identifier of the batch it holds, which is
\* one that a client sent and that is valid, and starts no later than right
\* after its station's cursor: a record is made after the sequence check has
\* passed (file_store.go:188-193), and no write, restart or later mark takes
\* the cursor back.  So what Replay resubmits is what was received, and where
\* the store finds it out of sequence, its place has been taken.
RecordsFaithful(snapshot) ==
    \A bid \in DOMAIN snapshot.batches :
        LET b == snapshot.batches[bid].batch
        IN  /\ b \in Batches /\ b.id = bid /\ BatchValid(b)
            /\ b.stationId \in DOMAIN snapshot.cursors
            /\ FirstSequence(b) <= snapshot.cursors[b.stationId] + 1

\* A record in the file is never lost, nor is its batch exchanged for another
\* one: neither by later writes of snapshots from memory, which must have all
\* that the file has, nor by restarts and failed writes in between.  Recovery
\* forgets nothing that was written down once (file_store.go:192 and 217-236).
RecordsForGood ==
    [][\A bid \in DOMAIN disk.batches :
         LET b == disk.batches[bid].batch
         IN  /\ bid \in DOMAIN disk'.batches
             /\ Unique(b) => disk'.batches[bid].batch = b]_storeVars

\* The inductive invariant: every step of the store preserves it, and it
\* implies each invariant above.
StoreInv ==
    /\ TypeOK
    /\ CursorsAreReadable
    /\ CommittedIsReadable
    /\ RecordsFaithful(state) /\ RecordsFaithful(disk)
    /\ VisibleIsDurable
    /\ AcceptedSurvives

\* The store implements the ledger contract: a durable log per station that
\* grows by whole batches, served exactly while the store is open.
Ledger == INSTANCE StationLedger WITH
    Runs    <- {b.readings : b \in Batches},
    ledger  <- disk.readings,
    serving <- Ready,
    served  <- IF Ready THEN state.readings ELSE EmptyState.readings

LedgerSpec == Ledger!Spec

\* "The in-memory state is only replaced after the new snapshot has been
\* written and renamed successfully" (file_store.go:29-30).
MemoryFollowsFile ==
    [][Ready /\ Ready' /\ state' # state => disk' = state']_storeVars

=============================================================================
