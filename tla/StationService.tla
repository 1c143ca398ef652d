--------------------------- MODULE StationService ---------------------------
(***************************************************************************)
(* Package stations over the file store.  Pause, Resume, Retire and        *)
(* RecordFailure each read a station with one store call and write their   *)
(* changed copy back with another; handlers of other requests run between  *)
(* the two.  `held` maps an operator inside such a call to its copy.       *)
(*                                                                         *)
(* What ingestion and recovery do meanwhile is any of the steps they may   *)
(* take; module Ingest says which of them they take, and when.             *)
(* Left out: names, reasons and update times of stations.                  *)
(***************************************************************************)
EXTENDS FileStore

CONSTANT Operators    \* callers of the service that may run at the same time

VARIABLE held

serviceVars == <<state, disk, mode, fault, acked, held>>

Copy == [id : StationIds, station : Station]

ServiceInit == StoreInit /\ held = EmptyMap

-----------------------------------------------------------------------------
\* The first half of a call: GetStation found the station, and the operator
\* goes on with a changed copy of it.
Take(o, id, station) ==
    /\ held' = Put(held, o, [id |-> id, station |-> station])
    /\ UNCHANGED storeVars

Free(o) == o \notin DOMAIN held

\* Mutant of CanTransition: a retired station may be resumed.
CanTransitionAnywhere(from, to) == to \in Statuses

\* Nothing leads out of "retired"; everything else is allowed.
CanTransition(from, to) == from = to \/ (from # "retired" /\ to \in Statuses)

\* Pause, Resume and Retire.  A transition that is not allowed is a conflict
\* and ends the call.
ChangeStatus(o, id, to) ==
    /\ Ready /\ Free(o) /\ id \in DOMAIN state.stations
    /\ CanTransition(state.stations[id].status, to)
    /\ Take(o, id, [state.stations[id] EXCEPT !.status = to])

\* Mutant of RecordFailure: the counter runs backwards.
RecordFailureBackwards(o, id) ==
    /\ Ready /\ Free(o) /\ id \in DOMAIN state.stations
    /\ LET n == state.stations[id].failureCount - 1
       IN  Take(o, id, [state.stations[id] EXCEPT !.failureCount = n])

\* The third failure in a row pauses an active station.  MaxFailures bounds
\* the counter.
RecordFailure(o, id) ==
    /\ Ready /\ Free(o) /\ id \in DOMAIN state.stations
    /\ state.stations[id].failureCount < MaxFailures
    /\ LET n == state.stations[id].failureCount + 1
       IN  Take(o, id,
             [state.stations[id] EXCEPT
                !.failureCount = n,
                !.status = IF n >= 3 /\ @ = "active" THEN "paused" ELSE @])

Leave(o) == held' = [x \in DOMAIN held \ {o} |-> held[x]]

\* Mutant of WriteBack: the copy is written to a store closed meanwhile.
WriteBackClosed(o, ok) ==
    /\ o \in DOMAIN held
    /\ mode # "down"
    /\ state' = WithStation(state, held[o].id, held[o].station)
    /\ Persist(state', ok)
    /\ UNCHANGED <<mode, fault, acked>>
    /\ Leave(o)

\* The second half: the copy is written back as it is.
WriteBack(o, ok) ==
    /\ o \in DOMAIN held
    /\ SetStation(held[o].id, held[o].station, ok)
    /\ Leave(o)

\* SetStation refuses: the store was closed meanwhile, or the request's
\* context has expired.
GiveUp(o) ==
    /\ o \in DOMAIN held
    /\ Leave(o)
    /\ UNCHANGED storeVars

-----------------------------------------------------------------------------
Operate(o) ==
    \/ \E id \in StationIds, to \in Statuses : ChangeStatus(o, id, to)
    \/ \E id \in StationIds : RecordFailure(o, id)
    \/ \E ok \in BOOLEAN : WriteBack(o, ok)
    \/ GiveUp(o)

\* Registration, ingestion and recovery, which others perform meanwhile.
Meanwhile ==
    \/ \E id \in StationIds, ok \in BOOLEAN : RegisterStation(id, ok)
    \/ \E b \in Batches, now \in Times : CommitBatch(b, now)
    \/ \E bid \in BatchIds, now \in Times, ok \in BOOLEAN :
         MarkBatchFailed(bid, now, ok)
    \/ \E plan \in FaultPlans : SetFaultPlan(plan)
    \/ OpenFile
    \/ Close

ServiceNext ==
    \/ \E o \in Operators : Operate(o)
    \/ Meanwhile /\ UNCHANGED held
    \/ Crash /\ held' = EmptyMap

ServiceSpec == ServiceInit /\ [][ServiceNext]_serviceVars

-----------------------------------------------------------------------------
ServiceTypeOK == TypeOK /\ IsMap(held, Operators, Copy)

\* A written-back copy may set a station's sequence number back, but no copy,
\* in memory, in the file or in an operator's hands, ever claims more than
\* the cursor of its station: the lost update loses, it never invents.  And
\* it is all that CheckConsistency (maintenance.go:18-50) can ever report: a
\* cursor is never missing, and the last reading always agrees with it.
Lagging(s) == state.stations[s].lastSequence < state.cursors[s]

NeverAhead ==
    /\ \A snapshot \in {state, disk} : \A s \in DOMAIN snapshot.stations :
         snapshot.stations[s].lastSequence <= snapshot.cursors[s]
    /\ \A o \in DOMAIN held :
         held[o].station.lastSequence <= state.cursors[held[o].id]
    /\ Problems(state) = {s \in DOMAIN state.stations : Lagging(s)}

\* The inductive invariant: next to the store's own, every station record and
\* every copy in an operator's hands is one the store has shown, so that
\* writing it back is a step FileStore allows for.
Shown(snapshot, id, station) ==
    id \in DOMAIN snapshot.stations /\ station \in HeldCopies(snapshot, id)

ServiceInv ==
    /\ StoreInv
    /\ IsMap(held, Operators, Copy)
    /\ \A snapshot \in {state, disk} : \A s \in DOMAIN snapshot.stations :
         Shown(snapshot, s, snapshot.stations[s])
    /\ \A o \in DOMAIN held : Shown(state, held[o].id, held[o].station)
    /\ mode = "down" => held = EmptyMap

\* "retired station has no outgoing transition" (transition.go:13-14), as far
\* as it is true: a station retired in the file and in memory stays so,
\* through restarts and failed writes, unless some operator still holds a
\* copy it took before.
Retired(snapshot, s) ==
    s \in DOMAIN snapshot.stations /\ snapshot.stations[s].status = "retired"

OutdatedCopy(s) ==
    \E o \in DOMAIN held : /\ held[o].id = s
                           /\ held[o].station.status # "retired"

SettledRetired(s) == Retired(disk, s) /\ (mode = "down" \/ Retired(state, s))

RetiredForGood ==
    [][\A s \in StationIds :
         SettledRetired(s) /\ ~OutdatedCopy(s)
           => SettledRetired(s)' /\ ~OutdatedCopy(s)']_serviceVars

\* The service is a client the store allows for: every guarantee of FileStore
\* holds of the composition.
StoreIsRespected == StoreSpec

\* What CheckConsistency has not reported before, it reports because somebody
\* has just written back a copy older than the last commit of the station
\* (changeStatus and RecordFailure, stations/service.go:52-86): nothing else
\* that happens while the store is open makes a problem, no failed write
\* either.
OlderCopyWritten(s) ==
    \E o \in DOMAIN held :
        /\ held[o].id = s
        /\ held[o].station.lastSequence < state.cursors[s]
        /\ state' = WithStation(state, s, held[o].station)
        /\ o \notin DOMAIN held'

ProblemsHaveACause ==
    [][\A s \in StationIds :
         Ready /\ Ready' /\ s \notin Problems(state) /\ s \in Problems(state')
           => OlderCopyWritten(s)]_serviceVars

\* file_store_test.go:35 expects CheckConsistency to find no problem.
NoProblems == Ready => Problems(state) = {}

=============================================================================
