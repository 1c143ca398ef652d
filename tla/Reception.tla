------------------------------ MODULE Reception ------------------------------
(***************************************************************************)
(* Receive and its callers, call by call, with what it leaves in memory    *)
(* beside the store: journal, counters and alerts.  Module Ingest has the  *)
(* same Receive in one step, and without them.                             *)
(*                                                                         *)
(* A caller is the handler of an upload or a replay.  Receive writes to    *)
(* the journal, commits, counts and writes to the journal again, and the   *)
(* handler queues alerts; between any two of these the callers, the        *)
(* station service and the end of the process may come.  A caller's        *)
(* context may end at any time, and is looked at where a call starts.      *)
(* Left out: the clock, which may show any of Times.                       *)
(***************************************************************************)
EXTENDS StationService, Validation, AuditJournal, Metrics, AlertQueue

CONSTANTS Posters,       \* the handlers of uploads that may run at one time
          Replayers,     \* the replays that may run at one time
          Expiring,      \* the callers whose context may end early
          Posts,         \* the batches that clients post
          Limit,         \* the limit given to Replay
          DrainLimits,   \* the limits given to Drain
          MaxCalls       \* bound on the batches received by one process

VARIABLES calls,      \* the calls under way
          received,   \* how many batches this process has received
          inherited   \* history: the logs this process found in the file

memoryVars == <<entries, lastEntry, counts, events, lastEvent, drained>>
receptionVars == <<serviceVars, memoryVars, calls, received, inherited>>

Callers == Posters \cup Replayers

ASSUME ReceptionAssumption ==
    /\ Posters \cap Replayers = {}
    /\ \A b \in Posts \cup Batches : Normalize(b) \in Batches
    /\ IsFiniteSet(BatchIds)
    /\ Limit \in Int /\ DrainLimits \subseteq Int /\ MaxCalls \in Nat

Steps == {"receive", "commit", "count", "log", "finish"}

Call == [todo : Seq(Batches) \ {<<>>}, next : Steps, live : BOOLEAN,
         result : Results, cursor : Nat]

MemoryInit == JournalInit /\ counts = NoCounts /\ QueueInit

ReceptionInit ==
    /\ ServiceInit
    /\ MemoryInit
    /\ calls = EmptyMap
    /\ received = 0
    /\ inherited = disk.readings

-----------------------------------------------------------------------------
(* The start and the end of a call. *)

Becomes(c, call) == calls' = [calls EXCEPT ![c] = call]

Start(c, todo) ==
    /\ c \notin DOMAIN calls
    /\ mode # "down"
    /\ received + Len(todo) <= MaxCalls
    /\ received' = received + Len(todo)
    /\ calls' = Put(calls, c, [todo |-> todo, next |-> "receive", live |-> TRUE,
                               result |-> "failed", cursor |-> 0])
    /\ UNCHANGED <<serviceVars, memoryVars, inherited>>

\* POST /v1/stations/{id}/batches.
Post(c, b) == Start(c, <<Normalize(b)>>)

\* The list is read: a replay with nothing to do ends at once.
StartReplay(c) ==
    /\ Ready
    /\ \E list \in PendingBatches(state, Limit) :
         /\ list # <<>>
         /\ Start(c, [i \in DOMAIN list |->
                        Normalize(state.batches[list[i]].batch)])

\* A time limit, or a client that went away.
Expire(c) ==
    /\ c \in DOMAIN calls
    /\ calls[c].live
    /\ Becomes(c, [calls[c] EXCEPT !.live = FALSE])
    /\ UNCHANGED <<serviceVars, memoryVars, received, inherited>>

Leaving(c) == calls' = [x \in DOMAIN calls \ {c} |-> calls[x]]

\* Mutant of Proceed: the end of the list is overlooked.
ProceedAlways(c) ==
    Becomes(c, [calls[c] EXCEPT !.todo = Tail(@), !.next = "receive",
                                !.result = "failed", !.cursor = 0])

\* On to the next batch of the list.
Proceed(c) ==
    IF Len(calls[c].todo) = 1
    THEN Leaving(c)
    ELSE Becomes(c, [calls[c] EXCEPT !.todo = Tail(@), !.next = "receive",
                                     !.result = "failed", !.cursor = 0])

-----------------------------------------------------------------------------
(* Receive. *)

At(c, step) == c \in DOMAIN calls /\ calls[c].next = step

Current(c) == Head(calls[c].todo)

\* Mutant of LogReceived: what is replayed is not reported again.
LogReceivedUploads(c) ==
    /\ At(c, "receive")
    /\ IF c \in Posters
       THEN AppendEntry("batch_received", Current(c).id, 0, calls[c].live)
       ELSE UNCHANGED journalVars
    /\ Becomes(c, [calls[c] EXCEPT !.next = "commit"])
    /\ UNCHANGED <<serviceVars, counts, queueVars, received, inherited>>

LogReceived(c) ==
    /\ At(c, "receive")
    /\ AppendEntry("batch_received", Current(c).id, 0, calls[c].live)
    /\ Becomes(c, [calls[c] EXCEPT !.next = "commit"])
    /\ UNCHANGED <<serviceVars, counts, queueVars, received, inherited>>

\* Mutant of Refused: a refusal is taken for a success.
RefusedUnseen(c, b, now) ==
    /\ \/ ~calls[c].live \/ ~Validate(b, now)
       \/ CommitRefused(b) \/ CommitUnwritten(b)
    /\ UNCHANGED storeVars
    /\ Becomes(c, [calls[c] EXCEPT !.next = "count", !.result = "accepted"])

\* The validator or the store refuses, or the context has ended.
Refused(c, b, now) ==
    /\ \/ ~calls[c].live \/ ~Validate(b, now)
       \/ CommitRefused(b) \/ CommitUnwritten(b)
    /\ UNCHANGED storeVars
    /\ Becomes(c, [calls[c] EXCEPT !.next = "count", !.result = "failed"])

Stored(c, b, now) ==
    /\ calls[c].live /\ Validate(b, now)
    /\ \/ \E ok \in BOOLEAN : CommitFaulted(b, now, ok)
          /\ Becomes(c, [calls[c] EXCEPT !.next = "count", !.result = "failed"])
       \/ CommitApplied(b, now)
          /\ Becomes(c, [calls[c] EXCEPT !.next = "count", !.result = "accepted",
                                         !.cursor = state'.cursors[b.stationId]])
       \/ CommitDuplicate(b)
          /\ Becomes(c, [calls[c] EXCEPT !.next = "count", !.result = "duplicate",
                                         !.cursor = state.cursors[b.stationId]])

Commit(c) ==
    /\ At(c, "commit")
    /\ \E now \in Times : \/ Refused(c, Current(c), now)
                          \/ Stored(c, Current(c), now)
    /\ UNCHANGED <<held, memoryVars, received, inherited>>

Count(c) ==
    /\ At(c, "count")
    /\ RecordOutcome(calls[c].result)
    /\ Becomes(c, [calls[c] EXCEPT !.next = IF calls[c].result = "failed"
                                               THEN "finish" ELSE "log"])
    /\ UNCHANGED <<serviceVars, journalVars, queueVars, received, inherited>>

LogCommitted(c) ==
    /\ At(c, "log")
    /\ AppendEntry("batch_committed", Current(c).id, calls[c].cursor, calls[c].live)
    /\ Becomes(c, [calls[c] EXCEPT !.next = "finish"])
    /\ UNCHANGED <<serviceVars, counts, queueVars, received, inherited>>

-----------------------------------------------------------------------------
(* What the callers do with the outcome. *)

\* Mutant of Answer: alerts are queued before the outcome is looked at.
AnswerAlarmed(c) ==
    /\ c \in Posters
    /\ At(c, "finish")
    /\ Enqueue(Current(c).stationId, Current(c).readings, calls[c].live)
    /\ Leaving(c)
    /\ UNCHANGED <<serviceVars, journalVars, counts, received, inherited>>

\* The handler of an upload queues the alerts of what was accepted, for the
\* first time or as a duplicate, and answers.
Answer(c) ==
    /\ c \in Posters
    /\ At(c, "finish")
    /\ IF calls[c].result = "failed"
       THEN UNCHANGED queueVars
       ELSE Enqueue(Current(c).stationId, Current(c).readings, calls[c].live)
    /\ Leaving(c)
    /\ UNCHANGED <<serviceVars, journalVars, counts, received, inherited>>

\* Mutant of Mark: a store that was closed meanwhile is written to.
MarkClosed(c) ==
    LET bid == Current(c).id
    IN  /\ IF bid \in DOMAIN state.batches
           THEN /\ state' = WithRecord(state, bid,
                                Record(state.batches[bid].batch, "failed", Max(Times)))
                /\ Persist(state', TRUE)
           ELSE UNCHANGED <<state, disk>>
        /\ UNCHANGED <<mode, fault, acked>>

\* A replay marks the record of a batch that failed, if it still can.
Mark(c) ==
    LET bid == Current(c).id
    IN  \/ /\ calls[c].live
           /\ \E now \in Times, ok \in BOOLEAN : MarkBatchFailed(bid, now, ok)
        \/ /\ ~(calls[c].live /\ Ready /\ bid \in DOMAIN state.batches)
           /\ UNCHANGED storeVars

FinishReplay(c) ==
    /\ c \in Replayers
    /\ At(c, "finish")
    /\ IF calls[c].result = "failed" THEN Mark(c) ELSE UNCHANGED storeVars
    /\ Proceed(c)
    /\ UNCHANGED <<held, memoryVars, received, inherited>>

-----------------------------------------------------------------------------
\* SetFaultPlan is a hook for tests: at most one plan in an opened store.
Arm == fault = NoFault /\ \E plan \in FaultPlans : SetFaultPlan(plan)

\* The station service, and the opening and closing of the store.
Others ==
    \/ \E o \in Operators : Operate(o)
    \/ /\ \/ \E id \in StationIds, ok \in BOOLEAN : RegisterStation(id, ok)
          \/ Arm
          \/ Close
       /\ UNCHANGED held

\* A new process starts with nothing but the file.
Restart ==
    /\ OpenFile
    /\ inherited' = disk.readings
    /\ UNCHANGED <<held, memoryVars, calls, received>>

Die ==
    /\ Crash
    /\ held' = EmptyMap
    /\ calls' = EmptyMap /\ received' = 0
    /\ entries' = <<>> /\ lastEntry' = 0
    /\ counts' = NoCounts
    /\ events' = <<>> /\ lastEvent' = 0 /\ drained' = <<>>
    /\ UNCHANGED inherited

ReceptionNext ==
    \/ \E c \in Posters : (\E b \in Posts : Post(c, b)) \/ Answer(c)
    \/ \E c \in Replayers : StartReplay(c) \/ FinishReplay(c)
    \/ \E c \in Callers : \/ LogReceived(c) \/ Commit(c)
                          \/ Count(c) \/ LogCommitted(c)
    \/ \E c \in Expiring : Expire(c)
    \/ /\ \E limit \in DrainLimits : events # <<>> /\ Drain(limit)
       /\ UNCHANGED <<serviceVars, journalVars, counts, calls, received, inherited>>
    \/ Others /\ UNCHANGED <<memoryVars, calls, received, inherited>>
    \/ Restart
    \/ Die

ReceptionSpec == ReceptionInit /\ [][ReceptionNext]_receptionVars

-----------------------------------------------------------------------------
ReceptionTypeOK ==
    /\ ServiceTypeOK
    /\ IsMap(calls, Callers, Call)
    /\ lastEntry \in Nat
    /\ counts \in [DOMAIN NoCounts -> Nat]
    /\ received \in 0 .. MaxCalls
    /\ inherited \in [StationIds -> Seq(Reading)]

\* The counters of a process tell how the file has grown since it started:
\* what it has counted as accepted, and is about to, is the number of batches
\* that can be read and could not be before (Receive, ingest/service.go:47-57),
\* however many were refused, failed to be written, or were sent again.
\* This is so of batches that are ReadingsApart: a reading that two batches
\* have in common would make the second readable when the first is accepted.
Counting == {c \in DOMAIN calls : At(c, "count") /\ calls[c].result = "accepted"}

ReadingsApart == \A b, c \in Batches :
    b # c => Range(b.readings) \cap Range(c.readings) = {}

InLog(logs, b) == \A i \in DOMAIN b.readings :
    \E j \in DOMAIN logs[b.stationId] : logs[b.stationId][j] = b.readings[i]

CountersTellGrowth ==
    mode # "down" =>
        counts.accepted + Cardinality(Counting)
          = Cardinality({b \in Batches : InLog(disk.readings, b) /\ ~InLog(inherited, b)})

\* Nothing between the newest entry and the oldest that fits is missing, and
\* a reader is given the newest of them, in their order (journal.go:38-57).
JournalKeepsNewest ==
    /\ Len(entries) = IF lastEntry < Capacity THEN lastEntry ELSE Capacity
    /\ \A limit \in 1 .. Len(entries) :
         LET seen == Recent(limit)
         IN  /\ Len(seen) = limit
             /\ \A i \in 1 .. limit : seen[i].id = lastEntry - limit + i

\* Who reads in the journal that a batch was committed, and up to where its
\* station's log then went, finds it so in the file: entry and commit are two
\* calls (ingest/service.go:47 and 58) and others come between, but none that
\* could take it back.
JournalTellsTruth ==
    \A i \in DOMAIN entries : entries[i].kind = "batch_committed" =>
        \E b \in Batches :
            /\ b.id = entries[i].entity
            /\ Holds(disk, b)
            /\ Unique(b) => /\ LastSequence(b) <= entries[i].cursor
                            /\ entries[i].cursor <= Len(disk.readings[b.stationId])

\* What a caller has been told by CommitBatch holds until it answers, whatever
\* other callers, a failing file and a store that is closed do meanwhile: its
\* own batch is in the file, and the cursor it was given covers it and can be
\* read.  The one way out is a duplicate whose identifier another batch has
\* too: that one is there, and this one dropped (file_store.go:184-186).
TellsTruth(call, snapshot) ==
    LET b == Head(call.todo)
    IN  call.result # "failed" =>
          /\ call.cursor <= Len(snapshot.readings[b.stationId])
          /\ \/ Holds(snapshot, b) /\ LastSequence(b) <= call.cursor
             \/ call.result = "duplicate" /\ ~Unique(b)

AnswersAreKept == \A c \in DOMAIN calls : TellsTruth(calls[c], disk)

\* While the journal is not full, no batch is reported committed more often
\* than it was reported received before: a context that has ended by the
\* first entry has ended by the second (ingest/service.go:39 and 58).
Reported(upTo, kind, bid) ==
    Cardinality({j \in 1 .. upTo : entries[j].kind = kind /\ entries[j].entity = bid})

CommitsWereReceived ==
    lastEntry <= Capacity =>
        \A i \in DOMAIN entries : \A bid \in BatchIds :
            Reported(i, "batch_committed", bid) <= Reported(i, "batch_received", bid)

\* An alert is only raised for what was accepted: its reading, or, where the
\* identifier of its batch had been taken by another batch, that one, is in
\* the file, now and after a restart (server.go:140-146, file_store.go:184).
Raised == drained \o events

AlertsAreReadable ==
    \A i \in DOMAIN Raised : \E b, c \in Batches :
        /\ b.stationId = Raised[i].stationId
        /\ \E r \in Range(b.readings) : /\ r.sequence = Raised[i].sequence
                                       /\ Classify(r) = Raised[i].severity
        /\ c.id = b.id
        /\ Holds(disk, c)

\* Every event reaches the consumer of the queue once and in order: the
\* events drained and those waiting are numbered 1, 2, ... (queue.go:34-59).
EventsOnce ==
    /\ Len(Raised) = lastEvent
    /\ \A i \in DOMAIN Raised : Raised[i].id = i

\* The queue grows by no more than the answers given: a reading is alerted at
\* most once for each time its process counted a success (server.go:140-146).
AlertsPerAnswer ==
    \A b \in Batches : \A r \in Range(b.readings) :
        Cardinality({i \in DOMAIN Raised : /\ Raised[i].stationId = b.stationId
                                           /\ Raised[i].sequence = r.sequence})
          <= counts.accepted + counts.duplicates

\* Receive in steps, with contexts that end between them, still does to store
\* and stations only what StationService allows for: the guarantees proved of
\* it and of FileStore hold here too.
ReceptionIsService == ServiceSpec

\* "A station batch moves through validation, durable persistence, cursor
\* advancement, alert evaluation, and operator query" (project_design.md:3):
\* when no call is under way, what this process has added to the logs has had
\* its alarms raised.
AlarmsAreRaised ==
    calls = EmptyMap =>
        \A s \in StationIds : \A i \in DOMAIN state.readings[s] :
            i > Len(inherited[s]) /\ Classify(state.readings[s][i]) # "" =>
                \E e \in Range(Raised) : e.stationId = s /\ e.sequence = i

=============================================================================
