---------------------------- MODULE IngestProofs ----------------------------
(***************************************************************************)
(* What the validator's checks have to do with one another; and ingestion  *)
(* and recovery: for any number of replays working on overlapping lists,   *)
(* they respect the station service and the store, a replay's list stays   *)
(* known while it works, and a committed record stays committed unless a   *)
(* replay had listed it before.                                            *)
(***************************************************************************)
EXTENDS Ingest, StationServiceProofs, FiniteSetTheorems

-----------------------------------------------------------------------------
(* The validator.  How the three places that check a batch's sequences     *)
(* agree: the batch's own Validate (station.go:115-139), the policy's      *)
(* ValidateOrdered and its Window (sequence.go:16-50); and what Normalize  *)
(* does to a batch that has been through them before.                      *)

\* The sequences of a valid batch are one interval.
LEMMA ValidInterval ==
    ASSUME NEW b \in ReadingBatch, BatchValid(b)
    PROVE  Sequences(b.readings) = FirstSequence(b) .. LastSequence(b)
<1> DEFINE n == Len(b.readings)
           f == FirstSequence(b)
<1>1. /\ b.readings \in Seq(Reading) /\ n \in Nat \ {0} /\ f \in Nat \ {0}
      /\ LastSequence(b) = f + n - 1
      /\ \A i \in 1 .. n : b.readings[i].sequence = f + i - 1
  BY ValidBatch
<1>2. DOMAIN b.readings = 1 .. n
  BY <1>1, LenProperties
<1> HIDE DEF n, f
<1>3. Sequences(b.readings) \subseteq f .. f + n - 1
  BY <1>1, <1>2 DEF Sequences
<1>4. ASSUME NEW x \in f .. f + n - 1 PROVE x \in Sequences(b.readings)
  <2>1. x - f + 1 \in 1 .. n
    BY <1>1
  <2>2. b.readings[x - f + 1].sequence = x
    BY <1>1, <2>1
  <2> QED BY <1>2, <2>1, <2>2 DEF Sequences
<1> QED BY <1>1, <1>3, <1>4 DEF f

\* The policy never rejects what the batch's own check has passed: the second
\* check of Validator.Validate (validator.go:18-23) is redundant.
THEOREM OrderedIfValid ==
    ASSUME NEW b \in ReadingBatch, BatchValid(b)
    PROVE  ValidateOrdered(b.readings)
<1>1. /\ b.readings \in Seq(Reading) /\ Len(b.readings) \in Nat \ {0}
      /\ LastSequence(b) = FirstSequence(b) + Len(b.readings) - 1
      /\ b.readings[1].sequence = FirstSequence(b) + 1 - 1
      /\ FirstSequence(b) \in Nat
  BY ValidBatch
<1>2. 1 \in DOMAIN b.readings
  BY <1>1, LenProperties
<1>3. Sequences(b.readings) = FirstSequence(b) .. LastSequence(b)
  BY ValidInterval
<1> QED BY <1>1, <1>2, <1>3 DEF ValidateOrdered

\* The window of a valid batch is the batch's own range, and complete.
THEOREM WindowIfValid ==
    ASSUME NEW b \in ReadingBatch, BatchValid(b)
    PROVE  /\ Window(b.readings).first = FirstSequence(b)
           /\ Window(b.readings).last = LastSequence(b)
           /\ Complete(Window(b.readings))
<1> DEFINE f == FirstSequence(b)
           g == LastSequence(b)
           n == Len(b.readings)
<1>1. f \in Nat \ {0} /\ n \in Nat \ {0} /\ g = f + n - 1
  BY ValidBatch
<1>2. Sequences(b.readings) = f .. g
  BY ValidInterval
<1>3. b.readings # <<>>
  BY DEF BatchValid
<1> HIDE DEF f, g, n
<1>4. Min(f .. g) = f
  <2>1. f \in f .. g /\ \A y \in f .. g : f <= y
    BY <1>1
  <2>2. \A x \in f .. g : (\A y \in f .. g : x <= y) => x = f
    BY <1>1
  <2> QED BY <2>1, <2>2 DEF Min
<1>5. Max(f .. g) = g
  <2>1. g \in f .. g /\ \A y \in f .. g : g >= y
    BY <1>1
  <2>2. \A x \in f .. g : (\A y \in f .. g : x >= y) => x = g
    BY <1>1
  <2> QED BY <2>1, <2>2 DEF Max
<1>6. Window(b.readings) = [first |-> f, last |-> g, count |-> n]
  BY <1>2, <1>3, <1>4, <1>5 DEF Window, n
<1> QED BY <1>1, <1>6 DEF Complete, f, g

\* A batch that has passed Validate is left as it is by Normalize: when a
\* replay normalises a recorded batch in place (validator.go:42-45), while a
\* commit reads the same record to copy it, it writes what is there already.
THEOREM NormalizeKeepsValid ==
    ASSUME NEW b \in ReadingBatch, BatchValid(b)
    PROVE  Normalize(b) = b
<1>1. b.readings \in Seq(Reading)
  BY DEF ReadingBatch
<1> DEFINE rows == b.readings
           rows2 == [i \in DOMAIN rows |-> [rows[i] EXCEPT !.stationId = b.stationId]]
<1>2. ASSUME NEW i \in DOMAIN rows
      PROVE  [rows[i] EXCEPT !.stationId = b.stationId] = rows[i]
  <2>1. rows[i] \in Reading
    BY <1>1, LenProperties, ElementOfSeq
  <2>2. rows[i].stationId = b.stationId
    BY DEF BatchValid
  <2> QED BY <2>1, <2>2 DEF Reading
<1>3. rows2 = [i \in DOMAIN rows |-> rows[i]]
  BY <1>2
<1>4. rows = [i \in DOMAIN rows |-> rows[i]]
  BY <1>1
<1>5. Normalize(b) = [b EXCEPT !.readings = rows2]
  BY DEF Normalize
<1> HIDE DEF rows2
<1> QED BY <1>3, <1>4, <1>5 DEF ReadingBatch

-----------------------------------------------------------------------------
(* Replays.                                                                *)

\* The batch is valid, and the log has come at least to its start.
Placed(b) ==
    /\ BatchValid(b)
    /\ b.stationId \in DOMAIN state.cursors
    /\ FirstSequence(b) <= state.cursors[b.stationId] + 1

\* Every batch on a replay's list has a record, and a place in the log.
QueuedRecorded ==
    \A w \in DOMAIN jobs : \A b \in Queued(w) :
      b.id \in DOMAIN state.batches /\ Placed(b)

\* The inductive invariant: next to the service's own, the types of the job
\* table and of the clock, and what the lists refer to.
IngestInv ==
    /\ ServiceInv
    /\ clock \in Times
    /\ owed \subseteq Batches
    /\ IsMap(jobs, Replays, Job)
    /\ QueuedRecorded
    /\ mode = "down" => jobs = EmptyMap

-----------------------------------------------------------------------------
\* Receiving a batch is a call of CommitBatch, or no call at all.
LEMMA ReceiveCommits ==
    ASSUME NEW b, Receive(b)
    PROVE  CommitBatch(b, clock) \/ UNCHANGED storeVars
BY DEF Receive, Accept, FailToStore, Refuse, CommitBatch

\* What receiving leaves in `owed`.
LEMMA ReceiveOwed ==
    ASSUME NEW b \in Batches, Receive(b), owed \subseteq Batches
    PROVE  owed' \subseteq Batches
BY DEF Receive, Accept, FailToStore, Refuse

\* Clients and replays hand CommitBatch batches of its domain.
LEMMA Normalized ==
    ASSUME NEW b \in Uploads \cup Batches
    PROVE  Normalize(b) \in Batches
BY IngestAssumption

\* A replay that moves on, or ends, only shortens its own list.
LEMMA JobAdvances ==
    ASSUME IsMap(jobs, Replays, Job), NEW w \in DOMAIN jobs,
           NextBatch(w) \/ EndJob(w)
    PROVE  /\ IsMap(jobs', Replays, Job)
           /\ DOMAIN jobs' \subseteq DOMAIN jobs
           /\ \A x \in DOMAIN jobs' : Queued(x)' \subseteq Queued(x)
<1>1. CASE EndJob(w)
  BY <1>1 DEF EndJob, IsMap, Queued
<1>2. CASE Len(jobs[w].todo) # 1 /\ NextBatch(w)
  <2> DEFINE todo == jobs[w].todo
             job == [todo |-> Tail(todo), next |-> "receive"]
  <2>1. todo \in Seq(Batches) /\ todo # <<>> /\ w \in Replays
    BY DEF IsMap, Job
  <2>2. jobs' = Put(jobs, w, job)
    BY <1>2 DEF NextBatch
  <2>3. /\ Tail(todo) \in Seq(Batches) /\ Len(Tail(todo)) = Len(todo) - 1
        /\ \A i \in 1 .. Len(Tail(todo)) : Tail(todo)[i] = todo[i + 1]
    BY <2>1, HeadTailProperties
  <2>4. Len(todo) \in Nat /\ DOMAIN todo = 1 .. Len(todo)
        /\ Len(Tail(todo)) \in Nat /\ DOMAIN Tail(todo) = 1 .. Len(Tail(todo))
    BY <2>1, <2>3, LenProperties
  <2>5. Tail(todo) # <<>>
    <3>1. Len(Tail(todo)) # 0
      BY <1>2, <2>3, <2>4
    <3> QED BY <3>1, EmptySeq
  <2>6. \A i \in DOMAIN Tail(todo) : Tail(todo)[i] \in Queued(w)
    BY <2>3, <2>4 DEF Queued
  <2>7. job \in Job /\ job.todo = Tail(todo)
    BY <2>3, <2>5 DEF Job
  <2> HIDE DEF job, todo
  <2>8. IsMap(jobs', Replays, Job)
    BY <2>1, <2>2, <2>7, PutType
  <2>9. ASSUME NEW x \in DOMAIN jobs'
        PROVE  Queued(x)' \subseteq Queued(x)
    <3>1. CASE x = w
      <4> DEFINE rest == Tail(todo)
      <4>1. jobs'[x].todo = rest
        BY <2>2, <2>7, <3>1 DEF Put
      <4> HIDE DEF rest
      <4>2. Queued(x)' = {rest[i] : i \in DOMAIN rest}
        BY <4>1 DEF Queued
      <4>3. \A i \in DOMAIN rest : rest[i] \in Queued(x)
        BY <2>6, <3>1 DEF rest
      <4> QED BY <4>2, <4>3
    <3>2. CASE x # w
      BY <2>2, <3>2 DEF Put, Queued
    <3> QED BY <3>1, <3>2
  <2> QED BY <2>2, <2>8, <2>9 DEF Put
<1> QED BY <1>1, <1>2 DEF NextBatch
-----------------------------------------------------------------------------
\* Every step is a step of the station service, or none of its business.
LEMMA IngestStepIsServiceStep ==
    ASSUME clock \in Times, IsMap(jobs, Replays, Job), [IngestNext]_ingestVars
    PROVE  [ServiceNext]_serviceVars
<1>1. ASSUME NEW b \in Batches, Receive(b), held' = held
      PROVE  [ServiceNext]_serviceVars
  <2>1. CommitBatch(b, clock) \/ UNCHANGED storeVars
    BY <1>1, ReceiveCommits
  <2>2. CASE CommitBatch(b, clock)
    BY <1>1, <2>2 DEF ServiceNext, Meanwhile
  <2>3. CASE UNCHANGED storeVars
    BY <1>1, <2>3 DEF storeVars, serviceVars
  <2> QED BY <2>1, <2>2, <2>3
<1>2. ASSUME UNCHANGED storeVars, held' = held
      PROVE  [ServiceNext]_serviceVars
  BY <1>2 DEF storeVars, serviceVars
<1>3. ASSUME NEW b \in Uploads, Upload(b)
      PROVE  [ServiceNext]_serviceVars
  BY <1>1, <1>3, Normalized DEF Upload
<1>4. ASSUME NEW w \in Replays, StartReplay(w)
      PROVE  [ServiceNext]_serviceVars
  BY <1>2, <1>4 DEF StartReplay
<1>5. ASSUME NEW w \in Replays, NEW b \in Batches,
             ReplayAccept(w, b) \/ ReplayFail(w, b)
      PROVE  [ServiceNext]_serviceVars
  BY <1>1, <1>5 DEF ReplayAccept, ReplayFail, Receive
<1>6. ASSUME NEW w \in Replays, ReplayMark(w)
      PROVE  [ServiceNext]_serviceVars
  <2> DEFINE bid == Head(jobs[w].todo).id
  <2>1. bid \in BatchIds
    <3>1. jobs[w].todo \in Seq(Batches) /\ jobs[w].todo # <<>>
      BY <1>6 DEF ReplayMark, IsMap, Job
    <3>2. Head(jobs[w].todo) \in Batches
      BY <3>1, HeadTailProperties
    <3> QED BY <3>2, StoreAssumption DEF ReadingBatch
  <2>2. /\ held' = held
        /\ (\E ok \in BOOLEAN : MarkBatchFailed(bid, clock, ok))
             \/ UNCHANGED storeVars
    BY <1>6 DEF ReplayMark
  <2> HIDE DEF bid
  <2>3. CASE \E ok \in BOOLEAN : MarkBatchFailed(bid, clock, ok)
    BY <2>1, <2>2, <2>3 DEF ServiceNext, Meanwhile
  <2> QED BY <1>2, <2>2, <2>3
<1>7. ASSUME NEW w \in Requests, Expire(w)
      PROVE  [ServiceNext]_serviceVars
  BY <1>2, <1>7 DEF Expire
<1>8. CASE Tick
  BY <1>2, <1>8 DEF Tick
<1>9. CASE Others
  BY <1>9 DEF Others, Arm, ServiceNext, Meanwhile
<1>10. CASE Crash /\ held' = EmptyMap
  BY <1>10 DEF ServiceNext
<1>11. CASE UNCHANGED ingestVars
  BY <1>2, <1>11 DEF ingestVars, storeVars
<1> QED BY <1>3, <1>4, <1>5, <1>6, <1>7, <1>8, <1>9, <1>10, <1>11
        DEF IngestNext, Replay
-----------------------------------------------------------------------------
\* No replay is under way at first.
LEMMA IngestInitInv == IngestInit => IngestInv
<1> SUFFICES ASSUME IngestInit PROVE IngestInv
  OBVIOUS
<1>1. ServiceInv
  BY ServiceInitInv DEF IngestInit
<1>2. jobs = EmptyMap /\ owed = {} /\ clock \in Times
  BY DEF IngestInit
<1>3. QueuedRecorded
  BY <1>2 DEF QueuedRecorded, EmptyMap
<1> QED BY <1>1, <1>2, <1>3, EmptyMapType DEF IngestInv

\* What a new replay puts on its list is recorded, and recoverable.
LEMMA NewList ==
    ASSUME StoreInv, NEW w, StartReplay(w)
    PROVE  \E job \in Job :
             /\ jobs' = Put(jobs, w, job)
             /\ \A i \in DOMAIN job.todo :
                  /\ job.todo[i].id \in Recoverable(state)
                  /\ Placed(job.todo[i])
<1>1. SoundSnapshot(state)
  BY InvIsSoundness
<1>2. PICK list \in PendingBatches(state, Limit) :
        /\ list # <<>>
        /\ jobs' = Put(jobs, w,
             [todo |-> [i \in DOMAIN list |-> state.batches[list[i]].batch],
              next |-> "receive"])
  BY DEF StartReplay
<1>3. list \in Seq(Recoverable(state))
  BY <1>1, Listed, IngestAssumption DEF SoundSnapshot, IsDiskState
<1> DEFINE todo == [i \in DOMAIN list |-> state.batches[list[i]].batch]
           job == [todo |-> todo, next |-> "receive"]
<1>4. /\ Len(list) \in Nat /\ DOMAIN list = 1 .. Len(list)
      /\ \A i \in DOMAIN list : list[i] \in Recoverable(state)
  BY <1>3, LenProperties, ElementOfSeq
<1>5. \A i \in DOMAIN list : /\ state.batches[list[i]].batch \in Batches
                             /\ state.batches[list[i]].batch.id = list[i]
                             /\ Placed(state.batches[list[i]].batch)
  BY <1>1, <1>4 DEF SoundSnapshot, RecordsFaithful, Recoverable, Placed
<1>6. todo \in Seq(Batches)
  BY <1>4, <1>5, IsASeq
<1>7. todo # <<>>
  <2>1. Len(list) # 0
    BY <1>2, <1>3, EmptySeq
  <2>2. 1 \in DOMAIN todo
    BY <1>4, <2>1
  <2> QED BY <2>2
<1>8. job \in Job
  BY <1>6, <1>7 DEF Job
<1>9. \A i \in DOMAIN job.todo : /\ job.todo[i].id \in Recoverable(state)
                                 /\ Placed(job.todo[i])
  BY <1>4, <1>5
<1> QED BY <1>2, <1>8, <1>9

\* Steps after which every list is one of before, or a part of it.
LEMMA ListsKept ==
    ASSUME IngestInv, [StoreNext]_storeVars, mode # "down", mode' # "down",
           ServiceInv', clock' \in Times, owed' \subseteq Batches,
           IsMap(jobs', Replays, Job), DOMAIN jobs' \subseteq DOMAIN jobs,
           \A x \in DOMAIN jobs' : Queued(x)' \subseteq Queued(x)
    PROVE  IngestInv'
<1>1. DOMAIN state.batches \subseteq DOMAIN state'.batches
  BY RecordsKept, ServiceInvParts DEF IngestInv
<1>2. ASSUME NEW b \in Batches, Placed(b)
      PROVE  Placed(b)'
  <2>1. StoreInv /\ b.stationId \in DOMAIN state.cursors
    BY <1>2, ServiceInvParts DEF IngestInv, Placed
  <2>2. /\ b.stationId \in DOMAIN state'.cursors
        /\ state.cursors[b.stationId] \in Nat
        /\ state'.cursors[b.stationId] \in Nat
        /\ state.cursors[b.stationId] <= state'.cursors[b.stationId]
    BY <2>1, CursorsKept
  <2>3. FirstSequence(b) \in Nat
    BY <1>2, ValidBatch, StoreAssumption DEF Placed
  <2> QED BY <1>2, <2>2, <2>3 DEF Placed
<1>3. \A x \in DOMAIN jobs : \A b \in Queued(x) : b \in Batches
  <2>1. \A x \in DOMAIN jobs : jobs[x].todo \in Seq(Batches)
    BY DEF IngestInv, IsMap, Job
  <2> QED BY <2>1, ElementOfSeq DEF Queued
<1>4. QueuedRecorded'
  BY <1>1, <1>2, <1>3 DEF IngestInv, QueuedRecorded
<1> QED BY <1>4 DEF IngestInv

\* Every step preserves the invariant.
LEMMA IngestStepInv == IngestInv /\ [IngestNext]_ingestVars => IngestInv'
<1> SUFFICES ASSUME IngestInv, [IngestNext]_ingestVars
             PROVE  IngestInv'
  OBVIOUS
<1>1. /\ ServiceInv /\ clock \in Times /\ owed \subseteq Batches
      /\ IsMap(jobs, Replays, Job) /\ QueuedRecorded
      /\ mode = "down" => jobs = EmptyMap
  BY DEF IngestInv
<1>2. [ServiceNext]_serviceVars
  BY <1>1, IngestStepIsServiceStep
<1>3. ServiceInv' /\ [StoreNext]_storeVars /\ StoreInv
  BY <1>1, <1>2, ServiceStepInv, ServiceStepIsStoreStep, ServiceInvParts
<1>4. ASSUME mode # "down", mode' # "down", jobs' = jobs,
             clock' \in Times, owed' \subseteq Batches
      PROVE  IngestInv'
  <2>1. \A x \in DOMAIN jobs' : Queued(x)' \subseteq Queued(x)
    BY <1>4 DEF Queued
  <2> QED BY <1>1, <1>3, <1>4, <2>1, ListsKept
<1>5. ASSUME mode' = "down", jobs' = EmptyMap,
             clock' \in Times, owed' \subseteq Batches
      PROVE  IngestInv'
  BY <1>3, <1>5, EmptyMapType DEF IngestInv, QueuedRecorded, EmptyMap
<1>6. ASSUME NEW w \in DOMAIN jobs, NextBatch(w) \/ EndJob(w), mode' = mode,
             clock' = clock, owed' \subseteq Batches
      PROVE  IngestInv'
  <2>1. mode # "down"
    BY <1>1, <1>6 DEF EmptyMap
  <2> QED BY <1>1, <1>3, <1>6, <2>1, JobAdvances, ListsKept
<1>7. ASSUME NEW b, Receive(b)
      PROVE  mode' = mode
  BY <1>7 DEF Receive, Accept, FailToStore, Refuse, CommitDuplicate,
              CommitApplied, CommitUnwritten, CommitFaulted, storeVars
<1>8. ASSUME NEW b \in Uploads, Upload(b)
      PROVE  IngestInv'
  <2>1. Receive(Normalize(b)) /\ mode # "down" /\ jobs' = jobs /\ clock' = clock
    BY <1>8 DEF Upload
  <2>2. owed' \subseteq Batches
    BY <1>1, <2>1, Normalized, ReceiveOwed
  <2> QED BY <1>1, <1>4, <1>7, <2>1, <2>2
<1>9. ASSUME NEW w \in Replays, StartReplay(w)
      PROVE  IngestInv'
  <2>1. PICK job \in Job :
          /\ jobs' = Put(jobs, w, job)
          /\ \A i \in DOMAIN job.todo : /\ job.todo[i].id \in Recoverable(state)
                                       /\ Placed(job.todo[i])
    BY <1>3, <1>9, NewList
  <2>2. /\ Ready /\ state' = state /\ mode' = mode
        /\ clock' = clock /\ owed' = owed
    BY <1>9 DEF StartReplay, storeVars
  <2>3. IsMap(jobs', Replays, Job)
    BY <1>1, <2>1, PutType
  <2>4. ASSUME NEW x \in DOMAIN jobs', NEW b \in Queued(x)'
        PROVE  b.id \in DOMAIN state.batches /\ Placed(b)
    <3>1. CASE x = w
      BY <2>1, <2>4, <3>1 DEF Put, Queued, Recoverable
    <3>2. CASE x # w
      BY <1>1, <2>1, <2>4, <3>2 DEF Put, Queued, QueuedRecorded
    <3> QED BY <3>1, <3>2
  <2>5. QueuedRecorded'
    BY <2>2, <2>4 DEF QueuedRecorded, Placed
  <2> QED BY <1>1, <1>3, <2>2, <2>3, <2>5 DEF IngestInv, Ready
<1>10. ASSUME NEW w \in Replays, NEW b \in Batches, ReplayAccept(w, b)
       PROVE  IngestInv'
  <2>1. w \in DOMAIN jobs /\ Receive(b) /\ NextBatch(w) /\ clock' = clock
    BY <1>10 DEF ReplayAccept, Receiving, Receive
  <2> QED BY <1>1, <1>6, <1>7, <2>1, ReceiveOwed
<1>11. ASSUME NEW w \in Replays, NEW b \in Batches, ReplayFail(w, b)
       PROVE  IngestInv'
  <2>1. /\ w \in DOMAIN jobs /\ Receive(b) /\ clock' = clock
        /\ jobs' = [jobs EXCEPT ![w].next = "mark"]
    BY <1>11 DEF ReplayFail, Receiving, Receive
  <2>2. mode # "down" /\ mode' # "down" /\ owed' \subseteq Batches
    BY <1>1, <1>7, <2>1, ReceiveOwed DEF EmptyMap
  <2>3. /\ DOMAIN jobs' = DOMAIN jobs
        /\ \A x \in DOMAIN jobs : x # w => jobs'[x] = jobs[x]
        /\ jobs'[w] = [jobs[w] EXCEPT !.next = "mark"]
    BY <1>1, <2>1 DEF IsMap
  <2>4. jobs[w] \in Job /\ w \in Replays
    BY <1>1, <2>1 DEF IsMap
  <2>5. jobs'[w] \in Job /\ jobs'[w].todo = jobs[w].todo
    BY <2>3, <2>4 DEF Job
  <2>6. \A x \in DOMAIN jobs' : jobs'[x] \in Job /\ jobs'[x].todo = jobs[x].todo
    BY <1>1, <2>3, <2>5 DEF IsMap
  <2>7. IsMap(jobs', Replays, Job)
    BY <1>1, <2>1, <2>3, <2>6 DEF IsMap
  <2>8. \A x \in DOMAIN jobs' : Queued(x)' \subseteq Queued(x)
    BY <2>6 DEF Queued
  <2> QED BY <1>1, <1>3, <2>1, <2>2, <2>3, <2>7, <2>8, ListsKept
<1>12. ASSUME NEW w \in Replays, ReplayMark(w)
       PROVE  IngestInv'
  <2>1. w \in DOMAIN jobs /\ NextBatch(w) /\ clock' = clock /\ owed' = owed
    BY <1>12 DEF ReplayMark
  <2>2. mode' = mode
    BY <1>12 DEF ReplayMark, MarkBatchFailed, storeVars
  <2> QED BY <1>1, <1>6, <2>1, <2>2
<1>13. ASSUME NEW w \in Requests, Expire(w)
       PROVE  IngestInv'
  BY <1>1, <1>6, <1>13 DEF Expire, storeVars
<1>14. ASSUME UNCHANGED <<state, disk, mode, held, jobs, owed>>,
              clock' \in Times
       PROVE  IngestInv'
  BY <1>1, <1>3, <1>14 DEF IngestInv, QueuedRecorded, Queued, Placed
<1>15. CASE Tick
  BY <1>1, <1>14, <1>15 DEF Tick, storeVars
<1>16. CASE Others /\ UNCHANGED <<clock, jobs, owed>>
  <2>1. CASE mode = "down"
    <3>1. jobs' = EmptyMap
      BY <1>1, <1>16, <2>1
    <3> QED BY <1>1, <1>3, <1>16, <3>1, EmptyMapType
            DEF IngestInv, QueuedRecorded, EmptyMap
  <2>2. CASE mode # "down"
    <3>1. ASSUME NEW o \in Operators, Operate(o)
          PROVE  mode' = mode
      BY <3>1 DEF Operate, ChangeStatus, RecordFailure, Take, WriteBack,
                  SetStation, GiveUp, storeVars
    <3>2. mode' # "down"
      BY <1>16, <2>2, <3>1 DEF Others, RegisterStation, Arm, SetFaultPlan,
                               OpenFile, Close
    <3> QED BY <1>1, <1>4, <1>16, <2>2, <3>2
  <2> QED BY <2>1, <2>2
<1>17. CASE Crash /\ held' = EmptyMap /\ jobs' = EmptyMap
            /\ UNCHANGED <<clock, owed>>
  BY <1>1, <1>5, <1>17 DEF Crash
<1>18. CASE UNCHANGED ingestVars
  BY <1>1, <1>14, <1>18 DEF ingestVars
<1> QED BY <1>8, <1>9, <1>10, <1>11, <1>12, <1>13, <1>15, <1>16, <1>17, <1>18
        DEF IngestNext, Replay

-----------------------------------------------------------------------------
\* The invariant of the composition.
THEOREM IngestInvariance == IngestSpec => []IngestInv
BY IngestInitInv, IngestStepInv, PTL DEF IngestSpec

\* The type invariant of the composition.
THEOREM IngestTypeCorrect == IngestSpec => []IngestTypeOK
<1>1. IngestInv => IngestTypeOK
  BY DEF IngestInv, IngestTypeOK, ServiceInv, ServiceTypeOK, StoreInv
<1> QED BY <1>1, IngestInvariance, PTL

\* Uploads, replays and operators together only do what the station service
\* assumes of its surroundings; what is proved of it, and of the store, holds.
THEOREM IngestRespectsService == IngestSpec => ServiceIsRespected
<1>1. IngestInit => ServiceInit
  BY DEF IngestInit
<1>2. IngestInv /\ [IngestNext]_ingestVars => [ServiceNext]_serviceVars
  BY IngestStepIsServiceStep DEF IngestInv
<1> QED BY <1>1, <1>2, IngestInvariance, PTL
        DEF IngestSpec, ServiceIsRespected, ServiceSpec

\* A replay never works on a batch the store does not know, one that it
\* would change by normalising it, or one that comes too early.
THEOREM ReplaysKnowTheirBatches == IngestSpec => []QueuedAreKnown
<1>1. ASSUME IngestInv
      PROVE  QueuedAreKnown
  <2> SUFFICES ASSUME NEW w \in DOMAIN jobs, NEW b \in Queued(w)
               PROVE  /\ b.id \in DOMAIN state.batches
                      /\ state.batches[b.id].batch.id = b.id
                      /\ Unique(b) => state.batches[b.id].batch = b
                      /\ Normalize(b) = b
                      /\ b.stationId \in DOMAIN state.cursors
                      /\ FirstSequence(b) <= state.cursors[b.stationId] + 1
    BY DEF QueuedAreKnown
  <2>1. b \in Batches
    <3>1. jobs[w].todo \in Seq(Batches)
      BY <1>1 DEF IngestInv, IsMap, Job
    <3> QED BY <3>1, ElementOfSeq DEF Queued
  <2>2. b.id \in DOMAIN state.batches /\ Placed(b)
    BY <1>1 DEF IngestInv, QueuedRecorded
  <2>3. /\ state.batches[b.id].batch \in Batches
        /\ state.batches[b.id].batch.id = b.id
    BY <1>1, <2>2 DEF IngestInv, ServiceInv, StoreInv, RecordsFaithful
  <2>4. Normalize(b) = b
    BY <2>1, <2>2, NormalizeKeepsValid, StoreAssumption DEF Placed
  <2> QED BY <2>1, <2>2, <2>3, <2>4 DEF Unique, Placed
<1> QED BY <1>1, IngestInvariance, PTL


-----------------------------------------------------------------------------
\* The record is committed wherever it counts.
Kept(bid) == Committed(disk, bid) /\ (mode # "down" => Committed(state, bid))

\* The steps of the store that mark no failure on this record.
SparesRecord(bid) ==
    \/ OpenFile
    \/ Close
    \/ Crash
    \/ UNCHANGED storeVars
    \/ \E plan \in FaultPlans : SetFaultPlan(plan)
    \/ \E id \in StationIds, ok \in BOOLEAN : RegisterStation(id, ok)
    \/ \E id, station : \E ok \in BOOLEAN : SetStation(id, station, ok)
    \/ \E b \in Batches, now \in Times : CommitBatch(b, now)
    \/ \E other \in BatchIds \ {bid}, now \in Times, ok \in BOOLEAN :
         MarkBatchFailed(other, now, ok)

\* Such a step keeps the record committed.
LEMMA CommittedKept ==
    ASSUME StoreInv, NEW bid \in BatchIds, Kept(bid), SparesRecord(bid)
    PROVE  Kept(bid)'
<1>1. IsDiskState(state)
  BY InvIsSoundness DEF SoundSnapshot
<1>2. ASSUME Ready, mode' = mode, Committed(state', bid),
             disk' = state' \/ disk' = disk
      PROVE  Kept(bid)'
  BY <1>2 DEF Kept, Committed
<1>3. ASSUME NEW other, other # bid, NEW r, NEW ok \in BOOLEAN, Ready,
             mode' = mode, state' = WithRecord(state, other, r),
             Persist(state', ok)
      PROVE  Kept(bid)'
  <2>1. state'.batches = Put(state.batches, other, r)
    BY <1>1, <1>3, WithFields
  <2>2. Committed(state', bid)
    BY <1>3, <2>1 DEF Kept, Committed, Put, Ready
  <2> QED BY <1>2, <1>3, <2>2 DEF Persist
<1>4. ASSUME Ready, mode' = mode, state'.batches = state.batches,
             NEW ok \in BOOLEAN, Persist(state', ok)
      PROVE  Kept(bid)'
  <2>1. Committed(state', bid)
    BY <1>4 DEF Kept, Committed, Ready
  <2> QED BY <1>2, <1>4, <2>1 DEF Persist
<1>5. CASE OpenFile \/ Close \/ Crash \/ UNCHANGED storeVars
           \/ \E plan \in FaultPlans : SetFaultPlan(plan)
  BY <1>5 DEF OpenFile, Close, Crash, SetFaultPlan, storeVars, Kept, Committed
<1>6. ASSUME NEW id \in StationIds, NEW ok \in BOOLEAN,
             RegisterStation(id, ok)
      PROVE  Kept(bid)'
  <2>1. state'.batches = state.batches
    <3>1. WithStation(state, id, NewStation) =
            [stations |-> Put(state.stations, id, NewStation),
             cursors |-> state.cursors, batches |-> state.batches,
             readings |-> state.readings]
      BY <1>1, WithFields
    <3>2. state'.batches = WithStation(state, id, NewStation).batches
      BY <1>6, <3>1 DEF RegisterStation
    <3> QED BY <3>1, <3>2
  <2> QED BY <1>4, <1>6, <2>1 DEF RegisterStation
<1>7. ASSUME NEW id, NEW station, NEW ok \in BOOLEAN,
             SetStation(id, station, ok)
      PROVE  Kept(bid)'
  <2>1. state'.batches = state.batches
    BY <1>1, <1>7, WithFields DEF SetStation
  <2> QED BY <1>4, <1>7, <2>1 DEF SetStation
<1>8. ASSUME NEW b \in Batches, NEW now \in Times, CommitBatch(b, now)
      PROVE  Kept(bid)'
  <2>1. ASSUME NEW ok \in BOOLEAN, CommitFaulted(b, now, ok)
        PROVE  Kept(bid)'
    <3>1. b.id # bid
      BY <2>1 DEF CommitFaulted, Admissible, Duplicate, Kept, Ready
    <3> DEFINE r == Record(b, "failed", now)
    <3>2. /\ Ready /\ mode' = mode /\ state' = WithRecord(state, b.id, r)
          /\ Persist(state', ok)
      BY <2>1 DEF CommitFaulted, Admissible
    <3> HIDE DEF r
    <3> QED BY <1>3, <3>1, <3>2
  <2>2. CASE CommitApplied(b, now)
    <3>1. Ready /\ mode' = mode /\ state' = Applied(state, b, now)
          /\ disk' = state'
      BY <2>2 DEF CommitApplied, Admissible, Persist
    <3>2. state'.batches = Put(state.batches, b.id, Record(b, "committed", now))
      BY <3>1 DEF Applied
    <3>3. Committed(state', bid)
      BY <3>1, <3>2 DEF Kept, Committed, Put, Record, Ready
    <3> QED BY <1>2, <3>1, <3>3
  <2>3. CASE CommitDuplicate(b) \/ CommitUnwritten(b) \/ CommitRefused(b)
    BY <2>3 DEF CommitDuplicate, CommitUnwritten, CommitRefused, storeVars,
                Kept, Committed
  <2> QED BY <1>8, <2>1, <2>2, <2>3 DEF CommitBatch
<1>9. ASSUME NEW other \in BatchIds \ {bid}, NEW now \in Times,
             NEW ok \in BOOLEAN, MarkBatchFailed(other, now, ok)
      PROVE  Kept(bid)'
  <2>1. other # bid
    BY <1>9
  <2> DEFINE r == Record(state.batches[other].batch, "failed", now)
  <2>2. /\ Ready /\ mode' = mode /\ state' = WithRecord(state, other, r)
        /\ Persist(state', ok)
    BY <1>9 DEF MarkBatchFailed
  <2> HIDE DEF r
  <2> QED BY <1>3, <2>1, <2>2
<1> QED BY <1>5, <1>6, <1>7, <1>8, <1>9 DEF SparesRecord

\* No replay lists the batch.
Unlisted(bid) == \A w \in DOMAIN jobs : \A b \in Queued(w) : b.id # bid

\* Whoever marks a failure has the batch on a list.
LEMMA UnlistedIsSpared ==
    ASSUME clock \in Times, IsMap(jobs, Replays, Job), NEW bid \in BatchIds,
           Unlisted(bid), [IngestNext]_ingestVars
    PROVE  SparesRecord(bid)
<1>1. ASSUME NEW b \in Batches, Receive(b)
      PROVE  SparesRecord(bid)
  BY <1>1, ReceiveCommits DEF SparesRecord
<1>2. ASSUME UNCHANGED storeVars
      PROVE  SparesRecord(bid)
  BY <1>2 DEF SparesRecord
<1>3. ASSUME NEW b \in Uploads, Upload(b)
      PROVE  SparesRecord(bid)
  BY <1>1, <1>3, Normalized DEF Upload
<1>4. ASSUME NEW w \in Replays, StartReplay(w)
      PROVE  SparesRecord(bid)
  BY <1>2, <1>4 DEF StartReplay
<1>5. ASSUME NEW w \in Replays, NEW b \in Batches,
             ReplayAccept(w, b) \/ ReplayFail(w, b)
      PROVE  SparesRecord(bid)
  BY <1>1, <1>5 DEF ReplayAccept, ReplayFail, Receive
<1>6. ASSUME NEW w \in Replays, ReplayMark(w)
      PROVE  SparesRecord(bid)
  <2> DEFINE next == Head(jobs[w].todo)
  <2>1. w \in DOMAIN jobs /\ jobs[w].todo \in Seq(Batches) \ {<<>>}
    BY <1>6 DEF ReplayMark, IsMap, Job
  <2>2. next \in Batches /\ next = jobs[w].todo[1]
    BY <2>1, HeadTailProperties
  <2>3. 1 \in DOMAIN jobs[w].todo
    <3>1. Len(jobs[w].todo) \in Nat /\ Len(jobs[w].todo) # 0
          /\ DOMAIN jobs[w].todo = 1 .. Len(jobs[w].todo)
      BY <2>1, EmptySeq, LenProperties
    <3> QED BY <3>1
  <2>4. next \in Queued(w)
    BY <2>2, <2>3 DEF Queued
  <2>5. next.id \in BatchIds \ {bid}
    BY <2>1, <2>2, <2>4, StoreAssumption DEF Unlisted, ReadingBatch
  <2>6. (\E ok \in BOOLEAN : MarkBatchFailed(next.id, clock, ok))
           \/ UNCHANGED storeVars
    BY <1>6 DEF ReplayMark
  <2> HIDE DEF next
  <2> QED BY <1>2, <2>5, <2>6 DEF SparesRecord
<1>7. ASSUME NEW w \in Requests, Expire(w)
      PROVE  SparesRecord(bid)
  BY <1>2, <1>7 DEF Expire
<1>8. CASE Tick
  BY <1>2, <1>8 DEF Tick
<1>9. CASE Others
  <2>1. ASSUME NEW o \in Operators, Operate(o)
        PROVE  SparesRecord(bid)
    <3>1. CASE \E ok \in BOOLEAN : WriteBack(o, ok)
      BY <3>1 DEF WriteBack, SetStation, SparesRecord
    <3>2. CASE UNCHANGED storeVars
      BY <1>2, <3>2
    <3> QED BY <2>1, <3>1, <3>2
            DEF Operate, ChangeStatus, RecordFailure, Take, GiveUp
  <2> QED BY <1>9, <2>1 DEF Others, Arm, SparesRecord
<1>10. CASE Crash
  BY <1>10 DEF SparesRecord
<1>11. CASE UNCHANGED ingestVars
  BY <1>2, <1>11 DEF ingestVars, storeVars
<1> QED BY <1>3, <1>4, <1>5, <1>6, <1>7, <1>8, <1>9, <1>10, <1>11
        DEF IngestNext, Replay

\* A committed record comes on no list.
LEMMA UnlistedKept ==
    ASSUME IngestInv, [IngestNext]_ingestVars, NEW bid \in BatchIds,
           Kept(bid), Unlisted(bid)
    PROVE  Unlisted(bid)'
<1>1. StoreInv /\ IsMap(jobs, Replays, Job)
  BY ServiceInvParts DEF IngestInv
<1>2. ASSUME DOMAIN jobs' \subseteq DOMAIN jobs,
             \A x \in DOMAIN jobs' : Queued(x)' \subseteq Queued(x)
      PROVE  Unlisted(bid)'
  BY <1>2 DEF Unlisted
<1>3. ASSUME jobs' = jobs
      PROVE  Unlisted(bid)'
  BY <1>3 DEF Unlisted, Queued
<1>4. ASSUME NEW w \in Replays, StartReplay(w)
      PROVE  Unlisted(bid)'
  <2>1. PICK job \in Job :
          /\ jobs' = Put(jobs, w, job)
          /\ \A i \in DOMAIN job.todo : job.todo[i].id \in Recoverable(state)
    BY <1>1, <1>4, NewList
  <2>2. bid \notin Recoverable(state)
    BY <1>4 DEF StartReplay, Ready, Kept, Committed, Recoverable
  <2>3. ASSUME NEW x \in DOMAIN jobs', NEW b \in Queued(x)'
        PROVE  b.id # bid
    <3>1. CASE x = w
      BY <2>1, <2>2, <2>3, <3>1 DEF Put, Queued
    <3>2. CASE x # w
      BY <2>1, <2>3, <3>2 DEF Put, Queued, Unlisted
    <3> QED BY <3>1, <3>2
  <2> QED BY <2>3 DEF Unlisted
<1>5. ASSUME NEW w \in DOMAIN jobs, NextBatch(w) \/ EndJob(w)
      PROVE  Unlisted(bid)'
  BY <1>1, <1>2, <1>5, JobAdvances
<1>6. ASSUME NEW w \in Replays, NEW b \in Batches, ReplayFail(w, b)
      PROVE  Unlisted(bid)'
  <2>1. w \in DOMAIN jobs /\ jobs' = [jobs EXCEPT ![w].next = "mark"]
    BY <1>6 DEF ReplayFail, Receiving
  <2>2. jobs[w] \in Job
    BY <1>1, <2>1 DEF IsMap
  <2>3. [jobs[w] EXCEPT !.next = "mark"].todo = jobs[w].todo
    BY <2>2 DEF Job
  <2>4. DOMAIN jobs' = DOMAIN jobs
        /\ \A x \in DOMAIN jobs' : jobs'[x].todo = jobs[x].todo
    BY <1>1, <2>1, <2>3 DEF IsMap
  <2>5. \A x \in DOMAIN jobs' : Queued(x)' \subseteq Queued(x)
    BY <2>4 DEF Queued
  <2> QED BY <1>2, <2>4, <2>5
<1>7. ASSUME jobs' = EmptyMap
      PROVE  Unlisted(bid)'
  BY <1>7 DEF Unlisted, EmptyMap
<1>8. ASSUME NEW w \in Replays, Replay(w)
      PROVE  Unlisted(bid)'
  BY <1>4, <1>5, <1>6, <1>8 DEF Replay, ReplayAccept, ReplayMark, Receiving
<1>9. ASSUME NEW w \in Requests, Expire(w)
      PROVE  Unlisted(bid)'
  BY <1>5, <1>9 DEF Expire
<1>10. CASE (\E b \in Uploads : Upload(b)) \/ Tick \/ UNCHANGED jobs
  BY <1>3, <1>10 DEF Upload, Tick
<1> QED BY <1>7, <1>8, <1>9, <1>10 DEF IngestNext, ingestVars

\* A committed record that no replay lists stays committed, in memory and in
\* the file, whatever uploads, replays, operators, failed writes and restarts
\* follow: the hazard of Replay's late mark is confined to replays that had
\* listed the batch before it was committed.
THEOREM CommittedIsFinal == IngestSpec => CommittedForGood
<1>1. ASSUME IngestInv, [IngestNext]_ingestVars, NEW bid \in BatchIds,
             Settled(bid)
      PROVE  Settled(bid)'
  <2>1. Kept(bid) /\ Unlisted(bid)
    BY <1>1 DEF Settled, Kept, Unlisted
  <2>2. Unlisted(bid)'
    BY <1>1, <2>1, UnlistedKept
  <2>3. SparesRecord(bid)
    BY <1>1, <2>1, UnlistedIsSpared DEF IngestInv
  <2>4. Kept(bid)'
    <3>1. StoreInv
      BY <1>1, ServiceInvParts DEF IngestInv
    <3> QED BY <2>1, <2>3, <3>1, CommittedKept
  <2> QED BY <2>2, <2>4 DEF Settled, Kept, Unlisted
<1>2. IngestInv /\ [IngestNext]_ingestVars =>
        (\A bid \in BatchIds : Settled(bid) => Settled(bid)')
  BY <1>1
<1> QED BY <1>2, IngestInvariance, PTL DEF IngestSpec, CommittedForGood

-----------------------------------------------------------------------------
(* A process without a fault plan.                                         *)

\* Only commits are recorded, in memory and in the file alike.
AllCommitted(d) ==
    \A bid \in DOMAIN d.batches : d.batches[bid].state = "committed"

Faultless ==
    /\ fault = NoFault
    /\ jobs = EmptyMap
    /\ AllCommitted(disk)
    /\ mode # "down" => state.batches = disk.batches
    /\ mode = "down" => state = EmptyState
    /\ \A b \in acked : b.id \in DOMAIN disk.batches

\* Steps that leave the records alone.
LEMMA RecordsUntouched ==
    ASSUME Faultless, fault' = fault, jobs' = jobs, acked' = acked,
           mode' = mode, mode # "down",
           state'.batches = state.batches, disk' = state' \/ disk' = disk
    PROVE  Faultless'
BY DEF Faultless, AllCommitted

\* A batch that is received is recorded as committed, or not at all.
LEMMA FaultlessReceive ==
    ASSUME ServiceInv, Faultless, NEW b, Receive(b), mode # "down", jobs' = jobs
    PROVE  Faultless'
<1>1. CASE CommitApplied(b, clock)
  <2>1. /\ state' = Applied(state, b, clock) /\ disk' = state'
        /\ mode' = mode /\ fault' = fault /\ acked' = acked \cup {b}
    BY <1>1 DEF CommitApplied, Persist
  <2>2. state'.batches = Put(state.batches, b.id, Record(b, "committed", clock))
    BY <2>1 DEF Applied
  <2>3. Record(b, "committed", clock).state = "committed"
    BY DEF Record
  <2>4. AllCommitted(state')
    BY <2>2, <2>3 DEF Faultless, AllCommitted, Put
  <2>5. \A c \in acked' : c.id \in DOMAIN state'.batches
    BY <2>1, <2>2 DEF Faultless, Put
  <2> QED BY <2>1, <2>4, <2>5 DEF Faultless
<1>2. CASE CommitDuplicate(b)
  <2>1. b.id \in DOMAIN state.batches
    BY <1>2 DEF CommitDuplicate, Duplicate, Committed
  <2> QED BY <1>2, <2>1 DEF CommitDuplicate, Faultless, AllCommitted
<1>3. ~\E now, ok : CommitFaulted(b, now, ok)
  BY DEF CommitFaulted, FaultHits, Faultless, NoFault
<1>4. CASE UNCHANGED storeVars
  BY <1>4 DEF storeVars, Faultless, AllCommitted
<1> QED BY <1>1, <1>2, <1>3, <1>4
        DEF Receive, Accept, FailToStore, Refuse, CommitUnwritten, CommitRefused

\* With nothing recoverable no replay starts.
LEMMA NoReplayStarts ==
    ASSUME ServiceInv, Faultless, NEW w, StartReplay(w)
    PROVE  FALSE
<1>1. PICK job \in Job : \A i \in DOMAIN job.todo :
        job.todo[i].id \in Recoverable(state)
  BY NewList, ServiceInvParts
<1>2. Recoverable(state) = {}
  BY DEF StartReplay, Ready, Faultless, AllCommitted, Recoverable
<1>3. job.todo \in Seq(Batches) /\ job.todo # <<>>
  BY DEF Job
<1>4. 1 \in DOMAIN job.todo
  <2> DEFINE todo == job.todo
  <2>1. todo \in Seq(Batches) /\ todo # <<>>
    BY <1>3
  <2> HIDE DEF todo
  <2>2. Len(todo) # 0 /\ Len(todo) \in Nat /\ DOMAIN todo = 1 .. Len(todo)
    BY <2>1, EmptySeq, LenProperties
  <2>3. 1 \in DOMAIN todo
    BY <2>2
  <2> QED BY <2>3 DEF todo
<1> QED BY <1>1, <1>2, <1>4

LEMMA FaultlessStep ==
    ASSUME FaultPlans = {}, ServiceInv, Faultless, [IngestNext]_ingestVars
    PROVE  Faultless'
<1>1. IsDiskState(state)
  BY ServiceInvParts, InvIsSoundness DEF SoundSnapshot
<1>2. ASSUME NEW b \in Uploads, Upload(b)
      PROVE  Faultless'
  BY <1>2, FaultlessReceive DEF Upload
<1>3. ASSUME NEW w \in Replays, Replay(w)
      PROVE  FALSE
  BY <1>3, NoReplayStarts DEF Replay, ReplayAccept, ReplayFail, ReplayMark,
                              Receiving, Faultless, EmptyMap
<1>4. ASSUME NEW w \in Requests, Expire(w)
      PROVE  FALSE
  BY <1>4 DEF Expire, Faultless, EmptyMap
<1>5. CASE Tick
  BY <1>5 DEF Tick, storeVars, Faultless, AllCommitted
<1>6. ASSUME NEW o \in Operators, Operate(o), jobs' = jobs
      PROVE  Faultless'
  <2>1. CASE UNCHANGED storeVars
    BY <1>6, <2>1 DEF storeVars, Faultless, AllCommitted
  <2>2. ASSUME NEW ok \in BOOLEAN, WriteBack(o, ok)
        PROVE  Faultless'
    <3>1. /\ state' = WithStation(state, held[o].id, held[o].station)
          /\ mode' = mode /\ fault' = fault /\ acked' = acked
          /\ disk' = state' \/ disk' = disk
          /\ mode # "down"
      BY <2>2 DEF WriteBack, SetStation, Persist, Ready
    <3>2. state'.batches = state.batches
      BY <1>1, <3>1, WithFields
    <3> QED BY <1>6, <3>1, <3>2, RecordsUntouched
  <2> QED BY <1>6, <2>1, <2>2
          DEF Operate, ChangeStatus, RecordFailure, Take, GiveUp
<1>7. ASSUME NEW id \in StationIds, NEW ok \in BOOLEAN,
             RegisterStation(id, ok), jobs' = jobs
      PROVE  Faultless'
  <2>1. /\ state' = Registered(state, id)
        /\ mode' = mode /\ fault' = fault /\ acked' = acked
        /\ disk' = state' \/ disk' = disk
        /\ mode # "down"
    BY <1>7 DEF RegisterStation, Registered, Persist, Ready
  <2>2. state'.batches = state.batches
    BY <1>1, <2>1, WithFields DEF Registered
  <2> QED BY <1>7, <2>1, <2>2, RecordsUntouched
<1>8. ~Arm
  BY DEF Arm
<1>9. CASE OpenFile /\ jobs' = jobs
  BY <1>9 DEF OpenFile, Faultless, AllCommitted
<1>10. CASE Close /\ jobs' = jobs
  BY <1>10 DEF Close, Faultless, AllCommitted
<1>11. CASE Crash /\ jobs' = EmptyMap
  BY <1>11 DEF Crash, Faultless, AllCommitted
<1>12. CASE UNCHANGED ingestVars
  BY <1>12 DEF ingestVars, Faultless, AllCommitted
<1> QED BY <1>2, <1>3, <1>4, <1>5, <1>6, <1>7, <1>8, <1>9, <1>10, <1>11, <1>12
        DEF IngestNext, Others

\* In a process without a fault plan recovery never has anything to do
\* (ingest/service.go:67-81), and every retry of an accepted batch is
\* answered as a duplicate (file_store.go:184-187): what the violation runs
\* of ingestion show of retries takes the tests' hook.
THEOREM RecoveryIsIdle ==
    ASSUME FaultPlans = {}
    PROVE  IngestSpec => [](NothingToRecover /\ RetryIsIdempotent)
<1>1. IngestInit => Faultless
  BY DEF IngestInit, ServiceInit, StoreInit, Faultless, AllCommitted, EmptyState,
         EmptyMap
<1>2. IngestInv /\ Faultless /\ [IngestNext]_ingestVars => Faultless'
  BY FaultlessStep DEF IngestInv
<1>3. Faultless => NothingToRecover /\ RetryIsIdempotent
  <2> SUFFICES ASSUME Faultless PROVE NothingToRecover /\ RetryIsIdempotent
    OBVIOUS
  <2>1. AllCommitted(state) /\ AllCommitted(disk)
    BY DEF Faultless, AllCommitted, EmptyState, EmptyMap
  <2>2. NothingToRecover
    BY <2>1 DEF NothingToRecover, Faultless, Recoverable, AllCommitted
  <2>3. RetryIsIdempotent
    BY <2>1 DEF RetryIsIdempotent, Faultless, Admissible, Ready, Duplicate,
                Committed, AllCommitted
  <2> QED BY <2>2, <2>3
<1> QED BY <1>1, <1>2, <1>3, IngestInvariance, PTL DEF IngestSpec

-----------------------------------------------------------------------------
(* What is proved of the lower modules, stated of ingestion.               *)

\* Uploads and replays together implement the ledger contract.
THEOREM IngestionKeepsLedger == IngestSpec => LedgerSpec
BY IngestRespectsService, ServiceRespectsStore, Refinement, PTL
   DEF ServiceIsRespected, StoreIsRespected

\* However uploads and replays of one batch overlap, a batch with an
\* identifier of its own is applied once.
THEOREM IngestedOnce == IngestSpec => AcceptedOnce
BY IngestRespectsService, ServiceRespectsStore, AppliedAtMostOnce, PTL
   DEF ServiceIsRespected, StoreIsRespected

=============================================================================
