-------------------------- MODULE ReceptionProofs --------------------------
(***************************************************************************)
(* Receive call by call does to the store only what StationService allows  *)
(* for, and what the journal says is true, for any number of callers, any  *)
(* batches and a journal of any size.                                      *)
(*                                                                         *)
(* A commit that is reported is one of a batch that the file holds; the    *)
(* logs in the file only grow, so it stays true while the caller is on its *)
(* way to the journal, and as long as the entry is there.                  *)
(***************************************************************************)
EXTENDS Reception, StationServiceProofs

Entry == [id : Nat, kind : {"batch_received", "batch_committed"},
          entity : BatchIds, cursor : Nat]

\* The journal holds the newest entries, in their order.
JournalNumbered ==
    /\ lastEntry \in Nat
    /\ entries \in Seq(Entry)
    /\ Len(entries) = IF lastEntry < Capacity THEN lastEntry ELSE Capacity
    /\ \A i \in DOMAIN entries : entries[i].id = lastEntry - Len(entries) + i

\* What a report of a commit says of a snapshot.
TrueOf(snapshot, bid, cursor) ==
    \E b \in Batches :
        /\ b.id = bid
        /\ Holds(snapshot, b)
        /\ Unique(b) => /\ LastSequence(b) <= cursor
                        /\ cursor <= Len(snapshot.readings[b.stationId])

\* A call that has a success to report.
Reports(call) ==
    \/ call.next = "count" /\ call.result # "failed"
    \/ call.next = "log"

TrueEntries ==
    \A i \in DOMAIN entries :
        entries[i].kind = "batch_committed" =>
            TrueOf(disk, entries[i].entity, entries[i].cursor)

TrueCalls ==
    \A c \in DOMAIN calls :
        Reports(calls[c]) => TrueOf(disk, Current(c).id, calls[c].cursor)

MemorySound ==
    /\ IsMap(calls, Callers, Call)
    /\ counts \in [DOMAIN NoCounts -> Nat]
    /\ received \in 0 .. MaxCalls
    /\ inherited \in [StationIds -> Seq(Reading)]
    /\ JournalNumbered
    /\ TrueEntries
    /\ TrueCalls

\* The inductive invariant.
ReceptionInv == ServiceInv /\ MemorySound

-----------------------------------------------------------------------------
(* The table of calls. *)

\* A call changes into another.
LEMMA CallBecomes ==
    ASSUME IsMap(calls, Callers, Call), NEW c \in DOMAIN calls,
           NEW w \in Call, Becomes(c, w)
    PROVE  /\ IsMap(calls', Callers, Call)
           /\ DOMAIN calls' = DOMAIN calls
           /\ calls'[c] = w
           /\ \A x \in DOMAIN calls \ {c} : calls'[x] = calls[x]
BY DEF Becomes, IsMap

\* A call ends.
LEMMA CallLeaves ==
    ASSUME IsMap(calls, Callers, Call), NEW c, Leaving(c)
    PROVE  /\ IsMap(calls', Callers, Call)
           /\ \A x \in DOMAIN calls' : x \in DOMAIN calls /\ calls'[x] = calls[x]
BY DEF Leaving, IsMap

\* What a call under way is about.
LEMMA CallFields ==
    ASSUME IsMap(calls, Callers, Call), NEW c \in DOMAIN calls
    PROVE  /\ calls[c] \in Call
           /\ calls[c].todo \in Seq(Batches) /\ calls[c].todo # <<>>
           /\ Current(c) \in Batches /\ Current(c).id \in BatchIds
           /\ calls[c].result \in Results /\ calls[c].cursor \in Nat
<1>1. calls[c] \in Call
  BY DEF IsMap
<1>2. calls[c].todo \in Seq(Batches) /\ calls[c].todo # <<>>
  BY <1>1 DEF Call
<1>3. Current(c) \in Batches
  BY <1>2, HeadTailProperties DEF Current
<1>4. Current(c).id \in BatchIds
  BY <1>3, StoreAssumption DEF ReadingBatch
<1>5. calls[c].result \in Results /\ calls[c].cursor \in Nat
  BY <1>1 DEF Call
<1> QED
  BY <1>1, <1>2, <1>3, <1>4, <1>5

-----------------------------------------------------------------------------
(* The service. *)

\* Every step is one of the station service, or none of its business.
LEMMA ReceptionStepIsServiceStep ==
    ASSUME IsMap(calls, Callers, Call), [ReceptionNext]_receptionVars
    PROVE  [ServiceNext]_serviceVars
<1>1. ASSUME UNCHANGED storeVars, held' = held
      PROVE  [ServiceNext]_serviceVars
  BY <1>1 DEF storeVars, serviceVars
<1>2. ASSUME NEW c \in Callers, Commit(c)
      PROVE  [ServiceNext]_serviceVars
  <2> DEFINE b == Current(c)
  <2>1. b \in Batches
    BY <1>2, CallFields DEF Commit, At
  <2>2. PICK now \in Times : Refused(c, b, now) \/ Stored(c, b, now)
    BY <1>2 DEF Commit
  <2>3. held' = held
    BY <1>2 DEF Commit
  <2> HIDE DEF b
  <2>4. CASE Refused(c, b, now)
    BY <1>1, <2>3, <2>4 DEF Refused
  <2>5. CASE Stored(c, b, now)
    <3>1. CommitBatch(b, now)
      BY <2>5 DEF Stored, CommitBatch
    <3> QED
      BY <2>1, <2>3, <3>1 DEF ServiceNext, Meanwhile
  <2> QED
    BY <2>2, <2>4, <2>5
<1>3. ASSUME NEW c \in Replayers, FinishReplay(c)
      PROVE  [ServiceNext]_serviceVars
  <2> DEFINE bid == Current(c).id
  <2>1. bid \in BatchIds
    BY <1>3, CallFields DEF FinishReplay, At
  <2>2. held' = held
    BY <1>3 DEF FinishReplay
  <2>3. \/ \E now \in Times, ok \in BOOLEAN : MarkBatchFailed(bid, now, ok)
        \/ UNCHANGED storeVars
    BY <1>3 DEF FinishReplay, Mark
  <2> HIDE DEF bid
  <2>4. CASE \E now \in Times, ok \in BOOLEAN : MarkBatchFailed(bid, now, ok)
    BY <2>1, <2>2, <2>4 DEF ServiceNext, Meanwhile
  <2> QED
    BY <1>1, <2>2, <2>3, <2>4
<1>4. ASSUME NEW c \in Callers,
             \/ LogReceived(c) \/ Count(c) \/ LogCommitted(c) \/ Answer(c)
             \/ \E b \in Posts : Post(c, b)
             \/ StartReplay(c) \/ Expire(c)
      PROVE  [ServiceNext]_serviceVars
  BY <1>4 DEF LogReceived, Count, LogCommitted, Answer, Post, Start, StartReplay,
              Expire, serviceVars
<1>5. CASE UNCHANGED serviceVars
  BY <1>5
<1>6. CASE Others
  BY <1>6 DEF Others, Arm, ServiceNext, Meanwhile
<1>7. CASE Restart
  BY <1>7 DEF Restart, ServiceNext, Meanwhile
<1>8. CASE Die
  BY <1>8 DEF Die, ServiceNext
<1>9. CASE UNCHANGED receptionVars
  BY <1>9 DEF receptionVars, serviceVars
<1>10. ASSUME NEW c \in Expiring, Expire(c)
       PROVE  [ServiceNext]_serviceVars
  BY <1>10 DEF Expire, serviceVars
<1> QED
  BY <1>2, <1>3, <1>4, <1>5, <1>6, <1>7, <1>8, <1>9, <1>10
     DEF ReceptionNext, Callers

-----------------------------------------------------------------------------
(* The journal. *)

LEMMA CapacityType == Capacity \in Nat \ {0}
BY JournalAssumption DEF Capacity

\* An entry goes to the end, and what the journal held before moves down, its
\* oldest entry perhaps out of it.
LEMMA Appended ==
    ASSUME JournalNumbered, NEW kind \in {"batch_received", "batch_committed"},
           NEW entity \in BatchIds, NEW cursor \in Nat, NEW live,
           AppendEntry(kind, entity, cursor, live)
    PROVE  /\ JournalNumbered'
           /\ \A i \in DOMAIN entries' :
                \/ \E j \in DOMAIN entries : entries'[i] = entries[j]
                \/ /\ entries'[i].kind = kind
                   /\ entries'[i].entity = entity
                   /\ entries'[i].cursor = cursor
<1> DEFINE new == [id |-> lastEntry + 1, kind |-> kind, entity |-> entity, cursor |-> cursor]
           list == Append(entries, new)
           n == Len(entries)
<1>1. /\ lastEntry \in Nat /\ entries \in Seq(Entry) /\ n \in Nat
      /\ n = IF lastEntry < Capacity THEN lastEntry ELSE Capacity
      /\ DOMAIN entries = 1 .. n
      /\ \A i \in 1 .. n : entries[i].id = lastEntry - n + i
  BY LenProperties DEF JournalNumbered
<1>2. CASE UNCHANGED journalVars
  BY <1>2 DEF journalVars, JournalNumbered
<1>3. CASE lastEntry' = lastEntry + 1 /\ entries' = Kept(list)
  <2>1. new \in Entry
    BY <1>1 DEF Entry
  <2>2. /\ new.id = lastEntry + 1 /\ new.kind = kind
        /\ new.entity = entity /\ new.cursor = cursor
    OBVIOUS
  <2> HIDE DEF new
  <2>3. /\ list \in Seq(Entry) /\ Len(list) = n + 1
        /\ DOMAIN list = 1 .. n + 1
        /\ \A i \in 1 .. n : list[i] = entries[i]
        /\ list[n + 1] = new
    BY <1>1, <2>1, AppendProperties, LenProperties
  <2>4. \A i \in 1 .. n + 1 : list[i].id = lastEntry - n + i
    <3> TAKE i \in 1 .. n + 1
    <3>1. CASE i \in 1 .. n
      BY <1>1, <2>3, <3>1
    <3>2. CASE i = n + 1
      BY <1>1, <2>2, <2>3, <3>2
    <3> QED
      BY <1>1, <3>1, <3>2
  <2>5. \A i \in 1 .. n + 1 : \/ \E j \in DOMAIN entries : list[i] = entries[j]
                            \/ list[i] = new
    BY <1>1, <2>3
  <2> HIDE DEF list
  <2>6. CASE lastEntry < Capacity
    <3>1. entries' = list
      BY <1>1, <1>3, <2>3, <2>6, CapacityType DEF Kept
    <3>2. JournalNumbered'
      BY <1>1, <1>3, <2>3, <2>4, <2>6, <3>1, CapacityType DEF JournalNumbered
    <3> QED
      BY <2>2, <2>3, <2>5, <3>1, <3>2
  <2>7. CASE ~(lastEntry < Capacity)
    <3>1. n = Capacity /\ n \in Nat \ {0} /\ lastEntry >= n
      BY <1>1, <2>7, CapacityType
    <3>2. entries' = SubSeq(list, 2, n + 1)
      BY <1>3, <2>3, <3>1 DEF Kept, Newest
    <3>3. /\ entries' \in Seq(Entry) /\ Len(entries') = n
          /\ DOMAIN entries' = 1 .. n
          /\ \A i \in 1 .. n : entries'[i] = list[i + 1]
      BY <2>3, <3>1, <3>2, SubSeqProperties, LenProperties
    <3>4. \A i \in 1 .. n : i + 1 \in 1 .. n + 1
      BY <3>1
    <3>5. \A i \in DOMAIN entries' : entries'[i].id = lastEntry' - Len(entries') + i
      <4> TAKE i \in DOMAIN entries'
      <4>1. entries'[i].id = lastEntry - n + (i + 1)
        BY <2>4, <3>3, <3>4
      <4> QED
        BY <1>1, <1>3, <3>1, <3>3, <4>1
    <3>6. JournalNumbered'
      BY <1>1, <1>3, <3>1, <3>3, <3>5 DEF JournalNumbered
    <3>7. \A i \in DOMAIN entries' : \/ \E j \in DOMAIN entries : entries'[i] = entries[j]
                                     \/ entries'[i] = new
      BY <2>5, <3>3, <3>4
    <3> QED
      BY <2>2, <3>6, <3>7
  <2> QED
    BY <2>6, <2>7
<1> QED
  BY <1>2, <1>3 DEF AppendEntry

-----------------------------------------------------------------------------
(* The truth of a report. *)

\* A report that is true of a snapshot is true of one whose logs go on.
LEMMA StaysTrue ==
    ASSUME StoreInv, StoreInv', LogsExtend,
           NEW bid, NEW cursor, TrueOf(disk, bid, cursor), cursor \in Nat
    PROVE  TrueOf(disk', bid, cursor)
<1>1. PICK b \in Batches : /\ b.id = bid /\ Holds(disk, b)
                           /\ Unique(b) => /\ LastSequence(b) <= cursor
                                           /\ cursor <= Len(disk.readings[b.stationId])
  BY DEF TrueOf
<1> DEFINE log == disk.readings[b.stationId]
           new == disk'.readings[b.stationId]
<1>2. b.stationId \in StationIds
  BY StoreAssumption DEF ReadingBatch
<1>3. /\ log \in Seq(Reading) /\ new \in Seq(Reading)
      /\ Len(log) <= Len(new)
      /\ \A i \in 1 .. Len(log) : new[i] = log[i]
  BY <1>2 DEF StoreInv, TypeOK, IsDiskState, LogsExtend, Extends
<1>4. /\ DOMAIN log = 1 .. Len(log) /\ DOMAIN new = 1 .. Len(new)
      /\ Len(log) \in Nat /\ Len(new) \in Nat
  BY <1>3, LenProperties
<1>5. \A i \in DOMAIN log : i \in DOMAIN new /\ new[i] = log[i]
  BY <1>3, <1>4
<1>6. \A i \in DOMAIN b.readings : /\ b.readings[i].sequence \in DOMAIN log
                                   /\ log[b.readings[i].sequence] = b.readings[i]
  BY <1>1 DEF Holds
<1>7. Unique(b) => LastSequence(b) <= cursor /\ cursor <= Len(log)
  BY <1>1
<1> HIDE DEF log
<1>8. \A i \in DOMAIN b.readings : /\ b.readings[i].sequence \in DOMAIN new
                                   /\ new[b.readings[i].sequence] = b.readings[i]
  BY <1>5, <1>6
<1>9. Unique(b) => LastSequence(b) <= cursor /\ cursor <= Len(new)
  BY <1>3, <1>4, <1>7
<1>10. Holds(disk', b)
  BY <1>8 DEF Holds
<1> QED
  BY <1>1, <1>9, <1>10 DEF TrueOf

\* An accepted batch, and the cursor that its station then has.
LEMMA AcceptedIsTrue ==
    ASSUME NEW d, IsDiskState(d), NEW b \in Batches, BatchValid(b),
           NEW c \in Batches, c.id = b.id, Holds(d, c)
    PROVE  TrueOf(d, b.id, Len(d.readings[b.stationId]))
<1> DEFINE log == d.readings[b.stationId]
<1>1. log \in Seq(Reading)
  BY StoreAssumption DEF ReadingBatch, IsDiskState
<1>2. DOMAIN log = 1 .. Len(log) /\ Len(log) \in Nat
  BY <1>1, LenProperties
<1>3. Unique(c) => c = b
  BY DEF Unique
<1>4. CASE c = b
  <2>1. b.readings \in Seq(Reading) /\ b.readings # <<>>
    BY StoreAssumption DEF BatchValid, ReadingBatch
  <2>2. Len(b.readings) \in DOMAIN b.readings
    BY <2>1, LenProperties, EmptySeq
  <2>3. LastSequence(b) \in DOMAIN log
    BY <1>4, <2>1, <2>2 DEF LastSequence, Holds
  <2>4. LastSequence(b) <= Len(log)
    BY <1>2, <2>3
  <2> HIDE DEF log
  <2>5. Len(log) <= Len(log)
    BY <1>2
  <2> QED
    BY <1>4, <2>4, <2>5 DEF TrueOf, log
<1>5. CASE c # b
  BY <1>3, <1>5 DEF TrueOf
<1> QED
  BY <1>4, <1>5

-----------------------------------------------------------------------------
(* The invariant. *)

LEMMA ReceptionInitInv == ReceptionInit => ReceptionInv
<1> SUFFICES ASSUME ReceptionInit PROVE ReceptionInv
  OBVIOUS
<1>1. ServiceInv
  BY ServiceInitInv DEF ReceptionInit
<1>2. calls = EmptyMap /\ received = 0 /\ inherited = disk.readings
  BY DEF ReceptionInit
<1>3. entries = <<>> /\ lastEntry = 0 /\ counts = NoCounts
  BY DEF ReceptionInit, MemoryInit, JournalInit
<1>4. JournalNumbered
  BY <1>3, CapacityType DEF JournalNumbered
<1>5. counts \in [DOMAIN NoCounts -> Nat]
  BY <1>3 DEF NoCounts
<1>6. inherited \in [StationIds -> Seq(Reading)]
  BY <1>1, <1>2, ServiceInvParts DEF StoreInv, TypeOK, IsDiskState
<1>7. TrueEntries /\ TrueCalls
  BY <1>2, <1>3 DEF TrueEntries, TrueCalls, EmptyMap
<1>8. received \in 0 .. MaxCalls
  BY <1>2, ReceptionAssumption
<1> QED
  BY <1>1, <1>2, <1>4, <1>5, <1>6, <1>7, <1>8, EmptyMapType DEF ReceptionInv, MemorySound

\* What every step does to services and logs.
LEMMA ServiceStep ==
    ASSUME ReceptionInv, [ReceptionNext]_receptionVars
    PROVE  ServiceInv' /\ StoreInv /\ StoreInv' /\ LogsExtend
<1>1. [ServiceNext]_serviceVars
  BY ReceptionStepIsServiceStep DEF ReceptionInv, MemorySound
<1>2. ServiceInv /\ ServiceInv'
  BY <1>1, ServiceStepInv DEF ReceptionInv
<1>3. StoreInv /\ StoreInv'
  BY <1>2 DEF ServiceInv
<1>4. [StoreNext]_storeVars
  BY <1>1, <1>2, ServiceStepIsStoreStep
<1> QED
  BY <1>2, <1>3, <1>4, LogsGrow

\* Steps that leave the journal alone leave it true.
LEMMA EntriesKept ==
    ASSUME StoreInv, StoreInv', LogsExtend, JournalNumbered, TrueEntries,
           UNCHANGED journalVars
    PROVE  JournalNumbered' /\ TrueEntries'
<1>1. entries' = entries /\ lastEntry' = lastEntry
  BY DEF journalVars
<1>2. \A i \in DOMAIN entries : entries[i].cursor \in Nat
  <2> TAKE i \in DOMAIN entries
  <2>1. entries \in Seq(Entry)
    BY DEF JournalNumbered
  <2>2. entries[i] \in Entry
    BY <2>1, ElementOfSeq
  <2> QED
    BY <2>2 DEF Entry
<1> QED
  BY <1>1, <1>2, StaysTrue DEF JournalNumbered, TrueEntries

\* Calls that report nothing new have nothing to prove.
LEMMA CallsKept ==
    ASSUME StoreInv, StoreInv', LogsExtend, IsMap(calls, Callers, Call), TrueCalls,
           \A x \in DOMAIN calls' :
             \/ /\ x \in DOMAIN calls
                /\ calls'[x].todo = calls[x].todo
                /\ calls'[x].cursor = calls[x].cursor
                /\ Reports(calls'[x]) => Reports(calls[x])
             \/ ~Reports(calls'[x])
             \/ TrueOf(disk', Head(calls'[x].todo).id, calls'[x].cursor)
    PROVE  TrueCalls'
<1> SUFFICES ASSUME NEW x \in DOMAIN calls', Reports(calls'[x])
             PROVE  TrueOf(disk', Head(calls'[x].todo).id, calls'[x].cursor)
  BY DEF TrueCalls, Current
<1>1. CASE /\ x \in DOMAIN calls
           /\ calls'[x].todo = calls[x].todo
           /\ calls'[x].cursor = calls[x].cursor
           /\ Reports(calls[x])
  <2>1. calls[x].cursor \in Nat
    BY <1>1, CallFields
  <2>2. TrueOf(disk, Head(calls[x].todo).id, calls[x].cursor)
    BY <1>1 DEF TrueCalls, Current
  <2>3. TrueOf(disk', Head(calls[x].todo).id, calls[x].cursor)
    BY <2>1, <2>2, StaysTrue
  <2> QED
    BY <1>1, <2>3
<1> QED
  BY <1>1

\* What a replay starts with are batches.
LEMMA ReplayTodo ==
    ASSUME StoreInv, NEW list \in PendingBatches(state, Limit), list # <<>>
    PROVE  [i \in DOMAIN list |-> Normalize(state.batches[list[i]].batch)]
             \in Seq(Batches) \ {<<>>}
<1> DEFINE todo == [i \in DOMAIN list |-> Normalize(state.batches[list[i]].batch)]
<1>1. SoundSnapshot(state)
  BY InvIsSoundness
<1>2. list \in Seq(Recoverable(state))
  BY <1>1, Listed, ReceptionAssumption DEF SoundSnapshot, IsDiskState
<1>3. /\ Len(list) \in Nat /\ DOMAIN list = 1 .. Len(list)
      /\ \A i \in DOMAIN list : list[i] \in Recoverable(state)
  BY <1>2, LenProperties, ElementOfSeq
<1>4. \A i \in DOMAIN list : Normalize(state.batches[list[i]].batch) \in Batches
  <2> TAKE i \in DOMAIN list
  <2>1. state.batches[list[i]].batch \in Batches
    BY <1>1, <1>3 DEF SoundSnapshot, RecordsFaithful, Recoverable
  <2> QED
    BY <2>1, ReceptionAssumption
<1>5. todo \in Seq(Batches)
  BY <1>3, <1>4, IsASeq
<1>6. todo # <<>>
  <2>1. Len(list) # 0
    BY <1>2, EmptySeq
  <2>2. 1 \in DOMAIN todo
    BY <1>3, <2>1
  <2> QED
    BY <2>2
<1> QED
  BY <1>5, <1>6

LEMMA StartKeeps ==
    ASSUME MemorySound, StoreInv, StoreInv', LogsExtend,
           NEW c \in Callers, NEW todo \in Seq(Batches) \ {<<>>}, Start(c, todo)
    PROVE  MemorySound'
<1> DEFINE call == [todo |-> todo, next |-> "receive", live |-> TRUE,
                    result |-> "failed", cursor |-> 0]
<1>1. call \in Call
  BY DEF Call, Steps, Results
<1>2. ~Reports(call)
  BY DEF Reports
<1>3. calls' = Put(calls, c, call)
  BY DEF Start
<1> HIDE DEF call
<1>4. IsMap(calls', Callers, Call)
  BY <1>1, <1>3, PutType DEF MemorySound
<1>5. \A x \in DOMAIN calls' : \/ x \in DOMAIN calls /\ calls'[x] = calls[x]
                              \/ ~Reports(calls'[x])
  BY <1>2, <1>3 DEF Put
<1>6. TrueCalls'
  BY <1>5, CallsKept DEF MemorySound
<1>7. JournalNumbered' /\ TrueEntries'
  BY EntriesKept DEF MemorySound, Start, memoryVars, journalVars
<1>8. received' \in 0 .. MaxCalls
  <2>1. Len(todo) \in Nat
    BY LenProperties
  <2> QED
    BY <2>1, ReceptionAssumption DEF Start, MemorySound
<1>9. UNCHANGED <<counts, inherited>>
  BY DEF Start, memoryVars
<1> QED
  BY <1>4, <1>6, <1>7, <1>8, <1>9 DEF MemorySound

\* A call goes on to one that reports no more than before, or the truth.
LEMMA CallGoesOn ==
    ASSUME MemorySound, StoreInv, StoreInv', LogsExtend,
           NEW c \in DOMAIN calls, NEW w \in Call, Becomes(c, w),
           \/ /\ w.todo = calls[c].todo /\ w.cursor = calls[c].cursor
              /\ Reports(w) => Reports(calls[c])
           \/ ~Reports(w)
           \/ TrueOf(disk', Head(w.todo).id, w.cursor)
    PROVE  IsMap(calls', Callers, Call) /\ TrueCalls'
<1>1. /\ IsMap(calls', Callers, Call)
      /\ DOMAIN calls' = DOMAIN calls
      /\ calls'[c] = w
      /\ \A x \in DOMAIN calls \ {c} : calls'[x] = calls[x]
  BY CallBecomes DEF MemorySound
<1>2. TrueCalls'
  <2>1. \A x \in DOMAIN calls' :
          \/ /\ x \in DOMAIN calls
             /\ calls'[x].todo = calls[x].todo
             /\ calls'[x].cursor = calls[x].cursor
             /\ Reports(calls'[x]) => Reports(calls[x])
          \/ ~Reports(calls'[x])
          \/ TrueOf(disk', Head(calls'[x].todo).id, calls'[x].cursor)
    <3> TAKE x \in DOMAIN calls'
    <3>1. CASE x = c
      BY <1>1, <3>1
    <3>2. CASE x # c
      BY <1>1, <3>2
    <3> QED
      BY <3>1, <3>2
  <2> QED
    BY <2>1, CallsKept DEF MemorySound
<1> QED
  BY <1>1, <1>2

LEMMA ExpireKeeps ==
    ASSUME MemorySound, StoreInv, StoreInv', LogsExtend, NEW c, Expire(c)
    PROVE  MemorySound'
<1> DEFINE w == [calls[c] EXCEPT !.live = FALSE]
<1>1. c \in DOMAIN calls /\ calls[c] \in Call
  BY CallFields DEF Expire, MemorySound
<1>2. /\ w \in Call /\ w.todo = calls[c].todo /\ w.cursor = calls[c].cursor
      /\ w.next = calls[c].next /\ w.result = calls[c].result
  BY <1>1 DEF Call
<1>3. Becomes(c, w)
  BY DEF Expire
<1> HIDE DEF w
<1>4. Reports(w) => Reports(calls[c])
  BY <1>2 DEF Reports
<1>5. IsMap(calls', Callers, Call) /\ TrueCalls'
  BY <1>1, <1>2, <1>3, <1>4, CallGoesOn
<1>6. UNCHANGED <<memoryVars, received, inherited>>
  BY DEF Expire
<1>7. JournalNumbered' /\ TrueEntries'
  BY <1>6, EntriesKept DEF MemorySound, memoryVars, journalVars
<1> QED
  BY <1>5, <1>6, <1>7 DEF MemorySound, memoryVars

\* Entries are true if those of before are, and the new one.
LEMMA EntryAdded ==
    ASSUME MemorySound, StoreInv, StoreInv', LogsExtend,
           NEW kind \in {"batch_received", "batch_committed"},
           NEW entity \in BatchIds, NEW cursor \in Nat, NEW live,
           AppendEntry(kind, entity, cursor, live),
           kind = "batch_committed" => TrueOf(disk', entity, cursor)
    PROVE  JournalNumbered' /\ TrueEntries'
<1>1. /\ JournalNumbered'
      /\ \A i \in DOMAIN entries' :
           \/ \E j \in DOMAIN entries : entries'[i] = entries[j]
           \/ /\ entries'[i].kind = kind
              /\ entries'[i].entity = entity
              /\ entries'[i].cursor = cursor
  BY Appended DEF MemorySound
<1>2. ASSUME NEW j \in DOMAIN entries, entries[j].kind = "batch_committed"
      PROVE  TrueOf(disk', entries[j].entity, entries[j].cursor)
  <2>1. entries[j] \in Entry
    BY ElementOfSeq DEF MemorySound, JournalNumbered
  <2>2. entries[j].cursor \in Nat
    BY <2>1 DEF Entry
  <2>3. TrueOf(disk, entries[j].entity, entries[j].cursor)
    BY <1>2 DEF MemorySound, TrueEntries
  <2> QED
    BY <2>2, <2>3, StaysTrue
<1>3. TrueEntries'
  <2> SUFFICES ASSUME NEW i \in DOMAIN entries', entries'[i].kind = "batch_committed"
               PROVE  TrueOf(disk', entries'[i].entity, entries'[i].cursor)
    BY DEF TrueEntries
  <2>1. CASE \E j \in DOMAIN entries : entries'[i] = entries[j]
    <3>1. PICK j \in DOMAIN entries : entries'[i] = entries[j]
      BY <2>1
    <3>2. TrueOf(disk', entries[j].entity, entries[j].cursor)
      BY <1>2, <3>1
    <3> QED
      BY <3>1, <3>2
  <2>2. CASE /\ entries'[i].kind = kind
             /\ entries'[i].entity = entity
             /\ entries'[i].cursor = cursor
    BY <2>2
  <2> QED
    BY <1>1, <2>1, <2>2
<1> QED
  BY <1>1, <1>3

LEMMA LogReceivedKeeps ==
    ASSUME MemorySound, StoreInv, StoreInv', LogsExtend, NEW c, LogReceived(c)
    PROVE  MemorySound'
<1> DEFINE w == [calls[c] EXCEPT !.next = "commit"]
<1>1. /\ c \in DOMAIN calls /\ calls[c] \in Call /\ Current(c).id \in BatchIds
  BY CallFields DEF LogReceived, At, MemorySound
<1>2. w \in Call /\ w.next = "commit"
  BY <1>1 DEF Call, Steps
<1>3. Becomes(c, w)
  BY DEF LogReceived
<1> HIDE DEF w
<1>4. ~Reports(w)
  BY <1>2 DEF Reports
<1>5. IsMap(calls', Callers, Call) /\ TrueCalls'
  BY <1>1, <1>2, <1>3, <1>4, CallGoesOn
<1>6. JournalNumbered' /\ TrueEntries'
  BY <1>1, EntryAdded DEF LogReceived
<1>7. UNCHANGED <<counts, received, inherited>>
  BY DEF LogReceived
<1> QED
  BY <1>5, <1>6, <1>7 DEF MemorySound

LEMMA LogCommittedKeeps ==
    ASSUME MemorySound, StoreInv, StoreInv', LogsExtend, disk' = disk,
           NEW c, LogCommitted(c)
    PROVE  MemorySound'
<1> DEFINE w == [calls[c] EXCEPT !.next = "finish"]
<1>1. /\ c \in DOMAIN calls /\ calls[c] \in Call /\ Current(c).id \in BatchIds
      /\ calls[c].cursor \in Nat /\ calls[c].next = "log"
  BY CallFields DEF LogCommitted, At, MemorySound
<1>2. w \in Call /\ w.next = "finish"
  BY <1>1 DEF Call, Steps
<1>3. Becomes(c, w)
  BY DEF LogCommitted
<1> HIDE DEF w
<1>4. ~Reports(w)
  BY <1>2 DEF Reports
<1>5. IsMap(calls', Callers, Call) /\ TrueCalls'
  BY <1>1, <1>2, <1>3, <1>4, CallGoesOn
<1>6. TrueOf(disk, Current(c).id, calls[c].cursor)
  BY <1>1 DEF MemorySound, TrueCalls, Reports
<1>7. JournalNumbered' /\ TrueEntries'
  BY <1>1, <1>6, EntryAdded DEF LogCommitted
<1>8. UNCHANGED <<counts, received, inherited>>
  BY DEF LogCommitted
<1> QED
  BY <1>5, <1>7, <1>8 DEF MemorySound

LEMMA CommitKeeps ==
    ASSUME MemorySound, StoreInv, StoreInv', LogsExtend, NEW c, Commit(c)
    PROVE  MemorySound'
<1> DEFINE b == Current(c)
<1>1. /\ c \in DOMAIN calls /\ calls[c] \in Call /\ b \in Batches
      /\ b = Head(calls[c].todo)
  BY CallFields DEF Commit, At, MemorySound, Current
<1>2. PICK now \in Times : Refused(c, b, now) \/ Stored(c, b, now)
  BY DEF Commit
<1> HIDE DEF b
<1>3. ASSUME Becomes(c, [calls[c] EXCEPT !.next = "count", !.result = "failed"])
      PROVE  IsMap(calls', Callers, Call) /\ TrueCalls'
  <2> DEFINE w == [calls[c] EXCEPT !.next = "count", !.result = "failed"]
  <2>1. w \in Call /\ ~Reports(w)
    BY <1>1 DEF Call, Steps, Results, Reports
  <2>2. Becomes(c, w)
    BY <1>3
  <2> HIDE DEF w
  <2> QED
    BY <1>1, <2>1, <2>2, CallGoesOn
<1>4. ASSUME NEW result \in {"accepted", "duplicate"}, NEW cursor,
             cursor = state'.cursors[b.stationId],
             BatchValid(b), Ready, mode' = mode, b \in acked',
             b.stationId \in DOMAIN state'.stations,
             Becomes(c, [calls[c] EXCEPT !.next = "count", !.result = result,
                                         !.cursor = cursor])
      PROVE  IsMap(calls', Callers, Call) /\ TrueCalls'
  <2> DEFINE w == [calls[c] EXCEPT !.next = "count", !.result = result,
                                   !.cursor = cursor]
  <2>1. /\ IsDiskState(disk') /\ CursorDescribes(state')
        /\ state'.readings = disk'.readings
    BY <1>4 DEF StoreInv, TypeOK, CursorsAreReadable, VisibleIsDurable, Ready
  <2>2. b.stationId \in StationIds
    BY <1>1, StoreAssumption DEF ReadingBatch
  <2>3. cursor = Len(disk'.readings[b.stationId])
    BY <1>4, <2>1, <2>2 DEF CursorDescribes
  <2>4. PICK x \in Batches : x.id = b.id /\ Holds(disk', x)
    BY <1>4 DEF StoreInv, AcceptedSurvives
  <2>5. TrueOf(disk', b.id, cursor)
    BY <1>1, <1>4, <2>1, <2>3, <2>4, AcceptedIsTrue
  <2>6. cursor \in Nat
    BY <2>1, <2>2, <2>3, LenProperties DEF IsDiskState
  <2>7. w \in Call /\ w.todo = calls[c].todo /\ w.cursor = cursor
    BY <1>1, <2>6 DEF Call, Steps, Results
  <2>8. Becomes(c, w)
    BY <1>4
  <2> HIDE DEF w
  <2> QED
    BY <1>1, <2>5, <2>7, <2>8, CallGoesOn
<1>5. ASSUME CommitApplied(b, now),
             Becomes(c, [calls[c] EXCEPT !.next = "count", !.result = "accepted",
                                         !.cursor = state'.cursors[b.stationId]])
      PROVE  IsMap(calls', Callers, Call) /\ TrueCalls'
  <2> DEFINE cursor == state'.cursors[b.stationId]
  <2>1. /\ BatchValid(b) /\ Ready /\ mode' = mode /\ b \in acked'
        /\ b.stationId \in DOMAIN state'.stations
    BY <1>5 DEF CommitApplied, Admissible, Applied, Put
  <2>2. Becomes(c, [calls[c] EXCEPT !.next = "count", !.result = "accepted",
                                    !.cursor = cursor])
    BY <1>5
  <2>3. cursor = state'.cursors[b.stationId]
    OBVIOUS
  <2> HIDE DEF cursor
  <2> QED
    BY <1>4, <2>1, <2>2, <2>3
<1>6. ASSUME CommitDuplicate(b),
             Becomes(c, [calls[c] EXCEPT !.next = "count", !.result = "duplicate",
                                         !.cursor = state.cursors[b.stationId]])
      PROVE  IsMap(calls', Callers, Call) /\ TrueCalls'
  <2> DEFINE cursor == state.cursors[b.stationId]
  <2>1. /\ BatchValid(b) /\ Ready /\ mode' = mode /\ b \in acked'
        /\ b.stationId \in DOMAIN state'.stations /\ state' = state
    BY <1>6 DEF CommitDuplicate, Admissible
  <2>2. Becomes(c, [calls[c] EXCEPT !.next = "count", !.result = "duplicate",
                                    !.cursor = cursor])
    BY <1>6
  <2>3. cursor = state'.cursors[b.stationId]
    BY <2>1
  <2> HIDE DEF cursor
  <2> QED
    BY <1>4, <2>1, <2>2, <2>3
<1>7. IsMap(calls', Callers, Call) /\ TrueCalls'
  BY <1>2, <1>3, <1>5, <1>6 DEF Refused, Stored
<1>8. UNCHANGED <<memoryVars, received, inherited>>
  BY DEF Commit
<1>9. JournalNumbered' /\ TrueEntries'
  BY <1>8, EntriesKept DEF MemorySound, memoryVars, journalVars
<1> QED
  BY <1>7, <1>8, <1>9 DEF MemorySound, memoryVars

LEMMA CountKeeps ==
    ASSUME MemorySound, StoreInv, StoreInv', LogsExtend, NEW c, Count(c)
    PROVE  MemorySound'
<1> DEFINE next == IF calls[c].result = "failed" THEN "finish" ELSE "log"
           w == [calls[c] EXCEPT !.next = next]
<1>1. /\ c \in DOMAIN calls /\ calls[c] \in Call
      /\ calls[c].next = "count" /\ calls[c].result \in Results
  BY CallFields DEF Count, At, MemorySound
<1>2. w \in Call /\ w.todo = calls[c].todo /\ w.cursor = calls[c].cursor
      /\ w.next = next
  BY <1>1 DEF Call, Steps
<1>3. Becomes(c, w)
  BY DEF Count
<1>4. next # "count" /\ (next = "log" => calls[c].result # "failed")
  OBVIOUS
<1> HIDE DEF w, next
<1>5. Reports(w) => Reports(calls[c])
  BY <1>1, <1>2, <1>4 DEF Reports
<1>6. IsMap(calls', Callers, Call) /\ TrueCalls'
  BY <1>1, <1>2, <1>3, <1>5, CallGoesOn
<1>7. counts' \in [DOMAIN NoCounts -> Nat]
  BY <1>1 DEF Count, RecordOutcome, MemorySound, Results, NoCounts
<1>8. UNCHANGED <<journalVars, received, inherited>>
  BY DEF Count
<1>9. JournalNumbered' /\ TrueEntries'
  BY <1>8, EntriesKept DEF MemorySound
<1> QED
  BY <1>6, <1>7, <1>8, <1>9 DEF MemorySound

\* A call that leaves takes nothing with it.
LEMMA LeavingKeeps ==
    ASSUME MemorySound, StoreInv, StoreInv', LogsExtend, NEW c, Leaving(c)
    PROVE  IsMap(calls', Callers, Call) /\ TrueCalls'
<1>1. /\ IsMap(calls', Callers, Call)
      /\ \A x \in DOMAIN calls' : x \in DOMAIN calls /\ calls'[x] = calls[x]
  BY CallLeaves DEF MemorySound
<1>2. TrueCalls'
  BY <1>1, CallsKept DEF MemorySound
<1> QED
  BY <1>1, <1>2

LEMMA AnswerKeeps ==
    ASSUME MemorySound, StoreInv, StoreInv', LogsExtend, NEW c, Answer(c)
    PROVE  MemorySound'
<1>1. IsMap(calls', Callers, Call) /\ TrueCalls'
  BY LeavingKeeps DEF Answer
<1>2. UNCHANGED <<journalVars, counts, received, inherited>>
  BY DEF Answer
<1>3. JournalNumbered' /\ TrueEntries'
  BY <1>2, EntriesKept DEF MemorySound
<1> QED
  BY <1>1, <1>2, <1>3 DEF MemorySound

LEMMA FinishKeeps ==
    ASSUME MemorySound, StoreInv, StoreInv', LogsExtend, NEW c, FinishReplay(c)
    PROVE  MemorySound'
<1> DEFINE todo == calls[c].todo
           w == [calls[c] EXCEPT !.todo = Tail(@), !.next = "receive",
                                 !.result = "failed", !.cursor = 0]
<1>1. /\ c \in DOMAIN calls /\ calls[c] \in Call
      /\ todo \in Seq(Batches) /\ todo # <<>>
  BY CallFields DEF FinishReplay, At, MemorySound
<1>2. ASSUME Leaving(c)
      PROVE  IsMap(calls', Callers, Call) /\ TrueCalls'
  BY <1>2, LeavingKeeps
<1>3. ASSUME Len(todo) # 1, Becomes(c, w)
      PROVE  IsMap(calls', Callers, Call) /\ TrueCalls'
  <2>1. /\ Tail(todo) \in Seq(Batches) /\ Len(Tail(todo)) = Len(todo) - 1
        /\ Len(todo) \in Nat
    BY <1>1, HeadTailProperties, LenProperties
  <2>2. Tail(todo) # <<>>
    <3>1. Len(Tail(todo)) # 0
      BY <1>3, <2>1
    <3> QED
      BY <3>1, EmptySeq
  <2>3. w \in Call /\ w.next = "receive"
    BY <1>1, <2>1, <2>2 DEF Call, Steps, Results
  <2>4. Becomes(c, w)
    BY <1>3
  <2> HIDE DEF w
  <2>5. ~Reports(w)
    BY <2>3 DEF Reports
  <2> QED
    BY <1>1, <2>3, <2>4, <2>5, CallGoesOn
<1>4. IsMap(calls', Callers, Call) /\ TrueCalls'
  BY <1>2, <1>3 DEF FinishReplay, Proceed
<1>5. UNCHANGED <<memoryVars, received, inherited>>
  BY DEF FinishReplay
<1>6. JournalNumbered' /\ TrueEntries'
  BY <1>5, EntriesKept DEF MemorySound, memoryVars, journalVars
<1> QED
  BY <1>4, <1>5, <1>6 DEF MemorySound, memoryVars

\* Steps of which the callers know nothing.
LEMMA OthersKeep ==
    ASSUME MemorySound, StoreInv, StoreInv', LogsExtend,
           UNCHANGED <<journalVars, counts, calls, received>>,
           inherited' \in {inherited, disk.readings}
    PROVE  MemorySound'
<1>1. JournalNumbered' /\ TrueEntries'
  BY EntriesKept DEF MemorySound
<1>2. TrueCalls'
  BY CallsKept DEF MemorySound
<1>3. inherited' \in [StationIds -> Seq(Reading)]
  BY DEF MemorySound, StoreInv, TypeOK, IsDiskState
<1> QED
  BY <1>1, <1>2, <1>3 DEF MemorySound

LEMMA DieKeeps == ASSUME MemorySound, Die PROVE MemorySound'
<1>1. calls' = EmptyMap /\ received' = 0 /\ inherited' = inherited
  BY DEF Die
<1>2. entries' = <<>> /\ lastEntry' = 0 /\ counts' = NoCounts
  BY DEF Die
<1>3. JournalNumbered'
  BY <1>2, CapacityType DEF JournalNumbered
<1>4. counts' \in [DOMAIN NoCounts -> Nat]
  BY <1>2 DEF NoCounts
<1>5. TrueEntries' /\ TrueCalls'
  BY <1>1, <1>2 DEF TrueEntries, TrueCalls, EmptyMap
<1>6. received' \in 0 .. MaxCalls
  BY <1>1, ReceptionAssumption
<1> QED
  BY <1>1, <1>3, <1>4, <1>5, <1>6, EmptyMapType DEF MemorySound

-----------------------------------------------------------------------------
\* Every step keeps the invariant.
LEMMA ReceptionStepInv ==
    ReceptionInv /\ [ReceptionNext]_receptionVars => ReceptionInv'
<1> SUFFICES ASSUME ReceptionInv, [ReceptionNext]_receptionVars
             PROVE  ReceptionInv'
  OBVIOUS
<1>1. ServiceInv' /\ StoreInv /\ StoreInv' /\ LogsExtend /\ MemorySound
  BY ServiceStep DEF ReceptionInv
<1>2. ASSUME NEW c \in Callers, NEW b \in Posts, Post(c, b)
      PROVE  MemorySound'
  <2>1. <<Normalize(b)>> \in Seq(Batches) \ {<<>>}
    BY ReceptionAssumption
  <2> QED
    BY <1>1, <1>2, <2>1, StartKeeps DEF Post
<1>3. ASSUME NEW c \in Callers, StartReplay(c)
      PROVE  MemorySound'
  BY <1>1, <1>3, ReplayTodo, StartKeeps DEF StartReplay
<1>4. ASSUME NEW c \in Callers,
             \/ LogReceived(c) \/ Commit(c) \/ Count(c) \/ LogCommitted(c)
             \/ Answer(c) \/ FinishReplay(c)
      PROVE  MemorySound'
  <2>1. CASE LogCommitted(c)
    <3>1. disk' = disk
      BY <2>1 DEF LogCommitted, serviceVars, storeVars
    <3> QED
      BY <1>1, <2>1, <3>1, LogCommittedKeeps
  <2> QED
    BY <1>1, <1>4, <2>1, LogReceivedKeeps, CommitKeeps, CountKeeps, AnswerKeeps,
       FinishKeeps
<1>5. ASSUME NEW c \in Expiring, Expire(c)
      PROVE  MemorySound'
  BY <1>1, <1>5, ExpireKeeps
<1>6. ASSUME UNCHANGED <<journalVars, counts, calls, received, inherited>>
      PROVE  MemorySound'
  BY <1>1, <1>6, OthersKeep
<1>7. ASSUME Restart PROVE MemorySound'
  BY <1>1, <1>7, OthersKeep DEF Restart, memoryVars, journalVars
<1>8. ASSUME Die PROVE MemorySound'
  BY <1>1, <1>8, DieKeeps
<1>9. ASSUME \/ Others /\ UNCHANGED <<memoryVars, calls, received, inherited>>
             \/ UNCHANGED receptionVars
      PROVE  MemorySound'
  BY <1>6, <1>9 DEF receptionVars, memoryVars, journalVars
<1>10. MemorySound'
  BY <1>2, <1>3, <1>4, <1>5, <1>6, <1>7, <1>8, <1>9 DEF ReceptionNext, Callers
<1> QED
  BY <1>1, <1>10 DEF ReceptionInv

\* The invariant of receiving, call by call.
THEOREM ReceptionInvariance == ReceptionSpec => []ReceptionInv
BY ReceptionInitInv, ReceptionStepInv, PTL DEF ReceptionSpec

\* Reception is well typed.
THEOREM ReceptionTypeCorrect == ReceptionSpec => []ReceptionTypeOK
<1>1. ReceptionInv => ReceptionTypeOK
  BY DEF ReceptionInv, MemorySound, ReceptionTypeOK, ServiceInv, StoreInv,
         ServiceTypeOK, JournalNumbered
<1> QED
  BY <1>1, ReceptionInvariance, PTL

\* Receive in its steps does to store and stations only what StationService
\* allows for (ingest/service.go:37-60).
THEOREM ReceptionRespectsService == ReceptionSpec => ReceptionIsService
<1>1. ReceptionInit => ServiceInit
  BY DEF ReceptionInit
<1>2. ReceptionInv /\ [ReceptionNext]_receptionVars => [ServiceNext]_serviceVars
  BY ReceptionStepIsServiceStep DEF ReceptionInv, MemorySound
<1> QED
  BY <1>1, <1>2, ReceptionInvariance, PTL
     DEF ReceptionSpec, ReceptionIsService, ServiceSpec

\* The journal loses none but its oldest entries, and readers see the newest.
THEOREM JournalIsNewest == ReceptionSpec => []JournalKeepsNewest
<1>1. ASSUME JournalNumbered PROVE JournalKeepsNewest
  <2>1. /\ lastEntry \in Nat /\ entries \in Seq(Entry) /\ Len(entries) \in Nat
        /\ DOMAIN entries = 1 .. Len(entries)
        /\ \A i \in DOMAIN entries : entries[i].id = lastEntry - Len(entries) + i
    BY <1>1, LenProperties DEF JournalNumbered
  <2>2. ASSUME NEW limit \in 1 .. Len(entries)
        PROVE  /\ Len(Recent(limit)) = limit
               /\ \A i \in 1 .. limit : Recent(limit)[i].id = lastEntry - limit + i
    <3> DEFINE n == Len(entries)
               from == n - limit + 1
    <3>1. from \in 1 .. n /\ n - from + 1 = limit /\ n \in Nat
      BY <2>1, <2>2
    <3>2. Recent(limit) = SubSeq(entries, from, n)
      <4>1. CASE limit > n
        BY <2>1, <2>2, <4>1
      <4>2. limit <= 0 \/ limit > n => FALSE
        BY <2>1, <2>2
      <4> QED
        BY <4>2 DEF Recent, Newest
    <3>3. /\ Len(SubSeq(entries, from, n)) = limit
          /\ \A i \in 1 .. limit : SubSeq(entries, from, n)[i] = entries[from + i - 1]
      <4>1. DOMAIN entries = 1 .. n /\ n = Len(entries)
        BY <2>1
      <4> HIDE DEF n, from
      <4> QED
        BY <2>1, <3>1, <4>1, SubSeqProperties
    <3>4. ASSUME NEW i \in 1 .. limit
          PROVE  entries[from + i - 1].id = lastEntry - limit + i
      <4>1. from + i - 1 \in DOMAIN entries
        BY <2>1, <2>2
      <4>2. entries[from + i - 1].id = lastEntry - Len(entries) + (from + i - 1)
        BY <2>1, <4>1
      <4> QED
        BY <2>1, <2>2, <4>2
    <3> HIDE DEF from
    <3> QED
      BY <3>2, <3>3, <3>4
  <2> QED
    BY <1>1, <2>2 DEF JournalKeepsNewest, JournalNumbered
<1>2. ReceptionInv => JournalNumbered
  BY DEF ReceptionInv, MemorySound
<1> QED
  BY <1>1, <1>2, ReceptionInvariance, PTL

\* What the journal says was committed is in the file, however its entry and
\* the commit were interleaved with others, and stays there.
THEOREM JournalIsTrue == ReceptionSpec => []JournalTellsTruth
<1>1. ReceptionInv => JournalTellsTruth
  BY DEF ReceptionInv, MemorySound, TrueEntries, TrueOf, JournalTellsTruth
<1> QED
  BY <1>1, ReceptionInvariance, PTL

=============================================================================
