------------------------ MODULE StationServiceProofs ------------------------
(***************************************************************************)
(* The station service respects the store, for any number of operators:    *)
(* whatever copy one of them writes back, however late, is one the store   *)
(* allows for, so that all that is proved of FileStore holds of the        *)
(* composition.                                                            *)
(***************************************************************************)
EXTENDS StationService, FileStoreProofs

\* The station records of a snapshot are copies the store has shown.
AllShown(d) == \A s \in DOMAIN d.stations : Shown(d, s, d.stations[s])

CopiesShown == \A o \in DOMAIN held : Shown(state, held[o].id, held[o].station)

\* The invariant of StationService, part by part.
LEMMA ServiceInvParts ==
    ServiceInv <=> /\ StoreInv /\ IsMap(held, Operators, Copy)
                   /\ AllShown(state) /\ AllShown(disk) /\ CopiesShown
                   /\ mode = "down" => held = EmptyMap
BY DEF ServiceInv, AllShown, CopiesShown

\* What HeldCopies says of a station record.
LEMMA ShownFields ==
    ASSUME NEW d, IsDiskState(d), DOMAIN d.stations = DOMAIN d.cursors,
           NEW id \in DOMAIN d.stations, NEW station \in HeldCopies(d, id)
    PROVE  /\ station \in Station
           /\ station.lastSequence <= d.cursors[id]
           /\ station.failureCount \in 0 .. MaxFailures
           /\ d.cursors[id] \in Nat
<1>1. d.cursors[id] \in Nat
  BY DEF IsDiskState, IsMap
<1>2. /\ station.status \in Statuses
      /\ station.lastSequence \in 0 .. d.cursors[id]
      /\ station.failureCount \in 0 .. MaxFailures
      /\ station = [status |-> station.status,
                    lastSequence |-> station.lastSequence,
                    failureCount |-> station.failureCount]
  BY DEF HeldCopies
<1>3. station.lastSequence \in Nat /\ station.failureCount \in Nat
  BY <1>1, <1>2, StoreAssumption
<1> QED BY <1>1, <1>2, <1>3 DEF Station

\* A new status or failure count of a shown copy is shown as well.
LEMMA ShownChanged ==
    ASSUME NEW d, NEW id, NEW station \in HeldCopies(d, id),
           NEW status \in Statuses, NEW n \in 0 .. MaxFailures
    PROVE  [status |-> status, lastSequence |-> station.lastSequence,
            failureCount |-> n] \in HeldCopies(d, id)
BY DEF HeldCopies

\* Copies stay shown while the cursor of their station only moves on.
LEMMA ShownGrows ==
    ASSUME NEW d, NEW e, NEW id, NEW station, Shown(d, id, station),
           id \in DOMAIN e.stations,
           d.cursors[id] \in Nat, e.cursors[id] \in Nat,
           d.cursors[id] <= e.cursors[id]
    PROVE  Shown(e, id, station)
<1>1. 0 .. d.cursors[id] \subseteq 0 .. e.cursors[id]
  OBVIOUS
<1> QED BY <1>1 DEF Shown, HeldCopies

\* A station as registered is shown.
LEMMA NewShown ==
    ASSUME NEW d, NEW id \in DOMAIN d.stations, d.cursors[id] \in Nat
    PROVE  Shown(d, id, NewStation)
BY StoreAssumption DEF Shown, HeldCopies, NewStation, Statuses

-----------------------------------------------------------------------------
\* Every step of the service is a step of the store, or none of its business.
LEMMA ServiceStepIsStoreStep ==
    ServiceInv /\ [ServiceNext]_serviceVars => [StoreNext]_storeVars
<1> SUFFICES ASSUME ServiceInv, [ServiceNext]_serviceVars
             PROVE  [StoreNext]_storeVars
  OBVIOUS
<1>1. IsMap(held, Operators, Copy) /\ CopiesShown
  BY ServiceInvParts
<1>2. ASSUME NEW o \in Operators, Operate(o)
      PROVE  [StoreNext]_storeVars
  <2>1. CASE \/ \E id \in StationIds, to \in Statuses : ChangeStatus(o, id, to)
             \/ \E id \in StationIds : RecordFailure(o, id)
    BY <2>1 DEF ChangeStatus, RecordFailure, Take, storeVars
  <2>2. CASE \E ok \in BOOLEAN : WriteBack(o, ok)
    <3>1. PICK ok \in BOOLEAN : WriteBack(o, ok)
      BY <2>2
    <3> DEFINE id == held[o].id
    <3>2. /\ SetStation(id, held[o].station, ok) /\ Ready
          /\ id \in DOMAIN state.stations
          /\ held[o].station \in HeldCopies(state, id) /\ id \in StationIds
      BY <1>1, <3>1 DEF WriteBack, SetStation, CopiesShown, Shown, IsMap, Copy
    <3> HIDE DEF id
    <3> QED BY <3>2 DEF StoreNext
  <2>3. CASE GiveUp(o)
    BY <2>3 DEF GiveUp, storeVars
  <2> QED BY <1>2, <2>1, <2>2, <2>3 DEF Operate
<1>3. CASE Meanwhile
  BY <1>3 DEF Meanwhile, StoreNext
<1>4. CASE Crash
  BY <1>4 DEF StoreNext
<1>5. CASE UNCHANGED serviceVars
  BY <1>5 DEF serviceVars, storeVars
<1> QED BY <1>2, <1>3, <1>4, <1>5 DEF ServiceNext

-----------------------------------------------------------------------------
\* One snapshot follows another when it knows its stations and no cursor has
\* gone back.
Follows(e, d) ==
    /\ DOMAIN d.stations \subseteq DOMAIN e.stations
    /\ \A s \in DOMAIN d.stations : /\ d.cursors[s] \in Nat
                                   /\ e.cursors[s] \in Nat
                                   /\ d.cursors[s] <= e.cursors[s]

\* What was shown before is still shown after.
LEMMA FollowsShown ==
    ASSUME NEW d, NEW e, Follows(e, d), NEW id, NEW station,
           Shown(d, id, station)
    PROVE  Shown(e, id, station)
<1>1. id \in DOMAIN d.stations
  BY DEF Shown
<1> QED BY <1>1, ShownGrows DEF Follows

\* A sound snapshot has a natural cursor for each station.
LEMMA SoundCursors ==
    ASSUME NEW d, SoundSnapshot(d)
    PROVE  /\ DOMAIN d.stations = DOMAIN d.cursors
           /\ \A s \in DOMAIN d.stations : d.cursors[s] \in Nat
BY DEF SoundSnapshot, CursorDescribes, IsDiskState, IsMap

\* The three operations that touch station records move snapshots forward
\* and leave only records that were shown.  Registration:
LEMMA RegisteredShown ==
    ASSUME NEW d, SoundSnapshot(d), AllShown(d),
           NEW id \in StationIds, id \notin DOMAIN d.stations
    PROVE  AllShown(Registered(d, id)) /\ Follows(Registered(d, id), d)
<1> DEFINE e == Registered(d, id)
<1>1. /\ SoundSnapshot(e) /\ e.cursors = Put(d.cursors, id, 0)
      /\ e.stations = Put(d.stations, id, NewStation)
  BY RegisteredSound, WithFields DEF Registered, SoundSnapshot
<1> HIDE DEF e
<1>2. Follows(e, d)
  BY <1>1, SoundCursors DEF Follows, Put
<1>3. ASSUME NEW s \in DOMAIN e.stations
      PROVE  Shown(e, s, e.stations[s])
  <2>1. CASE s = id
    BY <1>1, <2>1, SoundCursors, NewShown DEF Put
  <2>2. CASE s # id
    <3>1. s \in DOMAIN d.stations /\ e.stations[s] = d.stations[s]
      BY <1>1, <2>2 DEF Put
    <3> QED BY <1>2, <3>1, FollowsShown DEF AllShown
  <2> QED BY <2>1, <2>2
<1> QED BY <1>2, <1>3 DEF AllShown, e

\* SetStation of a copy that was shown leaves every station record shown.
LEMMA WrittenShown ==
    ASSUME NEW d, SoundSnapshot(d), AllShown(d), NEW id, NEW station,
           Shown(d, id, station)
    PROVE  /\ AllShown(WithStation(d, id, station))
           /\ Follows(WithStation(d, id, station), d)
<1> DEFINE e == WithStation(d, id, station)
<1>1. e.stations = Put(d.stations, id, station) /\ e.cursors = d.cursors
  BY WithFields DEF SoundSnapshot
<1> HIDE DEF e
<1>2. Follows(e, d)
  BY <1>1, SoundCursors DEF Follows, Put
<1>3. ASSUME NEW s \in DOMAIN e.stations
      PROVE  Shown(e, s, e.stations[s])
  <2>1. CASE s = id
    BY <1>1, <1>2, <2>1, FollowsShown DEF Put
  <2>2. CASE s # id
    <3>1. s \in DOMAIN d.stations /\ e.stations[s] = d.stations[s]
      BY <1>1, <2>2 DEF Put
    <3> QED BY <1>2, <3>1, FollowsShown DEF AllShown
  <2> QED BY <2>1, <2>2
<1> QED BY <1>2, <1>3 DEF AllShown, e

\* So does a commit, which makes the end of its batch a cursor.
LEMMA AppliedShown ==
    ASSUME NEW d, SoundSnapshot(d), AllShown(d), NEW b \in Batches,
           BatchValid(b), NEW now \in Times,
           b.stationId \in DOMAIN d.stations,
           FirstSequence(b) = d.cursors[b.stationId] + 1
    PROVE  AllShown(Applied(d, b, now)) /\ Follows(Applied(d, b, now), d)
<1> DEFINE e == Applied(d, b, now)
           id == b.stationId
           last == LastSequence(b)
           station == [d.stations[id] EXCEPT !.lastSequence = last,
                                             !.failureCount = 0]
<1>1. e.stations = Put(d.stations, id, station)
      /\ e.cursors = Put(d.cursors, id, last) /\ SoundSnapshot(e)
  BY AppliedSound DEF Applied
<1>2. last \in Nat /\ d.cursors[id] \in Nat /\ d.cursors[id] <= last
  <2>1. b \in ReadingBatch
    BY StoreAssumption
  <2>2. Len(b.readings) \in Nat \ {0} /\ d.cursors[id] \in Nat
    BY <2>1, ValidBatch, SoundCursors
  <2>3. last = d.cursors[id] + 1 + Len(b.readings) - 1
    BY <2>1, ValidBatch
  <2> HIDE DEF last, id
  <2>4. ASSUME NEW n \in Nat \ {0}, NEW c \in Nat, last = c + 1 + n - 1
        PROVE  last \in Nat /\ c <= last
    BY <2>4
  <2> QED BY <2>2, <2>3, <2>4
<1>3. station = [status |-> d.stations[id].status, lastSequence |-> last,
                 failureCount |-> 0]
      /\ d.stations[id].status \in Statuses
  <2>1. d.stations[id] \in Station
    BY DEF SoundSnapshot, IsDiskState, IsMap
  <2>2. PICK st \in Station : d.stations[id] = st
    BY <2>1
  <2>3. station = [st EXCEPT !.lastSequence = last, !.failureCount = 0]
    BY <2>2
  <2> HIDE DEF last, station, id
  <2>4. st.status \in Statuses
        /\ st = [status |-> st.status, lastSequence |-> st.lastSequence,
                 failureCount |-> st.failureCount]
    BY DEF Station
  <2>5. station = [status |-> st.status, lastSequence |-> last,
                   failureCount |-> 0]
    BY <2>3, <2>4
  <2> QED BY <2>2, <2>4, <2>5
<1> HIDE DEF e, last, station
<1>4. Follows(e, d)
  BY <1>1, <1>2, SoundCursors DEF Follows, Put
<1>5. Shown(e, id, station)
  <2>1. last \in {LastSequence(c) : c \in {x \in Batches : x.stationId = id}}
    BY DEF last
  <2>2. e.cursors[id] = last /\ id \in DOMAIN e.stations
    BY <1>1 DEF Put
  <2>3. last \in 0 .. e.cursors[id] /\ 0 \in 0 .. MaxFailures
    BY <1>2, <2>2, StoreAssumption
  <2> QED BY <1>3, <2>1, <2>2, <2>3 DEF Shown, HeldCopies
<1>6. ASSUME NEW s \in DOMAIN e.stations
      PROVE  Shown(e, s, e.stations[s])
  <2>1. CASE s = id
    BY <1>1, <1>5, <2>1 DEF Put
  <2>2. CASE s # id
    <3>1. s \in DOMAIN d.stations /\ e.stations[s] = d.stations[s]
      BY <1>1, <2>2 DEF Put
    <3> QED BY <1>4, <3>1, FollowsShown DEF AllShown
  <2> QED BY <2>1, <2>2
<1> QED BY <1>4, <1>6 DEF AllShown, e

\* A batch record concerns no station.
LEMMA RecordShown ==
    ASSUME NEW d, SoundSnapshot(d), AllShown(d), NEW bid, NEW r
    PROVE  /\ AllShown(WithRecord(d, bid, r))
           /\ Follows(WithRecord(d, bid, r), d)
           /\ WithRecord(d, bid, r).stations = d.stations
<1> DEFINE e == WithRecord(d, bid, r)
<1>1. e.stations = d.stations /\ e.cursors = d.cursors
  BY WithFields DEF SoundSnapshot
<1> HIDE DEF e
<1>2. Follows(e, d)
  BY <1>1, SoundCursors DEF Follows
<1>3. AllShown(e)
  BY <1>1 DEF AllShown, Shown, HeldCopies
<1> QED BY <1>1, <1>2, <1>3 DEF e

-----------------------------------------------------------------------------
\* Nothing is registered and no call has begun.
LEMMA ServiceInitInv == ServiceInit => ServiceInv
<1> SUFFICES ASSUME ServiceInit PROVE ServiceInv
  OBVIOUS
<1>1. StoreInv /\ held = EmptyMap /\ state = EmptyState /\ disk = EmptyState
  BY InitInv DEF ServiceInit, StoreInit
<1>2. AllShown(EmptyState) /\ CopiesShown
  BY <1>1 DEF AllShown, CopiesShown, EmptyState, EmptyMap
<1> QED BY <1>1, <1>2, ServiceInvParts, EmptyMapType

\* A step under which snapshots keep showing only what was shown, and no
\* operator takes a copy, preserves the invariant.
LEMMA CopiesKept ==
    ASSUME ServiceInv, StoreInv', AllShown(state'), AllShown(disk'),
           Follows(state', state), mode' = mode,
           \/ held' = held
           \/ \E o : o \in DOMAIN held /\ Leave(o)
    PROVE  ServiceInv'
<1>1. /\ IsMap(held, Operators, Copy) /\ CopiesShown
      /\ mode = "down" => held = EmptyMap
  BY ServiceInvParts
<1>2. /\ DOMAIN held' \subseteq DOMAIN held
      /\ \A o \in DOMAIN held' : held'[o] = held[o]
      /\ held' = [o \in DOMAIN held' |-> held'[o]]
  BY <1>1 DEF Leave, IsMap
<1>3. IsMap(held', Operators, Copy)
  BY <1>1, <1>2 DEF IsMap
<1>4. ASSUME NEW o \in DOMAIN held'
      PROVE  Shown(state', held'[o].id, held'[o].station)
  BY <1>1, <1>2, <1>4, FollowsShown DEF CopiesShown
<1>5. mode' = "down" => held' = EmptyMap
  BY <1>1, <1>2 DEF EmptyMap
<1> QED BY <1>3, <1>4, <1>5 DEF ServiceInv, AllShown, Shown

\* A sound snapshot follows itself.
LEMMA FollowsItself ==
    ASSUME NEW d, SoundSnapshot(d)
    PROVE  Follows(d, d)
BY SoundCursors DEF Follows

\* An operator takes a copy that is shown.
LEMMA CopyTaken ==
    ASSUME ServiceInv, StoreInv', Ready, NEW o \in Operators, Free(o),
           NEW id \in DOMAIN state.stations, NEW station \in HeldCopies(state, id),
           Take(o, id, station)
    PROVE  ServiceInv'
<1>1. /\ IsMap(held, Operators, Copy) /\ CopiesShown /\ StoreInv
      /\ AllShown(state) /\ AllShown(disk)
  BY ServiceInvParts
<1> DEFINE copy == [id |-> id, station |-> station]
<1>2. state' = state /\ disk' = disk /\ mode' = mode /\ held' = Put(held, o, copy)
  BY DEF Take, storeVars
<1>3. /\ IsDiskState(state) /\ id \in StationIds
      /\ DOMAIN state.stations = DOMAIN state.cursors
  BY <1>1, InvIsSoundness, SoundCursors DEF SoundSnapshot, IsDiskState, IsMap
<1>4. copy \in Copy
  BY <1>3, ShownFields DEF Copy
<1>5. copy.id = id /\ copy.station = station
  OBVIOUS
<1> HIDE DEF copy
<1>6. IsMap(held', Operators, Copy)
  BY <1>1, <1>2, <1>4, PutType
<1>7. ASSUME NEW x \in DOMAIN held'
      PROVE  Shown(state, held'[x].id, held'[x].station)
  <2>1. CASE x = o
    BY <1>2, <1>5, <2>1 DEF Put, Shown
  <2>2. CASE x # o
    BY <1>1, <1>2, <2>2 DEF Put, CopiesShown
  <2> QED BY <2>1, <2>2
<1>8. mode' # "down"
  BY <1>2 DEF Ready
<1> QED BY <1>1, <1>2, <1>6, <1>7, <1>8 DEF ServiceInv, AllShown, Shown

\* Every step of the service preserves the invariant.
LEMMA ServiceStepInv == ServiceInv /\ [ServiceNext]_serviceVars => ServiceInv'
<1> SUFFICES ASSUME ServiceInv, [ServiceNext]_serviceVars
             PROVE  ServiceInv'
  OBVIOUS
<1>1. /\ StoreInv /\ IsMap(held, Operators, Copy)
      /\ AllShown(state) /\ AllShown(disk) /\ CopiesShown
      /\ SoundSnapshot(state) /\ SoundSnapshot(disk)
  BY ServiceInvParts, InvIsSoundness
<1>2. StoreInv'
  BY <1>1, ServiceStepIsStoreStep, StepInv
<1>3. ASSUME NEW o \in Operators, NEW id \in StationIds, NEW to \in Statuses,
             ChangeStatus(o, id, to)
      PROVE  ServiceInv'
  <2>1. Ready /\ Free(o) /\ id \in DOMAIN state.stations
        /\ Take(o, id, [state.stations[id] EXCEPT !.status = to])
    BY <1>3 DEF ChangeStatus
  <2>2. PICK st \in HeldCopies(state, id) : state.stations[id] = st
    BY <1>1, <2>1 DEF AllShown, Shown
  <2>3. st.failureCount \in 0 .. MaxFailures
        /\ st = [status |-> st.status, lastSequence |-> st.lastSequence,
                 failureCount |-> st.failureCount]
    BY DEF HeldCopies
  <2>4. [st EXCEPT !.status = to] =
          [status |-> to, lastSequence |-> st.lastSequence,
           failureCount |-> st.failureCount]
    BY <2>3
  <2>5. [st EXCEPT !.status = to] \in HeldCopies(state, id)
    BY <2>3, <2>4, ShownChanged
  <2> QED BY <1>2, <2>1, <2>2, <2>5, CopyTaken
<1>4. ASSUME NEW o \in Operators, NEW id \in StationIds, RecordFailure(o, id)
      PROVE  ServiceInv'
  <2>1. Ready /\ Free(o) /\ id \in DOMAIN state.stations
        /\ state.stations[id].failureCount < MaxFailures
    BY <1>4 DEF RecordFailure
  <2>2. PICK st \in HeldCopies(state, id) : state.stations[id] = st
    BY <1>1, <2>1 DEF AllShown, Shown
  <2>3. st.failureCount \in 0 .. MaxFailures /\ st.status \in Statuses
        /\ st = [status |-> st.status, lastSequence |-> st.lastSequence,
                 failureCount |-> st.failureCount]
    BY DEF HeldCopies
  <2> DEFINE n == st.failureCount + 1
             to == IF n >= 3 /\ st.status = "active" THEN "paused" ELSE st.status
  <2>4. n \in 0 .. MaxFailures
    BY <2>1, <2>2, <2>3, StoreAssumption
  <2>5. Take(o, id, [st EXCEPT !.failureCount = n, !.status = to])
    BY <1>4, <2>2 DEF RecordFailure
  <2>6. to \in Statuses
    BY <2>3 DEF Statuses
  <2> HIDE DEF n, to
  <2>7. [st EXCEPT !.failureCount = n, !.status = to] =
          [status |-> to, lastSequence |-> st.lastSequence, failureCount |-> n]
    <3> DEFINE counted == [st EXCEPT !.failureCount = n]
    <3>1. counted = [status |-> st.status, lastSequence |-> st.lastSequence,
                     failureCount |-> n]
      BY <2>3
    <3>2. [st EXCEPT !.failureCount = n, !.status = to] =
            [counted EXCEPT !.status = to]
      BY <2>3
    <3> HIDE DEF counted
    <3>3. [counted EXCEPT !.status = to] =
            [status |-> to, lastSequence |-> counted.lastSequence,
             failureCount |-> counted.failureCount]
      BY <3>1
    <3> QED BY <3>1, <3>2, <3>3
  <2>8. [st EXCEPT !.failureCount = n, !.status = to] \in HeldCopies(state, id)
    BY <2>4, <2>6, <2>7, ShownChanged
  <2> QED BY <1>2, <2>1, <2>5, <2>8, CopyTaken
<1>5. ASSUME NEW o \in Operators, NEW ok \in BOOLEAN, WriteBack(o, ok)
      PROVE  ServiceInv'
  <2> DEFINE id == held[o].id
             station == held[o].station
  <2>1. /\ o \in DOMAIN held /\ Leave(o) /\ mode' = mode
        /\ state' = WithStation(state, id, station)
        /\ disk' = state' \/ disk' = disk
    BY <1>5 DEF WriteBack, SetStation, Persist
  <2>2. Shown(state, id, station)
    BY <1>1, <2>1 DEF CopiesShown
  <2> HIDE DEF id, station
  <2>3. AllShown(state') /\ Follows(state', state)
    BY <1>1, <2>1, <2>2, WrittenShown
  <2> QED BY <1>1, <1>2, <2>1, <2>3, CopiesKept
<1>6. ASSUME NEW o \in Operators, GiveUp(o)
      PROVE  ServiceInv'
  BY <1>1, <1>2, <1>6, CopiesKept, FollowsItself DEF GiveUp, storeVars
<1>7. ASSUME NEW id \in StationIds, NEW ok \in BOOLEAN,
             RegisterStation(id, ok), UNCHANGED held
      PROVE  ServiceInv'
  <2>1. /\ state' = Registered(state, id) /\ id \notin DOMAIN state.stations
        /\ mode' = mode /\ (disk' = state' \/ disk' = disk)
    BY <1>7 DEF RegisterStation, Registered, Persist
  <2>2. AllShown(state') /\ Follows(state', state)
    BY <1>1, <2>1, RegisteredShown
  <2> QED BY <1>1, <1>2, <1>7, <2>1, <2>2, CopiesKept
<1>8. ASSUME NEW b \in Batches, NEW now \in Times, CommitApplied(b, now),
             UNCHANGED held
      PROVE  ServiceInv'
  <2>1. /\ BatchValid(b) /\ b.stationId \in DOMAIN state.stations
        /\ FirstSequence(b) = state.cursors[b.stationId] + 1
        /\ state' = Applied(state, b, now) /\ disk' = state' /\ mode' = mode
    BY <1>8 DEF CommitApplied, Admissible, Expected, Persist
  <2>2. AllShown(state') /\ Follows(state', state)
    BY <1>1, <2>1, AppliedShown
  <2> QED BY <1>1, <1>2, <1>8, <2>1, <2>2, CopiesKept
<1>9. ASSUME NEW b \in Batches, NEW now \in Times, NEW ok \in BOOLEAN,
             CommitFaulted(b, now, ok), UNCHANGED held
      PROVE  ServiceInv'
  <2> DEFINE r == Record(b, "failed", now)
  <2>1. /\ state' = WithRecord(state, b.id, r) /\ mode' = mode
        /\ disk' = state' \/ disk' = disk
    BY <1>9 DEF CommitFaulted, Persist
  <2> HIDE DEF r
  <2>2. AllShown(state') /\ Follows(state', state)
    BY <1>1, <2>1, RecordShown
  <2> QED BY <1>1, <1>2, <1>9, <2>1, <2>2, CopiesKept
<1>10. ASSUME NEW b \in Batches,
              CommitDuplicate(b) \/ CommitUnwritten(b) \/ CommitRefused(b),
              UNCHANGED held
       PROVE  ServiceInv'
  <2>1. state' = state /\ disk' = disk /\ mode' = mode
    BY <1>10 DEF CommitDuplicate, CommitUnwritten, CommitRefused, storeVars
  <2> QED BY <1>1, <1>2, <1>10, <2>1, CopiesKept, FollowsItself
<1>11. ASSUME OpenFile, UNCHANGED held
       PROVE  ServiceInv'
  <2>1. held' = EmptyMap /\ state' = disk /\ disk' = disk /\ mode' # "down"
    BY <1>11, ServiceInvParts DEF OpenFile
  <2> QED BY <1>1, <1>2, <2>1, EmptyMapType
          DEF ServiceInv, AllShown, Shown, EmptyMap
<1>12. ASSUME Close, UNCHANGED held
       PROVE  ServiceInv'
  <2>1. state' = state /\ disk' = disk /\ mode' # "down" /\ held' = held
    BY <1>12 DEF Close
  <2> QED BY <1>1, <1>2, <2>1 DEF ServiceInv, AllShown, CopiesShown, Shown
<1>13. ASSUME Crash, held' = EmptyMap
       PROVE  ServiceInv'
  <2>1. state' = EmptyState /\ disk' = disk
    BY <1>13 DEF Crash
  <2>2. AllShown(EmptyState)
    BY DEF AllShown, EmptyState, EmptyMap
  <2> QED BY <1>1, <1>2, <1>13, <2>1, <2>2, EmptyMapType
          DEF ServiceInv, AllShown, Shown, EmptyMap
<1>14. CASE UNCHANGED serviceVars
  <2>1. state' = state /\ disk' = disk /\ mode' = mode /\ held' = held
    BY <1>14 DEF serviceVars
  <2> QED BY <1>1, <1>2, <2>1, CopiesKept, FollowsItself
<1>15. ASSUME NEW bid \in BatchIds, NEW now \in Times, NEW ok \in BOOLEAN,
              MarkBatchFailed(bid, now, ok), UNCHANGED held
       PROVE  ServiceInv'
  <2> DEFINE r == Record(state.batches[bid].batch, "failed", now)
  <2>1. /\ state' = WithRecord(state, bid, r) /\ mode' = mode
        /\ disk' = state' \/ disk' = disk
    BY <1>15 DEF MarkBatchFailed, Persist
  <2> HIDE DEF r
  <2>2. AllShown(state') /\ Follows(state', state)
    BY <1>1, <2>1, RecordShown
  <2> QED BY <1>1, <1>2, <1>15, <2>1, <2>2, CopiesKept
<1>16. ASSUME NEW plan \in FaultPlans, SetFaultPlan(plan), UNCHANGED held
       PROVE  ServiceInv'
  BY <1>1, <1>2, <1>16, CopiesKept, FollowsItself DEF SetFaultPlan
<1>17. ASSUME NEW o \in Operators, Operate(o)
       PROVE  ServiceInv'
  BY <1>3, <1>4, <1>5, <1>6, <1>17 DEF Operate
<1>18. ASSUME Meanwhile, UNCHANGED held
       PROVE  ServiceInv'
  BY <1>7, <1>8, <1>9, <1>10, <1>11, <1>12, <1>18, <1>15, <1>16
     DEF Meanwhile, CommitBatch
<1> QED BY <1>13, <1>14, <1>17, <1>18 DEF ServiceNext
-----------------------------------------------------------------------------
\* The invariant of the composition.
THEOREM ServiceInvariance == ServiceSpec => []ServiceInv
BY ServiceInitInv, ServiceStepInv, PTL DEF ServiceSpec

\* The type invariant of the composition.
THEOREM ServiceTypeCorrect == ServiceSpec => []ServiceTypeOK
<1>1. ServiceInv => ServiceTypeOK
  BY DEF ServiceInv, ServiceTypeOK, StoreInv
<1> QED BY <1>1, ServiceInvariance, PTL

\* CheckConsistency can report of a sound snapshot only that the record of a
\* station lags behind its cursor.
LEMMA OnlyLagsAreProblems ==
    ASSUME NEW d, SoundSnapshot(d), AllShown(d)
    PROVE  Problems(d) =
             {s \in DOMAIN d.stations : d.stations[s].lastSequence < d.cursors[s]}
<1> SUFFICES ASSUME NEW s \in DOMAIN d.stations
             PROVE  s \in Problems(d) <=> d.stations[s].lastSequence < d.cursors[s]
  BY DEF Problems
<1>1. /\ DOMAIN d.stations = DOMAIN d.cursors /\ IsDiskState(d)
      /\ d.stations[s] \in HeldCopies(d, s) /\ s \in StationIds
  BY SoundCursors DEF SoundSnapshot, AllShown, Shown, IsDiskState, IsMap
<1>2. /\ d.stations[s] \in Station
      /\ d.stations[s].lastSequence <= d.cursors[s] /\ d.cursors[s] \in Nat
  BY <1>1, ShownFields
<1>3. d.stations[s].lastSequence \in Nat
  BY <1>2 DEF Station
<1> DEFINE rows == d.readings[s]
<1>4. /\ rows \in Seq(Reading) /\ d.cursors[s] = Len(rows)
      /\ \A i \in DOMAIN rows : rows[i].sequence = i
  BY <1>1 DEF SoundSnapshot, CursorDescribes, IsDiskState
<1>5. rows # <<>> => Last(rows).sequence = d.cursors[s]
  <2> HIDE DEF rows
  <2> SUFFICES ASSUME rows # <<>> PROVE Last(rows).sequence = Len(rows)
    BY <1>4
  <2>1. Len(rows) \in DOMAIN rows
    BY <1>4, EmptySeq, LenProperties
  <2> QED BY <1>4, <2>1 DEF Last
<1> HIDE DEF rows
<1> QED BY <1>1, <1>2, <1>3, <1>5 DEF Problems, rows

\* No copy claims more than the cursor, however late it is written back, and
\* lost updates are all that the consistency check finds.
THEOREM CopiesNeverAhead == ServiceSpec => []NeverAhead
<1>1. ASSUME ServiceInv
      PROVE  NeverAhead
  <2>1. /\ AllShown(state) /\ AllShown(disk) /\ CopiesShown
        /\ SoundSnapshot(state) /\ SoundSnapshot(disk)
    BY <1>1, ServiceInvParts, InvIsSoundness
  <2>2. ASSUME NEW d \in {state, disk}, NEW id, NEW station,
               Shown(d, id, station)
        PROVE  station.lastSequence <= d.cursors[id]
    <3>1. IsDiskState(d) /\ DOMAIN d.stations = DOMAIN d.cursors
      BY <2>1, SoundCursors DEF SoundSnapshot
    <3> QED BY <2>2, <3>1, ShownFields DEF Shown
  <2>3. Problems(state) = {s \in DOMAIN state.stations : Lagging(s)}
    BY <2>1, OnlyLagsAreProblems DEF Lagging
  <2> QED BY <2>1, <2>2, <2>3 DEF NeverAhead, AllShown, CopiesShown
<1> QED BY <1>1, ServiceInvariance, PTL

\* Only a copy from before the last commit makes CheckConsistency report what
\* it did not report before.
THEOREM ProblemsAreLostUpdates == ServiceSpec => ProblemsHaveACause
<1> DEFINE Lags(d, s) == /\ s \in DOMAIN d.stations
                         /\ d.stations[s].lastSequence < d.cursors[s]
<1>1. ASSUME ServiceInv, ServiceInv', [ServiceNext]_serviceVars,
             NEW s \in StationIds, Ready, Ready',
             s \notin Problems(state), s \in Problems(state')
      PROVE  OlderCopyWritten(s)
  <2>1. /\ SoundSnapshot(state) /\ SoundSnapshot(state')
        /\ AllShown(state) /\ AllShown(state')
        /\ IsDiskState(state) /\ DOMAIN state.stations = DOMAIN state.cursors
    BY <1>1, SoundCursors DEF ServiceInv, StoreInv, AllShown, SoundSnapshot,
       TypeOK, CursorsAreReadable, CommittedIsReadable
  <2>2. ~Lags(state, s) /\ Lags(state', s)
    BY <1>1, <2>1, OnlyLagsAreProblems
  <2>3. ASSUME state'.stations = state.stations, state'.cursors = state.cursors
        PROVE  FALSE
    BY <2>2, <2>3
  <2>4. ASSUME NEW bid, NEW r, state' = WithRecord(state, bid, r)
        PROVE  FALSE
    BY <2>1, <2>3, <2>4, WithFields
  <2>5. ASSUME NEW o \in Operators, NEW ok \in BOOLEAN, WriteBack(o, ok)
        PROVE  OlderCopyWritten(s)
    <3>1. /\ o \in DOMAIN held
          /\ state' = WithStation(state, held[o].id, held[o].station)
      BY <2>5 DEF WriteBack, SetStation
    <3>2. /\ state'.stations = Put(state.stations, held[o].id, held[o].station)
          /\ state'.cursors = state.cursors
      BY <2>1, <3>1, WithFields
    <3>3. held[o].id = s
      BY <2>1, <2>2, <3>2 DEF Put
    <3>4. held[o].station.lastSequence < state.cursors[s]
      BY <2>2, <3>2, <3>3 DEF Put
    <3>5. o \notin DOMAIN held'
      BY <2>5 DEF WriteBack, Leave
    <3> QED BY <3>1, <3>3, <3>4, <3>5 DEF OlderCopyWritten
  <2>6. ASSUME NEW id \in StationIds, NEW ok \in BOOLEAN,
               RegisterStation(id, ok)
        PROVE  FALSE
    <3>1. state' = Registered(state, id) /\ id \notin DOMAIN state.stations
      BY <2>6 DEF RegisterStation, Registered
    <3>2. /\ state'.stations = Put(state.stations, id, NewStation)
          /\ state'.cursors = Put(state.cursors, id, 0)
      BY <2>1, <3>1, WithFields DEF Registered
    <3>3. id = s
      BY <2>1, <2>2, <3>2 DEF Put
    <3>4. state'.stations[s].lastSequence = 0 /\ state'.cursors[s] = 0
      BY <3>2, <3>3 DEF Put, NewStation
    <3> QED BY <2>2, <3>4
  <2>7. ASSUME NEW b \in Batches, NEW now \in Times, CommitApplied(b, now)
        PROVE  FALSE
    <3> DEFINE t == b.stationId
               station == [state.stations[t] EXCEPT !.lastSequence = LastSequence(b),
                                                    !.failureCount = 0]
    <3>1. /\ state' = Applied(state, b, now) /\ t \in DOMAIN state.stations
          /\ BatchValid(b)
      BY <2>7 DEF CommitApplied, Admissible
    <3>2. /\ state'.stations = Put(state.stations, t, station)
          /\ state'.cursors = Put(state.cursors, t, LastSequence(b))
      BY <3>1 DEF Applied
    <3>3. station.lastSequence = LastSequence(b)
      <4>1. state.stations[t] \in Station
        BY <2>1, <3>1 DEF IsDiskState, IsMap
      <4> QED BY <4>1 DEF Station
    <3>4. LastSequence(b) \in Nat
      BY <3>1, ValidBatch, StoreAssumption
    <3> HIDE DEF station
    <3>5. t = s
      BY <2>1, <2>2, <3>2 DEF Put
    <3>6. state'.stations[s].lastSequence = state'.cursors[s]
          /\ state'.cursors[s] \in Nat
      BY <3>2, <3>3, <3>4, <3>5 DEF Put
    <3> QED BY <2>2, <3>6
  <2>8. ASSUME NEW b \in Batches, NEW now \in Times, CommitBatch(b, now)
        PROVE  FALSE
    <3>1. CASE \E ok \in BOOLEAN : CommitFaulted(b, now, ok)
      BY <2>4, <3>1 DEF CommitFaulted
    <3>2. CASE CommitDuplicate(b) \/ CommitUnwritten(b) \/ CommitRefused(b)
      BY <2>3, <3>2 DEF CommitDuplicate, CommitUnwritten, CommitRefused, storeVars
    <3> QED BY <2>7, <2>8, <3>1, <3>2 DEF CommitBatch
  <2>9. ASSUME NEW bid, NEW now, NEW ok, MarkBatchFailed(bid, now, ok)
        PROVE  FALSE
    BY <2>4, <2>9 DEF MarkBatchFailed
  <2>10. ASSUME NEW o \in Operators, Operate(o)
         PROVE  OlderCopyWritten(s)
    BY <2>3, <2>5, <2>10 DEF Operate, ChangeStatus, RecordFailure, Take, GiveUp,
                             storeVars
  <2>11. CASE Meanwhile
    BY <1>1, <2>3, <2>6, <2>8, <2>9, <2>11
       DEF Meanwhile, SetFaultPlan, OpenFile, Close, Ready
  <2>12. CASE Crash
    BY <1>1, <2>12 DEF Crash, Ready
  <2>13. CASE UNCHANGED serviceVars
    BY <2>3, <2>13 DEF serviceVars
  <2> QED BY <1>1, <2>10, <2>11, <2>12, <2>13 DEF ServiceNext
<1>2. ServiceInv /\ ServiceInv' /\ [ServiceNext]_serviceVars =>
        \A s \in StationIds :
          Ready /\ Ready' /\ s \notin Problems(state) /\ s \in Problems(state')
            => OlderCopyWritten(s)
  BY <1>1
<1> QED BY <1>2, ServiceInvariance, PTL DEF ServiceSpec, ProblemsHaveACause

\* A snapshot in which every station record agrees with its cursor.
InStep(d) == \A s \in DOMAIN d.stations : d.stations[s].lastSequence = d.cursors[s]

\* Commits, registrations and records keep a snapshot in step.
LEMMA RegisteredInStep ==
    ASSUME NEW d, IsDiskState(d), DOMAIN d.stations = DOMAIN d.cursors,
           InStep(d), NEW id
    PROVE  InStep(Registered(d, id))
<1>1. /\ Registered(d, id).stations = Put(d.stations, id, NewStation)
      /\ Registered(d, id).cursors = Put(d.cursors, id, 0)
  BY WithFields DEF Registered
<1> QED BY <1>1 DEF InStep, Put, NewStation

LEMMA AppliedInStep ==
    ASSUME NEW d, IsDiskState(d), DOMAIN d.stations = DOMAIN d.cursors,
           InStep(d), NEW b, b.stationId \in DOMAIN d.stations, NEW now
    PROVE  InStep(Applied(d, b, now))
<1> DEFINE t == b.stationId
           station == [d.stations[t] EXCEPT !.lastSequence = LastSequence(b),
                                            !.failureCount = 0]
<1>1. /\ Applied(d, b, now).stations = Put(d.stations, t, station)
      /\ Applied(d, b, now).cursors = Put(d.cursors, t, LastSequence(b))
  BY DEF Applied
<1>2. station.lastSequence = LastSequence(b)
  <2>1. d.stations[t] \in Station
    BY DEF IsDiskState, IsMap
  <2> QED BY <2>1 DEF Station
<1> HIDE DEF station
<1> QED BY <1>1, <1>2 DEF InStep, Put

LEMMA RecordInStep ==
    ASSUME NEW d, IsDiskState(d), InStep(d), NEW bid, NEW r
    PROVE  InStep(WithRecord(d, bid, r))
BY WithFields DEF InStep

\* While nobody uses the station service, commits, registrations, failure
\* marks and restarts, with failed writes among them, never give
\* CheckConsistency (maintenance.go:18-50) anything to report.
THEOREM StoreStaysConsistent ==
    ASSUME Operators = {}
    PROVE  ServiceSpec => []NoProblems
<1> DEFINE Consistent == InStep(state) /\ InStep(disk)
<1>1. ServiceInit => Consistent
  BY DEF ServiceInit, StoreInit, EmptyState, EmptyMap, InStep
<1>2. ASSUME ServiceInv, Consistent, [ServiceNext]_serviceVars
      PROVE  Consistent'
  <2>1. /\ IsDiskState(state) /\ DOMAIN state.stations = DOMAIN state.cursors
    BY <1>2, ServiceInvParts, InvIsSoundness, SoundCursors DEF SoundSnapshot
  <2>2. ASSUME NEW d, InStep(d), state' = d, disk' = d \/ disk' = disk
        PROVE  Consistent'
    BY <1>2, <2>2
  <2>3. ASSUME NEW id \in StationIds, NEW ok \in BOOLEAN,
               RegisterStation(id, ok)
        PROVE  Consistent'
    <3>1. /\ state' = Registered(state, id)
          /\ disk' = state' \/ disk' = disk
      BY <2>3 DEF RegisterStation, Registered, Persist
    <3>2. InStep(Registered(state, id))
      BY <1>2, <2>1, RegisteredInStep
    <3> QED BY <2>2, <3>1, <3>2
  <2>4. ASSUME NEW b \in Batches, NEW now \in Times, CommitBatch(b, now)
        PROVE  Consistent'
    <3>1. CASE CommitApplied(b, now)
      <4>1. /\ state' = Applied(state, b, now) /\ disk' = state'
            /\ b.stationId \in DOMAIN state.stations
        BY <3>1 DEF CommitApplied, Admissible, Persist
      <4> QED BY <1>2, <2>1, <2>2, <4>1, AppliedInStep
    <3>2. ASSUME NEW ok \in BOOLEAN, CommitFaulted(b, now, ok)
          PROVE  Consistent'
      <4>1. /\ state' = WithRecord(state, b.id, Record(b, "failed", now))
            /\ disk' = state' \/ disk' = disk
        BY <3>2 DEF CommitFaulted, Persist
      <4> QED BY <1>2, <2>1, <2>2, <4>1, RecordInStep
    <3>3. CASE CommitDuplicate(b) \/ CommitUnwritten(b) \/ CommitRefused(b)
      BY <1>2, <2>2, <3>3 DEF CommitDuplicate, CommitUnwritten, CommitRefused,
                              storeVars
    <3> QED BY <2>4, <3>1, <3>2, <3>3 DEF CommitBatch
  <2>5. ASSUME NEW bid \in BatchIds, NEW now \in Times, NEW ok \in BOOLEAN,
               MarkBatchFailed(bid, now, ok)
        PROVE  Consistent'
    <3>1. /\ state' = WithRecord(state, bid,
                         Record(state.batches[bid].batch, "failed", now))
          /\ disk' = state' \/ disk' = disk
      BY <2>5 DEF MarkBatchFailed, Persist
    <3> QED BY <1>2, <2>1, <2>2, <3>1, RecordInStep
  <2>6. CASE OpenFile \/ Close \/ \E plan \in FaultPlans : SetFaultPlan(plan)
    BY <1>2, <2>2, <2>6 DEF OpenFile, Close, SetFaultPlan
  <2>7. CASE Crash
    BY <1>2, <2>7 DEF Crash, EmptyState, EmptyMap, InStep
  <2>8. CASE UNCHANGED serviceVars
    BY <1>2, <2>2, <2>8 DEF serviceVars
  <2> QED BY <1>2, <2>3, <2>4, <2>5, <2>6, <2>7, <2>8 DEF ServiceNext, Meanwhile
<1>3. ASSUME ServiceInv, Consistent
      PROVE  NoProblems
  <2> SUFFICES ASSUME NEW s \in DOMAIN state.stations,
                      state.stations[s].lastSequence < state.cursors[s]
               PROVE  FALSE
    BY <1>3, ServiceInvParts, InvIsSoundness, OnlyLagsAreProblems
       DEF NoProblems
  <2>1. state.cursors[s] \in Nat
    BY <1>3, ServiceInvParts, InvIsSoundness, SoundCursors
       DEF SoundSnapshot, IsDiskState, IsMap
  <2> QED BY <1>3, <2>1 DEF InStep
<1> QED BY <1>1, <1>2, <1>3, ServiceInvariance, PTL DEF ServiceSpec

\* The service is a client of the store as FileStore describes one: whatever
\* is proved of StoreSpec holds of the composition.
THEOREM ServiceRespectsStore == ServiceSpec => StoreIsRespected
<1>1. ServiceInit => StoreInit
  BY DEF ServiceInit
<1> QED BY <1>1, ServiceStepIsStoreStep, ServiceInvariance, PTL
        DEF ServiceSpec, StoreIsRespected, StoreSpec
-----------------------------------------------------------------------------
\* A step that keeps the status of the stations each snapshot knows, with the
\* file left alone or made equal to memory, keeps a settled retirement, given
\* that no outdated copy appears.
LEMMA RetirementKept ==
    ASSUME NEW s, SettledRetired(s), Ready, Ready',
           Retired(state', s), disk' = state' \/ disk' = disk
    PROVE  SettledRetired(s)'
BY DEF SettledRetired, Retired, Ready

\* Writing to another station, or a retired copy, leaves a station retired.
LEMMA RetiredWritten ==
    ASSUME NEW d, IsDiskState(d), NEW s, Retired(d, s),
           NEW id, NEW station, id = s => station.status = "retired"
    PROVE  Retired(WithStation(d, id, station), s)
<1>1. WithStation(d, id, station).stations = Put(d.stations, id, station)
  BY WithFields
<1> QED BY <1>1 DEF Retired, Put

\* Every step of the service keeps a settled retirement for good.
LEMMA RetirementStep ==
    ASSUME ServiceInv, [ServiceNext]_serviceVars, NEW s \in StationIds,
           SettledRetired(s), ~OutdatedCopy(s)
    PROVE  SettledRetired(s)' /\ ~OutdatedCopy(s)'
<1>1. /\ IsMap(held, Operators, Copy)
      /\ SoundSnapshot(state) /\ SoundSnapshot(disk) /\ IsDiskState(state)
  BY ServiceInvParts, InvIsSoundness DEF SoundSnapshot
<1>2. Ready => Retired(state, s)
  BY DEF SettledRetired, Ready
<1>3. ASSUME UNCHANGED held
      PROVE  ~OutdatedCopy(s)'
  BY <1>3 DEF OutdatedCopy
<1>4. ASSUME NEW o, Leave(o)
      PROVE  ~OutdatedCopy(s)'
  BY <1>4 DEF OutdatedCopy, Leave
<1>5. ASSUME NEW o, NEW id \in DOMAIN state.stations, NEW station, Ready,
             Take(o, id, station),
             state.stations[id].status = "retired" => station.status = "retired"
      PROVE  SettledRetired(s)' /\ ~OutdatedCopy(s)'
  <2> DEFINE copy == [id |-> id, station |-> station]
  <2>1. /\ state' = state /\ disk' = disk /\ mode' = mode
        /\ held' = Put(held, o, copy)
    BY <1>5 DEF Take, storeVars
  <2>2. copy.id = s => copy.station.status = "retired"
    BY <1>2, <1>5 DEF Retired
  <2> HIDE DEF copy
  <2>3. ~OutdatedCopy(s)'
    BY <2>1, <2>2 DEF OutdatedCopy, Put
  <2> QED BY <2>1, <2>3 DEF SettledRetired, Retired
<1>6. ASSUME state' = state, disk' = disk, mode' = mode
      PROVE  SettledRetired(s)'
  BY <1>6 DEF SettledRetired, Retired
<1>7. ASSUME NEW o \in Operators, NEW id \in StationIds, NEW to \in Statuses,
             ChangeStatus(o, id, to)
      PROVE  SettledRetired(s)' /\ ~OutdatedCopy(s)'
  <2>1. /\ Ready /\ id \in DOMAIN state.stations
        /\ Take(o, id, [state.stations[id] EXCEPT !.status = to])
        /\ state.stations[id].status = "retired" => to = "retired"
    BY <1>7 DEF ChangeStatus, CanTransition
  <2>2. state.stations[id] \in Station
    BY <1>1, <2>1 DEF IsDiskState, IsMap
  <2>3. [state.stations[id] EXCEPT !.status = to].status = to
    BY <2>2 DEF Station
  <2> QED BY <1>5, <2>1, <2>3
<1>8. ASSUME NEW o \in Operators, NEW id \in StationIds, RecordFailure(o, id)
      PROVE  SettledRetired(s)' /\ ~OutdatedCopy(s)'
  <2> DEFINE st == state.stations[id]
             n == st.failureCount + 1
             to == IF n >= 3 /\ st.status = "active" THEN "paused" ELSE st.status
             station == [st EXCEPT !.failureCount = n, !.status = to]
  <2>1. Ready /\ id \in DOMAIN state.stations /\ Take(o, id, station)
    BY <1>8 DEF RecordFailure
  <2>2. st \in Station /\ (st.status = "retired" => to = "retired")
    BY <1>1, <2>1 DEF IsDiskState, IsMap
  <2> HIDE DEF st, n, to
  <2>3. station.status = to
    BY <2>2 DEF Station
  <2> HIDE DEF station
  <2>4. state.stations[id].status = "retired" => station.status = "retired"
    BY <2>2, <2>3 DEF st
  <2> QED BY <1>5, <2>1, <2>4
<1>9. ASSUME NEW o \in Operators, NEW ok \in BOOLEAN, WriteBack(o, ok)
      PROVE  SettledRetired(s)' /\ ~OutdatedCopy(s)'
  <2> DEFINE id == held[o].id
             station == held[o].station
  <2>1. /\ Ready /\ Ready' /\ o \in DOMAIN held /\ Leave(o)
        /\ state' = WithStation(state, id, station)
        /\ disk' = state' \/ disk' = disk
    BY <1>9 DEF WriteBack, SetStation, Persist, Ready
  <2>2. id = s => station.status = "retired"
    BY <2>1 DEF OutdatedCopy
  <2> HIDE DEF id, station
  <2>3. Retired(state', s)
    BY <1>1, <1>2, <2>1, <2>2, RetiredWritten
  <2> QED BY <1>4, <2>1, <2>3, RetirementKept
<1>10. ASSUME NEW o \in Operators, GiveUp(o)
       PROVE  SettledRetired(s)' /\ ~OutdatedCopy(s)'
  BY <1>4, <1>6, <1>10 DEF GiveUp, storeVars
<1>11. ASSUME NEW id \in StationIds, NEW ok \in BOOLEAN,
              RegisterStation(id, ok), UNCHANGED held
       PROVE  SettledRetired(s)' /\ ~OutdatedCopy(s)'
  <2>1. /\ Ready /\ Ready' /\ id \notin DOMAIN state.stations
        /\ state' = Registered(state, id)
        /\ disk' = state' \/ disk' = disk
    BY <1>11 DEF RegisterStation, Registered, Persist, Ready
  <2>2. state'.stations = Put(state.stations, id, NewStation)
    BY <1>1, <2>1, WithFields DEF Registered
  <2>3. Retired(state', s)
    BY <1>2, <2>1, <2>2 DEF Retired, Put
  <2> QED BY <1>3, <1>11, <2>1, <2>3, RetirementKept
<1>12. ASSUME NEW b \in Batches, NEW now \in Times, CommitBatch(b, now),
              UNCHANGED held
       PROVE  SettledRetired(s)' /\ ~OutdatedCopy(s)'
  <2>1. CASE CommitDuplicate(b) \/ CommitUnwritten(b) \/ CommitRefused(b)
    BY <1>3, <1>6, <1>12, <2>1
       DEF CommitDuplicate, CommitUnwritten, CommitRefused, storeVars
  <2>2. ASSUME NEW ok \in BOOLEAN, CommitFaulted(b, now, ok)
        PROVE  SettledRetired(s)' /\ ~OutdatedCopy(s)'
    <3> DEFINE r == Record(b, "failed", now)
    <3>1. /\ Ready /\ Ready' /\ state' = WithRecord(state, b.id, r)
          /\ disk' = state' \/ disk' = disk
      BY <2>2 DEF CommitFaulted, Admissible, Persist, Ready
    <3> HIDE DEF r
    <3>2. Retired(state', s)
      BY <1>1, <1>2, <3>1, WithFields DEF Retired
    <3> QED BY <1>3, <1>12, <3>1, <3>2, RetirementKept
  <2>3. CASE CommitApplied(b, now)
    <3>1. /\ Ready /\ Ready' /\ state' = Applied(state, b, now)
          /\ disk' = state' /\ b.stationId \in DOMAIN state.stations
          /\ state.stations[b.stationId].status = "active"
      BY <2>3 DEF CommitApplied, Admissible, Persist, Ready
    <3>2. Retired(state', s)
      BY <1>2, <3>1 DEF Retired, Applied, Put
    <3> QED BY <1>3, <1>12, <3>1, <3>2, RetirementKept
  <2> QED BY <1>12, <2>1, <2>2, <2>3 DEF CommitBatch
<1>13. ASSUME OpenFile \/ Close, UNCHANGED held
       PROVE  SettledRetired(s)' /\ ~OutdatedCopy(s)'
  BY <1>3, <1>13 DEF OpenFile, Close, SettledRetired, Retired
<1>14. ASSUME NEW bid \in BatchIds, NEW now \in Times, NEW ok \in BOOLEAN,
              MarkBatchFailed(bid, now, ok), UNCHANGED held
       PROVE  SettledRetired(s)' /\ ~OutdatedCopy(s)'
  <2> DEFINE r == Record(state.batches[bid].batch, "failed", now)
  <2>1. /\ Ready /\ Ready' /\ state' = WithRecord(state, bid, r)
        /\ disk' = state' \/ disk' = disk
    BY <1>14 DEF MarkBatchFailed, Persist, Ready
  <2> HIDE DEF r
  <2>2. Retired(state', s)
    BY <1>1, <1>2, <2>1, WithFields DEF Retired
  <2> QED BY <1>3, <1>14, <2>1, <2>2, RetirementKept
<1>15. ASSUME NEW plan \in FaultPlans, SetFaultPlan(plan), UNCHANGED held
       PROVE  SettledRetired(s)' /\ ~OutdatedCopy(s)'
  BY <1>3, <1>6, <1>15 DEF SetFaultPlan
<1>16. ASSUME Crash, held' = EmptyMap
       PROVE  SettledRetired(s)' /\ ~OutdatedCopy(s)'
  BY <1>16 DEF Crash, SettledRetired, Retired, OutdatedCopy, EmptyMap
<1>17. CASE UNCHANGED serviceVars
  BY <1>3, <1>6, <1>17 DEF serviceVars
<1>18. ASSUME NEW o \in Operators, Operate(o)
       PROVE  SettledRetired(s)' /\ ~OutdatedCopy(s)'
  BY <1>7, <1>8, <1>9, <1>10, <1>18 DEF Operate
<1>19. ASSUME Meanwhile, UNCHANGED held
       PROVE  SettledRetired(s)' /\ ~OutdatedCopy(s)'
  BY <1>11, <1>12, <1>13, <1>19, <1>14, <1>15 DEF Meanwhile
<1> QED BY <1>16, <1>17, <1>18, <1>19 DEF ServiceNext

\* A station that is retired in memory and in the file, with nobody holding
\* an older copy, never becomes anything else.
THEOREM RetirementIsFinal == ServiceSpec => RetiredForGood
<1>1. ServiceInv /\ [ServiceNext]_serviceVars =>
        \A s \in StationIds :
          SettledRetired(s) /\ ~OutdatedCopy(s)
            => SettledRetired(s)' /\ ~OutdatedCopy(s)'
  BY RetirementStep
<1> QED BY <1>1, ServiceInvariance, PTL DEF ServiceSpec, RetiredForGood

=============================================================================
