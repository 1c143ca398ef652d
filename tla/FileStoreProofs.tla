--------------------------- MODULE FileStoreProofs ---------------------------
(***************************************************************************)
(* The guarantees of FileStore, for any stations, batches, fault plans and *)
(* instants.                                                               *)
(*                                                                         *)
(* A snapshot is sound when its cursors describe its logs and its records  *)
(* describe both.  Every operation computes its new snapshot from a sound  *)
(* one by WithStation, WithRecord, a registration or Applied; the lemmas   *)
(* say that each of the four keeps a snapshot sound, so that memory and    *)
(* file are sound whichever of the two a step replaces.                    *)
(***************************************************************************)
EXTENDS FileStore, ReadingBatchProofs, FiniteSetTheorems

SoundSnapshot(d) ==
    /\ IsDiskState(d)
    /\ CursorDescribes(d)
    /\ CommittedHeld(d)
    /\ RecordsFaithful(d)

-----------------------------------------------------------------------------
(* Maps. *)

\* Assigning to a key of a map keeps its type.
LEMMA PutType ==
    ASSUME NEW K, NEW V, NEW m, IsMap(m, K, V), NEW k \in K, NEW v \in V
    PROVE  IsMap(Put(m, k, v), K, V)
BY DEF IsMap, Put

\* What is found after an assignment.
LEMMA PutValues ==
    ASSUME NEW m, NEW k, NEW v
    PROVE  /\ DOMAIN Put(m, k, v) = DOMAIN m \cup {k}
           /\ Put(m, k, v)[k] = v
           /\ \A x \in DOMAIN m : x # k => Put(m, k, v)[x] = m[x]
BY DEF Put

\* The empty map has any type.
LEMMA EmptyMapType ==
    ASSUME NEW K, NEW V
    PROVE  IsMap(EmptyMap, K, V)
BY DEF IsMap, EmptyMap

-----------------------------------------------------------------------------
(* Logs. *)

\* Where the elements of two joined sequences are found.
LEMMA Joined ==
    ASSUME NEW S, NEW p \in Seq(S), NEW q \in Seq(S)
    PROVE  /\ p \o q \in Seq(S)
           /\ Len(p \o q) = Len(p) + Len(q)
           /\ DOMAIN (p \o q) = 1 .. Len(p) + Len(q)
           /\ \A i \in 1 .. Len(p) : (p \o q)[i] = p[i]
           /\ \A i \in 1 .. Len(q) : (p \o q)[Len(p) + i] = q[i]
<1>1. Len(p) \in Nat /\ Len(q) \in Nat
  BY LenProperties
<1>2. p \o q \in Seq(S) /\ Len(p \o q) = Len(p) + Len(q)
  BY ConcatProperties
<1>3. DOMAIN (p \o q) = 1 .. Len(p) + Len(q)
  BY <1>2, LenProperties
<1>4. \A i \in 1 .. Len(p) + Len(q) :
         (p \o q)[i] = IF i <= Len(p) THEN p[i] ELSE q[i - Len(p)]
  BY ConcatProperties
<1>5. ASSUME NEW i \in 1 .. Len(q) PROVE (p \o q)[Len(p) + i] = q[i]
  <2>1. Len(p) + i \in 1 .. Len(p) + Len(q) /\ ~ (Len(p) + i <= Len(p))
        /\ (Len(p) + i) - Len(p) = i
    BY <1>1
  <2> QED BY <1>4, <2>1, Zenon
<1>6. ASSUME NEW i \in 1 .. Len(p) PROVE (p \o q)[i] = p[i]
  <2>1. i \in 1 .. Len(p) + Len(q) /\ i <= Len(p)
    BY <1>1
  <2> QED BY <1>4, <2>1, Zenon
<1> QED BY <1>2, <1>3, <1>5, <1>6

\* A log numbered from 1, all of one station, stays so when a run that
\* continues it is appended.
LEMMA LogExtended ==
    ASSUME NEW st, NEW log \in Seq(Reading), NEW rows \in Seq(Reading),
           \A i \in 1 .. Len(log) : /\ log[i].sequence = i
                                    /\ log[i].stationId = st,
           \A i \in 1 .. Len(rows) : /\ rows[i].sequence = Len(log) + i
                                     /\ rows[i].stationId = st
    PROVE  \A i \in DOMAIN (log \o rows) : /\ (log \o rows)[i].sequence = i
                                           /\ (log \o rows)[i].stationId = st
<1> DEFINE new == log \o rows
<1>1. /\ DOMAIN new = 1 .. Len(log) + Len(rows)
      /\ \A i \in 1 .. Len(log) : new[i] = log[i]
      /\ \A i \in 1 .. Len(rows) : new[Len(log) + i] = rows[i]
  BY Joined
<1>2. Len(log) \in Nat /\ Len(rows) \in Nat
  BY LenProperties
<1> HIDE DEF new
<1> SUFFICES ASSUME NEW i \in 1 .. Len(log) + Len(rows)
             PROVE  new[i].sequence = i /\ new[i].stationId = st
  BY <1>1 DEF new
<1>3. CASE i <= Len(log)
  <2>1. i \in 1 .. Len(log)
    BY <1>2, <1>3
  <2> QED BY <1>1, <2>1
<1>4. CASE ~ (i <= Len(log))
  <2>1. PICK j \in 1 .. Len(rows) : i = Len(log) + j
    <3>1. i - Len(log) \in 1 .. Len(rows) /\ i = Len(log) + (i - Len(log))
      BY <1>2, <1>4
    <3> QED BY <3>1
  <2>2. new[i] = rows[j]
    BY <1>1, <2>1
  <2> QED BY <2>1, <2>2
<1> QED BY <1>3, <1>4

-----------------------------------------------------------------------------
(* The four ways a snapshot is made from a snapshot. *)

\* What a station's and a record's replacement leave alone.
LEMMA WithFields ==
    ASSUME NEW d, IsDiskState(d), NEW k, NEW v
    PROVE  /\ WithStation(d, k, v) =
                [stations |-> Put(d.stations, k, v), cursors |-> d.cursors,
                 batches |-> d.batches, readings |-> d.readings]
           /\ WithRecord(d, k, v) =
                [stations |-> d.stations, cursors |-> d.cursors,
                 batches |-> Put(d.batches, k, v), readings |-> d.readings]
<1> DEFINE e == [stations |-> d.stations, cursors |-> d.cursors,
                 batches |-> d.batches, readings |-> d.readings]
<1>1. d = e
  BY DEF IsDiskState
<1>2. [e EXCEPT !.stations = Put(@, k, v)] =
        [stations |-> Put(d.stations, k, v), cursors |-> d.cursors,
         batches |-> d.batches, readings |-> d.readings]
  OBVIOUS
<1>3. [e EXCEPT !.batches = Put(@, k, v)] =
        [stations |-> d.stations, cursors |-> d.cursors,
         batches |-> Put(d.batches, k, v), readings |-> d.readings]
  OBVIOUS
<1> HIDE DEF e
<1> QED BY <1>1, <1>2, <1>3, Zenon DEF WithStation, WithRecord

\* The snapshot of a store without a file is sound.
LEMMA EmptyIsSound == SoundSnapshot(EmptyState)
<1>1. IsDiskState(EmptyState)
  <2>1. [s \in StationIds |-> <<>>] \in [StationIds -> Seq(Reading)]
    BY EmptySeq
  <2> QED BY <2>1, EmptyMapType DEF IsDiskState, EmptyState
<1>2. DOMAIN EmptyMap = {}
  BY DEF EmptyMap
<1> QED BY <1>1, <1>2
     DEF SoundSnapshot, EmptyState, CursorDescribes, CommittedHeld, Committed,
         RecordsFaithful

\* SetStation: any copy of a registered station can be written back, since
\* only the cursor and the log say what is readable.
LEMMA StationKeepsSound ==
    ASSUME NEW d, SoundSnapshot(d),
           NEW id \in DOMAIN d.stations, NEW station \in Station
    PROVE  SoundSnapshot(WithStation(d, id, station))
<1> DEFINE e == [stations |-> Put(d.stations, id, station),
                 cursors |-> d.cursors, batches |-> d.batches,
                 readings |-> d.readings]
<1>1. WithStation(d, id, station) = e
  BY WithFields DEF SoundSnapshot
<1>2. IsMap(Put(d.stations, id, station), StationIds, Station)
  <2>1. id \in StationIds
    BY DEF SoundSnapshot, IsDiskState, IsMap
  <2> QED BY <2>1, PutType DEF SoundSnapshot, IsDiskState
<1>3. DOMAIN Put(d.stations, id, station) = DOMAIN d.stations
  BY DEF Put
<1>4. IsDiskState(e)
  BY <1>2 DEF SoundSnapshot, IsDiskState
<1>5. CursorDescribes(e)
  BY <1>3 DEF SoundSnapshot, CursorDescribes
<1>6. CommittedHeld(e) /\ RecordsFaithful(e)
  BY DEF SoundSnapshot, CommittedHeld, Committed, Holds, RecordsFaithful
<1> QED BY <1>1, <1>4, <1>5, <1>6 DEF SoundSnapshot

Registered(d, id) ==
    [WithStation(d, id, NewStation) EXCEPT !.cursors = Put(@, id, 0)]

\* RegisterStation: a new station starts with the zero cursor and no log.
LEMMA RegisteredSound ==
    ASSUME NEW d, SoundSnapshot(d),
           NEW id \in StationIds, id \notin DOMAIN d.stations
    PROVE  /\ SoundSnapshot(Registered(d, id))
           /\ Registered(d, id).cursors = Put(d.cursors, id, 0)
           /\ Registered(d, id).readings = d.readings
<1> DEFINE e == [stations |-> Put(d.stations, id, NewStation),
                 cursors |-> Put(d.cursors, id, 0),
                 batches |-> d.batches, readings |-> d.readings]
<1>1. Registered(d, id) = e
  BY WithFields DEF SoundSnapshot, Registered
<1>2. IsDiskState(e)
  <2>1. NewStation \in Station
    BY DEF NewStation, Station, Statuses
  <2>2. IsMap(Put(d.stations, id, NewStation), StationIds, Station)
    BY <2>1, PutType DEF SoundSnapshot, IsDiskState
  <2>3. IsMap(Put(d.cursors, id, 0), StationIds, Nat)
    BY PutType DEF SoundSnapshot, IsDiskState
  <2> QED BY <2>2, <2>3 DEF SoundSnapshot, IsDiskState
<1>3. CursorDescribes(e)
  <2>1. CursorDescribes(d)
    BY DEF SoundSnapshot
  <2>2. d.readings[id] = <<>>
    BY <2>1 DEF CursorDescribes
  <2>3. DOMAIN e.stations = DOMAIN e.cursors
    BY <2>1 DEF CursorDescribes, Put
  <2>4. ASSUME NEW s \in StationIds
        PROVE  /\ \A i \in DOMAIN d.readings[s] :
                     /\ d.readings[s][i].sequence = i
                     /\ d.readings[s][i].stationId = s
               /\ s \in DOMAIN e.cursors => e.cursors[s] = Len(d.readings[s])
               /\ s \notin DOMAIN e.cursors => d.readings[s] = <<>>
    <3>1. CASE s = id
      BY <2>1, <2>2, <3>1, EmptySeq DEF CursorDescribes, Put
    <3>2. CASE s # id
      BY <2>1, <3>2 DEF CursorDescribes, Put
    <3> QED BY <3>1, <3>2
  <2> QED BY <2>3, <2>4 DEF CursorDescribes
<1>4. CommittedHeld(e)
  BY DEF SoundSnapshot, CommittedHeld, Committed, Holds
<1>5. RecordsFaithful(e)
  <2>1. id \notin DOMAIN d.cursors
    BY DEF SoundSnapshot, CursorDescribes
  <2> QED BY <2>1 DEF SoundSnapshot, RecordsFaithful, Put
<1> QED BY <1>1, <1>2, <1>3, <1>4, <1>5 DEF SoundSnapshot

\* A failed record never claims anything of the log; its batch is valid and
\* has a place in it, or had one.
LEMMA FailedRecordKeepsSound ==
    ASSUME NEW d, SoundSnapshot(d), NEW b \in Batches, NEW now \in Times,
           BatchValid(b), b.stationId \in DOMAIN d.cursors,
           FirstSequence(b) <= d.cursors[b.stationId] + 1
    PROVE  SoundSnapshot(WithRecord(d, b.id, Record(b, "failed", now)))
<1> DEFINE r == Record(b, "failed", now)
           e == [stations |-> d.stations, cursors |-> d.cursors,
                 batches |-> Put(d.batches, b.id, r), readings |-> d.readings]
<1>1. WithRecord(d, b.id, r) = e
  BY WithFields DEF SoundSnapshot
<1>2. b \in ReadingBatch /\ b.id \in BatchIds
  BY StoreAssumption DEF ReadingBatch
<1>3. r \in BatchRecord
  BY <1>2 DEF Record, BatchRecord, BatchStates
<1>4. IsDiskState(e)
  <2>1. IsMap(Put(d.batches, b.id, r), BatchIds, BatchRecord)
    BY <1>2, <1>3, PutType DEF SoundSnapshot, IsDiskState
  <2> QED BY <2>1 DEF SoundSnapshot, IsDiskState
<1>5. CursorDescribes(e)
  BY DEF SoundSnapshot, CursorDescribes
<1>6. \A bid : Committed(e, bid) => /\ Committed(d, bid)
                                    /\ e.batches[bid] = d.batches[bid]
  BY DEF Committed, Put, Record
<1>7. CommittedHeld(e)
  <2> SUFFICES ASSUME NEW bid \in BatchIds, Committed(e, bid)
               PROVE  Holds(e, e.batches[bid].batch)
    BY DEF CommittedHeld
  <2>1. Holds(d, d.batches[bid].batch)
    BY <1>6 DEF SoundSnapshot, CommittedHeld
  <2>2. e.readings = d.readings /\ e.batches[bid] = d.batches[bid]
    BY <1>6
  <2> HIDE DEF e
  <2> QED BY <2>1, <2>2 DEF Holds
<1>8. RecordsFaithful(e)
  BY DEF SoundSnapshot, RecordsFaithful, Put, Record
<1> QED BY <1>1, <1>4, <1>5, <1>7, <1>8 DEF SoundSnapshot

\* CommitBatch: a valid batch that starts right after the cursor extends the
\* log by exactly its readings, and everything that could be read still can.
LEMMA AppliedSound ==
    ASSUME NEW d, SoundSnapshot(d), NEW b \in Batches, BatchValid(b),
           NEW now \in Times, b.stationId \in DOMAIN d.stations,
           FirstSequence(b) = d.cursors[b.stationId] + 1
    PROVE  LET e == Applied(d, b, now)
           IN  /\ SoundSnapshot(e)
               /\ e.cursors = Put(d.cursors, b.stationId, LastSequence(b))
               /\ e.readings = [d.readings EXCEPT ![b.stationId] = @ \o b.readings]
               /\ \A c \in Batches : Holds(d, c) => Holds(e, c)
               /\ Holds(e, b)
               /\ Ledger!Continues(b.stationId, d.readings[b.stationId], b.readings)
<1> DEFINE s == b.stationId
           log == d.readings[s]
           rows == b.readings
           new == log \o rows
           station == [d.stations[s] EXCEPT !.lastSequence = LastSequence(b),
                                            !.failureCount = 0]
           r == Record(b, "committed", now)
           e == Applied(d, b, now)
<1>1. b \in ReadingBatch
  BY StoreAssumption
<1>2. /\ b.id \in BatchIds /\ s \in StationIds
      /\ rows \in Seq(Reading) /\ Len(rows) \in Nat \ {0}
      /\ \A i \in 1 .. Len(rows) :
            /\ rows[i].stationId = s
            /\ rows[i].sequence = FirstSequence(b) + i - 1
      /\ FirstSequence(b) \in Nat \ {0}
      /\ LastSequence(b) = FirstSequence(b) + Len(rows) - 1
  BY <1>1, ValidBatch
<1>3. /\ log \in Seq(Reading) /\ Len(log) \in Nat
      /\ DOMAIN log = 1 .. Len(log) /\ DOMAIN rows = 1 .. Len(rows)
  BY <1>2, LenProperties DEF SoundSnapshot, IsDiskState
<1>4. d.cursors[s] = Len(log) /\ DOMAIN d.stations = DOMAIN d.cursors
  BY <1>2 DEF SoundSnapshot, CursorDescribes
<1> HIDE DEF log, rows
<1>5. /\ FirstSequence(b) = Len(log) + 1
      /\ LastSequence(b) = Len(log) + Len(rows) /\ LastSequence(b) \in Nat
      /\ \A i \in 1 .. Len(rows) : rows[i].sequence = Len(log) + i
  <2>1. FirstSequence(b) = Len(log) + 1
    BY <1>4
  <2>2. LastSequence(b) = (Len(log) + 1) + Len(rows) - 1
    BY <1>2, <2>1
  <2>3. Len(log) \in Nat /\ Len(rows) \in Nat
    BY <1>2, <1>3
  <2>4. LastSequence(b) = Len(log) + Len(rows) /\ LastSequence(b) \in Nat
    BY <2>2, <2>3
  <2>5. ASSUME NEW i \in 1 .. Len(rows)
        PROVE  rows[i].sequence = Len(log) + i
    <3>1. rows[i].sequence = (Len(log) + 1) + i - 1
      BY <1>2, <2>1
    <3> QED BY <2>3, <3>1
  <2> QED BY <2>1, <2>4, <2>5
<1>6. /\ new \in Seq(Reading) /\ Len(new) = Len(log) + Len(rows)
      /\ DOMAIN new = 1 .. Len(log) + Len(rows)
      /\ \A i \in 1 .. Len(log) : i \in DOMAIN new /\ new[i] = log[i]
      /\ \A i \in 1 .. Len(rows) : /\ Len(log) + i \in DOMAIN new
                                   /\ new[Len(log) + i] = rows[i]
  <2>1. log \in Seq(Reading) /\ rows \in Seq(Reading)
    BY <1>2, <1>3
  <2>2. /\ new \in Seq(Reading)
        /\ Len(new) = Len(log) + Len(rows)
        /\ DOMAIN new = 1 .. Len(log) + Len(rows)
        /\ \A i \in 1 .. Len(log) : new[i] = log[i]
        /\ \A i \in 1 .. Len(rows) : new[Len(log) + i] = rows[i]
    BY <2>1, Joined
  <2>3. Len(log) \in Nat /\ Len(rows) \in Nat
    BY <1>2, <1>3
  <2>4. /\ \A i \in 1 .. Len(log) : i \in 1 .. Len(log) + Len(rows)
        /\ \A i \in 1 .. Len(rows) : Len(log) + i \in 1 .. Len(log) + Len(rows)
    BY <2>3
  <2> HIDE DEF new
  <2> QED BY <2>2, <2>4
<1>7. e = [stations |-> Put(d.stations, s, station),
           cursors |-> Put(d.cursors, s, LastSequence(b)),
           batches |-> Put(d.batches, b.id, r),
           readings |-> [d.readings EXCEPT ![s] = new]]
  BY DEF Applied, log, rows
<1>8. d.readings \in [StationIds -> Seq(Reading)]
  BY DEF SoundSnapshot, IsDiskState
<1>9. /\ e.readings \in [StationIds -> Seq(Reading)]
      /\ e.readings[s] = new
      /\ \A t \in StationIds : t # s => e.readings[t] = d.readings[t]
  <2>1. e.readings = [d.readings EXCEPT ![s] = new]
    BY <1>7
  <2> HIDE DEF e, new, s
  <2> QED BY <1>2, <1>6, <1>8, <2>1
<1> HIDE DEF new, e, station, r
<1>10. IsDiskState(e)
  <2>1. d.stations[s] \in Station
    BY DEF SoundSnapshot, IsDiskState, IsMap
  <2>2. station \in Station
    BY <1>5, <2>1 DEF station, Station
  <2>3. IsMap(Put(d.stations, s, station), StationIds, Station)
    BY <1>2, <2>2, PutType DEF SoundSnapshot, IsDiskState
  <2>4. IsMap(Put(d.cursors, s, LastSequence(b)), StationIds, Nat)
    BY <1>2, <1>5, PutType DEF SoundSnapshot, IsDiskState
  <2>5. r \in BatchRecord
    BY <1>1 DEF r, Record, BatchRecord, BatchStates
  <2>6. IsMap(Put(d.batches, b.id, r), BatchIds, BatchRecord)
    BY <1>2, <2>5, PutType DEF SoundSnapshot, IsDiskState
  <2> QED BY <1>7, <1>9, <2>3, <2>4, <2>6 DEF IsDiskState
<1>11. CursorDescribes(e)
  <2>1. DOMAIN e.stations = DOMAIN e.cursors
    BY <1>4, <1>7 DEF Put
  <2>2. ASSUME NEW t \in StationIds
        PROVE  /\ \A i \in DOMAIN e.readings[t] :
                     /\ e.readings[t][i].sequence = i
                     /\ e.readings[t][i].stationId = t
               /\ t \in DOMAIN e.cursors => e.cursors[t] = Len(e.readings[t])
               /\ t \notin DOMAIN e.cursors => e.readings[t] = <<>>
    <3>1. CASE t = s
      <4>1. \A i \in DOMAIN new : /\ new[i].sequence = i
                                  /\ new[i].stationId = s
        <5>1. \A i \in 1 .. Len(log) : /\ log[i].sequence = i
                                       /\ log[i].stationId = s
          BY <1>2, <1>3 DEF SoundSnapshot, CursorDescribes, log
        <5>2. \A i \in 1 .. Len(rows) : /\ rows[i].sequence = Len(log) + i
                                        /\ rows[i].stationId = s
          BY <1>2, <1>5
        <5>3. log \in Seq(Reading) /\ rows \in Seq(Reading)
          BY <1>2, <1>3
        <5> HIDE DEF s
        <5> QED BY <5>1, <5>2, <5>3, LogExtended DEF new
      <4>2. s \in DOMAIN e.cursors /\ e.cursors[s] = LastSequence(b)
        BY <1>7 DEF Put
      <4> QED BY <1>5, <1>6, <1>9, <3>1, <4>1, <4>2
    <3>2. CASE t # s
      <4>1. e.readings[t] = d.readings[t]
        BY <1>9, <3>2
      <4>2. /\ t \in DOMAIN e.cursors <=> t \in DOMAIN d.cursors
            /\ t \in DOMAIN d.cursors => e.cursors[t] = d.cursors[t]
        BY <1>7, <3>2 DEF Put
      <4> QED BY <4>1, <4>2 DEF SoundSnapshot, CursorDescribes
    <3> QED BY <3>1, <3>2
  <2> QED BY <2>1, <2>2 DEF CursorDescribes
<1>12. ASSUME NEW c \in Batches, Holds(d, c) PROVE Holds(e, c)
  <2>1. c.stationId \in StationIds
    BY StoreAssumption DEF ReadingBatch
  <2>2. CASE c.stationId = s
    <3>1. \A i \in DOMAIN c.readings :
             /\ c.readings[i].sequence \in 1 .. Len(log)
             /\ log[c.readings[i].sequence] = c.readings[i]
      BY <1>3, <1>12, <2>2 DEF Holds, log
    <3>2. \A n \in 1 .. Len(log) : n \in DOMAIN new /\ new[n] = log[n]
      BY <1>6
    <3>3. e.readings[c.stationId] = new
      BY <1>9, <2>2
    <3> QED BY <3>1, <3>2, <3>3 DEF Holds
  <2>3. CASE c.stationId # s
    BY <1>9, <1>12, <2>1, <2>3 DEF Holds
  <2> QED BY <2>2, <2>3
<1>13. Holds(e, b)
  <2>1. ASSUME NEW i \in 1 .. Len(rows)
        PROVE  /\ rows[i].sequence \in DOMAIN new
               /\ new[rows[i].sequence] = rows[i]
    <3>1. Len(log) + i \in DOMAIN new /\ new[Len(log) + i] = rows[i]
      BY <1>6
    <3> QED BY <1>5, <3>1
  <2> QED BY <1>3, <1>9, <2>1 DEF Holds, rows
<1>14. CommittedHeld(e)
  <2> SUFFICES ASSUME NEW bid \in BatchIds, Committed(e, bid)
               PROVE  Holds(e, e.batches[bid].batch)
    BY DEF CommittedHeld
  <2>1. CASE bid = b.id
    BY <1>7, <1>13, <2>1 DEF Put, r, Record
  <2>2. CASE bid # b.id
    <3>1. bid \in DOMAIN d.batches /\ e.batches[bid] = d.batches[bid]
      BY <1>7, <2>2 DEF Committed, Put
    <3>2. Committed(d, bid)
      BY <3>1 DEF Committed
    <3>3. Holds(d, d.batches[bid].batch) /\ d.batches[bid].batch \in Batches
      BY <3>1, <3>2 DEF SoundSnapshot, CommittedHeld, RecordsFaithful
    <3> QED BY <1>12, <3>1, <3>3
  <2> QED BY <2>1, <2>2
<1>15. RecordsFaithful(e)
  <2> SUFFICES ASSUME NEW bid \in DOMAIN e.batches
               PROVE  LET c == e.batches[bid].batch
                      IN  /\ c \in Batches /\ c.id = bid /\ BatchValid(c)
                          /\ c.stationId \in DOMAIN e.cursors
                          /\ FirstSequence(c) <= e.cursors[c.stationId] + 1
    BY DEF RecordsFaithful
  <2>1. e.cursors = Put(d.cursors, s, LastSequence(b))
        /\ e.batches = Put(d.batches, b.id, r)
    BY <1>7
  <2>2. CASE bid = b.id
    <3>1. e.batches[bid].batch = b
      BY <2>1, <2>2 DEF Put, r, Record
    <3>2. s \in DOMAIN e.cursors /\ e.cursors[s] = LastSequence(b)
      BY <2>1 DEF Put
    <3>3. FirstSequence(b) <= LastSequence(b) + 1
      BY <1>2, <1>3, <1>5
    <3> QED BY <2>2, <3>1, <3>2, <3>3
  <2>3. CASE bid # b.id
    <3> DEFINE c == d.batches[bid].batch
    <3>1. bid \in DOMAIN d.batches /\ e.batches[bid].batch = c
      BY <2>1, <2>3 DEF Put
    <3>2. /\ c \in Batches /\ c.id = bid /\ BatchValid(c)
          /\ c.stationId \in DOMAIN d.cursors
          /\ FirstSequence(c) <= d.cursors[c.stationId] + 1
      BY <3>1 DEF SoundSnapshot, RecordsFaithful
    <3> HIDE DEF c
    <3>3. c.stationId \in DOMAIN e.cursors
      BY <2>1, <3>2 DEF Put
    <3>4. CASE c.stationId = s
      <4>1. FirstSequence(c) <= Len(log) + 1 /\ e.cursors[s] = LastSequence(b)
        BY <1>4, <2>1, <3>2, <3>4 DEF Put
      <4>2. FirstSequence(c) \in Nat
        BY <3>2, ValidBatch, StoreAssumption
      <4>3. FirstSequence(c) <= LastSequence(b) + 1
        BY <1>2, <1>3, <1>5, <4>1, <4>2
      <4> QED BY <3>1, <3>2, <3>3, <3>4, <4>1, <4>3
    <3>5. CASE c.stationId # s
      <4>1. e.cursors[c.stationId] = d.cursors[c.stationId]
        BY <2>1, <3>2, <3>5 DEF Put
      <4> QED BY <3>1, <3>2, <3>3, <4>1
    <3> QED BY <3>4, <3>5
  <2> QED BY <2>2, <2>3
<1>16. Ledger!Continues(s, log, rows)
  BY <1>2, <1>3, <1>5, EmptySeq DEF Ledger!Continues
<1>17. e.cursors = Put(d.cursors, s, LastSequence(b))
       /\ e.readings = [d.readings EXCEPT ![s] = new]
  BY <1>7
<1> QED BY <1>10, <1>11, <1>12, <1>13, <1>14, <1>15, <1>16, <1>17
        DEF SoundSnapshot, e, new, log, rows

-----------------------------------------------------------------------------
(* The steps of the store. *)

\* The invariant of FileStore, read snapshot by snapshot.
LEMMA InvIsSoundness ==
    StoreInv <=> /\ SoundSnapshot(state) /\ SoundSnapshot(disk)
                 /\ mode \in {"open", "closed", "down"}
                 /\ fault \in FaultPlan
                 /\ acked \subseteq Batches
                 /\ VisibleIsDurable
                 /\ AcceptedSurvives
BY DEF StoreInv, TypeOK, CursorsAreReadable, CommittedIsReadable, SoundSnapshot

\* Holds looks at the logs only.
LEMMA SameLogsHold ==
    ASSUME NEW d, NEW e, d.readings = e.readings, NEW b, Holds(d, b)
    PROVE  Holds(e, b)
BY DEF Holds

\* The initial state is sound.
LEMMA InitInv == StoreInit => StoreInv
<1> SUFFICES ASSUME StoreInit PROVE StoreInv
  OBVIOUS
<1>1. SoundSnapshot(state) /\ SoundSnapshot(disk)
  BY EmptyIsSound DEF StoreInit
<1>2. mode \in {"open", "closed", "down"} /\ fault \in FaultPlan
      /\ acked \subseteq Batches
  BY DEF StoreInit, NoFault, FaultPlan
<1>3. VisibleIsDurable
  BY DEF StoreInit, VisibleIsDurable, EmptyState, EmptyMap
<1>4. AcceptedSurvives
  BY DEF StoreInit, AcceptedSurvives
<1> QED BY <1>1, <1>2, <1>3, <1>4, InvIsSoundness

\* A write that changes no log keeps the invariant, whether or not it
\* reaches the file: the cases of RegisterStation, SetStation, a faulted
\* commit and MarkBatchFailed.
LEMMA SameLogsStep ==
    ASSUME StoreInv, Ready, NEW ok \in BOOLEAN,
           SoundSnapshot(state'), Persist(state', ok),
           state'.readings = state.readings,
           \/ state'.cursors = state.cursors
           \/ \E id \in StationIds : /\ id \notin DOMAIN state.stations
                                     /\ state'.cursors = Put(state.cursors, id, 0),
           mode' = mode, fault' \in FaultPlan, acked' = acked
    PROVE  StoreInv'
<1>1. /\ SoundSnapshot(state) /\ SoundSnapshot(disk)
      /\ VisibleIsDurable /\ AcceptedSurvives
      /\ mode \in {"open", "closed", "down"} /\ acked \subseteq Batches
  BY InvIsSoundness
<1>2. disk' = state' \/ disk' = disk
  BY DEF Persist
<1>3. SoundSnapshot(disk')
  BY <1>1, <1>2
<1>4. state.readings = disk.readings /\ disk'.readings = disk.readings
  BY <1>1, <1>2 DEF VisibleIsDurable, Ready
<1>5. VisibleIsDurable'
  <2>1. CASE disk' = state'
    BY <2>1 DEF VisibleIsDurable
  <2>2. CASE disk' = disk /\ state'.cursors = state.cursors
    BY <1>1, <1>4, <2>2 DEF VisibleIsDurable, Ready
  <2>3. CASE /\ disk' = disk
             /\ \E id \in StationIds : /\ id \notin DOMAIN state.stations
                                       /\ state'.cursors = Put(state.cursors, id, 0)
    <3>1. PICK id \in StationIds : /\ id \notin DOMAIN state.stations
                                   /\ state'.cursors = Put(state.cursors, id, 0)
      BY <2>3
    <3>2. id \notin DOMAIN disk.cursors
      BY <1>1, <3>1 DEF SoundSnapshot, CursorDescribes, VisibleIsDurable, Ready
    <3> QED BY <1>1, <1>4, <2>3, <3>1, <3>2 DEF VisibleIsDurable, Ready, Put
  <2> QED BY <1>2, <2>1, <2>2, <2>3
<1>6. AcceptedSurvives'
  BY <1>1, <1>4, SameLogsHold DEF AcceptedSurvives
<1>7. mode' \in {"open", "closed", "down"} /\ acked' \subseteq Batches
  BY <1>1
<1> QED BY <1>3, <1>5, <1>6, <1>7 DEF StoreInv, TypeOK, CursorsAreReadable,
                                   CommittedIsReadable, SoundSnapshot

\* Every operation of the store, and every crash, keeps the invariant.
LEMMA StepInv == StoreInv /\ [StoreNext]_storeVars => StoreInv'
<1> SUFFICES ASSUME StoreInv, [StoreNext]_storeVars
             PROVE  StoreInv'
  OBVIOUS
<1>1. /\ SoundSnapshot(state) /\ SoundSnapshot(disk)
      /\ mode \in {"open", "closed", "down"}
      /\ fault \in FaultPlan /\ acked \subseteq Batches
      /\ VisibleIsDurable /\ AcceptedSurvives
  BY InvIsSoundness
<1>2. NoFault \in FaultPlan
  BY DEF NoFault, FaultPlan
<1>3. ASSUME SoundSnapshot(state'), SoundSnapshot(disk'),
             mode' \in {"open", "closed", "down"},
             fault' \in FaultPlan, acked' \subseteq Batches,
             VisibleIsDurable', AcceptedSurvives'
      PROVE  StoreInv'
  BY <1>3 DEF StoreInv, TypeOK, CursorsAreReadable, CommittedIsReadable,
              SoundSnapshot
<1>4. ASSUME disk' = disk, acked' = acked
      PROVE  AcceptedSurvives'
  BY <1>1, <1>4, SameLogsHold DEF AcceptedSurvives
<1>5. CASE OpenFile
  BY <1>1, <1>2, <1>3, <1>4, <1>5 DEF OpenFile, VisibleIsDurable
<1>6. CASE Close
  BY <1>1, <1>3, <1>4, <1>6 DEF Close, VisibleIsDurable
<1>7. CASE Crash
  BY <1>1, <1>2, <1>3, <1>4, <1>7, EmptyIsSound DEF Crash, VisibleIsDurable
<1>8. ASSUME NEW plan \in FaultPlans, SetFaultPlan(plan)
      PROVE  StoreInv'
  <2>1. plan \in FaultPlan
    BY StoreAssumption
  <2> QED BY <1>1, <1>3, <1>4, <1>8, <2>1 DEF SetFaultPlan, VisibleIsDurable
<1>9. ASSUME NEW id \in StationIds, NEW ok \in BOOLEAN,
             RegisterStation(id, ok)
      PROVE  StoreInv'
  <2>1. state' = Registered(state, id)
    BY <1>9 DEF RegisterStation, Registered
  <2>2. id \notin DOMAIN state.stations
    BY <1>9 DEF RegisterStation
  <2>3. /\ SoundSnapshot(state') /\ state'.readings = state.readings
        /\ state'.cursors = Put(state.cursors, id, 0)
    BY <1>1, <2>1, <2>2, RegisteredSound
  <2>4. Ready /\ Persist(state', ok) /\ mode' = mode /\ acked' = acked
        /\ fault' \in FaultPlan
    BY <1>1, <1>9 DEF RegisterStation
  <2> QED BY <2>2, <2>3, <2>4, SameLogsStep
<1>10. ASSUME NEW id \in StationIds, NEW ok \in BOOLEAN,
              id \in DOMAIN state.stations, NEW station \in HeldCopies(state, id),
              SetStation(id, station, ok)
       PROVE  StoreInv'
  <2>1. station \in Station
    <3>1. station.failureCount \in Nat /\ station.lastSequence \in Nat
          /\ station.status \in Statuses
          /\ station = [status |-> station.status,
                        lastSequence |-> station.lastSequence,
                        failureCount |-> station.failureCount]
      BY StoreAssumption DEF HeldCopies
    <3> QED BY <3>1 DEF Station
  <2>2. state' = WithStation(state, id, station)
    BY <1>10 DEF SetStation
  <2>3. SoundSnapshot(state')
    BY <1>1, <1>10, <2>1, <2>2, StationKeepsSound
  <2>4. state'.readings = state.readings /\ state'.cursors = state.cursors
    BY <1>1, <2>2, WithFields DEF SoundSnapshot
  <2>5. Ready /\ Persist(state', ok) /\ mode' = mode /\ acked' = acked
        /\ fault' \in FaultPlan
    BY <1>1, <1>10 DEF SetStation
  <2> QED BY <2>3, <2>4, <2>5, SameLogsStep
<1>11. ASSUME NEW b \in Batches, CommitDuplicate(b)
       PROVE  StoreInv'
  <2>1. /\ Ready /\ Committed(state, b.id) /\ acked' = acked \cup {b}
        /\ state' = state /\ disk' = disk /\ mode' = mode /\ fault' = fault
    BY <1>11 DEF CommitDuplicate, Admissible, Duplicate
  <2> DEFINE c == state.batches[b.id].batch
  <2>2. b.id \in BatchIds
    BY StoreAssumption DEF ReadingBatch
  <2>3. c \in Batches /\ c.id = b.id /\ Holds(state, c)
    BY <1>1, <2>1, <2>2 DEF SoundSnapshot, RecordsFaithful, CommittedHeld,
                            Committed
  <2>4. Holds(disk, c)
    BY <1>1, <2>1, <2>3, SameLogsHold DEF VisibleIsDurable, Ready
  <2> HIDE DEF c
  <2>5. AcceptedSurvives'
    BY <1>1, <2>1, <2>3, <2>4 DEF AcceptedSurvives
  <2>6. VisibleIsDurable'
    BY <1>1, <2>1 DEF VisibleIsDurable
  <2> QED BY <1>1, <1>3, <2>1, <2>5, <2>6
<1>12. ASSUME NEW b \in Batches, NEW now \in Times, NEW ok \in BOOLEAN,
              CommitFaulted(b, now, ok)
       PROVE  StoreInv'
  <2>1. state' = WithRecord(state, b.id, Record(b, "failed", now))
    BY <1>12 DEF CommitFaulted
  <2>2. SoundSnapshot(state')
    <3>1. /\ BatchValid(b) /\ b.stationId \in DOMAIN state.cursors
          /\ FirstSequence(b) = state.cursors[b.stationId] + 1
      BY <1>1, <1>12 DEF CommitFaulted, Admissible, Expected, SoundSnapshot,
                         CursorDescribes
    <3>2. state.cursors[b.stationId] \in Nat
      BY <1>1, <3>1 DEF SoundSnapshot, IsDiskState, IsMap
    <3>3. FirstSequence(b) <= state.cursors[b.stationId] + 1
      BY <3>1, <3>2
    <3> QED BY <1>1, <2>1, <3>1, <3>3, FailedRecordKeepsSound
  <2>3. state'.readings = state.readings /\ state'.cursors = state.cursors
    BY <1>1, <2>1, WithFields DEF SoundSnapshot
  <2>4. fault' \in FaultPlan
    BY <1>1, <1>12 DEF CommitFaulted, FaultHits, FaultPlan
  <2>5. Ready /\ Persist(state', ok) /\ mode' = mode /\ acked' = acked
    BY <1>12 DEF CommitFaulted, Admissible
  <2> QED BY <2>2, <2>3, <2>4, <2>5, SameLogsStep
<1>13. ASSUME NEW b \in Batches, NEW now \in Times, CommitApplied(b, now)
       PROVE  StoreInv'
  <2>1. /\ BatchValid(b) /\ Ready /\ b.stationId \in DOMAIN state.stations
        /\ FirstSequence(b) = state.cursors[b.stationId] + 1
    BY <1>13 DEF CommitApplied, Admissible, Expected
  <2>2. /\ state' = Applied(state, b, now) /\ disk' = Applied(state, b, now)
        /\ mode' = mode /\ fault' = fault /\ acked' = acked \cup {b}
    BY <1>13 DEF CommitApplied, Persist
  <2>3. /\ SoundSnapshot(state') /\ SoundSnapshot(disk')
        /\ \A c \in Batches : Holds(state, c) => Holds(disk', c)
        /\ Holds(disk', b)
    BY <1>1, <2>1, <2>2, AppliedSound
  <2>4. VisibleIsDurable'
    BY <2>2 DEF VisibleIsDurable
  <2>5. AcceptedSurvives'
    <3>1. state.readings = disk.readings
      BY <1>1, <2>1 DEF VisibleIsDurable, Ready
    <3>2. \A c \in Batches : Holds(disk, c) => Holds(disk', c)
      BY <2>3, <3>1, SameLogsHold
    <3> QED BY <1>1, <2>2, <2>3, <3>2 DEF AcceptedSurvives
  <2> QED BY <1>1, <1>3, <2>2, <2>3, <2>4, <2>5
<1>14. ASSUME NEW b \in Batches, CommitUnwritten(b) \/ CommitRefused(b)
       PROVE  StoreInv'
  BY <1>1, <1>3, <1>4, <1>14
     DEF CommitUnwritten, CommitRefused, storeVars, VisibleIsDurable
<1>15. ASSUME NEW bid \in BatchIds, NEW now \in Times, NEW ok \in BOOLEAN,
              MarkBatchFailed(bid, now, ok)
       PROVE  StoreInv'
  <2> DEFINE b == state.batches[bid].batch
  <2>1. /\ b \in Batches /\ b.id = bid /\ BatchValid(b)
        /\ b.stationId \in DOMAIN state.cursors
        /\ FirstSequence(b) <= state.cursors[b.stationId] + 1
    BY <1>1, <1>15 DEF MarkBatchFailed, SoundSnapshot, RecordsFaithful
  <2>2. state' = WithRecord(state, b.id, Record(b, "failed", now))
    BY <1>15, <2>1 DEF MarkBatchFailed
  <2> HIDE DEF b
  <2>3. SoundSnapshot(state')
    BY <1>1, <2>1, <2>2, FailedRecordKeepsSound
  <2>4. state'.readings = state.readings /\ state'.cursors = state.cursors
    BY <1>1, <2>2, WithFields DEF SoundSnapshot
  <2>5. Ready /\ Persist(state', ok) /\ mode' = mode /\ acked' = acked
        /\ fault' \in FaultPlan
    BY <1>1, <1>15 DEF MarkBatchFailed
  <2> QED BY <2>3, <2>4, <2>5, SameLogsStep
<1>16. CASE UNCHANGED storeVars
  BY <1>1, <1>3, <1>4, <1>16 DEF storeVars, VisibleIsDurable
<1> QED BY <1>5, <1>6, <1>7, <1>8, <1>9, <1>10, <1>11, <1>12, <1>13, <1>14,
           <1>15, <1>16 DEF StoreNext, CommitBatch

\* The inductive invariant holds throughout.
THEOREM Invariance == StoreSpec => []StoreInv
BY InitInv, StepInv, PTL DEF StoreSpec

\* Memory and file always have the shape of diskState.
THEOREM TypeCorrect == StoreSpec => []TypeOK
<1>1. StoreInv => TypeOK
  BY DEF StoreInv
<1> QED BY <1>1, Invariance, PTL

\* A cursor represents only data that can be read back (PROJECT_BRIEF.md:5).
THEOREM CursorsReadable == StoreSpec => []CursorsAreReadable
<1>1. StoreInv => CursorsAreReadable
  BY DEF StoreInv
<1> QED BY <1>1, Invariance, PTL

\* Whatever an open store shows is what a restart would read.
THEOREM VisibleDurable == StoreSpec => []VisibleIsDurable
<1>1. StoreInv => VisibleIsDurable
  BY DEF StoreInv
<1> QED BY <1>1, Invariance, PTL

\* A record marked committed has its whole batch in the log.
THEOREM CommittedReadable == StoreSpec => []CommittedIsReadable
<1>1. StoreInv => CommittedIsReadable
  BY DEF StoreInv
<1> QED BY <1>1, Invariance, PTL

\* What was accepted is never lost.
THEOREM AcceptedSurvive == StoreSpec => []AcceptedSurvives
<1>1. StoreInv => AcceptedSurvives
  BY DEF StoreInv
<1> QED BY <1>1, Invariance, PTL

\* A reading found in one log is of an accepted batch when it is in another
\* whose readings all are.
LEMMA SameReadingsAccepted ==
    ASSUME OnlyAcceptedIsReadable, disk'.readings = disk.readings,
           acked \subseteq acked'
    PROVE  OnlyAcceptedIsReadable'
BY DEF OnlyAcceptedIsReadable

\* Only CommitApplied adds readings to the file, and it accepts its batch.
LEMMA AcceptedOnlyStep ==
    StoreInv /\ OnlyAcceptedIsReadable /\ [StoreNext]_storeVars
      => OnlyAcceptedIsReadable'
<1> SUFFICES ASSUME StoreInv, OnlyAcceptedIsReadable, [StoreNext]_storeVars
             PROVE  OnlyAcceptedIsReadable'
  OBVIOUS
<1>1. SoundSnapshot(state) /\ SoundSnapshot(disk) /\ VisibleIsDurable
  BY InvIsSoundness
<1>2. ASSUME disk' = disk, acked \subseteq acked'
      PROVE  OnlyAcceptedIsReadable'
  BY <1>2, SameReadingsAccepted
<1>3. ASSUME NEW ok \in BOOLEAN, Ready, Persist(state', ok),
             state'.readings = state.readings, acked' = acked
      PROVE  OnlyAcceptedIsReadable'
  BY <1>1, <1>3, SameReadingsAccepted DEF Persist, VisibleIsDurable, Ready
<1>4. CASE OpenFile \/ Close \/ Crash
  BY <1>2, <1>4 DEF OpenFile, Close, Crash
<1>5. ASSUME NEW plan \in FaultPlans, SetFaultPlan(plan)
      PROVE  OnlyAcceptedIsReadable'
  BY <1>2, <1>5 DEF SetFaultPlan
<1>6. ASSUME NEW id \in StationIds, NEW ok \in BOOLEAN,
             RegisterStation(id, ok)
      PROVE  OnlyAcceptedIsReadable'
  <2>1. /\ state' = Registered(state, id) /\ id \notin DOMAIN state.stations
        /\ Ready /\ Persist(state', ok) /\ acked' = acked
    BY <1>6 DEF RegisterStation, Registered
  <2>2. state'.readings = state.readings
    BY <1>1, <2>1, RegisteredSound
  <2> QED BY <1>3, <2>1, <2>2
<1>7. ASSUME NEW id, NEW station, NEW ok \in BOOLEAN,
             SetStation(id, station, ok)
      PROVE  OnlyAcceptedIsReadable'
  <2>1. /\ state' = WithStation(state, id, station)
        /\ Ready /\ Persist(state', ok) /\ acked' = acked
    BY <1>7 DEF SetStation
  <2>2. state'.readings = state.readings
    BY <1>1, <2>1, WithFields DEF SoundSnapshot
  <2> QED BY <1>3, <2>1, <2>2
<1>8. ASSUME NEW bid, NEW r, NEW ok \in BOOLEAN, Ready, acked' = acked,
             state' = WithRecord(state, bid, r), Persist(state', ok)
      PROVE  OnlyAcceptedIsReadable'
  <2>1. state'.readings = state.readings
    BY <1>1, <1>8, WithFields DEF SoundSnapshot
  <2> QED BY <1>3, <1>8, <2>1
<1>9. ASSUME NEW b \in Batches,
             CommitDuplicate(b) \/ CommitUnwritten(b) \/ CommitRefused(b)
      PROVE  OnlyAcceptedIsReadable'
  BY <1>2, <1>9 DEF CommitDuplicate, CommitUnwritten, CommitRefused, storeVars
<1>10. ASSUME NEW b \in Batches, NEW now \in Times, NEW ok \in BOOLEAN,
              CommitFaulted(b, now, ok)
       PROVE  OnlyAcceptedIsReadable'
  BY <1>8, <1>10 DEF CommitFaulted, Admissible
<1>11. ASSUME NEW b \in Batches, NEW now \in Times, CommitApplied(b, now)
       PROVE  OnlyAcceptedIsReadable'
  <2>1. /\ Ready /\ BatchValid(b) /\ b.stationId \in DOMAIN state.stations
        /\ FirstSequence(b) = state.cursors[b.stationId] + 1
        /\ disk' = Applied(state, b, now) /\ acked' = acked \cup {b}
    BY <1>11 DEF CommitApplied, Admissible, Expected, Persist
  <2>2. disk'.readings = [disk.readings EXCEPT ![b.stationId] = @ \o b.readings]
    <3>1. state.readings = disk.readings
      BY <1>1, <2>1 DEF VisibleIsDurable, Ready
    <3>2. disk'.readings =
            [state.readings EXCEPT ![b.stationId] = @ \o b.readings]
      BY <2>1 DEF Applied
    <3> QED BY <3>1, <3>2
  <2>3. b.stationId \in StationIds /\ b.readings \in Seq(Reading)
    BY StoreAssumption DEF ReadingBatch
  <2>4. disk.readings \in [StationIds -> Seq(Reading)]
    BY <1>1 DEF SoundSnapshot, IsDiskState
  <2> SUFFICES ASSUME NEW s \in StationIds, NEW i \in DOMAIN disk'.readings[s]
               PROVE  \E c \in acked \cup {b} : \E j \in DOMAIN c.readings :
                        c.readings[j] = disk'.readings[s][i]
    BY <2>1 DEF OnlyAcceptedIsReadable
  <2>5. CASE s # b.stationId
    BY <2>2, <2>4, <2>5 DEF OnlyAcceptedIsReadable
  <2>6. CASE s = b.stationId
    <3>1. PICK log \in Seq(Reading) : disk.readings[s] = log
      BY <2>4
    <3>2. PICK rows \in Seq(Reading) : b.readings = rows
      BY <2>3
    <3>3. disk'.readings[s] = log \o rows
      BY <2>2, <2>4, <2>6, <3>1, <3>2
    <3>4. /\ DOMAIN (log \o rows) = 1 .. Len(log) + Len(rows)
          /\ \A k \in 1 .. Len(log) : (log \o rows)[k] = log[k]
          /\ \A k \in 1 .. Len(rows) : (log \o rows)[Len(log) + k] = rows[k]
      BY Joined
    <3>5. /\ Len(log) \in Nat /\ DOMAIN log = 1 .. Len(log)
          /\ Len(rows) \in Nat /\ DOMAIN rows = 1 .. Len(rows)
      BY LenProperties
    <3>6. i \in 1 .. Len(log) + Len(rows)
      BY <3>3, <3>4
    <3>7. CASE i <= Len(log)
      <4>1. i \in DOMAIN log /\ disk'.readings[s][i] = log[i]
        BY <3>3, <3>4, <3>5, <3>6, <3>7
      <4> QED BY <3>1, <4>1 DEF OnlyAcceptedIsReadable
    <3>8. CASE i > Len(log)
      <4>1. PICK k \in 1 .. Len(rows) : i = Len(log) + k
        <5>1. i - Len(log) \in 1 .. Len(rows) /\ i = Len(log) + (i - Len(log))
          BY <3>5, <3>6, <3>8
        <5> QED BY <5>1
      <4>2. k \in DOMAIN b.readings /\ b.readings[k] = disk'.readings[s][i]
        BY <3>2, <3>3, <3>4, <3>5, <4>1
      <4> QED BY <4>2
    <3> QED BY <3>5, <3>6, <3>7, <3>8
  <2> QED BY <2>5, <2>6
<1>12. ASSUME NEW bid \in BatchIds, NEW now \in Times, NEW ok \in BOOLEAN,
              MarkBatchFailed(bid, now, ok)
       PROVE  OnlyAcceptedIsReadable'
  BY <1>8, <1>12 DEF MarkBatchFailed
<1>13. CASE UNCHANGED storeVars
  BY <1>2, <1>13 DEF storeVars
<1> QED BY <1>4, <1>5, <1>6, <1>7, <1>9, <1>10, <1>11, <1>12, <1>13
        DEF StoreNext, CommitBatch

\* Whatever can be read was accepted.
THEOREM ReadableWasAccepted == StoreSpec => []OnlyAcceptedIsReadable
<1>1. StoreInit => OnlyAcceptedIsReadable
  BY DEF StoreInit, EmptyState, OnlyAcceptedIsReadable
<1> QED BY <1>1, AcceptedOnlyStep, Invariance, PTL DEF StoreSpec

\* What was accepted is in the log, so its first reading lies at or below the
\* cursor and the sequence check refuses the batch.
THEOREM AppliedAtMostOnce == StoreSpec => AcceptedOnce
<1>1. ASSUME StoreInv, NEW b \in acked, NEW now \in Times, Unique(b)
      PROVE  ~CommitApplied(b, now)
  <2>1. SUFFICES ASSUME CommitApplied(b, now) PROVE FALSE
    OBVIOUS
  <2>2. b \in ReadingBatch /\ BatchValid(b) /\ Ready
        /\ b.stationId \in DOMAIN state.stations
        /\ FirstSequence(b) = state.cursors[b.stationId] + 1
    BY <1>1, <2>1, StoreAssumption
       DEF StoreInv, TypeOK, CommitApplied, Admissible, Expected
  <2> DEFINE log == disk.readings[b.stationId]
  <2>3. Holds(disk, b) /\ state.readings = disk.readings
        /\ SoundSnapshot(state)
    BY <1>1, <2>2, InvIsSoundness DEF AcceptedSurvives, Unique, VisibleIsDurable,
                                      Ready
  <2>4. /\ Len(b.readings) \in Nat \ {0} /\ b.readings \in Seq(Reading)
        /\ b.readings[1].sequence = FirstSequence(b)
        /\ b.stationId \in StationIds
    <3>1. b.readings # <<>>
      BY <2>2 DEF BatchValid
    <3> QED BY <2>2, <3>1, ValidBatch DEF FirstSequence
  <2>5. 1 \in DOMAIN b.readings
    BY <2>4, LenProperties
  <2>6. log \in Seq(Reading) /\ DOMAIN log = 1 .. Len(log) /\ Len(log) \in Nat
    BY <2>3, <2>4, LenProperties DEF SoundSnapshot, IsDiskState
  <2>7. FirstSequence(b) \in 1 .. Len(log)
    BY <2>3, <2>4, <2>5, <2>6 DEF Holds
  <2>8. state.cursors[b.stationId] = Len(log)
    BY <2>2, <2>3, <2>4 DEF SoundSnapshot, CursorDescribes
  <2> HIDE DEF log
  <2> QED BY <2>2, <2>6, <2>7, <2>8
<1>2. StoreInv => \A b \in acked, now \in Times :
                    Unique(b) => ~CommitApplied(b, now)
  BY <1>1
<1> QED BY <1>2, Invariance, PTL DEF AcceptedOnce

-----------------------------------------------------------------------------
(* Records of batches stay.                                                *)

\* While the process runs, no batch record is ever deleted.
LEMMA RecordsKept ==
    ASSUME StoreInv, [StoreNext]_storeVars, mode # "down", mode' # "down"
    PROVE  DOMAIN state.batches \subseteq DOMAIN state'.batches
<1>1. IsDiskState(state)
  BY InvIsSoundness DEF SoundSnapshot
<1>2. ASSUME NEW bid, NEW r, state' = WithRecord(state, bid, r)
      PROVE  DOMAIN state.batches \subseteq DOMAIN state'.batches
  <2>1. state'.batches = Put(state.batches, bid, r)
    BY <1>1, <1>2, WithFields
  <2> QED BY <2>1 DEF Put
<1>3. ASSUME NEW id, NEW station, state' = WithStation(state, id, station)
      PROVE  DOMAIN state.batches \subseteq DOMAIN state'.batches
  BY <1>1, <1>3, WithFields
<1>4. ASSUME NEW id \in StationIds, NEW ok \in BOOLEAN,
             RegisterStation(id, ok)
      PROVE  DOMAIN state.batches \subseteq DOMAIN state'.batches
  <2>1. state'.batches = WithStation(state, id, NewStation).batches
    <3>1. WithStation(state, id, NewStation) =
            [stations |-> Put(state.stations, id, NewStation),
             cursors |-> state.cursors, batches |-> state.batches,
             readings |-> state.readings]
      BY <1>1, WithFields
    <3> QED BY <1>4, <3>1 DEF RegisterStation
  <2> QED BY <1>1, <2>1, WithFields
<1>5. ASSUME NEW b \in Batches, NEW now \in Times, CommitBatch(b, now)
      PROVE  DOMAIN state.batches \subseteq DOMAIN state'.batches
  <2>1. CASE \E ok \in BOOLEAN : CommitFaulted(b, now, ok)
    BY <1>2, <2>1 DEF CommitFaulted
  <2>2. CASE CommitApplied(b, now)
    BY <2>2 DEF CommitApplied, Applied, Put
  <2>3. CASE CommitDuplicate(b) \/ CommitUnwritten(b) \/ CommitRefused(b)
    BY <2>3 DEF CommitDuplicate, CommitUnwritten, CommitRefused, storeVars
  <2> QED BY <1>5, <2>1, <2>2, <2>3 DEF CommitBatch
<1>6. ASSUME NEW bid, NEW now, NEW ok, MarkBatchFailed(bid, now, ok)
      PROVE  DOMAIN state.batches \subseteq DOMAIN state'.batches
  BY <1>2, <1>6 DEF MarkBatchFailed
<1>7. CASE OpenFile \/ Close \/ Crash \/ UNCHANGED storeVars
           \/ \E plan \in FaultPlans : SetFaultPlan(plan)
  BY <1>7 DEF OpenFile, Close, Crash, SetFaultPlan, storeVars
<1>8. ASSUME NEW id, NEW station, NEW ok, SetStation(id, station, ok)
      PROVE  DOMAIN state.batches \subseteq DOMAIN state'.batches
  BY <1>3, <1>8 DEF SetStation
<1> QED BY <1>4, <1>5, <1>6, <1>7, <1>8 DEF StoreNext

\* While the process runs, no cursor in memory goes back: SetStation, which
\* may write an old copy of a station, does not touch the cursor.
LEMMA CursorsKept ==
    ASSUME StoreInv, [StoreNext]_storeVars, mode # "down", mode' # "down",
           NEW s \in DOMAIN state.cursors
    PROVE  /\ s \in DOMAIN state'.cursors
           /\ state.cursors[s] \in Nat /\ state'.cursors[s] \in Nat
           /\ state.cursors[s] <= state'.cursors[s]
<1>1. /\ SoundSnapshot(state) /\ IsDiskState(state)
      /\ s \in DOMAIN state.stations /\ state.cursors[s] \in Nat
  BY InvIsSoundness DEF SoundSnapshot, CursorDescribes, IsDiskState, IsMap
<1>2. CASE state'.cursors = state.cursors
  BY <1>1, <1>2
<1>3. ASSUME NEW bid, NEW r, state' = WithRecord(state, bid, r)
      PROVE  state'.cursors = state.cursors
  BY <1>1, <1>3, WithFields
<1>4. ASSUME NEW id \in StationIds, NEW ok \in BOOLEAN,
             RegisterStation(id, ok)
      PROVE  s \in DOMAIN state'.cursors /\ state'.cursors[s] = state.cursors[s]
  <2>1. state' = Registered(state, id) /\ id \notin DOMAIN state.stations
    BY <1>4 DEF RegisterStation, Registered
  <2>2. state'.cursors = Put(state.cursors, id, 0)
    BY <1>1, <2>1, RegisteredSound
  <2> QED BY <1>1, <2>1, <2>2 DEF Put
<1>5. ASSUME NEW b \in Batches, NEW now \in Times, CommitApplied(b, now)
      PROVE  /\ s \in DOMAIN state'.cursors /\ state'.cursors[s] \in Nat
             /\ state.cursors[s] <= state'.cursors[s]
  <2>1. /\ BatchValid(b) /\ FirstSequence(b) = state.cursors[b.stationId] + 1
        /\ state' = Applied(state, b, now)
    BY <1>5 DEF CommitApplied, Admissible, Expected
  <2>2. state'.cursors = Put(state.cursors, b.stationId, LastSequence(b))
    BY <2>1 DEF Applied
  <2>3. CASE s = b.stationId
    <3>1. /\ LastSequence(b) = FirstSequence(b) + Len(b.readings) - 1
          /\ FirstSequence(b) \in Nat \ {0} /\ Len(b.readings) \in Nat \ {0}
      BY <2>1, ValidBatch, StoreAssumption
    <3>2. FirstSequence(b) = state.cursors[s] + 1
          /\ state'.cursors[s] = LastSequence(b) /\ s \in DOMAIN state'.cursors
      BY <2>1, <2>2, <2>3 DEF Put
    <3> QED BY <1>1, <3>1, <3>2
  <2>4. CASE s # b.stationId
    BY <1>1, <2>2, <2>4 DEF Put
  <2> QED BY <2>3, <2>4
<1>6. ASSUME NEW b \in Batches, NEW now \in Times, CommitBatch(b, now)
      PROVE  state'.cursors = state.cursors \/ CommitApplied(b, now)
  BY <1>3, <1>6 DEF CommitBatch, CommitFaulted, CommitDuplicate,
                    CommitUnwritten, CommitRefused, storeVars
<1>7. ASSUME NEW bid, NEW now, NEW ok, MarkBatchFailed(bid, now, ok)
      PROVE  state'.cursors = state.cursors
  BY <1>3, <1>7 DEF MarkBatchFailed
<1>8. ASSUME NEW id, NEW station, NEW ok, SetStation(id, station, ok)
      PROVE  state'.cursors = state.cursors
  BY <1>1, <1>8, WithFields DEF SetStation
<1>9. ASSUME OpenFile \/ Close \/ Crash \/ UNCHANGED storeVars
             \/ \E plan \in FaultPlans : SetFaultPlan(plan)
      PROVE  state'.cursors = state.cursors
  BY <1>9 DEF OpenFile, Close, Crash, SetFaultPlan, storeVars
<1> QED BY <1>1, <1>2, <1>4, <1>5, <1>6, <1>7, <1>8, <1>9 DEF StoreNext

\* A running process knows every record that is in the file: the snapshot it
\* writes next has them all.
RecordsKnown == mode # "down" => DOMAIN disk.batches \subseteq DOMAIN state.batches

\* A step leaves the file alone or makes it equal to memory.
LEMMA FileFollows ==
    ASSUME [StoreNext]_storeVars
    PROVE  disk' = disk \/ (disk' = state' /\ mode # "down" /\ mode' # "down")
<1>1. ASSUME NEW ok, Persist(state', ok)
      PROVE  disk' = state' \/ disk' = disk
  BY <1>1 DEF Persist
<1>2. ASSUME NEW b \in Batches, NEW now \in Times, CommitBatch(b, now)
      PROVE  disk' = disk \/ (disk' = state' /\ mode # "down" /\ mode' # "down")
  <2>1. CASE \E ok \in BOOLEAN : CommitFaulted(b, now, ok)
    BY <1>1, <2>1 DEF CommitFaulted, Admissible, Ready
  <2>2. CASE CommitApplied(b, now)
    BY <2>2 DEF CommitApplied, Admissible, Ready, Persist
  <2>3. CASE CommitDuplicate(b) \/ CommitUnwritten(b) \/ CommitRefused(b)
    BY <2>3 DEF CommitDuplicate, CommitUnwritten, CommitRefused, storeVars
  <2> QED BY <1>2, <2>1, <2>2, <2>3 DEF CommitBatch
<1>3. CASE OpenFile \/ Close \/ Crash \/ UNCHANGED storeVars
           \/ \E plan \in FaultPlans : SetFaultPlan(plan)
  BY <1>3 DEF OpenFile, Close, Crash, SetFaultPlan, storeVars
<1>4. ASSUME NEW id \in StationIds, NEW ok \in BOOLEAN, RegisterStation(id, ok)
      PROVE  disk' = disk \/ (disk' = state' /\ mode # "down" /\ mode' # "down")
  BY <1>1, <1>4 DEF RegisterStation, Ready
<1>5. ASSUME NEW id, NEW station, NEW ok, SetStation(id, station, ok)
      PROVE  disk' = disk \/ (disk' = state' /\ mode # "down" /\ mode' # "down")
  BY <1>1, <1>5 DEF SetStation, Ready
<1>6. ASSUME NEW bid, NEW now, NEW ok, MarkBatchFailed(bid, now, ok)
      PROVE  disk' = disk \/ (disk' = state' /\ mode # "down" /\ mode' # "down")
  BY <1>1, <1>6 DEF MarkBatchFailed, Ready
<1> QED BY <1>2, <1>3, <1>4, <1>5, <1>6 DEF StoreNext

\* A process that starts knows what the file has, and forgets nothing.
LEMMA RecordsKnownStep ==
    StoreInv /\ RecordsKnown /\ [StoreNext]_storeVars => RecordsKnown'
<1> SUFFICES ASSUME StoreInv, RecordsKnown, [StoreNext]_storeVars,
                    mode' # "down"
             PROVE  DOMAIN disk'.batches \subseteq DOMAIN state'.batches
  BY DEF RecordsKnown
<1>1. CASE mode = "down"
  <2>1. OpenFile \/ UNCHANGED storeVars
    BY <1>1 DEF StoreNext, OpenFile, Close, Crash, SetFaultPlan, RegisterStation,
       SetStation, CommitBatch, CommitDuplicate, CommitFaulted, CommitApplied,
       CommitUnwritten, CommitRefused, MarkBatchFailed, Admissible, Ready
  <2> QED BY <1>1, <2>1 DEF OpenFile, storeVars
<1>2. CASE mode # "down"
  <2>1. DOMAIN state.batches \subseteq DOMAIN state'.batches
    BY <1>2, RecordsKept
  <2> QED BY <1>2, <2>1, FileFollows DEF RecordsKnown
<1> QED BY <1>1, <1>2

\* No record in the file is lost, and a batch whose identifier is its own
\* stays the batch of its record.
THEOREM RecordsStay == StoreSpec => RecordsForGood
<1>1. StoreInit => RecordsKnown
  BY DEF StoreInit, RecordsKnown
<1>2. ASSUME StoreInv, StoreInv', RecordsKnown, [StoreNext]_storeVars,
             NEW bid \in DOMAIN disk.batches
      PROVE  LET b == disk.batches[bid].batch
             IN  /\ bid \in DOMAIN disk'.batches
                 /\ Unique(b) => disk'.batches[bid].batch = b
  <2>1. bid \in DOMAIN disk'.batches
    <3>1. CASE disk' = disk
      BY <3>1
    <3>2. CASE disk' = state' /\ mode # "down" /\ mode' # "down"
      BY <1>2, <3>2, RecordsKept DEF RecordsKnown
    <3> QED BY <1>2, <3>1, <3>2, FileFollows
  <2>2. /\ disk.batches[bid].batch.id = bid
        /\ disk'.batches[bid].batch.id = bid
        /\ disk'.batches[bid].batch \in Batches
    BY <1>2, <2>1 DEF StoreInv, RecordsFaithful
  <2> QED BY <2>1, <2>2 DEF Unique
<1>3. StoreInv /\ StoreInv' /\ RecordsKnown /\ [StoreNext]_storeVars =>
        [\A bid \in DOMAIN disk.batches :
           LET b == disk.batches[bid].batch
           IN  /\ bid \in DOMAIN disk'.batches
               /\ Unique(b) => disk'.batches[bid].batch = b]_storeVars
  BY <1>2
<1> QED BY <1>1, <1>3, RecordsKnownStep, Invariance, PTL
        DEF StoreSpec, RecordsForGood

-----------------------------------------------------------------------------
(* The store implements the ledger contract. *)

\* A step that touches no log and leaves the store open or stopped as it was
\* is invisible in the contract.
LEMMA InvisibleStep ==
    ASSUME state'.readings = state.readings, disk'.readings = disk.readings,
           mode' = mode
    PROVE  UNCHANGED Ledger!vars
BY DEF Ledger!vars, Ready

\* Every step of the store is a step of the contract, or none.
LEMMA StepRefines ==
    StoreInv /\ [StoreNext]_storeVars => [Ledger!Next]_(Ledger!vars)
<1> SUFFICES ASSUME StoreInv, [StoreNext]_storeVars
             PROVE  [Ledger!Next]_(Ledger!vars)
  OBVIOUS
<1>1. /\ SoundSnapshot(state) /\ SoundSnapshot(disk)
      /\ VisibleIsDurable /\ mode \in {"open", "closed", "down"}
  BY InvIsSoundness
<1>2. ASSUME NEW ok \in BOOLEAN, Ready, Persist(state', ok),
             state'.readings = state.readings, mode' = mode
      PROVE  UNCHANGED Ledger!vars
  <2>1. disk'.readings = disk.readings
    BY <1>1, <1>2 DEF Persist, VisibleIsDurable, Ready
  <2> QED BY <1>2, <2>1, InvisibleStep
<1>3. CASE OpenFile
  <2>1. Ledger!Restart
    BY <1>3 DEF OpenFile, Ledger!Restart, Ready
  <2> QED BY <2>1 DEF Ledger!Next
<1>4. CASE Close \/ Crash
  <2>1. CASE mode = "open"
    <3>1. Ledger!Stop
      BY <1>4, <2>1 DEF Close, Crash, Ledger!Stop, Ready, EmptyState
    <3> QED BY <3>1 DEF Ledger!Next
  <2>2. CASE mode # "open"
    <3>1. UNCHANGED Ledger!vars
      BY <1>4, <2>2 DEF Close, Crash, Ledger!vars, Ready
    <3> QED BY <3>1
  <2> QED BY <2>1, <2>2
<1>5. ASSUME NEW plan \in FaultPlans, SetFaultPlan(plan)
      PROVE  UNCHANGED Ledger!vars
  BY <1>5, InvisibleStep DEF SetFaultPlan
<1>6. ASSUME NEW id \in StationIds, NEW ok \in BOOLEAN,
             RegisterStation(id, ok)
      PROVE  UNCHANGED Ledger!vars
  <2>1. state' = Registered(state, id) /\ id \notin DOMAIN state.stations
    BY <1>6 DEF RegisterStation, Registered
  <2>2. state'.readings = state.readings
    BY <1>1, <2>1, RegisteredSound
  <2> QED BY <1>2, <1>6, <2>2 DEF RegisterStation
<1>7. ASSUME NEW id \in StationIds, NEW ok \in BOOLEAN,
             NEW station \in HeldCopies(state, id), SetStation(id, station, ok)
      PROVE  UNCHANGED Ledger!vars
  <2>1. state'.readings = state.readings
    BY <1>1, <1>7, WithFields DEF SetStation, SoundSnapshot
  <2> QED BY <1>2, <1>7, <2>1 DEF SetStation
<1>8. ASSUME NEW b \in Batches, CommitDuplicate(b)
      PROVE  UNCHANGED Ledger!vars
  BY <1>8, InvisibleStep DEF CommitDuplicate
<1>9. ASSUME NEW b \in Batches, NEW now \in Times, NEW ok \in BOOLEAN,
             CommitFaulted(b, now, ok)
      PROVE  UNCHANGED Ledger!vars
  <2>1. state'.readings = state.readings
    BY <1>1, <1>9, WithFields DEF CommitFaulted, SoundSnapshot
  <2> QED BY <1>2, <1>9, <2>1 DEF CommitFaulted, Admissible
<1>10. ASSUME NEW b \in Batches, NEW now \in Times, CommitApplied(b, now)
       PROVE  Ledger!Next
  <2> DEFINE s == b.stationId
  <2>1. /\ BatchValid(b) /\ Ready /\ s \in DOMAIN state.stations
        /\ FirstSequence(b) = state.cursors[s] + 1
    BY <1>10 DEF CommitApplied, Admissible, Expected
  <2>2. /\ state' = Applied(state, b, now) /\ disk' = Applied(state, b, now)
        /\ mode' = mode
    BY <1>10 DEF CommitApplied, Persist
  <2>3. /\ Applied(state, b, now).readings =
             [state.readings EXCEPT ![s] = @ \o b.readings]
        /\ Ledger!Continues(s, state.readings[s], b.readings)
    BY <1>1, <2>1, AppliedSound
  <2>4. state.readings = disk.readings
    BY <1>1, <2>1 DEF VisibleIsDurable, Ready
  <2>5. s \in StationIds /\ b.readings \in {c.readings : c \in Batches}
    BY StoreAssumption DEF ReadingBatch
  <2>6. Ledger!Extend(s, b.readings)
    BY <2>1, <2>2, <2>3, <2>4 DEF Ledger!Extend, Ready
  <2> HIDE DEF s
  <2> QED BY <2>5, <2>6 DEF Ledger!Next
<1>11. ASSUME NEW b \in Batches, CommitUnwritten(b) \/ CommitRefused(b)
       PROVE  UNCHANGED Ledger!vars
  BY <1>11, InvisibleStep DEF CommitUnwritten, CommitRefused, storeVars
<1>12. ASSUME NEW bid \in BatchIds, NEW now \in Times, NEW ok \in BOOLEAN,
              MarkBatchFailed(bid, now, ok)
       PROVE  UNCHANGED Ledger!vars
  <2>1. state'.readings = state.readings
    BY <1>1, <1>12, WithFields DEF MarkBatchFailed, SoundSnapshot
  <2> QED BY <1>2, <1>12, <2>1 DEF MarkBatchFailed
<1>13. CASE UNCHANGED storeVars
  BY <1>13, InvisibleStep DEF storeVars
<1> QED BY <1>3, <1>4, <1>5, <1>6, <1>7, <1>8, <1>9, <1>10, <1>11, <1>12,
           <1>13 DEF StoreNext, CommitBatch

\* FileStore implements StationLedger: per station, a durable ledger that
\* grows by whole runs and is served exactly while the store is open.
THEOREM Refinement == StoreSpec => LedgerSpec
<1>1. StoreInit => Ledger!Init
  BY DEF StoreInit, Ledger!Init, EmptyState, Ready
<1> QED BY <1>1, StepRefines, Invariance, PTL
        DEF StoreSpec, LedgerSpec, Ledger!Spec

-----------------------------------------------------------------------------
(* What others build on: the logs in the file grow, and the lists of       *)
(* recoverable batches are what they say.                                  *)

\* One log continues another.
Extends(log, old) ==
    /\ Len(old) <= Len(log)
    /\ \A i \in 1 .. Len(old) : log[i] = old[i]

LogsExtend == \A s \in StationIds : Extends(disk'.readings[s], disk.readings[s])

\* No step of the store takes anything from a log in the file.
LEMMA LogsGrow == StoreInv /\ [StoreNext]_storeVars => LogsExtend
<1> SUFFICES ASSUME StoreInv, [StoreNext]_storeVars, NEW s \in StationIds
             PROVE  Extends(disk'.readings[s], disk.readings[s])
  BY DEF LogsExtend
<1>1. /\ disk.readings \in [StationIds -> Seq(Reading)]
      /\ Len(disk.readings[s]) \in Nat
  BY InvIsSoundness, LenProperties DEF SoundSnapshot, IsDiskState
<1>2. [Ledger!Next]_(Ledger!vars)
  BY StepRefines
<1>3. CASE disk'.readings = disk.readings
  BY <1>1, <1>3 DEF Extends
<1>4. ASSUME NEW x \in StationIds, NEW run \in {b.readings : b \in Batches},
             Ledger!Extend(x, run)
      PROVE  Extends(disk'.readings[s], disk.readings[s])
  <2>1. disk'.readings = [disk.readings EXCEPT ![x] = @ \o run]
    BY <1>4 DEF Ledger!Extend
  <2>2. CASE x # s
    BY <1>1, <2>1, <2>2 DEF Extends
  <2>3. CASE x = s
    <3> DEFINE log == disk.readings[s]
    <3>1. disk'.readings[s] = log \o run /\ log \in Seq(Reading)
      BY <1>1, <2>1, <2>3
    <3>2. run \in Seq(Reading) /\ Len(run) \in Nat
      BY StoreAssumption, LenProperties DEF ReadingBatch
    <3> HIDE DEF log
    <3>3. /\ Len(log \o run) = Len(log) + Len(run) /\ Len(log) \in Nat
          /\ \A i \in 1 .. Len(log) : (log \o run)[i] = log[i]
      BY <3>1, <3>2, Joined, LenProperties
    <3> QED BY <3>1, <3>2, <3>3 DEF Extends, log
  <2> QED BY <2>2, <2>3
<1> QED BY <1>2, <1>3, <1>4
        DEF Ledger!Next, Ledger!Stop, Ledger!Restart, Ledger!vars

\* How many records a caller of PendingBatches gets at most.
Most(limit) == IF limit <= 0 THEN 100 ELSE limit

\* The elements of a finite set can be put in the order of their keys.
LEMMA SortedExists ==
    ASSUME NEW R, IsFiniteSet(R), NEW key \in [R -> Nat]
    PROVE  \E q \in SetToSeqs(R) :
             \A i, j \in DOMAIN q : i < j => key[q[i]] <= key[q[j]]
<1> DEFINE Sorted(q) == \A i, j \in DOMAIN q : i < j => key[q[i]] <= key[q[j]]
           Lacking(S) == \A q \in SetToSeqs(S) : ~Sorted(q)
           T == {Cardinality(S) : S \in {U \in SUBSET R : Lacking(U)}}
<1>1. \A S \in SUBSET R : IsFiniteSet(S) /\ Cardinality(S) \in Nat
  BY FS_Subset, FS_CardinalityType
<1>2. SUFFICES ASSUME Lacking(R) PROVE FALSE
  OBVIOUS
<1>3. T \subseteq Nat /\ T # {}
  BY <1>1, <1>2
<1> HIDE DEF Lacking
<1>4. PICK n \in T : \A m \in T : ~ (m < n)
  <2> HIDE DEF T
  <2> QED BY <1>3, LeastNatural, Zenon
<1>5. PICK S \in SUBSET R : Lacking(S) /\ n = Cardinality(S)
  BY <1>4
<1>6. n \in Nat /\ \A U \in SUBSET R : Lacking(U) => ~ (Cardinality(U) < n)
  BY <1>3, <1>4
<1> HIDE DEF T
<1>7. S # {}
  <2>1. SUFFICES ASSUME S = {} PROVE FALSE
    OBVIOUS
  <2>2. n = 0
    BY <1>5, <2>1, FS_EmptySet
  <2> DEFINE q == [i \in 1 .. 0 |-> i]
  <2>3. q \in SetToSeqs(S) /\ Sorted(q)
    BY <1>5, <2>1, <2>2 DEF SetToSeqs
  <2> QED BY <1>5, <2>3 DEF Lacking
<1>8. PICK x \in S : \A y \in S : key[x] <= key[y]
  <2> DEFINE K == {key[y] : y \in S}
  <2>1. K \subseteq Nat /\ K # {}
    BY <1>7
  <2>2. PICK k \in K : \A l \in K : ~ (l < k)
    <3> HIDE DEF K
    <3> QED BY <2>1, LeastNatural, Zenon
  <2>3. PICK x \in S : k = key[x]
    BY <2>2
  <2>4. \A y \in S : key[y] \in Nat /\ ~ (key[y] < k)
    BY <2>2
  <2> QED BY <2>1, <2>3, <2>4
<1> DEFINE U == S \ {x}
<1>9. U \in SUBSET R /\ Cardinality(U) = n - 1 /\ n - 1 \in Nat
  <2>1. IsFiniteSet(S) /\ Cardinality(U) \in Nat
    BY <1>1
  <2>2. Cardinality(U) = n - 1
    BY <1>5, <2>1, FS_RemoveElement
  <2> QED BY <2>1, <2>2
<1>10. PICK p \in SetToSeqs(U) : Sorted(p)
  <2>1. ~Lacking(U)
    BY <1>6, <1>9
  <2> QED BY <2>1 DEF Lacking
<1>11. /\ p \in [1 .. n - 1 -> U]
       /\ \A i, j \in 1 .. n - 1 : i # j => p[i] # p[j]
  BY <1>9 DEF SetToSeqs
<1> DEFINE q == [i \in 1 .. n |-> IF i = 1 THEN x ELSE p[i - 1]]
<1>12. \A i \in 1 .. n : i # 1 => /\ i - 1 \in 1 .. n - 1
                                 /\ q[i] = p[i - 1] /\ q[i] \in U
  <2> SUFFICES ASSUME NEW i \in 1 .. n, i # 1
               PROVE  i - 1 \in 1 .. n - 1 /\ q[i] = p[i - 1] /\ q[i] \in U
    OBVIOUS
  <2>1. i - 1 \in 1 .. n - 1
    BY <1>6
  <2> QED BY <1>11, <2>1
<1>13. 1 \in 1 .. n => q[1] = x
  OBVIOUS
<1>14. q \in [1 .. n -> S]
  <2>1. \A i \in 1 .. n : q[i] \in S
    BY <1>12, <1>13
  <2> QED BY <2>1
<1> HIDE DEF q
<1>15. \A i, j \in 1 .. n : i # j => q[i] # q[j]
  <2> SUFFICES ASSUME NEW i \in 1 .. n, NEW j \in 1 .. n, i # j
               PROVE  q[i] # q[j]
    OBVIOUS
  <2>1. CASE i = 1
    BY <1>12, <1>13, <2>1
  <2>2. CASE j = 1
    BY <1>12, <1>13, <2>2
  <2>3. CASE i # 1 /\ j # 1
    <3>1. i - 1 # j - 1
      BY <1>6
    <3> QED BY <1>11, <1>12, <2>3, <3>1
  <2> QED BY <2>1, <2>2, <2>3
<1>16. ASSUME NEW i \in 1 .. n, NEW j \in 1 .. n, i < j
       PROVE  key[q[i]] <= key[q[j]]
  <2>1. j # 1
    BY <1>6, <1>16
  <2>2. CASE i = 1
    BY <1>8, <1>12, <1>13, <2>1, <2>2
  <2>3. CASE i # 1
    <3>1. i - 1 < j - 1 /\ i - 1 \in DOMAIN p /\ j - 1 \in DOMAIN p
      BY <1>6, <1>11, <1>12, <1>16, <2>1, <2>3
    <3>2. key[p[i - 1]] <= key[p[j - 1]]
      BY <1>10, <3>1
    <3> QED BY <1>12, <2>1, <2>3, <3>2
  <2> QED BY <2>2, <2>3
<1>17. q \in SetToSeqs(S) /\ Sorted(q)
  <2>1. DOMAIN q = 1 .. n
    BY <1>14
  <2> QED BY <1>5, <1>14, <1>15, <1>16, <2>1 DEF SetToSeqs
<1> QED BY <1>5, <1>17 DEF Lacking

\* PendingBatches (file_store.go:238-261) returns every recoverable record
\* once, least recently updated first; where the limit leaves some out, none
\* of these is older than one that is listed.
THEOREM OldestListed ==
    ASSUME IsFiniteSet(BatchIds), NEW limit \in Int,
           NEW d, IsMap(d.batches, BatchIds, BatchRecord)
    PROVE  LET R == Recoverable(d)
               At(bid) == d.batches[bid].updatedAt
           IN  /\ PendingBatches(d, limit) # {}
               /\ \A list \in PendingBatches(d, limit) :
                    /\ list \in Seq(R)
                    /\ Len(list) = IF Cardinality(R) > Most(limit)
                                   THEN Most(limit)
                                   ELSE Cardinality(R)
                    /\ \A i, j \in DOMAIN list : i < j =>
                         /\ list[i] # list[j]
                         /\ At(list[i]) <= At(list[j])
                    /\ \A bid \in R : (\A i \in DOMAIN list : list[i] # bid) =>
                         /\ Len(list) = Most(limit)
                         /\ \A i \in DOMAIN list : At(list[i]) <= At(bid)
<1> DEFINE R == Recoverable(d)
           At(bid) == d.batches[bid].updatedAt
           m == Most(limit)
           n == Cardinality(R)
           Sorted(q) == \A i, j \in DOMAIN q : i < j => At(q[i]) <= At(q[j])
           Cut(q) == SubSeq(q, 1, IF Len(q) > m THEN m ELSE Len(q))
<1>1. IsFiniteSet(R) /\ n \in Nat
  <2>1. R \subseteq BatchIds
    BY DEF Recoverable, IsMap
  <2> QED BY <2>1, FS_Subset, FS_CardinalityType
<1>2. \A bid \in R : At(bid) \in Nat
  BY StoreAssumption DEF Recoverable, IsMap, BatchRecord
<1>3. PendingBatches(d, limit) = {Cut(q) : q \in {s \in SetToSeqs(R) : Sorted(s)}}
  BY DEF PendingBatches, Most
<1>4. m \in Nat \ {0}
  BY DEF Most
<1> HIDE DEF R, m
<1>5. \E q \in SetToSeqs(R) : Sorted(q)
  <2> DEFINE key == [bid \in R |-> At(bid)]
  <2>1. key \in [R -> Nat]
    BY <1>2
  <2>2. \A bid \in R : key[bid] = At(bid)
    OBVIOUS
  <2> HIDE DEF key
  <2>3. PICK q \in SetToSeqs(R) :
          \A i, j \in DOMAIN q : i < j => key[q[i]] <= key[q[j]]
    BY <1>1, <2>1, SortedExists
  <2>4. \A i \in DOMAIN q : q[i] \in R
    BY DEF SetToSeqs
  <2> QED BY <2>2, <2>3, <2>4
<1>6. ASSUME NEW q \in SetToSeqs(R), Sorted(q), NEW list, list = Cut(q)
      PROVE  /\ list \in Seq(R)
             /\ Len(list) = IF n > m THEN m ELSE n
             /\ \A i, j \in DOMAIN list : i < j =>
                  list[i] # list[j] /\ At(list[i]) <= At(list[j])
             /\ \A bid \in R : (\A i \in DOMAIN list : list[i] # bid) =>
                  /\ Len(list) = m
                  /\ \A i \in DOMAIN list : At(list[i]) <= At(bid)
  <2>1. q \in [1 .. n -> R] /\ \A i, j \in 1 .. n : i # j => q[i] # q[j]
    BY DEF SetToSeqs
  <2>2. q \in Seq(R) /\ Len(q) = n /\ DOMAIN q = 1 .. n
    BY <1>1, <2>1
  <2> DEFINE k == IF n > m THEN m ELSE n
  <2>3. k \in Nat /\ k <= n /\ list = SubSeq(q, 1, k)
    BY <1>1, <1>4, <1>6, <2>2
  <2>4. \A i \in 1 .. k : i \in 1 .. n /\ q[i] \in R
    BY <1>1, <2>1, <2>3
  <2>5. k < n => k = m
    BY <1>1, <1>4
  <2> HIDE DEF k, n
  <2>6. /\ list \in Seq(R) /\ Len(list) = k
        /\ \A i \in 1 .. k : list[i] = q[i]
    BY <2>2, <2>3, <2>4, SubSeqProperties
  <2>7. DOMAIN list = 1 .. k
    BY <2>6, LenProperties
  <2>8. ASSUME NEW i \in 1 .. k, NEW j \in 1 .. k, i < j
        PROVE  list[i] # list[j] /\ At(list[i]) <= At(list[j])
    <3>1. i \in DOMAIN q /\ j \in DOMAIN q /\ i # j
      BY <2>2, <2>3, <2>4, <2>8
    <3>2. At(q[i]) <= At(q[j])
      BY <1>6, <2>8, <3>1
    <3>3. q[i] # q[j]
      BY <2>1, <2>4, <3>1
    <3> QED BY <2>6, <3>2, <3>3
  <2>9. ASSUME NEW bid \in R, \A i \in 1 .. k : list[i] # bid
        PROVE  k = m /\ \A i \in 1 .. k : At(list[i]) <= At(bid)
    <3>1. PICK j \in 1 .. n : q[j] = bid
      <4>1. q \in Injection(1 .. n, R)
        BY <2>1 DEF Injection, IsInjective
      <4>2. Cardinality(1 .. n) = n
        BY <1>1, FS_Interval DEF n
      <4>3. q \in Surjection(1 .. n, R)
        BY <1>1, <4>1, <4>2, FS_Injection DEF n
      <4> QED BY <4>3 DEF Surjection
    <3>2. j \notin 1 .. k
      BY <2>6, <2>9, <3>1
    <3>3. n \in Nat
      BY <1>1 DEF n
    <3>4. k < j /\ k < n
      BY <2>3, <3>2, <3>3
    <3>5. ASSUME NEW i \in 1 .. k PROVE At(list[i]) <= At(bid)
      <4>1. i < j /\ i \in 1 .. n
        BY <2>3, <2>4, <3>3, <3>4
      <4> QED BY <1>6, <2>2, <2>6, <3>1, <4>1
    <3> QED BY <2>5, <3>4, <3>5
  <2> QED BY <2>6, <2>7, <2>8, <2>9 DEF k
<1> QED BY <1>3, <1>5, <1>6 DEF R, m

\* In particular, only recoverable records are listed.
LEMMA Listed ==
    ASSUME IsFiniteSet(BatchIds), NEW limit \in Int,
           NEW d, IsMap(d.batches, BatchIds, BatchRecord),
           NEW list \in PendingBatches(d, limit)
    PROVE  list \in Seq(Recoverable(d))
BY OldestListed, Zenon

=============================================================================
