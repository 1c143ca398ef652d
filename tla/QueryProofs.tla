----------------------------- MODULE QueryProofs -----------------------------
(***************************************************************************)
(* What clients are shown fits together and is durable, for every window,  *)
(* every page size, any number of clients and operators, and any batches.  *)
(*                                                                         *)
(* The argument is about the log in the file, which only ever grows at its *)
(* end: a call under way holds a station and a cursor no later than it,    *)
(* and a finished answer is a window of it.                                *)
(***************************************************************************)
EXTENDS Query, StationServiceProofs, FiniteSetTheorems

-----------------------------------------------------------------------------
(* Windows of a log. *)

\* The number of members of an interval.
LEMMA IntervalSize ==
    ASSUME NEW a \in Nat, NEW n \in Nat, a <= n
    PROVE  Cardinality(a + 1 .. n) = n - a
<1>1. a + 1 \in Int /\ n \in Int
  OBVIOUS
<1>2. Cardinality(a + 1 .. n) = IF a + 1 > n THEN 0 ELSE n - (a + 1) + 1
  BY <1>1, FS_Interval
<1> QED BY <1>2

\* The members of an interval in their order.
LEMMA NthOfInterval ==
    ASSUME NEW a \in Nat, NEW n \in Nat, NEW j \in 1 .. n - a
    PROVE  Nth(a + 1 .. n, j) = a + j
<1> DEFINE S == a + 1 .. n
<1>1. ASSUME NEW i \in S
      PROVE  Cardinality({k \in S : k < i}) = i - a - 1
  <2> DEFINE T == {k \in S : k < i}
  <2>1. T = a + 1 .. i - 1
    OBVIOUS
  <2>2. PICK m \in Nat : m = i - 1 /\ a <= m
    <3>1. i - 1 \in Nat /\ a <= i - 1
      OBVIOUS
    <3> QED BY <3>1
  <2>3. Cardinality(a + 1 .. m) = m - a
    BY <2>2, IntervalSize
  <2> HIDE DEF T
  <2>4. Cardinality(T) = i - a - 1
    BY <2>1, <2>2, <2>3
  <2> QED BY <2>4 DEF T
<1>2. a + j \in S
  OBVIOUS
<1>3. \A i \in S : Cardinality({k \in S : k < i}) = j - 1 <=> i = a + j
  BY <1>1
<1> HIDE DEF S
<1> QED BY <1>2, <1>3 DEF Nth, S

\* A log numbers its readings from 1.
Numbered(log) == /\ log \in Seq(Reading)
                 /\ \A i \in DOMAIN log : log[i].sequence = i

\* How many readings of a log have no later sequence than `after`.
Skipped(log, after) ==
    IF after < 0 THEN 0 ELSE IF after > Len(log) THEN Len(log) ELSE after

\* The rows after the a-th of a log are its tail.
LEMMA AfterIsTail ==
    ASSUME NEW log, Numbered(log), NEW after \in Int
    PROVE  /\ Skipped(log, after) \in 0 .. Len(log) /\ Len(log) \in Nat
           /\ After(log, after) \in Seq(Reading)
           /\ Len(After(log, after)) = Len(log) - Skipped(log, after)
           /\ \A j \in 1 .. Len(log) - Skipped(log, after) :
                 After(log, after)[j] = log[Skipped(log, after) + j]
<1> DEFINE a == Skipped(log, after)
           n == Len(log)
           kept == {i \in DOMAIN log : log[i].sequence > after}
<1>1. n \in Nat /\ DOMAIN log = 1 .. n /\ \A i \in 1 .. n : log[i] \in Reading
  BY LenProperties, ElementOfSeq DEF Numbered
<1>2. a \in 0 .. n
  BY <1>1 DEF Skipped
<1>3. kept = a + 1 .. n
  BY <1>1, <1>2 DEF Numbered, Skipped
<1> HIDE DEF n, a, kept
<1>4. Cardinality(kept) = n - a
  <2>1. a \in Nat /\ a <= n
    BY <1>1, <1>2
  <2>2. Cardinality(a + 1 .. n) = n - a
    BY <1>1, <2>1, IntervalSize
  <2> QED BY <1>3, <2>2
<1>5. After(log, after) = [j \in 1 .. n - a |-> log[Nth(kept, j)]]
  BY <1>4 DEF After, kept
<1>6. ASSUME NEW j \in 1 .. n - a
      PROVE  Nth(kept, j) = a + j /\ a + j \in 1 .. n
  <2>1. a \in Nat
    BY <1>1, <1>2
  <2>2. Nth(a + 1 .. n, j) = a + j
    BY <1>1, <2>1, NthOfInterval
  <2> QED BY <1>1, <1>2, <1>3, <2>1, <2>2
<1>7. After(log, after) = [j \in 1 .. n - a |-> log[a + j]]
  BY <1>5, <1>6
<1>8. n - a \in Nat /\ \A j \in 1 .. n - a : log[a + j] \in Reading
  BY <1>1, <1>2, <1>6
<1>9. After(log, after) \in Seq(Reading) /\ Len(After(log, after)) = n - a
  <2> DEFINE t == [j \in 1 .. n - a |-> log[a + j]]
  <2>1. t \in [1 .. n - a -> Reading]
    BY <1>8
  <2> HIDE DEF t
  <2>2. t \in Seq(Reading) /\ Len(t) = n - a
    BY <1>8, <2>1, IsASeq, LenProperties
  <2> QED BY <1>7, <2>2 DEF t
<1> QED BY <1>1, <1>2, <1>7, <1>9 DEF a, n

\* Rows(log, after, limit) is that tail, cut at the limit.
IsWindow(log, after, limit, rows) ==
    /\ rows \in Seq(Reading) /\ Len(rows) \in Nat
    /\ Skipped(log, after) + Len(rows) <= Len(log)
    /\ limit > 0 => Len(rows) <= limit
    /\ Skipped(log, after) + Len(rows) < Len(log)
         => limit > 0 /\ Len(rows) = limit
    /\ \A j \in 1 .. Len(rows) : rows[j] = log[Skipped(log, after) + j]

LEMMA RowsAreWindow ==
    ASSUME NEW log, Numbered(log), NEW after \in Int, NEW limit \in Int
    PROVE  IsWindow(log, after, limit, Rows(log, after, limit))
<1> DEFINE a == Skipped(log, after)
           tail == After(log, after)
           rows == Rows(log, after, limit)
<1>1. Len(log) \in Nat /\ a \in 0 .. Len(log)
  BY AfterIsTail
<1>2. /\ tail \in Seq(Reading) /\ Len(tail) = Len(log) - a
      /\ \A j \in 1 .. Len(log) - a : tail[j] = log[a + j]
  BY AfterIsTail
<1>3. rows = IF limit > 0 /\ Len(tail) > limit THEN SubSeq(tail, 1, limit)
             ELSE tail
  BY DEF Rows
<1> HIDE DEF a, tail, rows
<1>4. CASE limit > 0 /\ Len(tail) > limit
  <2>1. limit \in Nat /\ limit \in 1 .. Len(tail) /\ 1 \in 1 .. Len(tail) + 1
    BY <1>1, <1>2, <1>4
  <2>2. /\ SubSeq(tail, 1, limit) \in Seq(Reading)
        /\ Len(SubSeq(tail, 1, limit)) = limit
        /\ \A j \in 1 .. limit : SubSeq(tail, 1, limit)[j] = tail[j]
    BY <1>1, <1>2, <2>1
  <2>3. rows = SubSeq(tail, 1, limit)
    BY <1>3, <1>4
  <2>4. \A j \in 1 .. limit : rows[j] = log[a + j]
    BY <1>1, <1>2, <2>1, <2>2, <2>3
  <2> QED BY <1>1, <1>2, <1>4, <2>1, <2>2, <2>3, <2>4 DEF IsWindow, a, rows
<1>5. CASE ~ (limit > 0 /\ Len(tail) > limit)
  BY <1>1, <1>2, <1>3, <1>5 DEF IsWindow, a, rows
<1> QED BY <1>4, <1>5

-----------------------------------------------------------------------------
(* Logs in the file. *)

\* The logs of the file, and of an open store, are numbered from 1, and an
\* open store's are the file's.
LEMMA LogsNumbered ==
    ASSUME StoreInv, NEW s \in StationIds
    PROVE  /\ Numbered(disk.readings[s])
           /\ Len(disk.readings[s]) \in Nat
           /\ DOMAIN disk.readings[s] = 1 .. Len(disk.readings[s])
           /\ Ready => state.readings[s] = disk.readings[s]
<1>1. SoundSnapshot(disk) /\ VisibleIsDurable
  BY InvIsSoundness
<1>2. disk.readings[s] \in Seq(Reading)
  BY <1>1 DEF SoundSnapshot, IsDiskState
<1> QED BY <1>1, <1>2, LenProperties
        DEF SoundSnapshot, CursorDescribes, Numbered, VisibleIsDurable, Ready

-----------------------------------------------------------------------------
(* The invariant. *)

\* A call under way has read nothing that is beyond the log in the file, and
\* its station is not ahead of its cursor.
CallSound(q, logs) ==
    /\ q.station.lastSequence <= Len(logs[q.id])
    /\ q.next = "readings" => /\ q.station.lastSequence <= q.cursor
                              /\ q.cursor <= Len(logs[q.id])

QueryInv ==
    /\ ServiceInv
    /\ IsMap(asked, Clients, Asked)
    /\ IsMap(shown, Clients, Snapshots)
    /\ fetched \in [Clients -> [StationIds -> Seq(Reading)]]
    /\ \A c \in DOMAIN asked : CallSound(asked[c], disk.readings)
    /\ \A c \in DOMAIN shown : /\ FitsTogether(shown[c])
                               /\ Durable(shown[c], disk.readings)
    /\ \A c \in Clients, s \in StationIds :
          Extends(disk.readings[s], fetched[c][s])

\* What was sound stays so while the logs in the file grow.
LEMMA CallStaysSound ==
    ASSUME LogsExtend, NEW q \in Asked, CallSound(q, disk.readings),
           \A s \in StationIds : /\ Len(disk.readings[s]) \in Nat
                                  /\ Len(disk'.readings[s]) \in Nat
    PROVE  CallSound(q, disk'.readings)
BY DEF CallSound, Asked, Station, LogsExtend, Extends

LEMMA StaysDurable ==
    ASSUME StoreInv, StoreInv', LogsExtend, NEW snap \in Snapshots, Durable(snap, disk.readings)
    PROVE  Durable(snap, disk'.readings)
<1> DEFINE s == snap.id
<1>1. s \in StationIds /\ snap.cursor \in Nat
  BY DEF Snapshots
<1>2. /\ Len(disk.readings[s]) \in Nat
      /\ DOMAIN disk.readings[s] = 1 .. Len(disk.readings[s])
  BY <1>1, LogsNumbered
<1>3. /\ Len(disk'.readings[s]) \in Nat
      /\ DOMAIN disk'.readings[s] = 1 .. Len(disk'.readings[s])
  <2>1. IsDiskState(disk')
    BY DEF StoreInv, TypeOK
  <2>2. disk'.readings[s] \in Seq(Reading)
    BY <1>1, <2>1 DEF IsDiskState
  <2> QED BY <2>2, LenProperties
<1> DEFINE log == disk.readings[s]
           new == disk'.readings[s]
<1>4. Len(log) <= Len(new) /\ \A i \in 1 .. Len(log) : new[i] = log[i]
  BY <1>1 DEF LogsExtend, Extends
<1>5. /\ snap.cursor <= Len(log)
      /\ \A i \in DOMAIN snap.recent :
           /\ snap.recent[i].sequence \in 1 .. Len(log)
           /\ log[snap.recent[i].sequence] = snap.recent[i]
  BY <1>2 DEF Durable
<1>6. Len(log) \in Nat /\ Len(new) \in Nat /\ DOMAIN new = 1 .. Len(new)
  BY <1>2, <1>3
<1>7. Durable(snap, disk'.readings) <=>
        /\ snap.cursor <= Len(new)
        /\ \A i \in DOMAIN snap.recent :
             /\ snap.recent[i].sequence \in DOMAIN new
             /\ new[snap.recent[i].sequence] = snap.recent[i]
  BY DEF Durable
<1> HIDE DEF log, new, s
<1>8. snap.cursor <= Len(new)
  BY <1>1, <1>4, <1>5, <1>6
<1>9. ASSUME NEW i \in DOMAIN snap.recent
      PROVE  /\ snap.recent[i].sequence \in DOMAIN new
             /\ new[snap.recent[i].sequence] = snap.recent[i]
  BY <1>4, <1>5, <1>6
<1> QED BY <1>7, <1>8, <1>9

LEMMA StaysExtended ==
    ASSUME NEW a, NEW b, NEW c, Len(a) \in Nat, Len(b) \in Nat, Len(c) \in Nat,
           Extends(b, a), Extends(c, b)
    PROVE  Extends(c, a)
BY DEF Extends

-----------------------------------------------------------------------------
(* The requests. *)

\* The last sequence of a numbered window.
LEMMA LatestOfWindow ==
    ASSUME NEW rows \in Seq(Reading), NEW start \in Nat,
           \A i \in 1 .. Len(rows) : rows[i].sequence = start + i,
           Len(rows) = 0 => start = 0
    PROVE  Summarize(rows).latestSequence = start + Len(rows)
<1> DEFINE n == Len(rows)
           S == {0} \cup {rows[i].sequence : i \in DOMAIN rows}
<1>1. n \in Nat /\ DOMAIN rows = 1 .. n
  BY LenProperties
<1>2. \A x \in S : x \in Nat /\ x <= start + n
  BY <1>1
<1>3. start + n \in S
  <2>1. CASE n = 0
    BY <2>1
  <2>2. CASE n # 0
    <3>1. n \in DOMAIN rows /\ rows[n].sequence = start + n
      BY <1>1, <2>2
    <3> QED BY <3>1
  <2> QED BY <2>1, <2>2
<1>4. Summarize(rows).latestSequence = Max(S)
  BY DEF Summarize
<1> HIDE DEF S, n
<1>5. Max(S) = start + n
  <2>1. \A x \in S : (\A y \in S : x >= y) <=> x = start + n
    BY <1>1, <1>2, <1>3
  <2> QED BY <1>3, <2>1 DEF Max
<1> QED BY <1>4, <1>5 DEF n

\* The third read of a snapshot completes it to a window of the log.
LEMMA AnswerSound ==
    ASSUME StoreInv, Ready, NEW q \in Asked, CallSound(q, disk.readings), q.next = "readings",
           NEW snap, snap = Snapshot(q, Rows(state.readings[q.id],
                                             q.cursor - SnapshotLimit,
                                             SnapshotLimit))
    PROVE  snap \in Snapshots /\ FitsTogether(snap) /\ Durable(snap, disk.readings)
<1> DEFINE log == disk.readings[q.id]
           rows == Rows(log, q.cursor - SnapshotLimit, SnapshotLimit)
           start == WindowStart(q.cursor)
<1>1. /\ q.id \in StationIds /\ q.station \in Station /\ q.cursor \in Nat
      /\ q.station.lastSequence \in Nat
      /\ SnapshotLimit \in Nat \ {0}
  BY QueryAssumption DEF Asked, Station
<1>2. /\ Numbered(log) /\ Len(log) \in Nat /\ DOMAIN log = 1 .. Len(log)
      /\ state.readings[q.id] = log
  BY <1>1, LogsNumbered
<1>3. /\ snap.id = q.id /\ snap.station = q.station /\ snap.cursor = q.cursor
      /\ snap.recent = rows /\ snap.summary = Summarize(rows)
      /\ snap = [id |-> q.id, station |-> q.station, cursor |-> q.cursor,
                 recent |-> rows, summary |-> Summarize(rows)]
  BY <1>2 DEF Snapshot
<1>4. q.station.lastSequence <= q.cursor /\ q.cursor <= Len(log)
  BY DEF CallSound
<1> HIDE DEF log
<1>5. start \in Nat /\ Skipped(log, q.cursor - SnapshotLimit) = start
      /\ start <= Len(log) /\ start <= q.cursor
      /\ q.cursor <= start + SnapshotLimit
  BY <1>1, <1>2, <1>4 DEF WindowStart, Skipped
<1>6. /\ rows \in Seq(Reading) /\ Len(rows) \in Nat
      /\ start + Len(rows) <= Len(log) /\ Len(rows) <= SnapshotLimit
      /\ start + Len(rows) < Len(log) => Len(rows) = SnapshotLimit
      /\ \A j \in 1 .. Len(rows) : rows[j] = log[start + j]
  <2>1. IsWindow(log, q.cursor - SnapshotLimit, SnapshotLimit, rows)
    <3>1. q.cursor - SnapshotLimit \in Int /\ SnapshotLimit \in Int
      BY <1>1
    <3> QED BY <1>2, <3>1, RowsAreWindow
  <2> QED BY <1>1, <1>5, <2>1 DEF IsWindow
<1> HIDE DEF rows, start
<1>7. DOMAIN rows = 1 .. Len(rows)
  BY <1>6, LenProperties
<1>8. ASSUME NEW j \in 1 .. Len(rows)
      PROVE  /\ start + j \in 1 .. Len(log) /\ rows[j] = log[start + j]
             /\ rows[j].sequence = start + j
  <2>1. start + j \in 1 .. Len(log)
    BY <1>2, <1>5, <1>6
  <2> QED BY <1>2, <1>6, <2>1 DEF Numbered
<1>9. q.cursor <= start + Len(rows)
  BY <1>1, <1>2, <1>4, <1>5, <1>6
<1>10. Len(rows) = 0 => start = 0
  <2>1. ASSUME Len(rows) = 0, start # 0 PROVE FALSE
    <3>1. start < q.cursor
      BY <1>1, <2>1 DEF start, WindowStart
    <3> QED BY <1>1, <1>5, <1>9, <2>1, <3>1
  <2> QED BY <2>1
<1>11. /\ Summarize(rows).latestSequence = start + Len(rows)
       /\ Summarize(rows) \in Summary
  <2>1. Summarize(rows).latestSequence = start + Len(rows)
    BY <1>5, <1>6, <1>8, <1>10, LatestOfWindow
  <2>2. Summarize(rows) = [count |-> Len(rows), latestSequence |->
                             Summarize(rows).latestSequence]
    BY DEF Summarize
  <2>3. start + Len(rows) \in Nat
    BY <1>5, <1>6
  <2> QED BY <1>6, <2>1, <2>2, <2>3 DEF Summary
<1>12. snap \in Snapshots
  BY <1>1, <1>3, <1>6, <1>11 DEF Snapshots
<1>13. FitsTogether(snap)
  <2>1. start + Len(rows) <= start + SnapshotLimit
    BY <1>1, <1>5, <1>6
  <2>2. WindowStart(snap.cursor) = start /\ Len(snap.recent) = Len(rows)
    BY <1>3 DEF start
  <2>3. \A i \in DOMAIN snap.recent : snap.recent[i].sequence = start + i
    BY <1>3, <1>7, <1>8
  <2>4. /\ snap.station.lastSequence <= snap.cursor
        /\ snap.cursor <= start + Len(rows)
        /\ snap.summary.latestSequence = start + Len(rows)
    BY <1>3, <1>4, <1>9, <1>11
  <2> QED BY <2>1, <2>2, <2>3, <2>4 DEF FitsTogether
<1>14. Durable(snap, disk.readings)
  <2>1. disk.readings[snap.id] = log
    BY <1>3 DEF log
  <2>2. \A i \in DOMAIN snap.recent :
          /\ snap.recent[i].sequence \in DOMAIN log
          /\ log[snap.recent[i].sequence] = snap.recent[i]
    BY <1>2, <1>3, <1>7, <1>8
  <2> QED BY <1>3, <1>4, <2>1, <2>2 DEF Durable
<1> QED BY <1>12, <1>13, <1>14

\* A page continues what its client has.
LEMMA PageSound ==
    ASSUME NEW log, Numbered(log), NEW have \in Seq(Reading), Extends(log, have),
           NEW limit \in Int
    PROVE  LET after == IF have = <<>> THEN 0 ELSE Last(have).sequence
               page == Rows(log, after, limit)
           IN  have \o page \in Seq(Reading) /\ Extends(log, have \o page)
<1> DEFINE after == IF have = <<>> THEN 0 ELSE Last(have).sequence
           page == Rows(log, after, limit)
           n == Len(have)
<1>1. /\ n \in Nat /\ n <= Len(log) /\ Len(log) \in Nat
      /\ \A i \in 1 .. n : have[i] = log[i]
      /\ \A i \in 1 .. Len(log) : log[i].sequence = i
  BY LenProperties DEF Extends, Numbered
<1>2. after = n
  <2>1. CASE have = <<>>
    BY <2>1
  <2>2. CASE have # <<>>
    <3>1. n \in 1 .. n /\ n \in 1 .. Len(log)
      BY <1>1, <2>2, EmptySeq
    <3>2. Last(have) = have[n]
      BY DEF Last
    <3> QED BY <1>1, <2>2, <3>1, <3>2
  <2> QED BY <2>1, <2>2
<1> HIDE DEF after
<1>3. after \in Int /\ Skipped(log, after) = n
  BY <1>1, <1>2 DEF Skipped
<1>4. /\ page \in Seq(Reading) /\ Len(page) \in Nat /\ n + Len(page) <= Len(log)
      /\ \A j \in 1 .. Len(page) : page[j] = log[n + j]
  BY <1>3, RowsAreWindow DEF IsWindow
<1> HIDE DEF page, n
<1>5. /\ have \o page \in Seq(Reading) /\ Len(have \o page) = n + Len(page)
      /\ \A i \in 1 .. n : (have \o page)[i] = have[i]
      /\ \A j \in 1 .. Len(page) : (have \o page)[n + j] = page[j]
  BY <1>4, Joined DEF n
<1>6. ASSUME NEW i \in 1 .. n + Len(page)
      PROVE  (have \o page)[i] = log[i]
  <2>1. CASE i <= n
    BY <1>1, <1>4, <1>5, <2>1
  <2>2. CASE ~ (i <= n)
    <3>1. PICK j \in 1 .. Len(page) : i = n + j
      <4>1. i - n \in 1 .. Len(page) /\ i = n + (i - n)
        BY <1>1, <1>4, <2>2
      <4> QED BY <4>1
    <3> QED BY <1>4, <1>5, <3>1
  <2> QED BY <2>1, <2>2
<1>7. Extends(log, have \o page)
  BY <1>4, <1>5, <1>6 DEF Extends
<1> QED BY <1>5, <1>7 DEF after, page

-----------------------------------------------------------------------------
(* The invariant is inductive. *)

\* No client has been shown anything.
LEMMA QueryInitInv == QueryInit => QueryInv
<1> SUFFICES ASSUME QueryInit PROVE QueryInv
  OBVIOUS
<1>1. ServiceInv
  BY ServiceInitInv DEF QueryInit
<1>2. asked = EmptyMap /\ shown = EmptyMap /\ DOMAIN EmptyMap = {}
  BY DEF QueryInit, EmptyMap
<1>3. /\ fetched \in [Clients -> [StationIds -> Seq(Reading)]]
      /\ \A c \in Clients, s \in StationIds : fetched[c][s] = <<>>
  BY EmptySeq DEF QueryInit
<1>4. ASSUME NEW s \in StationIds
      PROVE  Extends(disk.readings[s], <<>>)
  <2>1. Len(disk.readings[s]) \in Nat
    BY <1>1, LogsNumbered DEF ServiceInv
  <2> QED BY <2>1 DEF Extends
<1> QED BY <1>1, <1>2, <1>3, <1>4, EmptyMapType DEF QueryInv

\* The rest of the program only adds to the logs.
LEMMA RestInv == QueryInv /\ Rest => QueryInv'
<1> SUFFICES ASSUME QueryInv, Rest PROVE QueryInv'
  OBVIOUS
<1>1. /\ ServiceInv /\ StoreInv /\ ServiceInv' /\ StoreInv'
  BY ServiceStepInv DEF QueryInv, Rest, ServiceInv
<1>2. LogsExtend
  BY <1>1, LogsGrow, ServiceStepIsStoreStep DEF Rest
<1>3. ASSUME NEW s \in StationIds
      PROVE  /\ Len(disk.readings[s]) \in Nat /\ Len(disk'.readings[s]) \in Nat
             /\ Extends(disk'.readings[s], disk.readings[s])
  <2>1. Len(disk.readings[s]) \in Nat
    BY <1>1, LogsNumbered
  <2>2. disk'.readings \in [StationIds -> Seq(Reading)]
    BY <1>1 DEF StoreInv, TypeOK, IsDiskState
  <2> QED BY <1>2, <2>1, <2>2, LenProperties DEF LogsExtend
<1>4. /\ shown' = shown /\ fetched' = fetched
      /\ asked' = asked \/ asked' = EmptyMap
  BY DEF Rest
<1>5. /\ IsMap(asked', Clients, Asked) /\ IsMap(shown', Clients, Snapshots)
      /\ fetched' \in [Clients -> [StationIds -> Seq(Reading)]]
  BY <1>4, EmptyMapType DEF QueryInv
<1>6. ASSUME NEW c \in DOMAIN asked'
      PROVE  CallSound(asked'[c], disk'.readings)
  <2>1. asked' = asked /\ c \in DOMAIN asked
    BY <1>4, <1>6 DEF EmptyMap
  <2>2. asked[c] \in Asked /\ CallSound(asked[c], disk.readings)
    BY <2>1 DEF QueryInv, IsMap
  <2> QED BY <1>2, <1>3, <2>1, <2>2, CallStaysSound
<1>7. ASSUME NEW c \in DOMAIN shown'
      PROVE  FitsTogether(shown'[c]) /\ Durable(shown'[c], disk'.readings)
  <2>1. /\ shown[c] \in Snapshots /\ FitsTogether(shown[c]) /\ Durable(shown[c], disk.readings)
        /\ shown'[c] = shown[c]
    BY <1>4 DEF QueryInv, IsMap
  <2> QED BY <1>1, <1>2, <2>1, StaysDurable
<1>8. ASSUME NEW c \in Clients, NEW s \in StationIds
      PROVE  Extends(disk'.readings[s], fetched'[c][s])
  <2>1. fetched[c][s] \in Seq(Reading) /\ Extends(disk.readings[s], fetched[c][s])
    BY DEF QueryInv
  <2>2. Len(fetched[c][s]) \in Nat
    BY <2>1, LenProperties
  <2> QED BY <1>3, <1>4, <2>1, <2>2, StaysExtended
<1> QED BY <1>1, <1>5, <1>6, <1>7, <1>8 DEF QueryInv

\* A request changes nothing but what its client holds.
LEMMA RequestKeeps ==
    ASSUME QueryInv, UNCHANGED serviceVars,
           IsMap(asked', Clients, Asked), IsMap(shown', Clients, Snapshots),
           fetched' \in [Clients -> [StationIds -> Seq(Reading)]],
           \A x \in DOMAIN asked' : CallSound(asked'[x], disk.readings),
           \A x \in DOMAIN shown' : FitsTogether(shown'[x]) /\ Durable(shown'[x], disk.readings),
           \A x \in Clients, s \in StationIds :
             Extends(disk.readings[s], fetched'[x][s])
    PROVE  QueryInv'
<1>1. /\ state' = state /\ disk' = disk /\ mode' = mode /\ fault' = fault
      /\ acked' = acked /\ held' = held
  BY DEF serviceVars
<1>2. ServiceInv'
  BY ServiceStepInv DEF QueryInv
<1> QED BY <1>1, <1>2 DEF QueryInv

\* A call that ends leaves the others as they are.
LEMMA EndedCalls ==
    ASSUME QueryInv, NEW c, EndAsked(c)
    PROVE  /\ IsMap(asked', Clients, Asked)
           /\ \A x \in DOMAIN asked' : CallSound(asked'[x], disk.readings)
<1>1. /\ IsMap(asked, Clients, Asked) /\ \A x \in DOMAIN asked : CallSound(asked[x], disk.readings)
  BY DEF QueryInv
<1> QED BY <1>1 DEF EndAsked, IsMap

\* A sound call is one more of them.
LEMMA AskedInv ==
    ASSUME QueryInv, NEW c \in Clients, NEW q \in Asked,
           CallSound(q, disk.readings), asked' = Put(asked, c, q),
           UNCHANGED <<serviceVars, shown, fetched>>
    PROVE  QueryInv'
<1>1. /\ IsMap(asked, Clients, Asked)
      /\ \A x \in DOMAIN asked : CallSound(asked[x], disk.readings)
  BY DEF QueryInv
<1>2. IsMap(asked', Clients, Asked)
  BY <1>1, PutType
<1>3. ASSUME NEW x \in DOMAIN asked'
      PROVE  CallSound(asked'[x], disk.readings)
  <2>1. CASE x = c
    BY <2>1 DEF Put
  <2>2. CASE x # c
    BY <1>1, <2>2 DEF Put
  <2> QED BY <2>1, <2>2
<1> QED BY <1>2, <1>3, RequestKeeps DEF QueryInv

\* Every call of a client keeps the invariant.
LEMMA RequestInv ==
    ASSUME QueryInv, NEW c \in Clients, Request(c)
    PROVE  QueryInv'
<1>1. /\ ServiceInv /\ StoreInv /\ SoundSnapshot(state)
      /\ IsMap(asked, Clients, Asked) /\ IsMap(shown, Clients, Snapshots)
      /\ fetched \in [Clients -> [StationIds -> Seq(Reading)]]
      /\ \A x \in DOMAIN asked : CallSound(asked[x], disk.readings)
      /\ \A x \in DOMAIN shown : FitsTogether(shown[x]) /\ Durable(shown[x], disk.readings)
      /\ \A x \in Clients, s \in StationIds :
            Extends(disk.readings[s], fetched[x][s])
  BY InvIsSoundness DEF QueryInv, ServiceInv
<1>2. ASSUME NEW id \in StationIds, GetStation(c, id)
      PROVE  QueryInv'
  <2> DEFINE q == [id |-> id, station |-> state.stations[id], cursor |-> 0,
                   next |-> "cursor"]
  <2>1. /\ asked' = Put(asked, c, q) /\ shown' = shown /\ fetched' = fetched
        /\ UNCHANGED serviceVars /\ Ready /\ id \in DOMAIN state.stations
    BY <1>2 DEF GetStation
  <2>2. state.stations[id] \in Station
    BY <1>1, <2>1 DEF SoundSnapshot, IsDiskState, IsMap
  <2>3. q \in Asked /\ q.station = state.stations[id] /\ q.id = id
        /\ q.next # "readings"
    BY <2>2 DEF Asked
  <2>4. state.stations[id].lastSequence <= Len(disk.readings[id])
    <3>1. /\ state.stations[id] \in HeldCopies(state, id)
          /\ IsDiskState(state) /\ DOMAIN state.stations = DOMAIN state.cursors
      BY <1>1, <2>1, SoundCursors, ServiceInvParts
         DEF AllShown, Shown, SoundSnapshot
    <3>2. state.stations[id].lastSequence <= state.cursors[id]
      BY <2>1, <3>1, ShownFields
    <3>3. state.cursors[id] = Len(state.readings[id])
      BY <1>1, <2>1, <3>1 DEF SoundSnapshot, CursorDescribes
    <3>4. state.readings[id] = disk.readings[id]
      BY <1>1, <2>1, LogsNumbered
    <3> QED BY <3>2, <3>3, <3>4
  <2>5. CallSound(q, disk.readings)
    BY <2>3, <2>4 DEF CallSound
  <2> HIDE DEF q
  <2> QED BY <1>1, <2>1, <2>3, <2>5, AskedInv
<1>3. CASE GetCursor(c)
  <2> DEFINE q == asked[c]
             n == state.cursors[q.id]
             r == [id |-> q.id, station |-> q.station, cursor |-> n,
                   next |-> "readings"]
  <2>1. /\ Ready /\ c \in DOMAIN asked /\ q.id \in DOMAIN state.cursors
        /\ asked' = Put(asked, c, r)
        /\ shown' = shown /\ fetched' = fetched /\ UNCHANGED serviceVars
    BY <1>3 DEF GetCursor, Asking
  <2>2. q \in Asked /\ CallSound(q, disk.readings)
    BY <1>1, <2>1 DEF IsMap
  <2>3. n \in Nat /\ q.id \in StationIds /\ n = Len(disk.readings[q.id])
    <3>1. q.id \in StationIds /\ n = Len(state.readings[q.id])
      BY <1>1, <2>1, <2>2 DEF SoundSnapshot, CursorDescribes, Asked
    <3>2. state.readings[q.id] = disk.readings[q.id]
          /\ Len(disk.readings[q.id]) \in Nat
      BY <1>1, <2>1, <3>1, LogsNumbered
    <3> QED BY <3>1, <3>2
  <2>4. r \in Asked /\ CallSound(r, disk.readings)
    BY <2>2, <2>3 DEF Asked, CallSound, Station
  <2> HIDE DEF r, q, n
  <2> QED BY <1>1, <2>1, <2>4, AskedInv
<1>4. CASE GetReadings(c)
  <2> DEFINE q == asked[c]
             snap == Snapshot(q, Rows(state.readings[q.id],
                                      q.cursor - SnapshotLimit, SnapshotLimit))
  <2>1. /\ Ready /\ c \in DOMAIN asked /\ q.next = "readings"
        /\ shown' = Put(shown, c, snap) /\ EndAsked(c)
        /\ fetched' = fetched /\ UNCHANGED serviceVars
    BY <1>4 DEF GetReadings, Asking
  <2>2. q \in Asked /\ CallSound(q, disk.readings)
    BY <1>1, <2>1 DEF IsMap
  <2>3. snap \in Snapshots /\ FitsTogether(snap) /\ Durable(snap, disk.readings)
    BY <1>1, <2>1, <2>2, AnswerSound
  <2> HIDE DEF snap, q
  <2>4. IsMap(shown', Clients, Snapshots)
    BY <1>1, <2>1, <2>3, PutType
  <2>5. ASSUME NEW x \in DOMAIN shown'
        PROVE  FitsTogether(shown'[x]) /\ Durable(shown'[x], disk.readings)
    <3>1. CASE x = c
      BY <2>1, <2>3, <3>1 DEF Put
    <3>2. CASE x # c
      BY <1>1, <2>1, <3>2 DEF Put
    <3> QED BY <3>1, <3>2
  <2> QED BY <1>1, <2>1, <2>4, <2>5, EndedCalls, RequestKeeps
<1>5. CASE Fail(c)
  <2>1. EndAsked(c) /\ shown' = shown /\ fetched' = fetched /\ UNCHANGED serviceVars
    BY <1>5 DEF Fail
  <2> QED BY <1>1, <2>1, EndedCalls, RequestKeeps
<1>6. ASSUME NEW id \in StationIds, NEW limit \in PageLimits,
             FetchPage(c, id, limit)
      PROVE  QueryInv'
  <2> DEFINE have == fetched[c][id]
             log == disk.readings[id]
             after == IF have = <<>> THEN 0 ELSE Last(have).sequence
             most == IF limit = 0 THEN 50 ELSE limit
             new == have \o Rows(log, after, most)
  <2>1. /\ Numbered(log) /\ state.readings[id] = log
    BY <1>1, <1>6, LogsNumbered DEF FetchPage
  <2>2. /\ fetched' = [fetched EXCEPT ![c][id] = new]
        /\ asked' = asked /\ shown' = shown /\ UNCHANGED serviceVars
    BY <1>6, <2>1 DEF FetchPage
  <2>3. have \in Seq(Reading) /\ Extends(log, have) /\ most \in Int
    BY <1>1, QueryAssumption
  <2>4. new \in Seq(Reading) /\ Extends(log, new)
    BY <2>1, <2>3, PageSound
  <2> HIDE DEF new, have, most, after
  <2>5. /\ fetched' \in [Clients -> [StationIds -> Seq(Reading)]]
        /\ \A x \in Clients, s \in StationIds :
              fetched'[x][s] = IF x = c /\ s = id THEN new ELSE fetched[x][s]
    BY <1>1, <2>2, <2>4
  <2>6. \A x \in Clients, s \in StationIds :
          Extends(disk.readings[s], fetched'[x][s])
    BY <1>1, <2>4, <2>5
  <2> QED BY <1>1, <2>2, <2>5, <2>6, RequestKeeps
<1> QED BY <1>2, <1>3, <1>4, <1>5, <1>6 DEF Request

\* Between requests, whatever the rest of the program does, and across
\* crashes, the invariant holds.
THEOREM QueryInvariance == QuerySpec => []QueryInv
<1>1. QueryInv /\ [QueryNext]_queryVars => QueryInv'
  <2> SUFFICES ASSUME QueryInv, [QueryNext]_queryVars PROVE QueryInv'
    OBVIOUS
  <2>1. CASE UNCHANGED queryVars
    <3>1. UNCHANGED serviceVars /\ asked' = asked /\ shown' = shown
          /\ fetched' = fetched
      BY <2>1 DEF queryVars, serviceVars
    <3> QED BY <3>1, RequestKeeps DEF QueryInv
  <2> QED BY <2>1, RestInv, RequestInv DEF QueryNext
<1> QED BY <1>1, QueryInitInv, PTL DEF QuerySpec

\* The types of calls, answers and pages.
THEOREM QueryTypeCorrect == QuerySpec => []QueryTypeOK
<1>1. QueryInv => QueryTypeOK
  BY DEF QueryInv, QueryTypeOK, ServiceInv, ServiceTypeOK, StoreInv
<1> QED BY <1>1, QueryInvariance, PTL

\* Three reads of three instants make one consistent window, whatever its
\* size (query/service.go:24-37).
THEOREM SnapshotsFitTogether == QuerySpec => []ShownFitsTogether
<1>1. QueryInv => ShownFitsTogether
  BY DEF QueryInv, ShownFitsTogether
<1> QED BY <1>1, QueryInvariance, PTL

\* What a client was shown is still in the file after any number of crashes.
THEOREM SnapshotsDurable == QuerySpec => []ShownIsDurable
<1>1. QueryInv => ShownIsDurable
  BY DEF QueryInv, ShownIsDurable
<1> QED BY <1>1, QueryInvariance, PTL

\* Whatever the page sizes, a client that pages collects the log from its
\* start (query/service.go:39-41).
THEOREM PagesMakeTheLog == QuerySpec => []PagesJoin
<1>1. ASSUME QueryInv, NEW c \in Clients, NEW s \in StationIds
      PROVE  IsPrefix(fetched[c][s], disk.readings[s])
  <2> DEFINE have == fetched[c][s]
             log == disk.readings[s]
  <2>1. have \in Seq(Reading) /\ Extends(log, have)
    BY <1>1 DEF QueryInv
  <2>2. log \in Seq(Reading)
    BY <1>1, LogsNumbered DEF QueryInv, ServiceInv, Numbered
  <2> HIDE DEF have, log
  <2>3. Len(have) \in Nat /\ Len(log) \in Nat /\ Len(have) <= Len(log)
        /\ \A i \in 1 .. Len(have) : log[i] = have[i]
    BY <2>1, <2>2, LenProperties DEF Extends
  <2>4. SubSeq(have, 1, Len(have)) = SubSeq(log, 1, Len(have))
    <3>1. /\ SubSeq(have, 1, Len(have)) = [i \in 1 .. Len(have) |-> have[i]]
          /\ SubSeq(log, 1, Len(have)) = [i \in 1 .. Len(have) |-> log[i]]
      BY <2>1, <2>2, <2>3
    <3> QED BY <2>3, <3>1
  <2>5. IsPrefix(have, log)
    BY <2>3, <2>4 DEF IsPrefix
  <2> QED BY <2>5 DEF have, log
<1>2. QueryInv => PagesJoin
  BY <1>1 DEF PagesJoin
<1> QED BY <1>2, QueryInvariance, PTL

-----------------------------------------------------------------------------
(* A client is never set back. *)

\* A call that is about to complete has read a cursor no older than the one
\* its client was shown before.
CallsLater ==
    \A c \in DOMAIN asked :
      c \in DOMAIN shown /\ asked[c].next = "readings"
        /\ shown[c].id = asked[c].id
          => shown[c].cursor <= asked[c].cursor

LEMMA CallsLaterStep ==
    QueryInv /\ CallsLater /\ [QueryNext]_queryVars => CallsLater'
<1> SUFFICES ASSUME QueryInv, CallsLater, [QueryNext]_queryVars
             PROVE  CallsLater'
  OBVIOUS
<1>1. CASE Rest
  BY <1>1 DEF Rest, CallsLater, EmptyMap
<1>2. CASE UNCHANGED queryVars
  BY <1>2 DEF queryVars, CallsLater
<1>3. ASSUME NEW c \in Clients, \/ GetReadings(c) \/ Fail(c)
                                \/ \E id \in StationIds : GetStation(c, id)
      PROVE  CallsLater'
  <2>1. CASE GetReadings(c)
    BY <2>1 DEF GetReadings, EndAsked, CallsLater, Put
  <2>2. CASE Fail(c)
    BY <2>2 DEF Fail, EndAsked, CallsLater
  <2>3. ASSUME NEW id \in StationIds, GetStation(c, id)
        PROVE  CallsLater'
    BY <2>3 DEF GetStation, CallsLater, Put
  <2> QED BY <1>3, <2>1, <2>2, <2>3
<1>4. ASSUME NEW c \in Clients, GetCursor(c)
      PROVE  CallsLater'
  <2> DEFINE q == asked[c]
             r == [id |-> q.id, station |-> q.station,
                   cursor |-> state.cursors[q.id], next |-> "readings"]
  <2>1. /\ Ready /\ c \in DOMAIN asked /\ asked' = Put(asked, c, r)
        /\ shown' = shown /\ q.id \in DOMAIN state.cursors
    BY <1>4 DEF GetCursor, Asking
  <2>2. ASSUME c \in DOMAIN shown, shown[c].id = q.id
        PROVE  shown[c].cursor <= state.cursors[q.id]
    <3>1. /\ shown[c] \in Snapshots /\ Durable(shown[c], disk.readings)
          /\ StoreInv
      BY <2>2 DEF QueryInv, IsMap, ServiceInv
    <3>2. q.id \in StationIds /\ shown[c].cursor <= Len(disk.readings[q.id])
      BY <2>2, <3>1 DEF Durable, Snapshots
    <3>3. state.cursors[q.id] = Len(state.readings[q.id])
      BY <2>1, <3>1, <3>2, InvIsSoundness DEF SoundSnapshot, CursorDescribes
    <3>4. state.readings[q.id] = disk.readings[q.id]
      BY <2>1, <3>1, <3>2, LogsNumbered
    <3> QED BY <3>2, <3>3, <3>4
  <2>3. r.id = q.id /\ r.cursor = state.cursors[q.id]
    OBVIOUS
  <2> HIDE DEF r, q
  <2>4. ASSUME NEW x \in DOMAIN asked', x \in DOMAIN shown',
               asked'[x].next = "readings", shown'[x].id = asked'[x].id
        PROVE  shown'[x].cursor <= asked'[x].cursor
    <3>1. CASE x = c
      BY <2>1, <2>2, <2>3, <2>4, <3>1 DEF Put
    <3>2. CASE x # c
      BY <2>1, <2>4, <3>2 DEF Put, CallsLater
    <3> QED BY <3>1, <3>2
  <2> QED BY <2>4 DEF CallsLater
<1>5. ASSUME NEW c \in Clients,
             \E id \in StationIds, limit \in PageLimits : FetchPage(c, id, limit)
      PROVE  CallsLater'
  BY <1>5 DEF FetchPage, CallsLater
<1> QED BY <1>1, <1>2, <1>3, <1>4, <1>5 DEF QueryNext, Request

\* The window of a later cursor ends no earlier.
LEMMA LaterWindow ==
    ASSUME NEW old \in Snapshots, FitsTogether(old), Durable(old, disk.readings),
           StoreInv, Ready, NEW q \in Asked, CallSound(q, disk.readings),
           q.next = "readings", old.id = q.id, old.cursor <= q.cursor,
           NEW rows, rows = Rows(state.readings[q.id], q.cursor - SnapshotLimit,
                                 SnapshotLimit)
    PROVE  old.summary.latestSequence <= Snapshot(q, rows).summary.latestSequence
<1> DEFINE log == disk.readings[q.id]
           new == Snapshot(q, rows)
           start == WindowStart(q.cursor)
           before == WindowStart(old.cursor)
<1>1. /\ q.id \in StationIds /\ q.cursor \in Nat /\ old.cursor \in Nat
      /\ SnapshotLimit \in Nat \ {0} /\ old.recent \in Seq(Reading)
      /\ Len(old.recent) \in Nat /\ DOMAIN old.recent = 1 .. Len(old.recent)
  BY QueryAssumption, LenProperties DEF Asked, Snapshots
<1>2. /\ Numbered(log) /\ Len(log) \in Nat /\ DOMAIN log = 1 .. Len(log)
      /\ state.readings[q.id] = log
  BY <1>1, LogsNumbered
<1>3. new.summary.latestSequence = start + Len(rows)
  <2>1. FitsTogether(new)
    BY AnswerSound
  <2>2. new.cursor = q.cursor /\ new.recent = rows
    BY DEF Snapshot
  <2> HIDE DEF new
  <2> QED BY <2>1, <2>2 DEF FitsTogether
<1>4. /\ old.summary.latestSequence = before + Len(old.recent)
      /\ before + Len(old.recent) <= before + SnapshotLimit
      /\ \A i \in DOMAIN old.recent : old.recent[i].sequence = before + i
      /\ old.cursor <= before + Len(old.recent)
  BY DEF FitsTogether
<1>5. /\ old.cursor <= Len(log)
      /\ \A i \in DOMAIN old.recent : old.recent[i].sequence \in DOMAIN log
  BY DEF Durable
<1>6. IsWindow(log, q.cursor - SnapshotLimit, SnapshotLimit, rows)
  <2>1. q.cursor - SnapshotLimit \in Int /\ SnapshotLimit \in Int
    BY <1>1
  <2> QED BY <1>2, <2>1, RowsAreWindow
<1>7. q.cursor <= Len(log)
  BY DEF CallSound
<1> HIDE DEF log, new
<1>8. /\ Skipped(log, q.cursor - SnapshotLimit) = start
      /\ start \in Nat /\ before \in Nat /\ before <= start
  BY <1>1, <1>2, <1>7 DEF WindowStart, Skipped
<1>9. /\ Len(rows) \in Nat /\ start + Len(rows) <= Len(log)
      /\ start + Len(rows) < Len(log) => Len(rows) = SnapshotLimit
  BY <1>6, <1>8 DEF IsWindow
<1> HIDE DEF start, before
<1>10. before + Len(old.recent) <= Len(log)
  <2>1. CASE Len(old.recent) = 0
    <3>1. before <= old.cursor
      BY <1>1 DEF before, WindowStart
    <3> QED BY <1>1, <1>2, <1>5, <1>8, <2>1, <3>1
  <2>2. CASE Len(old.recent) # 0
    <3>1. Len(old.recent) \in DOMAIN old.recent
      BY <1>1, <2>2
    <3>2. before + Len(old.recent) \in 1 .. Len(log)
      BY <1>2, <1>4, <1>5, <3>1
    <3> QED BY <3>2
  <2> QED BY <2>1, <2>2
<1>11. before + Len(old.recent) <= start + Len(rows)
  <2>1. CASE start + Len(rows) < Len(log)
    BY <1>1, <1>4, <1>8, <1>9, <2>1
  <2>2. CASE ~ (start + Len(rows) < Len(log))
    BY <1>1, <1>2, <1>8, <1>9, <1>10, <2>2
  <2> QED BY <2>1, <2>2
<1> QED BY <1>3, <1>4, <1>11 DEF new

\* Of two snapshots of a station a client gets, the later shows no older
\* cursor and no older reading, through commits and restarts in between.
THEOREM ClientsNeverSetBack == QuerySpec => NeverBackwards
<1> DEFINE Forward(c) ==
      /\ c \in DOMAIN shown'
      /\ shown'[c].id = shown[c].id =>
           /\ shown[c].cursor <= shown'[c].cursor
           /\ shown[c].summary.latestSequence
                <= shown'[c].summary.latestSequence
<1>1. QueryInit => CallsLater
  BY DEF QueryInit, CallsLater, EmptyMap
<1>2. ASSUME QueryInv, CallsLater, [QueryNext]_queryVars, NEW c \in DOMAIN shown
      PROVE  Forward(c)
  <2>1. /\ shown[c] \in Snapshots /\ FitsTogether(shown[c])
        /\ Durable(shown[c], disk.readings) /\ StoreInv
    BY <1>2 DEF QueryInv, IsMap, ServiceInv
  <2>2. ASSUME shown'[c] = shown[c], c \in DOMAIN shown'
        PROVE  Forward(c)
    <3>1. shown[c].cursor \in Nat /\ shown[c].summary.latestSequence \in Nat
      BY <2>1 DEF Snapshots, Summary
    <3> QED BY <2>2, <3>1
  <2>3. ASSUME NEW x \in Clients, GetReadings(x), x # c
        PROVE  Forward(c)
    <3>1. shown'[c] = shown[c] /\ c \in DOMAIN shown'
      BY <1>2, <2>3 DEF GetReadings, Put
    <3> HIDE DEF Forward
    <3> QED BY <2>2, <3>1
  <2>4. CASE GetReadings(c)
    <3> DEFINE q == asked[c]
               rows == Rows(state.readings[q.id], q.cursor - SnapshotLimit,
                            SnapshotLimit)
               new == Snapshot(q, rows)
    <3>1. /\ Ready /\ c \in DOMAIN asked /\ q.next = "readings"
          /\ shown' = Put(shown, c, new)
      BY <2>4 DEF GetReadings, Asking
    <3>2. q \in Asked /\ CallSound(q, disk.readings)
      BY <1>2, <3>1 DEF QueryInv, IsMap
    <3>3. shown'[c] = new /\ c \in DOMAIN shown' /\ new.id = q.id
          /\ new.cursor = q.cursor
      BY <3>1 DEF Put, Snapshot
    <3>4. ASSUME shown[c].id = q.id
          PROVE  /\ shown[c].cursor <= new.cursor
                 /\ shown[c].summary.latestSequence
                      <= new.summary.latestSequence
      <4>1. shown[c].cursor <= q.cursor
        BY <1>2, <3>1, <3>4 DEF CallsLater
      <4> HIDE DEF q
      <4> QED BY <2>1, <3>1, <3>2, <3>3, <3>4, <4>1, LaterWindow
    <3> HIDE DEF new, q
    <3> QED BY <3>3, <3>4
  <2>5. ASSUME shown' = shown
        PROVE  Forward(c)
    <3> HIDE DEF Forward
    <3> QED BY <1>2, <2>2, <2>5
  <2>6. \/ shown' = shown
        \/ \E x \in Clients : GetReadings(x)
    BY <1>2 DEF QueryNext, Rest, Request, GetStation, GetCursor, Fail,
                FetchPage, queryVars
  <2> HIDE DEF Forward
  <2> QED BY <2>3, <2>4, <2>5, <2>6
<1>3. QueryInv /\ CallsLater /\ [QueryNext]_queryVars
        => \A c \in DOMAIN shown : Forward(c)
  BY <1>2
<1>4. QuerySpec => []CallsLater
  BY <1>1, CallsLaterStep, QueryInvariance, PTL DEF QuerySpec
<1> QED BY <1>3, <1>4, QueryInvariance, PTL DEF QuerySpec, NeverBackwards

=============================================================================
