-------------------------------- MODULE Query --------------------------------
(***************************************************************************)
(* Package query over the store and the station service: what clients are  *)
(* shown.  Snapshot makes three store calls (station, cursor, readings)    *)
(* between which everyone else may move; Readings makes one, and a client  *)
(* that follows a station calls it again and again with the last sequence  *)
(* it has.                                                                 *)
(*                                                                         *)
(* Clients outlive the process: what they were shown stays with them       *)
(* through crashes.  Left out: the averages and the battery minimum of the *)
(* summary, and the time a snapshot is stamped with.                       *)
(***************************************************************************)
EXTENDS StationService

CONSTANTS Clients,
          SnapshotLimit,   \* the limit the station handler gives to Snapshot
          PageLimits       \* the limits clients give to Readings

ASSUME QueryAssumption ==
    /\ SnapshotLimit \in Nat \ {0}
    /\ PageLimits \subseteq Int

VARIABLES asked,    \* the Snapshot calls under way: what each has read so far
          shown,    \* the last snapshot each client was given
          fetched   \* the readings each client has paged through, per station

queryVars == <<state, disk, mode, fault, acked, held, asked, shown, fetched>>

Asked == [id : StationIds, station : Station, cursor : Nat,
          next : {"cursor", "readings"}]

Summary == [count : Nat, latestSequence : Nat]

Snapshots == [id : StationIds, station : Station, cursor : Nat,
              recent : Seq(Reading), summary : Summary]

QueryInit ==
    /\ ServiceInit
    /\ asked = EmptyMap
    /\ shown = EmptyMap
    /\ fetched = [c \in Clients |-> [s \in StationIds |-> <<>>]]

-----------------------------------------------------------------------------
(* The store's answer to Readings. *)

\* The j-th smallest member of a set of numbers.
Nth(S, j) == CHOOSE i \in S : Cardinality({k \in S : k < i}) = j - 1

\* Mutant of After: the reading the client names is sent again.
AfterInclusive(log, after) ==
    LET kept == {i \in DOMAIN log : log[i].sequence >= after}
    IN  [j \in 1 .. Cardinality(kept) |-> log[Nth(kept, j)]]

\* The readings with a later sequence, in the order of the log.
After(log, after) ==
    LET kept == {i \in DOMAIN log : log[i].sequence > after}
    IN  [j \in 1 .. Cardinality(kept) |-> log[Nth(kept, j)]]

\* The first `limit` rows after a sequence; all of them without a limit.
Rows(log, after, limit) ==
    LET rows == After(log, after)
    IN  IF limit > 0 /\ Len(rows) > limit THEN SubSeq(rows, 1, limit) ELSE rows

Summarize(rows) ==
    [count |-> Len(rows),
     latestSequence |-> Max({0} \cup {rows[i].sequence : i \in DOMAIN rows})]

-----------------------------------------------------------------------------
(* Snapshot, call by call. *)

GetStation(c, id) ==
    /\ Ready /\ c \notin DOMAIN asked /\ id \in DOMAIN state.stations
    /\ asked' = Put(asked, c, [id |-> id, station |-> state.stations[id],
                               cursor |-> 0, next |-> "cursor"])
    /\ UNCHANGED <<serviceVars, shown, fetched>>

Asking(c, call) == Ready /\ c \in DOMAIN asked /\ asked[c].next = call

GetCursor(c) ==
    /\ Asking(c, "cursor")
    /\ LET q == asked[c]
       IN  /\ q.id \in DOMAIN state.cursors
           /\ asked' = Put(asked, c, [id |-> q.id, station |-> q.station,
                                      cursor |-> state.cursors[q.id],
                                      next |-> "readings"])
    /\ UNCHANGED <<serviceVars, shown, fetched>>

EndAsked(c) == asked' = [x \in DOMAIN asked \ {c} |-> asked[x]]

Snapshot(q, rows) ==
    [id |-> q.id, station |-> q.station, cursor |-> q.cursor,
     recent |-> rows, summary |-> Summarize(rows)]

\* Mutant of GetReadings: the last rows of the log, wherever it ends by now.
GetReadingsNewest(c) ==
    /\ Asking(c, "readings")
    /\ LET q == asked[c]
           log == state.readings[q.id]
       IN  shown' = Put(shown, c,
                        Snapshot(q, Rows(log, Len(log) - SnapshotLimit,
                                         SnapshotLimit)))
    /\ EndAsked(c)
    /\ UNCHANGED <<serviceVars, fetched>>

GetReadings(c) ==
    /\ Asking(c, "readings")
    /\ LET q == asked[c]
       IN  shown' = Put(shown, c,
                        Snapshot(q, Rows(state.readings[q.id],
                                         q.cursor - SnapshotLimit,
                                         SnapshotLimit)))
    /\ EndAsked(c)
    /\ UNCHANGED <<serviceVars, fetched>>

\* A store call returns an error: the store was closed, or the request's
\* context has expired.
Fail(c) ==
    /\ c \in DOMAIN asked
    /\ EndAsked(c)
    /\ UNCHANGED <<serviceVars, shown, fetched>>

-----------------------------------------------------------------------------
\* The next page: the handler reads no limit as 50, and the client goes on
\* from the last sequence it was sent.
FetchPage(c, id, limit) ==
    /\ Ready /\ id \in DOMAIN state.stations
    /\ LET have == fetched[c][id]
           after == IF have = <<>> THEN 0 ELSE Last(have).sequence
           page == Rows(state.readings[id], after,
                        IF limit = 0 THEN 50 ELSE limit)
       IN  fetched' = [fetched EXCEPT ![c][id] = @ \o page]
    /\ UNCHANGED <<serviceVars, asked, shown>>

-----------------------------------------------------------------------------
Request(c) ==
    \/ \E id \in StationIds : GetStation(c, id)
    \/ GetCursor(c)
    \/ GetReadings(c)
    \/ Fail(c)
    \/ \E id \in StationIds, limit \in PageLimits : FetchPage(c, id, limit)

\* The rest of the program moves; a crash ends the calls under way.
Rest ==
    /\ ServiceNext
    /\ asked' = IF mode' = "down" THEN EmptyMap ELSE asked
    /\ UNCHANGED <<shown, fetched>>

QueryNext == Rest \/ \E c \in Clients : Request(c)

QuerySpec == QueryInit /\ [][QueryNext]_queryVars

-----------------------------------------------------------------------------
QueryTypeOK ==
    /\ ServiceTypeOK
    /\ IsMap(asked, Clients, Asked)
    /\ IsMap(shown, Clients, Snapshots)
    /\ fetched \in [Clients -> [StationIds -> Seq(Reading)]]

\* The sequence the window of a snapshot starts after.
WindowStart(cursor) == IF cursor > SnapshotLimit THEN cursor - SnapshotLimit ELSE 0

\* The three reads of a snapshot may be of three different instants, and yet
\* it fits together (Snapshot, query/service.go:24-37): the station is never
\* ahead of the cursor, and the readings are the gapless window that ends at
\* the cursor.  Only while the whole log is shorter than a window can they
\* reach beyond it, by what was committed in between.
FitsTogether(snap) ==
    LET start == WindowStart(snap.cursor)
        end == start + Len(snap.recent)
    IN  /\ snap.station.lastSequence <= snap.cursor
        /\ \A i \in DOMAIN snap.recent : snap.recent[i].sequence = start + i
        /\ snap.cursor <= end
        /\ end <= start + SnapshotLimit
        /\ snap.summary.latestSequence = end

ShownFitsTogether == \A c \in DOMAIN shown : FitsTogether(shown[c])

\* "a cursor may only describe readings that remain available after restart"
\* (project_design.md:3), as seen by a client: whatever it was ever shown,
\* readings and cursor, is in the file, now and after any crash
\* (query/service.go:33-37 over file_store.go:207-211).
Durable(snap, logs) ==
    LET log == logs[snap.id]
    IN  /\ snap.cursor <= Len(log)
        /\ \A i \in DOMAIN snap.recent :
             /\ snap.recent[i].sequence \in DOMAIN log
             /\ log[snap.recent[i].sequence] = snap.recent[i]

ShownIsDurable == \A c \in DOMAIN shown : Durable(shown[c], disk.readings)

\* A client that pages through a station's readings (query/service.go:39-41)
\* collects the log from its start, with no reading missing, doubled or out
\* of place, however many batches are committed and however often the
\* service restarts between two of its pages.
PagesJoin ==
    \A c \in Clients, s \in StationIds : IsPrefix(fetched[c][s], disk.readings[s])

\* A client is never shown a station's past after its present: of two
\* snapshots of one station, the later one has no smaller cursor and shows no
\* older latest reading, even when a restart lies between them.
NeverBackwards ==
    [][\A c \in DOMAIN shown :
         /\ c \in DOMAIN shown'
         /\ shown'[c].id = shown[c].id =>
              /\ shown[c].cursor <= shown'[c].cursor
              /\ shown[c].summary.latestSequence
                   <= shown'[c].summary.latestSequence]_queryVars

=============================================================================
