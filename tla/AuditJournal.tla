---------------------------- MODULE AuditJournal ----------------------------
(***************************************************************************)
(* Package audit: an in-memory list of numbered entries that keeps the     *)
(* newest.  Left out: the time and the wording of an entry; of its detail  *)
(* the cursor is kept.                                                     *)
(***************************************************************************)
EXTENDS Integers, Sequences

CONSTANT JournalSize    \* the limit given to NewJournal

VARIABLES entries,      \* Journal.entries
          lastEntry     \* Journal.next: the number of the newest entry

journalVars == <<entries, lastEntry>>

ASSUME JournalAssumption == JournalSize \in Int

Capacity == IF JournalSize <= 0 THEN 1000 ELSE JournalSize

JournalInit == entries = <<>> /\ lastEntry = 0

\* The last n elements of a list.
Newest(list, n) == SubSeq(list, Len(list) - n + 1, Len(list))

\* Mutant of Kept: a full journal keeps its oldest entries.
KeptOldest(list) == IF Len(list) > Capacity THEN SubSeq(list, 1, Capacity) ELSE list

Kept(list) == IF Len(list) > Capacity THEN Newest(list, Capacity) ELSE list

\* Nothing is written in a context that has ended, or about nothing.
AppendEntry(kind, entity, cursor, live) ==
    IF live /\ entity # ""
    THEN /\ lastEntry' = lastEntry + 1
         /\ entries' = Kept(Append(entries,
                              [id |-> lastEntry + 1, kind |-> kind,
                               entity |-> entity, cursor |-> cursor]))
    ELSE UNCHANGED journalVars

\* What a reader is given; all of it without a limit.
Recent(limit) ==
    IF limit <= 0 \/ limit > Len(entries) THEN entries ELSE Newest(entries, limit)

=============================================================================
