---------------------------- MODULE SnapshotFile ----------------------------
(***************************************************************************)
(* Package store: how a snapshot gets into the file.  It is written to a   *)
(* temporary file that is then renamed; nothing is flushed.  The store's   *)
(* lock is held throughout, by the one operation `writer` describes.  What *)
(* a snapshot says is the set of changes made so far.  CommitBatch writes  *)
(* a changed copy and then puts it in the place of memory; registration,   *)
(* status changes and failure marks change memory and write it.            *)
(***************************************************************************)
EXTENDS Naturals, FiniteSets

CONSTANTS Commits,    \* the changes that CommitBatch makes
          Edits       \* the changes made in place

VARIABLES path,      \* the file at FileStore.path
          tmp,       \* the temporary file next to it
          memory,    \* FileStore.state
          writer,    \* the operation that holds FileStore.mu
          acked,     \* history: the changes that were reported as made
          lost       \* history: a power cut has hit the file

fileVars == <<path, tmp, memory, writer, acked, lost>>

Changes == Commits \cup Edits

ASSUME ChangesAssumption == Commits \cap Edits = {}

File(kind, changes) == [kind |-> kind, changes |-> changes]

Absent == File("absent", {})
Empty == File("empty", {})
Torn == File("torn", {})
Whole(changes) == File("whole", changes)

Free == [next |-> "free"]

FileInit ==
    /\ path = Absent /\ tmp = Absent
    /\ memory = {}
    /\ writer = Free
    /\ acked = {}
    /\ lost = FALSE

-----------------------------------------------------------------------------
\* Mutant of Begin: the lock is not waited for.
BeginUnlocked(t, c) ==
    /\ c \in Commits => c \notin memory
    /\ writer' = [next |-> "create", by |-> t, change |-> c, before |-> memory,
                  snapshot |-> memory \cup {c}, done |-> FALSE]
    /\ memory' = IF c \in Edits THEN memory \cup {c} ELSE memory
    /\ UNCHANGED <<path, tmp, acked, lost>>

\* Mutant of Begin: a commit changes memory before it is written.
BeginInPlace(t, c) ==
    /\ writer = Free
    /\ c \in Commits => c \notin memory
    /\ writer' = [next |-> "create", by |-> t, change |-> c, before |-> memory,
                  snapshot |-> memory \cup {c}, done |-> FALSE]
    /\ memory' = memory \cup {c}
    /\ UNCHANGED <<path, tmp, acked, lost>>

\* The lock is taken and the change is made, in a copy or in memory itself.
Begin(t, c) ==
    /\ writer = Free
    /\ c \in Commits => c \notin memory
    /\ writer' = [next |-> "create", by |-> t, change |-> c, before |-> memory,
                  snapshot |-> memory \cup {c}, done |-> FALSE]
    /\ memory' = IF c \in Edits THEN memory \cup {c} ELSE memory
    /\ UNCHANGED <<path, tmp, acked, lost>>

At(step) == writer.next = step

\* An operation on the file system fails: the error is returned.
FileError ==
    /\ writer.next \in {"create", "write", "rename"}
    /\ writer' = [writer EXCEPT !.next = "return"]
    /\ tmp' \in IF At("write") THEN {tmp, Torn} ELSE {tmp}
    /\ UNCHANGED <<path, memory, acked, lost>>

\* Mutant of Create: the snapshot is written over the file itself.
CreateInPlace ==
    /\ At("create")
    /\ path' = Empty
    /\ tmp' = Empty
    /\ writer' = [writer EXCEPT !.next = "write"]
    /\ UNCHANGED <<memory, acked, lost>>

\* os.WriteFile makes the file, or empties the one a former process left.
Create ==
    /\ At("create")
    /\ tmp' = Empty
    /\ writer' = [writer EXCEPT !.next = "write"]
    /\ UNCHANGED <<path, memory, acked, lost>>

Write ==
    /\ At("write")
    /\ tmp' = Whole(writer.snapshot)
    /\ writer' = [writer EXCEPT !.next = "rename"]
    /\ UNCHANGED <<path, memory, acked, lost>>

Rename ==
    /\ At("rename")
    /\ path' = tmp
    /\ tmp' = Absent
    /\ writer' = [writer EXCEPT !.next = "return", !.done = TRUE]
    /\ UNCHANGED <<memory, acked, lost>>

\* Mutant of Return: the error of the write is not looked at.
ReturnUnchecked ==
    /\ At("return")
    /\ memory' = writer.snapshot
    /\ acked' = acked \cup {writer.change}
    /\ writer' = Free
    /\ UNCHANGED <<path, tmp, lost>>

\* A commit replaces memory if it was written; a change in place stays.
Return ==
    /\ At("return")
    /\ memory' = IF writer.done THEN writer.snapshot ELSE memory
    /\ acked' = IF writer.done THEN acked \cup {writer.change} ELSE acked
    /\ writer' = Free
    /\ UNCHANGED <<path, tmp, lost>>

FileStep == FileError \/ Create \/ Write \/ Rename \/ Return

-----------------------------------------------------------------------------
\* OpenFile: a file that is missing or empty is an empty store, and one that
\* cannot be decoded is an error.
Readable == path.kind # "torn"

Load ==
    /\ Readable
    /\ memory' = path.changes
    /\ UNCHANGED <<path, tmp, writer, acked, lost>>

\* The process is gone: memory and lock with it, the files as they are.
Drop ==
    /\ memory' = {}
    /\ writer' = Free
    /\ UNCHANGED <<path, tmp, acked, lost>>

\* The machine is gone.  What was not flushed may not be on the disk: of the
\* renamed file its name, its content, or part of its content.
Cut ==
    /\ memory' = {}
    /\ writer' = Free
    /\ lost' = TRUE
    /\ path' \in {path, Empty, Torn} \cup {Whole(cs) : cs \in SUBSET path.changes}
    /\ tmp' \in {tmp, Absent, Empty, Torn}
    /\ UNCHANGED acked

=============================================================================
