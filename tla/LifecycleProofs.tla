-------------------------- MODULE LifecycleProofs --------------------------
(***************************************************************************)
(* Proofs about module Lifecycle: what was reported is in a file that is   *)
(* whole, a stop is orderly, and the single steps of writing the snapshot  *)
(* implement the store whose file changes in one step (OneStepStore).      *)
(***************************************************************************)
EXTENDS Lifecycle, TLAPS

WriteSteps == {"create", "write", "rename", "return"}

Writers == [next : WriteSteps, by : Threads, change : Changes,
            before : SUBSET Changes, snapshot : SUBSET Changes, done : BOOLEAN]

\* What the operation that holds the lock has done so far.
WriterFaithful ==
    writer # Free =>
        /\ writer \in Writers
        /\ writer.snapshot = writer.before \cup {writer.change}
        /\ memory = IF writer.change \in Edits THEN writer.snapshot ELSE writer.before
        /\ At("rename") => tmp = Whole(writer.snapshot)
        /\ writer.done => At("return") /\ path = Whole(writer.snapshot)
        /\ ~writer.done => path.changes \subseteq writer.before

\* What each phase of the process says of the others.
PhaseFaithful ==
    /\ phase = "down" => /\ memory = {} /\ writer = Free
                         /\ \A t \in Threads : doing[t] = "idle"
    /\ phase # "down" => /\ Readable
                         /\ writer = Free => path.changes \subseteq memory
    /\ phase \in {"returned", "closed"} => Quiet
    /\ phase = "closed" => writer = Free

LifeInv ==
    /\ LifeTypeOK
    /\ WriterFaithful
    /\ PhaseFaithful
    /\ ReportedIsInFile
    /\ FileIsWhole

-----------------------------------------------------------------------------
(* The operation that holds the lock. *)

\* A free lock is no writer.
LEMMA FreeIsNoWriter ==
    ASSUME WriterFaithful
    PROVE  /\ writer # Free <=> writer.next \in WriteSteps
           /\ writer # Free => writer \in Writers
<1>1. ASSUME writer \in Writers
      PROVE  writer # Free /\ writer.next \in WriteSteps
  <2>1. writer.next \in WriteSteps
    BY <1>1 DEF Writers
  <2>2. Free.next \notin WriteSteps
    BY DEF Free, WriteSteps
  <2> QED
    BY <2>1, <2>2
<1>2. writer = Free => writer.next \notin WriteSteps
  BY DEF Free, WriteSteps
<1> QED
  BY <1>1, <1>2 DEF WriterFaithful

\* Begin makes a writer that has done nothing yet.
LEMMA WriterBegins ==
    ASSUME LifeInv, phase # "down", NEW t \in Threads, NEW c \in Changes, Begin(t, c)
    PROVE  /\ writer = Free
           /\ writer' \in Writers /\ writer' # Free
           /\ writer'.next = "create" /\ writer'.by = t /\ writer'.change = c
           /\ writer'.before = memory /\ writer'.snapshot = memory \cup {c}
           /\ writer'.done = FALSE
           /\ memory' = IF c \in Edits THEN memory \cup {c} ELSE memory
           /\ path.changes \subseteq memory
           /\ UNCHANGED <<path, tmp, acked, lost>>
<1>1. memory \in SUBSET Changes
  BY DEF LifeInv, LifeTypeOK
<1>2. /\ writer = Free
      /\ writer' = [next |-> "create", by |-> t, change |-> c, before |-> memory,
                    snapshot |-> memory \cup {c}, done |-> FALSE]
      /\ memory' = IF c \in Edits THEN memory \cup {c} ELSE memory
      /\ UNCHANGED <<path, tmp, acked, lost>>
  BY DEF Begin
<1>3. writer' \in Writers
  BY <1>1, <1>2 DEF Writers, WriteSteps
<1>4. writer'.next = "create"
  BY <1>2
<1>5. Free.next = "free"
  BY DEF Free
<1>6. path.changes \subseteq memory
  BY <1>2 DEF LifeInv, PhaseFaithful
<1> QED
  BY <1>2, <1>3, <1>4, <1>5, <1>6

-----------------------------------------------------------------------------
(* The invariant, step by step. *)

LEMMA LifeInvInit == LifeInit => LifeInv
<1> SUFFICES ASSUME LifeInit PROVE LifeInv
  OBVIOUS
<1> USE DEF LifeInit, FileInit
<1>1. path.changes = {} /\ path.kind = "absent"
  BY DEF Absent, File
<1>2. LifeTypeOK
  BY DEF LifeTypeOK, Files, Phases, Free
<1>3. WriterFaithful /\ PhaseFaithful
  BY DEF WriterFaithful, PhaseFaithful
<1>4. ReportedIsInFile /\ FileIsWhole
  BY <1>1 DEF ReportedIsInFile, FileIsWhole
<1> QED
  BY <1>2, <1>3, <1>4 DEF LifeInv

\* main goes from phase to phase and touches nothing else.
LEMMA PhasesKeep ==
    ASSUME LifeInv, UNCHANGED <<fileVars, doing>>,
           Signal \/ ListenerFails \/ Drained \/ ShutdownTimeout \/ CloseStore
    PROVE  LifeInv'
<1> USE DEF fileVars
<1>1. LifeTypeOK'
  BY DEF LifeInv, LifeTypeOK, Phases, Signal, ListenerFails, Drained,
         ShutdownTimeout, CloseStore
<1>2. WriterFaithful' /\ ReportedIsInFile' /\ FileIsWhole'
  BY DEF LifeInv, WriterFaithful, ReportedIsInFile, FileIsWhole, At
<1>3. PhaseFaithful'
  BY DEF LifeInv, PhaseFaithful, Readable, Quiet, Signal, ListenerFails, Drained,
         ShutdownTimeout, CloseStore
<1> QED
  BY <1>1, <1>2, <1>3 DEF LifeInv

\* Handlers and loop move without the lock.
LEMMA ThreadsKeep ==
    ASSUME LifeInv, UNCHANGED <<fileVars, phase>>, phase # "down",
           NEW t \in Threads, NEW where \in {"idle", "busy", "waiting", "ended"},
           doing[t] # "writing", Goes(t, where),
           t = Loop \/ phase = "serving" \/ doing[t] # "idle"
    PROVE  LifeInv'
<1> USE DEF fileVars
<1>1. doing \in [Threads -> {"idle", "busy", "waiting", "writing", "ended"}]
  BY DEF LifeInv, LifeTypeOK
<1>2. /\ doing'[t] = where
      /\ \A u \in Threads \ {t} : doing'[u] = doing[u]
      /\ doing' \in [Threads -> {"idle", "busy", "waiting", "writing", "ended"}]
  BY <1>1 DEF Goes
<1>3. LifeTypeOK'
  <2>1. \A u \in Threads : doing'[u] = "writing" <=> doing[u] = "writing"
    BY <1>1, <1>2
  <2> QED
    BY <1>2, <2>1 DEF LifeInv, LifeTypeOK
<1>4. WriterFaithful' /\ ReportedIsInFile' /\ FileIsWhole'
  BY DEF LifeInv, WriterFaithful, ReportedIsInFile, FileIsWhole, At
<1>5. Quiet' \/ phase \notin {"returned", "closed"}
  <2> SUFFICES ASSUME phase \in {"returned", "closed"} PROVE Quiet'
    OBVIOUS
  <2>1. Quiet
    BY DEF LifeInv, PhaseFaithful
  <2>2. t \notin Handlers
    BY <2>1, LifeAssumption DEF Quiet
  <2> QED
    BY <1>2, <2>1, <2>2 DEF Quiet, Threads
<1>6. PhaseFaithful'
  BY <1>5 DEF LifeInv, PhaseFaithful, Readable
<1> QED
  BY <1>3, <1>4, <1>6 DEF LifeInv

LEMMA StartUpKeeps == ASSUME LifeInv, StartUp PROVE LifeInv'
<1> USE DEF StartUp, Load
<1>1. writer = Free /\ writer' = Free
  BY DEF LifeInv, PhaseFaithful
<1>2. path.changes \subseteq Changes
  BY DEF LifeInv, LifeTypeOK, Files, Absent, Empty, Torn, Whole, File
<1>3. LifeTypeOK'
  BY <1>2 DEF LifeInv, LifeTypeOK, Phases
<1>4. WriterFaithful' /\ ReportedIsInFile' /\ FileIsWhole'
  BY <1>1 DEF LifeInv, WriterFaithful, ReportedIsInFile, FileIsWhole
<1>5. PhaseFaithful'
  BY DEF PhaseFaithful, Readable
<1> QED
  BY <1>3, <1>4, <1>5 DEF LifeInv

\* The process ends and leaves the files as they are.
LEMMA EndKeeps == ASSUME LifeInv, Drop, Gone PROVE LifeInv'
<1> USE DEF Drop, Gone
<1>1. LifeTypeOK'
  BY DEF LifeInv, LifeTypeOK, Phases
<1>2. WriterFaithful' /\ ReportedIsInFile' /\ FileIsWhole'
  BY DEF LifeInv, WriterFaithful, ReportedIsInFile, FileIsWhole
<1>3. PhaseFaithful'
  BY DEF PhaseFaithful
<1> QED
  BY <1>1, <1>2, <1>3 DEF LifeInv

LEMMA PowerCutKeeps == ASSUME LifeInv, PowerCut PROVE LifeInv'
<1> USE DEF PowerCut, Cut, Gone
<1>1. path.changes \subseteq Changes
  BY DEF LifeInv, LifeTypeOK, Files, Absent, Empty, Torn, Whole, File
<1>2. path' \in Files /\ tmp' \in Files
  BY <1>1 DEF LifeInv, LifeTypeOK, Files
<1>3. LifeTypeOK'
  BY <1>2 DEF LifeInv, LifeTypeOK, Phases
<1>4. WriterFaithful' /\ ReportedIsInFile' /\ FileIsWhole'
  BY DEF WriterFaithful, ReportedIsInFile, FileIsWhole
<1>5. PhaseFaithful'
  BY DEF PhaseFaithful
<1> QED
  BY <1>3, <1>4, <1>5 DEF LifeInv

LEMMA EnterKeeps ==
    ASSUME LifeInv, NEW t \in Threads, Enter(t)
    PROVE  LifeInv'
<1>1. PICK c \in Changes : Begin(t, c)
  BY DEF Enter
<1>2. doing[t] = "waiting" /\ phase # "closed" /\ Goes(t, "writing") /\ phase' = phase
  BY DEF Enter
<1>3. phase # "down"
  BY <1>2 DEF LifeInv, PhaseFaithful
<1>4. /\ writer = Free
      /\ writer' \in Writers /\ writer' # Free
      /\ writer'.next = "create" /\ writer'.by = t /\ writer'.change = c
      /\ writer'.before = memory /\ writer'.snapshot = memory \cup {c}
      /\ writer'.done = FALSE
      /\ memory' = IF c \in Edits THEN memory \cup {c} ELSE memory
      /\ path.changes \subseteq memory
      /\ UNCHANGED <<path, tmp, acked, lost>>
  BY <1>1, <1>3, WriterBegins
<1>5. /\ doing \in [Threads -> {"idle", "busy", "waiting", "writing", "ended"}]
      /\ \A u \in Threads : doing[u] # "writing"
  BY <1>4 DEF LifeInv, LifeTypeOK
<1>6. /\ doing'[t] = "writing"
      /\ \A u \in Threads \ {t} : doing'[u] = doing[u]
      /\ doing' \in [Threads -> {"idle", "busy", "waiting", "writing", "ended"}]
  BY <1>2, <1>5 DEF Goes
<1>7. LifeTypeOK'
  <2>1. \A u \in Threads : (doing'[u] = "writing") <=> (writer' # Free /\ writer'.by = u)
    BY <1>4, <1>5, <1>6
  <2>2. memory' \subseteq Changes
    BY <1>4 DEF LifeInv, LifeTypeOK
  <2> QED
    BY <1>2, <1>4, <1>6, <2>1, <2>2 DEF LifeInv, LifeTypeOK
<1>8. WriterFaithful'
  BY <1>4 DEF WriterFaithful, At
<1>9. Quiet' \/ phase # "returned"
  <2> SUFFICES ASSUME phase = "returned" PROVE Quiet'
    OBVIOUS
  <2>1. Quiet
    BY DEF LifeInv, PhaseFaithful
  <2>2. t \notin Handlers
    BY <1>2, <2>1 DEF Quiet
  <2> QED
    BY <1>6, <2>1, <2>2 DEF Quiet, Threads
<1>10. PhaseFaithful'
  BY <1>2, <1>3, <1>4, <1>9 DEF LifeInv, PhaseFaithful, Readable
<1>11. ReportedIsInFile' /\ FileIsWhole'
  BY <1>4 DEF LifeInv, ReportedIsInFile, FileIsWhole
<1> QED
  BY <1>7, <1>8, <1>10, <1>11 DEF LifeInv

\* A file operation of the writer, and where it leaves the writer.
LEMMA FileOperation ==
    ASSUME LifeInv, FileError \/ Create \/ Write \/ Rename
    PROVE  /\ writer \in Writers /\ writer # Free /\ ~writer.done
           /\ writer' \in Writers /\ writer' # Free
           /\ writer'.by = writer.by /\ writer'.change = writer.change
           /\ writer'.before = writer.before /\ writer'.snapshot = writer.snapshot
           /\ writer'.done <=> Rename
           /\ Rename => /\ writer'.next = "return"
                        /\ path' = Whole(writer.snapshot) /\ tmp' = Absent
           /\ ~Rename => path' = path
           /\ writer'.next = "rename" => tmp' = Whole(writer.snapshot)
           /\ tmp' \in {tmp, Empty, Torn, Absent, Whole(writer.snapshot)}
           /\ UNCHANGED <<memory, acked, lost>>
<1>1. writer.next \in {"create", "write", "rename"}
  BY DEF FileError, Create, Write, Rename, At
<1>2. writer # Free /\ writer \in Writers /\ WriterFaithful
  BY <1>1, FreeIsNoWriter DEF LifeInv, WriteSteps
<1>3. ~writer.done
  BY <1>1, <1>2 DEF WriterFaithful, At
<1>4. \A w2 \in Writers : w2 # Free
  BY DEF Writers, WriteSteps, Free
<1>5. CASE FileError
  <2>1. writer' = [writer EXCEPT !.next = "return"]
    BY <1>5 DEF FileError
  <2>2. /\ writer' \in Writers /\ writer'.next = "return" /\ ~writer'.done
        /\ writer'.by = writer.by /\ writer'.change = writer.change
        /\ writer'.before = writer.before /\ writer'.snapshot = writer.snapshot
    BY <1>2, <1>3, <2>1 DEF Writers, WriteSteps
  <2>3. ~Rename
    <3>1. CASE Rename
      <4>1. writer' = [writer EXCEPT !.next = "return", !.done = TRUE]
        BY <3>1 DEF Rename
      <4>2. writer'.done = TRUE
        BY <1>2, <4>1 DEF Writers, WriteSteps
      <4> QED
        BY <2>2, <4>2
    <3> QED
      BY <3>1
  <2> QED
    BY <1>2, <1>3, <1>4, <1>5, <2>2, <2>3 DEF FileError
<1>6. CASE Create
  <2>1. writer' = [writer EXCEPT !.next = "write"] /\ writer.next = "create"
    BY <1>6 DEF Create, At
  <2>2. /\ writer' \in Writers /\ writer'.next = "write" /\ ~writer'.done
        /\ writer'.by = writer.by /\ writer'.change = writer.change
        /\ writer'.before = writer.before /\ writer'.snapshot = writer.snapshot
    BY <1>2, <1>3, <2>1 DEF Writers, WriteSteps
  <2>3. ~Rename
    BY <2>1 DEF Rename, At
  <2> QED
    BY <1>2, <1>3, <1>4, <1>6, <2>2, <2>3 DEF Create
<1>7. CASE Write
  <2>1. writer' = [writer EXCEPT !.next = "rename"] /\ writer.next = "write"
    BY <1>7 DEF Write, At
  <2>2. /\ writer' \in Writers /\ writer'.next = "rename" /\ ~writer'.done
        /\ writer'.by = writer.by /\ writer'.change = writer.change
        /\ writer'.before = writer.before /\ writer'.snapshot = writer.snapshot
    BY <1>2, <1>3, <2>1 DEF Writers, WriteSteps
  <2>3. ~Rename
    BY <2>1 DEF Rename, At
  <2> QED
    BY <1>2, <1>3, <1>4, <1>7, <2>2, <2>3 DEF Write
<1>8. CASE Rename
  <2>1. writer' = [writer EXCEPT !.next = "return", !.done = TRUE]
    BY <1>8 DEF Rename
  <2>2. /\ writer' \in Writers /\ writer'.next = "return" /\ writer'.done = TRUE
        /\ writer'.by = writer.by /\ writer'.change = writer.change
        /\ writer'.before = writer.before /\ writer'.snapshot = writer.snapshot
    BY <1>2, <2>1 DEF Writers, WriteSteps
  <2>3. path' = Whole(writer.snapshot)
    BY <1>2, <1>8 DEF Rename, WriterFaithful, At
  <2> QED
    BY <1>2, <1>3, <1>4, <1>8, <2>2, <2>3 DEF Rename
<1> QED
  BY <1>5, <1>6, <1>7, <1>8

LEMMA FileOperationKeeps ==
    ASSUME LifeInv, FileError \/ Create \/ Write \/ Rename, UNCHANGED <<doing, phase>>
    PROVE  LifeInv'
<1>1. /\ writer \in Writers /\ writer # Free /\ ~writer.done
      /\ writer' \in Writers /\ writer' # Free
      /\ writer'.by = writer.by /\ writer'.change = writer.change
      /\ writer'.before = writer.before /\ writer'.snapshot = writer.snapshot
      /\ writer'.done <=> Rename
      /\ Rename => /\ writer'.next = "return"
                   /\ path' = Whole(writer.snapshot)
      /\ ~Rename => path' = path
      /\ writer'.next = "rename" => tmp' = Whole(writer.snapshot)
      /\ tmp' \in {tmp, Empty, Torn, Absent, Whole(writer.snapshot)}
      /\ UNCHANGED <<memory, acked, lost>>
  BY FileOperation
<1>2. /\ writer.snapshot = writer.before \cup {writer.change}
      /\ memory = IF writer.change \in Edits THEN writer.snapshot ELSE writer.before
      /\ path.changes \subseteq writer.before
  BY <1>1 DEF LifeInv, WriterFaithful
<1>3. writer.snapshot \in SUBSET Changes
  BY <1>1 DEF Writers
<1>4. path' \in {path, Whole(writer.snapshot)}
  BY <1>1
<1>5. path' \in Files /\ tmp' \in Files
  BY <1>1, <1>3, <1>4 DEF LifeInv, LifeTypeOK, Files
<1>6. LifeTypeOK'
  BY <1>1, <1>5 DEF LifeInv, LifeTypeOK
<1>7. WriterFaithful'
  BY <1>1, <1>2 DEF WriterFaithful, At
<1>8. PhaseFaithful'
  BY <1>1, <1>4 DEF LifeInv, PhaseFaithful, Readable, Whole, File, Quiet
<1>9. ReportedIsInFile' /\ FileIsWhole'
  BY <1>1, <1>2, <1>4 DEF LifeInv, ReportedIsInFile, FileIsWhole, Whole, File
<1> QED
  BY <1>6, <1>7, <1>8, <1>9 DEF LifeInv

LEMMA ReturnKeeps ==
    ASSUME LifeInv, Return, Goes(writer.by, "busy"), phase' = phase
    PROVE  LifeInv'
<1>1. /\ writer \in Writers /\ writer # Free
      /\ WriterFaithful /\ phase # "down" /\ phase # "closed"
  BY FreeIsNoWriter DEF LifeInv, Return, At, WriteSteps, PhaseFaithful
<1>2. /\ memory' = IF writer.done THEN writer.snapshot ELSE memory
      /\ acked' = IF writer.done THEN acked \cup {writer.change} ELSE acked
      /\ writer' = Free
      /\ UNCHANGED <<path, tmp, lost>>
  BY DEF Return
<1>3. /\ writer.by \in Threads /\ writer.change \in Changes
      /\ writer.snapshot \subseteq Changes
  BY <1>1 DEF Writers
<1>4. /\ doing \in [Threads -> {"idle", "busy", "waiting", "writing", "ended"}]
      /\ \A t \in Threads : doing[t] = "writing" <=> t = writer.by
  BY <1>1 DEF LifeInv, LifeTypeOK
<1>5. /\ doing'[writer.by] = "busy"
      /\ \A t \in Threads \ {writer.by} : doing'[t] = doing[t]
      /\ doing' \in [Threads -> {"idle", "busy", "waiting", "writing", "ended"}]
  BY <1>3, <1>4 DEF Goes
<1>6. LifeTypeOK'
  <2>1. \A t \in Threads : doing'[t] # "writing"
    BY <1>4, <1>5
  <2> QED
    BY <1>2, <1>3, <1>5, <2>1 DEF LifeInv, LifeTypeOK
<1>7. WriterFaithful'
  BY <1>2 DEF WriterFaithful
<1>8. path.changes \subseteq memory'
  BY <1>1, <1>2 DEF WriterFaithful, Whole, File
<1>9. Quiet' \/ phase # "returned"
  <2> SUFFICES ASSUME phase = "returned" PROVE Quiet'
    OBVIOUS
  <2>1. Quiet
    BY DEF LifeInv, PhaseFaithful
  <2>2. writer.by \notin Handlers
    BY <1>3, <1>4, <2>1 DEF Quiet
  <2> QED
    BY <1>5, <2>1, <2>2 DEF Quiet, Threads
<1>10. PhaseFaithful'
  BY <1>1, <1>2, <1>8, <1>9 DEF LifeInv, PhaseFaithful, Readable
<1>11. ReportedIsInFile' /\ FileIsWhole'
  BY <1>1, <1>2 DEF LifeInv, ReportedIsInFile, FileIsWhole, WriterFaithful, Whole, File
<1> QED
  BY <1>6, <1>7, <1>10, <1>11 DEF LifeInv

WorkSteps == FileError \/ Create \/ Write \/ Rename

\* Work is a file operation, after which the lock is still held, or the end of
\* the write, after which it is free.
LEMMA WorkSplits ==
    ASSUME LifeInv, Work
    PROVE  \/ WorkSteps /\ UNCHANGED <<doing, phase>>
           \/ Return /\ Goes(writer.by, "busy") /\ phase' = phase
<1>1. CASE WorkSteps
  <2>1. writer' # Free
    BY <1>1, FileOperation DEF WorkSteps
  <2> QED
    BY <1>1, <2>1 DEF Work
<1>2. CASE Return
  BY <1>2 DEF Work, Return
<1> QED
  BY <1>1, <1>2 DEF Work, FileStep, WorkSteps

\* The steps in which handlers and loop move without the lock.
ThreadSteps ==
    \/ \E h \in Handlers : Serve(h)
    \/ Wake \/ LoopEnds
    \/ \E t \in Threads : Call(t) \/ TurnedAway(t) \/ Finish(t)

PhaseSteps == Signal \/ ListenerFails \/ Drained \/ ShutdownTimeout \/ CloseStore

LEMMA ThreadStepsKeep ==
    ASSUME LifeInv, ThreadSteps
    PROVE  LifeInv' /\ UNCHANGED <<fileVars, phase>>
<1>1. phase = "down" => \A t \in Threads : doing[t] = "idle"
  BY DEF LifeInv, PhaseFaithful
<1>2. ASSUME NEW h \in Handlers, Serve(h)
      PROVE  LifeInv' /\ UNCHANGED <<fileVars, phase>>
  BY <1>2, ThreadsKeep DEF Serve, Threads
<1>3. CASE Wake
  BY <1>3, ThreadsKeep DEF Wake, Threads
<1>4. CASE LoopEnds
  BY <1>4, ThreadsKeep DEF LoopEnds, Threads
<1>5. ASSUME NEW t \in Threads, Call(t)
      PROVE  LifeInv' /\ UNCHANGED <<fileVars, phase>>
  BY <1>1, <1>5, ThreadsKeep DEF Call
<1>6. ASSUME NEW t \in Threads, TurnedAway(t)
      PROVE  LifeInv' /\ UNCHANGED <<fileVars, phase>>
  BY <1>1, <1>6, ThreadsKeep DEF TurnedAway
<1>7. ASSUME NEW t \in Threads, Finish(t)
      PROVE  LifeInv' /\ UNCHANGED <<fileVars, phase>>
  BY <1>1, <1>7, ThreadsKeep DEF Finish
<1> QED
  BY <1>2, <1>3, <1>4, <1>5, <1>6, <1>7 DEF ThreadSteps

\* The step lemma: every step keeps the invariant.
LEMMA LifeInvStep == ASSUME LifeInv, [LifeNext]_lifeVars PROVE LifeInv'
<1>1. CASE StartUp
  BY <1>1, StartUpKeeps
<1>2. CASE RefuseToStart \/ UNCHANGED lifeVars
  <2> USE <1>2 DEF RefuseToStart, lifeVars, fileVars
  <2>1. LifeTypeOK' /\ ReportedIsInFile' /\ FileIsWhole'
    BY DEF LifeInv, LifeTypeOK, ReportedIsInFile, FileIsWhole
  <2>2. WriterFaithful' /\ PhaseFaithful'
    BY DEF LifeInv, WriterFaithful, At, PhaseFaithful, Readable, Quiet
  <2> QED
    BY <2>1, <2>2 DEF LifeInv
<1>3. CASE PhaseSteps
  BY <1>3, PhasesKeep
     DEF PhaseSteps, Signal, ListenerFails, Drained, ShutdownTimeout, CloseStore, fileVars
<1>4. CASE Exit \/ Kill
  BY <1>4, EndKeeps DEF Exit, Kill
<1>5. CASE PowerCut
  BY <1>5, PowerCutKeeps
<1>6. CASE ThreadSteps
  BY <1>6, ThreadStepsKeep
<1>7. ASSUME NEW t \in Threads, Enter(t) PROVE LifeInv'
  BY <1>7, EnterKeeps
<1>8. CASE Work
  BY <1>8, WorkSplits, FileOperationKeeps, ReturnKeeps DEF WorkSteps
<1> QED
  BY <1>1, <1>2, <1>3, <1>4, <1>5, <1>6, <1>7, <1>8
     DEF LifeNext, ThreadSteps, PhaseSteps

\* The invariant of the process.
THEOREM LifeInvariance == LifeSpec => []LifeInv
BY LifeInvInit, LifeInvStep, PTL DEF LifeSpec

\* The process is well typed.
THEOREM LifeTypeCorrect == LifeSpec => []LifeTypeOK
<1>1. LifeInv => LifeTypeOK
  BY DEF LifeInv
<1> QED
  BY <1>1, LifeInvariance, PTL

\* A change that was reported as made is in the file until a power cut, at
\* whichever file operation the process is killed.
THEOREM ReportedSurvives == LifeSpec => []ReportedIsInFile
<1>1. LifeInv => ReportedIsInFile
  BY DEF LifeInv
<1> QED
  BY <1>1, LifeInvariance, PTL

\* The file is a whole snapshot until a power cut.
THEOREM NeverHalfWritten == LifeSpec => []FileIsWhole
<1>1. LifeInv => FileIsWhole
  BY DEF LifeInv
<1> QED
  BY <1>1, LifeInvariance, PTL

-----------------------------------------------------------------------------
(* An orderly stop. *)

\* In a closed store the file stays, or the process ends.
LEMMA ClosedStep ==
    ASSUME LifeInv, [LifeNext]_lifeVars, phase = "closed"
    PROVE  path' = path \/ phase' = "down"
<1>1. writer = Free
  BY DEF LifeInv, PhaseFaithful
<1>2. ~FileStep
  BY <1>1 DEF FileStep, FileError, Create, Write, Rename, Return, At, Free
<1>3. ~Work /\ \A t \in Threads : ~Enter(t)
  BY <1>2 DEF Work, Enter
<1>4. CASE ThreadSteps
  BY <1>4, ThreadStepsKeep DEF fileVars
<1>5. CASE StartUp \/ RefuseToStart \/ PhaseSteps \/ Exit \/ Kill \/ PowerCut
  BY <1>5 DEF StartUp, RefuseToStart, PhaseSteps, Signal, ListenerFails, Drained,
              ShutdownTimeout, CloseStore, Exit, Kill, PowerCut, Gone, fileVars, lifeVars
<1>6. CASE UNCHANGED lifeVars
  BY <1>6 DEF lifeVars
<1> QED
  BY <1>3, <1>4, <1>5, <1>6 DEF LifeNext, ThreadSteps, PhaseSteps

\* Serve returns without a request under way, and after Close nobody touches
\* the file.
THEOREM StopsAreOrderly == LifeSpec => OrderlyStop
<1> DEFINE Orderly == /\ phase \in {"returned", "closed"} => Quiet
                      /\ phase = "closed" => /\ writer = Free
                                             /\ path' = path \/ phase' = "down"
<1>1. LifeInv /\ [LifeNext]_lifeVars => [Orderly]_lifeVars
  BY ClosedStep DEF LifeInv, PhaseFaithful
<1> QED
  BY <1>1, LifeInvariance, PTL DEF LifeSpec, OrderlyStop

-----------------------------------------------------------------------------
(* The writes of the snapshot look like one step. *)

\* The files as OneStepStore sees them.
Content == IF Readable THEN path.changes ELSE Unreadable

oneVars == <<Visible, Content, phase # "down">>

LEMMA ContentIsKnown ==
    ASSUME LifeInv
    PROVE  /\ path.changes \in SUBSET Changes
           /\ Content # Unreadable <=> Readable
           /\ Content \in (SUBSET Changes) \cup {Unreadable}
<1>1. path.changes \in SUBSET Changes
  BY DEF LifeInv, LifeTypeOK, Files, Absent, Empty, Torn, Whole, File
<1> QED
  BY <1>1, LifeAssumption DEF Content

\* Where the process, the file and what is visible of memory stay.
LEMMA SameView ==
    ASSUME UNCHANGED <<path, memory, writer>>
    PROVE  Visible' = Visible /\ Content' = Content
BY DEF Visible, Content, Readable, At

\* The rename is the one step; failed writes of changes in place are another.
LEMMA FileOperationRefines ==
    ASSUME LifeInv, WorkSteps, UNCHANGED phase
    PROVE  [OneStep!Next]_oneVars
<1> DEFINE c == writer.change
<1>1. /\ writer \in Writers /\ writer # Free /\ ~writer.done
      /\ writer' # Free
      /\ writer'.change = c
      /\ writer'.before = writer.before /\ writer'.snapshot = writer.snapshot
      /\ writer'.done <=> Rename
      /\ Rename => path' = Whole(writer.snapshot)
      /\ ~Rename => path' = path
  BY FileOperation DEF WorkSteps
<1>2. /\ writer.snapshot = writer.before \cup {c}
      /\ phase # "down" /\ phase' # "down"
  BY <1>1 DEF LifeInv, WriterFaithful, PhaseFaithful
<1>3. writer.next \in {"create", "write", "rename"}
  BY DEF WorkSteps, FileError, Create, Write, Rename, At
<1>4. Visible = writer.before
  BY <1>1, <1>3 DEF Visible, At
<1>5. c \in Changes
  BY <1>1 DEF Writers
<1>6. CASE Rename
  <2>1. Visible' = Visible \cup {c}
    BY <1>1, <1>2, <1>4, <1>6 DEF Visible
  <2>2. Content' = Visible'
    <3>1. Visible' = writer.snapshot
      BY <1>2, <1>4, <2>1
    <3> QED
      BY <1>1, <1>6, <3>1 DEF Content, Readable, Whole, File
  <2>3. CASE c \in Commits
    <3>1. OneStep!Commit(c)
      BY <1>2, <2>1, <2>2 DEF OneStep!Commit, Content
    <3> QED
      BY <2>3, <3>1 DEF OneStep!Next
  <2>4. CASE c \in Edits
    <3>1. OneStep!Edit(c)
      BY <1>2, <2>1, <2>2 DEF OneStep!Edit, Content
    <3> QED
      BY <2>4, <3>1 DEF OneStep!Next
  <2> QED
    BY <1>5, <2>3, <2>4 DEF Changes
<1>7. CASE ~Rename
  <2>1. Content' = Content
    BY <1>1, <1>7 DEF Content, Readable
  <2>2. Visible' \in {writer.before, writer.snapshot}
    BY <1>1, <1>7 DEF Visible
  <2>3. c \notin Edits => Visible' = writer.before
    BY <1>1, <1>7 DEF Visible
  <2>4. CASE Visible' = writer.before
    BY <1>2, <1>4, <2>1, <2>4 DEF oneVars
  <2>5. CASE Visible' = writer.snapshot /\ c \in Edits
    <3>1. OneStep!Edit(c)
      BY <1>2, <1>4, <2>1, <2>5 DEF OneStep!Edit, Content
    <3> QED
      BY <2>5, <3>1 DEF OneStep!Next
  <2> QED
    BY <2>2, <2>3, <2>4, <2>5
<1> QED
  BY <1>6, <1>7

\* The end of a write, whatever became of it, was visible before.
LEMMA ReturnRefines ==
    ASSUME LifeInv, Return, UNCHANGED phase
    PROVE  UNCHANGED oneVars
<1>1. writer # Free /\ WriterFaithful
  BY FreeIsNoWriter DEF LifeInv, Return, At, WriteSteps
<1>2. /\ memory' = IF writer.done THEN writer.snapshot ELSE memory
      /\ writer' = Free /\ path' = path /\ At("return")
  BY DEF Return
<1>3. Visible' = Visible
  BY <1>1, <1>2 DEF Visible, WriterFaithful
<1> QED
  BY <1>2, <1>3 DEF oneVars, Content, Readable

\* A process ends, in whichever way, or the power fails.
LEMMA EndRefines ==
    ASSUME LifeInv, Exit \/ Kill \/ PowerCut
    PROVE  OneStep!Next
<1>1. Visible' = {} /\ phase' = "down"
  BY DEF Exit, Kill, PowerCut, Drop, Cut, Gone, Visible
<1>2. CASE Exit \/ Kill
  <2>1. phase # "down" /\ Content' = Content
    BY <1>2 DEF Exit, Kill, Drop, Content, Readable
  <2>2. OneStep!End
    BY <1>1, <2>1 DEF OneStep!End, Content
  <2> QED
    BY <2>2 DEF OneStep!Next
<1>3. CASE PowerCut
  <2>1. LifeInv'
    BY <1>3, PowerCutKeeps
  <2>2. path'.changes \in SUBSET Changes
    BY <2>1 DEF LifeInv, LifeTypeOK, Files, Absent, Empty, Torn, Whole, File
  <2>3. OneStep!PowerCut
    BY <1>1, <2>2 DEF OneStep!PowerCut, Content, Changes
  <2> QED
    BY <2>3 DEF OneStep!Next
<1> QED
  BY <1>2, <1>3

LEMMA OneStepInit == LifeInit => OneStep!Init
BY DEF LifeInit, FileInit, OneStep!Init, Visible, Content, Readable, Absent, File

LEMMA OneStepStep ==
    ASSUME LifeInv, [LifeNext]_lifeVars
    PROVE  [OneStep!Next]_oneVars
<1>1. CASE StartUp
  <2>1. writer = Free /\ writer' = Free
    BY <1>1 DEF LifeInv, PhaseFaithful, StartUp, Load
  <2>2. Visible' = Content /\ Content' = Content /\ Content # Unreadable
    BY <1>1, <2>1, ContentIsKnown DEF StartUp, Load, Visible, Content, Readable
  <2>3. OneStep!Start
    BY <1>1, <2>2 DEF StartUp, OneStep!Start, Content
  <2> QED
    BY <2>3 DEF OneStep!Next
<1>2. CASE RefuseToStart \/ UNCHANGED lifeVars
  BY <1>2, SameView DEF RefuseToStart, lifeVars, oneVars
<1>3. CASE PhaseSteps
  <2>1. UNCHANGED fileVars /\ phase # "down" /\ phase' # "down"
    BY <1>3 DEF PhaseSteps, Signal, ListenerFails, Drained, ShutdownTimeout, CloseStore
  <2> QED
    BY <2>1, SameView DEF fileVars, oneVars
<1>4. CASE Exit \/ Kill \/ PowerCut
  BY <1>4, EndRefines
<1>5. CASE ThreadSteps
  BY <1>5, ThreadStepsKeep, SameView DEF fileVars, oneVars
<1>6. ASSUME NEW t \in Threads, Enter(t) PROVE [OneStep!Next]_oneVars
  <2>1. PICK c \in Changes : Begin(t, c)
    BY <1>6 DEF Enter
  <2>2. phase' = phase /\ phase # "down"
    BY <1>6 DEF Enter, LifeInv, PhaseFaithful
  <2>3. /\ writer = Free /\ writer' # Free /\ writer'.next = "create"
        /\ writer'.before = memory /\ writer'.done = FALSE /\ path' = path
    BY <2>1, <2>2, WriterBegins
  <2>4. Visible' = Visible
    BY <2>3 DEF Visible, At
  <2> QED
    BY <2>2, <2>3, <2>4 DEF oneVars, Content, Readable
<1>7. CASE Work
  <2>1. CASE WorkSteps /\ UNCHANGED <<doing, phase>>
    BY <2>1, FileOperationRefines
  <2>2. CASE Return /\ Goes(writer.by, "busy") /\ phase' = phase
    BY <2>2, ReturnRefines
  <2> QED
    BY <1>7, <2>1, <2>2, WorkSplits
<1> QED
  BY <1>1, <1>2, <1>3, <1>4, <1>5, <1>6, <1>7 DEF LifeNext, ThreadSteps, PhaseSteps

\* The single file operations implement the store whose memory and file change
\* in one step.
THEOREM WritesLookAtomic == LifeSpec => OneStepSpec
BY OneStepInit, OneStepStep, LifeInvariance, PTL
   DEF LifeSpec, OneStepSpec, OneStep!Spec, oneVars, Content

=============================================================================
