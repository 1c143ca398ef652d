----------------------------- MODULE Lifecycle -----------------------------
(***************************************************************************)
(* The process from start to end (main, App.Serve, App.Close) around the   *)
(* store's file: requests and the recovery loop call the store until a     *)
(* signal cancels the context of the process.  Then the server takes no    *)
(* new request and waits, at most five seconds, for those it has; nobody   *)
(* waits for the recovery loop.  Every step can also be the last one, when *)
(* the process is killed or the power fails.                               *)
(***************************************************************************)
EXTENDS SnapshotFile

CONSTANTS Handlers,      \* the requests that may be served at one time
          Loop,          \* the goroutine of the recovery runner
          Unreadable     \* the content of a file that cannot be decoded

VARIABLES phase,    \* where main is
          doing     \* what handlers and loop are doing

lifeVars == <<path, tmp, memory, writer, acked, lost, phase, doing>>

Threads == Handlers \cup {Loop}

ASSUME LifeAssumption ==
    /\ Loop \notin Handlers
    /\ \A cs \in SUBSET Changes : cs # Unreadable

\* "down": no process.  "returned": Serve has returned nil.  "closed": the
\* store is closed.  "broken", "failed": Serve has returned an error, before and
\* after a signal.
Phases == {"down", "serving", "draining", "returned", "closed", "broken", "failed"}

\* Mutant of Cancelled: nobody looks at the context.
CancelledNever == FALSE

\* The context of the process is cancelled by a signal, and by nothing else: an
\* error of the listener leaves it alone.
Cancelled == phase \notin {"serving", "broken"}

LifeInit ==
    /\ FileInit
    /\ phase = "down"
    /\ doing = [t \in Threads |-> "idle"]

Goes(t, where) == doing' = [doing EXCEPT ![t] = where]

-----------------------------------------------------------------------------
(* main and Serve. *)

StartUp ==
    /\ phase = "down"
    /\ Load
    /\ phase' = "serving"
    /\ UNCHANGED doing

\* The file cannot be decoded: main ends at once.
RefuseToStart ==
    /\ phase = "down" /\ ~Readable
    /\ UNCHANGED lifeVars

\* The signal finds Serve waiting, or on its way out with an error.
Signal ==
    /\ \/ phase = "serving" /\ phase' = "draining"
       \/ phase = "broken" /\ phase' = "failed"
    /\ UNCHANGED <<fileVars, doing>>

Quiet == \A h \in Handlers : doing[h] = "idle"

\* The listener's error ends Serve, also when it meets the signal.
ListenerFails ==
    /\ \/ phase = "serving" /\ phase' = "broken"
       \/ phase = "draining" /\ Quiet /\ phase' = "failed"
    /\ UNCHANGED <<fileVars, doing>>

\* Shutdown has waited for the last request.
Drained ==
    /\ phase = "draining" /\ Quiet
    /\ phase' = "returned"
    /\ UNCHANGED <<fileVars, doing>>

\* Five seconds are over before that.
ShutdownTimeout ==
    /\ phase = "draining" /\ ~Quiet
    /\ phase' = "failed"
    /\ UNCHANGED <<fileVars, doing>>

\* The deferred Close, which needs the store's lock.
CloseStore ==
    /\ phase = "returned"
    /\ writer = Free
    /\ phase' = "closed"
    /\ UNCHANGED <<fileVars, doing>>

Gone == phase' = "down" /\ doing' = [t \in Threads |-> "idle"]

\* After an error main ends with log.Fatal, which runs no deferred call.
Exit ==
    /\ phase \in {"closed", "broken", "failed"}
    /\ Drop
    /\ Gone

Kill ==
    /\ phase # "down"
    /\ Drop
    /\ Gone

PowerCut ==
    /\ Cut
    /\ Gone

-----------------------------------------------------------------------------
(* Requests and the recovery loop. *)

Serve(h) ==
    /\ phase = "serving"
    /\ doing[h] = "idle"
    /\ Goes(h, "busy")
    /\ UNCHANGED <<fileVars, phase>>

\* The clock's channel fires.  When the context is cancelled as well, select
\* may still take this branch.
Wake ==
    /\ phase # "down"
    /\ doing[Loop] = "idle"
    /\ Goes(Loop, "busy")
    /\ UNCHANGED <<fileVars, phase>>

\* A store call looks at its context before it waits for the lock.  That of
\* the loop is cancelled by the signal, that of a request is not.
Call(t) ==
    /\ doing[t] = "busy"
    /\ t = Loop => ~Cancelled
    /\ Goes(t, "waiting")
    /\ UNCHANGED <<fileVars, phase>>

\* Mutant of Enter: the store does not look whether it is closed.
EnterClosed(t) ==
    /\ doing[t] = "waiting"
    /\ \E c \in Changes : Begin(t, c)
    /\ Goes(t, "writing")
    /\ UNCHANGED phase

Enter(t) ==
    /\ doing[t] = "waiting"
    /\ phase # "closed"
    /\ \E c \in Changes : Begin(t, c)
    /\ Goes(t, "writing")
    /\ UNCHANGED phase

\* The store refuses: it is closed, or there is nothing to change.
TurnedAway(t) ==
    /\ doing[t] = "waiting"
    /\ writer = Free
    /\ Goes(t, "busy")
    /\ UNCHANGED <<fileVars, phase>>

Work ==
    /\ FileStep
    /\ IF writer' = Free THEN Goes(writer.by, "busy") ELSE UNCHANGED doing
    /\ UNCHANGED phase

\* The request is answered; the loop waits for its clock again.
Finish(t) ==
    /\ doing[t] = "busy"
    /\ Goes(t, "idle")
    /\ UNCHANGED <<fileVars, phase>>

\* The loop finds its context cancelled.
LoopEnds ==
    /\ phase # "down" /\ Cancelled
    /\ doing[Loop] = "idle"
    /\ Goes(Loop, "ended")
    /\ UNCHANGED <<fileVars, phase>>

-----------------------------------------------------------------------------
LifeNext ==
    \/ StartUp \/ RefuseToStart \/ Signal \/ ListenerFails \/ Drained
    \/ ShutdownTimeout \/ CloseStore \/ Exit \/ Kill \/ PowerCut
    \/ \E h \in Handlers : Serve(h)
    \/ Wake \/ LoopEnds
    \/ \E t \in Threads : Call(t) \/ Enter(t) \/ TurnedAway(t) \/ Finish(t)
    \/ Work

LifeSpec == LifeInit /\ [][LifeNext]_lifeVars

\* main goes on, the five seconds pass, and file operations come to an end.
\* Handlers and the loop need not do anything.
LifeFairness ==
    /\ WF_lifeVars(Drained) /\ WF_lifeVars(ShutdownTimeout)
    /\ WF_lifeVars(CloseStore) /\ WF_lifeVars(Exit)
    /\ WF_lifeVars(Work)

FairLifeSpec == LifeSpec /\ LifeFairness

-----------------------------------------------------------------------------
Files == {Absent, Empty, Torn} \cup {Whole(cs) : cs \in SUBSET Changes}

LifeTypeOK ==
    /\ path \in Files /\ tmp \in Files
    /\ memory \subseteq Changes /\ acked \subseteq Changes
    /\ lost \in BOOLEAN
    /\ phase \in Phases
    /\ doing \in [Threads -> {"idle", "busy", "waiting", "writing", "ended"}]
    /\ \A t \in Threads : doing[t] = "writing" <=> writer # Free /\ writer.by = t

\* What was reported as made is in the file, whichever step of writing it, of
\* a later write, or of an earlier one that failed, the process was killed in
\* (persistStateLocked, file_store.go:311-327): until a power cut, because
\* nothing is flushed.
ReportedIsInFile == lost \/ acked \subseteq path.changes

\* The file is never half written, not even when the temporary file of a
\* process that was killed is found by the next one: until a power cut.
FileIsWhole == lost \/ path.kind \in {"absent", "whole"}

\* After an orderly stop nothing is on its way any more: no request is without
\* its answer when Serve returns, and from Close on the file is not touched,
\* though the recovery loop may still be running (lifecycle.go:17-24,
\* file_store.go:287-293).
OrderlyStop ==
    [][/\ phase \in {"returned", "closed"} => Quiet
       /\ phase = "closed" => /\ writer = Free
                              /\ path' = path \/ phase' = "down"]_lifeVars

\* A process that was told to stop does: handlers that never end are cut off,
\* and Close gets the lock although the loop may be using the store
\* (lifecycle.go:16-26).
StopsInTime == phase = "draining" ~> phase = "down"

\* Seen from outside, where the lock hides what is under way, memory and file
\* change in one step: FileStore's Persist.
Visible ==
    IF writer = Free THEN memory
    ELSE IF writer.done THEN writer.snapshot
    ELSE IF At("return") /\ writer.change \in Edits THEN writer.snapshot
    ELSE writer.before

OneStep == INSTANCE OneStepStore WITH
    served <- Visible,
    file   <- IF Readable THEN path.changes ELSE Unreadable,
    up     <- phase # "down"

OneStepSpec == OneStep!Spec

=============================================================================
