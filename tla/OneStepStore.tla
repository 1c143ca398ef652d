---------------------------- MODULE OneStepStore ----------------------------
(***************************************************************************)
(* The contract of the snapshot file that module FileStore builds on: a    *)
(* change of memory and the replacement of the file are one step, the end  *)
(* of a process leaves the file as it is, and the next one starts from it. *)
(* Only a power cut may leave anything at all behind, an unreadable file   *)
(* included.                                                               *)
(***************************************************************************)
CONSTANTS Commits,      \* changes that are made if they can be written
          Edits,        \* changes that stay in memory if they cannot
          Unreadable    \* the content of a file that cannot be decoded

VARIABLES served,    \* the snapshot in memory, {} while there is no process
          file,      \* the content of the file
          up         \* is there a process?

Init == served = {} /\ file = {} /\ up = FALSE

Commit(c) ==
    /\ up
    /\ served' = served \cup {c}
    /\ file' = served'
    /\ UNCHANGED up

Edit(c) ==
    /\ up
    /\ served' = served \cup {c}
    /\ file' \in {served', file}
    /\ UNCHANGED up

Start ==
    /\ ~up /\ file # Unreadable
    /\ up' = TRUE
    /\ served' = file
    /\ UNCHANGED file

End ==
    /\ up
    /\ up' = FALSE
    /\ served' = {}
    /\ UNCHANGED file

PowerCut ==
    /\ up' = FALSE
    /\ served' = {}
    /\ file' \in (SUBSET (Commits \cup Edits)) \cup {Unreadable}

Next ==
    \/ \E c \in Commits : Commit(c)
    \/ \E c \in Edits : Edit(c)
    \/ Start \/ End \/ PowerCut

Spec == Init /\ [][Next]_<<served, file, up>>

=============================================================================
