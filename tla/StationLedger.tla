---------------------------- MODULE StationLedger ----------------------------
(***************************************************************************)
(* What the storage contract promises, without snapshots, cursors or       *)
(* files: each station owns a ledger that survives every stop of the       *)
(* service and only ever grows, by whole runs of readings that continue    *)
(* it; while the service runs, readers are served exactly that ledger.     *)
(***************************************************************************)
EXTENDS Integers, Sequences

CONSTANTS StationIds,
          Runs    \* the runs of readings that stations may submit

VARIABLES ledger,    \* durable readings of each station, in order
          serving,   \* whether the service answers requests
          served     \* what a reader of each station is given

vars == <<ledger, serving, served>>

Continues(s, log, run) ==
    /\ run # <<>>
    /\ \A i \in DOMAIN run : /\ run[i].stationId = s
                             /\ run[i].sequence = Len(log) + i

Init ==
    /\ ledger = [s \in StationIds |-> <<>>]
    /\ serving = TRUE
    /\ served = ledger

\* A whole run becomes durable and visible in one step, or not at all.
Extend(s, run) ==
    /\ serving
    /\ Continues(s, ledger[s], run)
    /\ ledger' = [ledger EXCEPT ![s] = @ \o run]
    /\ served' = ledger'
    /\ UNCHANGED serving

Stop ==
    /\ serving
    /\ serving' = FALSE
    /\ served' = [s \in StationIds |-> <<>>]
    /\ UNCHANGED ledger

Restart ==
    /\ ~serving
    /\ serving' = TRUE
    /\ served' = ledger
    /\ UNCHANGED ledger

Next ==
    \/ \E s \in StationIds, run \in Runs : Extend(s, run)
    \/ Stop
    \/ Restart

Spec == Init /\ [][Next]_vars

=============================================================================
