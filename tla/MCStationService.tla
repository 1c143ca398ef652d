-------------------------- MODULE MCStationService --------------------------
(* A small instance of StationService for TLC. *)
EXTENDS StationService

MCReading(s, n) ==
    [stationId |-> s, sequence |-> n, recordedAt |-> 1, value |-> "calm"]

\* One batch of two readings, which may be committed before, while or after
\* an operator holds a copy of its station.
MCBatches == {[id |-> "b1", stationId |-> "s1",
               readings |-> <<MCReading("s1", 1), MCReading("s1", 2)>>]}

\* Operators are interchangeable.
OperatorSymmetry == Permutations(Operators)

=============================================================================
