------------------------------ MODULE MCIngest ------------------------------
(* A small instance of Ingest for TLC. *)
EXTENDS Ingest

MCReading(s, n, at) ==
    [stationId |-> s, sequence |-> n, recordedAt |-> at, value |-> "calm"]

\* Two consecutive batches.
First == [id |-> "b1", stationId |-> "s1",
          readings |-> <<MCReading("s1", 1, 1), MCReading("s1", 2, 1)>>]

Second == [id |-> "b2", stationId |-> "s1",
           readings |-> <<MCReading("s1", 3, 2)>>]

MCBatches == {First, Second}

\* The second is posted with a station of its own in its reading.
MCUploads == {First, [Second EXCEPT !.readings[1].stationId = ""]}

\* Either batch may meet a fault, once in each opened store.
MCFaultPlans == {[failOn |-> n, remaining |-> 1] : n \in {2, 3}}

=============================================================================
