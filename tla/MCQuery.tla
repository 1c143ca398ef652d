------------------------------- MODULE MCQuery -------------------------------
(* A small instance of Query for TLC. *)
EXTENDS Query

MCReading(s, n) ==
    [stationId |-> s, sequence |-> n, recordedAt |-> 1, value |-> "calm"]

\* Two consecutive batches of one reading: with a window of one reading, the
\* log is shorter than the window, fills it and outgrows it.
MCBatches ==
    {[id |-> "b1", stationId |-> "s1", readings |-> <<MCReading("s1", 1)>>],
     [id |-> "b2", stationId |-> "s1", readings |-> <<MCReading("s1", 2)>>]}

=============================================================================
