----------------------------- MODULE MCFileStore -----------------------------
(* A small instance of FileStore for TLC. *)
EXTENDS FileStore

MCReading(s, n) ==
    [stationId |-> s, sequence |-> n, recordedAt |-> 1, value |-> "calm"]

MCBatch(bid, s, first, last) ==
    [id |-> bid, stationId |-> s,
     readings |-> [i \in 1 .. last - first + 1 |-> MCReading(s, first + i - 1)]]

\* Two consecutive batches of one station.
MCBatches == {MCBatch("b1", "s1", 1, 2), MCBatch("b2", "s1", 3, 3)}

\* The write fails at the second reading of the first batch, or at the second
\* batch.
MCFaultPlans == {[failOn |-> n, remaining |-> 1] : n \in {2, 3}}

=============================================================================
