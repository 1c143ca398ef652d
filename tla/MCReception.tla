----------------------------- MODULE MCReception -----------------------------
(* A small instance of Reception for TLC. *)
EXTENDS Reception

MCReading(n, value) ==
    [stationId |-> "s1", sequence |-> n, recordedAt |-> 1, value |-> value]

MCBatch(bid, rows) == [id |-> bid, stationId |-> "s1", readings |-> rows]

\* Two consecutive batches, the second with two alarms; one for the place of
\* the second that was given the identifier of the first; and one without an
\* identifier.
MCBatches == {MCBatch("b1", <<MCReading(1, "dry")>>),
              MCBatch("b2", <<MCReading(2, "weak"), MCReading(3, "dry")>>),
              MCBatch("b1", <<MCReading(2, "hot")>>),
              MCBatch("", <<MCReading(1, "calm")>>)}

\* The hypothesis of CountersTellGrowth: no two of them share a reading.
ASSUME MCAssumption == ReadingsApart

MCFaultPlans == {[failOn |-> 1, remaining |-> 1]}

=============================================================================
