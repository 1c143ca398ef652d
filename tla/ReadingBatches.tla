--------------------------- MODULE ReadingBatches ---------------------------
(***************************************************************************)
(* The value types of package model that travel through ingestion: a       *)
(* reading, the batch that carries it, and the checks a batch must pass.   *)
(*                                                                         *)
(* The temperature, humidity, moisture and battery figures of a reading    *)
(* are one abstract observation; InRange is the set of observations whose  *)
(* percentages lie in 0..100.  A timestamp is a natural number and 0 is    *)
(* Go's zero time.                                                         *)
(***************************************************************************)
EXTENDS Integers, Sequences

CONSTANTS StationIds,     \* station identifiers
          BatchIds,       \* batch identifiers
          Observations,   \* abstract payloads of a reading
          InRange         \* the observations that pass the range checks

ASSUME RangeAssumption == InRange \subseteq Observations

Reading == [stationId : StationIds, sequence : Int, recordedAt : Nat,
            value : Observations]

ReadingBatch == [id : BatchIds, stationId : StationIds,
                 readings : Seq(Reading)]

ReadingValid(r) ==
    /\ r.stationId # ""
    /\ r.sequence > 0
    /\ r.recordedAt # 0
    /\ r.value \in InRange

BatchValid(b) ==
    /\ b.id # ""
    /\ b.stationId # ""
    /\ b.readings # <<>>
    /\ \A i \in DOMAIN b.readings :
         /\ b.readings[i].stationId = b.stationId
         /\ ReadingValid(b.readings[i])
         /\ i > 1 => b.readings[i].sequence = b.readings[i - 1].sequence + 1

FirstSequence(b) == IF b.readings = <<>> THEN 0 ELSE b.readings[1].sequence

LastSequence(b) == IF b.readings = <<>>
                   THEN 0
                   ELSE b.readings[Len(b.readings)].sequence

=============================================================================
