------------------------- MODULE ReadingBatchProofs -------------------------
(***************************************************************************)
(* What ReadingBatch.Validate (station.go:115-139) guarantees of a batch:  *)
(* its readings carry consecutive sequence numbers.  The loop compares     *)
(* neighbours only; that every reading is where its number says needs the  *)
(* least-counterexample argument below.                                    *)
(***************************************************************************)
EXTENDS ReadingBatches, SequenceTheorems, WellFoundedInduction, TLAPS

\* Every non-empty set of naturals has a least element.
LEMMA LeastNatural ==
    ASSUME NEW T, T \subseteq Nat, T # {}
    PROVE  \E x \in T : \A y \in T : ~ (y < x)
<1>1. IsWellFoundedOn(OpToRel(<, Nat), Nat)
  BY NatLessThanWellFounded
<1>2. PICK x \in T : \A y \in T : ~ (<<y, x>> \in OpToRel(<, Nat))
  BY <1>1, WFMin, Zenon
<1>3. \A y \in T : ~ (y < x)
  BY <1>2 DEF OpToRel
<1> QED BY <1>3

\* Numbers each of which follows its predecessor count up from the first.
LEMMA Consecutive ==
    ASSUME NEW n \in Nat, NEW f \in [1 .. n -> Int],
           \A i \in 1 .. n : i > 1 => f[i] = f[i - 1] + 1
    PROVE  \A i \in 1 .. n : f[i] = f[1] + i - 1
<1> DEFINE T == {i \in 1 .. n : f[i] # f[1] + i - 1}
<1>1. SUFFICES ASSUME T # {} PROVE FALSE
  OBVIOUS
<1>2. PICK i \in T : \A j \in T : ~ (j < i)
  <2>1. T \subseteq Nat
    OBVIOUS
  <2> HIDE DEF T
  <2> QED BY <1>1, <2>1, LeastNatural, Zenon
<1>3. i > 1
  OBVIOUS
<1>4. i - 1 \in 1 .. n /\ i - 1 \notin T
  BY <1>2, <1>3
<1>5. f[i - 1] = f[1] + (i - 1) - 1
  BY <1>4
<1>6. f[i] = f[i - 1] + 1
  BY <1>3
<1>7. f[1] \in Int
  BY <1>3, <1>4
<1>8. i \in Int /\ f[i] # f[1] + i - 1
  OBVIOUS
<1> HIDE DEF T
<1>9. f[i] = (f[1] + (i - 1) - 1) + 1
  BY <1>5, <1>6
<1> QED BY <1>7, <1>8, <1>9

\* The shape of a batch that passed Validate.
LEMMA ValidBatch ==
    ASSUME NEW b \in ReadingBatch, BatchValid(b)
    PROVE  /\ b.id \in BatchIds /\ b.stationId \in StationIds
           /\ b.readings \in Seq(Reading)
           /\ Len(b.readings) \in Nat \ {0}
           /\ \A i \in 1 .. Len(b.readings) :
                 /\ b.readings[i].stationId = b.stationId
                 /\ b.readings[i].sequence = FirstSequence(b) + i - 1
           /\ FirstSequence(b) \in Nat \ {0}
           /\ LastSequence(b) = FirstSequence(b) + Len(b.readings) - 1
<1>1. b.id \in BatchIds /\ b.stationId \in StationIds
      /\ b.readings \in Seq(Reading)
  BY DEF ReadingBatch
<1> DEFINE n == Len(b.readings)
           f == [i \in 1 .. n |-> b.readings[i].sequence]
<1>2. n \in Nat \ {0} /\ DOMAIN b.readings = 1 .. n
  <2>1. b.readings # <<>>
    BY DEF BatchValid
  <2> QED BY <1>1, <2>1, LenProperties, EmptySeq
<1>3. \A i \in 1 .. n : b.readings[i].sequence \in Int
  <2>1. \A i \in 1 .. n : b.readings[i] \in Reading
    BY <1>1, <1>2, ElementOfSeq
  <2> QED BY <2>1 DEF Reading
<1>4. \A i \in 1 .. n : f[i] = f[1] + i - 1
  <2>1. f \in [1 .. n -> Int]
    BY <1>3
  <2>2. ASSUME NEW i \in 1 .. n, i > 1 PROVE f[i] = f[i - 1] + 1
    <3>1. b.readings[i].sequence = b.readings[i - 1].sequence + 1
      BY <1>2, <2>2 DEF BatchValid
    <3>2. i - 1 \in 1 .. n
      BY <1>2, <2>2
    <3> QED BY <3>1, <3>2
  <2> HIDE DEF f
  <2> QED BY <1>2, <2>1, <2>2, Consecutive
<1>5. FirstSequence(b) = f[1] /\ LastSequence(b) = f[n]
      /\ 1 \in 1 .. n /\ n \in 1 .. n
  <2>1. b.readings # <<>>
    BY DEF BatchValid
  <2>2. 1 \in 1 .. n /\ n \in 1 .. n
    BY <1>2
  <2> QED BY <2>1, <2>2 DEF FirstSequence, LastSequence
<1>6. f[1] \in Nat \ {0}
  <2>1. b.readings[1].sequence > 0
    BY <1>2, <1>5 DEF BatchValid, ReadingValid
  <2> QED BY <1>3, <1>5, <2>1
<1>7. \A i \in 1 .. n : b.readings[i].stationId = b.stationId
  BY <1>2 DEF BatchValid
<1>8. \A i \in 1 .. n : b.readings[i].sequence = FirstSequence(b) + i - 1
  BY <1>4, <1>5
<1>9. LastSequence(b) = FirstSequence(b) + n - 1
  BY <1>4, <1>5
<1> HIDE DEF n, f
<1>10. FirstSequence(b) \in Nat \ {0}
  BY <1>5, <1>6
<1> QED BY <1>1, <1>2, <1>7, <1>8, <1>9, <1>10 DEF n

=============================================================================
