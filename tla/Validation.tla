----------------------------- MODULE Validation -----------------------------
(***************************************************************************)
(* What an uploaded or replayed batch goes through before the store sees   *)
(* it: the validator of package ingest and the sequence rules of package   *)
(* policy.  Both are functions of the batch and of the time; only          *)
(* ValidateOrdered is called by the program.                               *)
(***************************************************************************)
EXTENDS ReadingBatches, FiniteSetsExt

CONSTANTS MaxBatch,    \* Validator.MaxBatch; none if not positive
          MaxAge       \* Validator.MaxAge; none if not positive

ASSUME ValidationAssumption == MaxBatch \in Int /\ MaxAge \in Int

\* Every reading is given its batch's station.
Normalize(b) ==
    [b EXCEPT !.readings =
       [i \in DOMAIN @ |-> [@[i] EXCEPT !.stationId = b.stationId]]]

Sequences(rows) == {rows[i].sequence : i \in DOMAIN rows}

\* The sequences of the readings, sorted, have neither gap nor duplicate.
ValidateOrdered(rows) ==
    \E i \in DOMAIN rows :
      Sequences(rows) = rows[i].sequence .. rows[i].sequence + Len(rows) - 1

Validate(b, now) ==
    /\ BatchValid(b)
    /\ ValidateOrdered(b.readings)
    /\ MaxBatch > 0 => Len(b.readings) <= MaxBatch
    /\ MaxAge > 0 =>
         \A i \in DOMAIN b.readings : now - b.readings[i].recordedAt <= MaxAge

-----------------------------------------------------------------------------
\* The lowest and the highest sequence of the readings, and their number.
Window(rows) ==
    IF rows = <<>>
    THEN [first |-> 0, last |-> 0, count |-> 0]
    ELSE [first |-> Min(Sequences(rows)), last |-> Max(Sequences(rows)),
          count |-> Len(rows)]

\* As many readings as the window has places.
Complete(w) == w.count > 0 /\ w.last - w.first + 1 = w.count

ExpectedAfter(cursor, b) == FirstSequence(b) = cursor + 1

=============================================================================
