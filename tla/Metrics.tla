------------------------------- MODULE Metrics -------------------------------
(***************************************************************************)
(* Package ingest, metrics.go: the counters of a process.                  *)
(***************************************************************************)
EXTENDS Naturals

VARIABLE counts

Results == {"accepted", "duplicate", "failed"}

NoCounts == [accepted |-> 0, duplicates |-> 0, failed |-> 0, rejected |-> 0]

\* Mutant of RecordOutcome: a duplicate counts as accepted.
RecordOutcomeTwice(result) ==
    counts' = CASE result = "failed"    -> [counts EXCEPT !.failed = @ + 1]
                [] result = "duplicate" -> [counts EXCEPT !.accepted = @ + 1]
                [] result = "accepted"  -> [counts EXCEPT !.accepted = @ + 1]

\* `rejected` counts failures whose state is pending, and Receive gives every
\* failure the state failed.
RecordOutcome(result) ==
    counts' = CASE result = "failed"    -> [counts EXCEPT !.failed = @ + 1]
                [] result = "duplicate" -> [counts EXCEPT !.duplicates = @ + 1]
                [] result = "accepted"  -> [counts EXCEPT !.accepted = @ + 1]

=============================================================================
