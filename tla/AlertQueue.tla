----------------------------- MODULE AlertQueue -----------------------------
(***************************************************************************)
(* Package alerts: the events that alarming readings raise, first in first *)
(* out.  The thresholds of the policy are the sets of observations below,  *)
(* or above, them.  Left out: the wording and the time of an event.        *)
(***************************************************************************)
EXTENDS ReadingBatches, SequencesExt

CONSTANTS Dry,     \* observations with FuelMoisture < CriticalFuel
          Weak,    \* observations with BatteryPct < WarningBattery
          Hot      \* observations with Temperature > WarningTemperature

VARIABLES events,       \* Queue.events
          lastEvent,    \* Queue.next: the number in the newest event's ID
          drained       \* history: the events Drain has handed out

queueVars == <<events, lastEvent, drained>>

QueueInit == events = <<>> /\ lastEvent = 0 /\ drained = <<>>

Classify(r) ==
    IF r.value \in Dry THEN "critical"
    ELSE IF r.value \in Weak \cup Hot THEN "warning" ELSE ""

\* One event for every alarming reading, in their order.
Enqueue(station, rows, live) ==
    LET alarming == {i \in DOMAIN rows : Classify(rows[i]) # ""}
        raised(order) == [n \in DOMAIN order |->
                            [id |-> lastEvent + n, stationId |-> station,
                             sequence |-> rows[order[n]].sequence,
                             severity |-> Classify(rows[order[n]])]]
    IN  IF live
        THEN \E order \in SetToSeqs(alarming) :
               /\ \A m, n \in DOMAIN order : m < n => order[m] < order[n]
               /\ events' = events \o raised(order)
               /\ lastEvent' = lastEvent + Len(order)
               /\ UNCHANGED drained
        ELSE UNCHANGED queueVars

\* Mutant of Drain: the events handed out stay in the queue.
DrainCopy(limit) ==
    /\ LET n == IF limit <= 0 \/ limit > Len(events) THEN Len(events) ELSE limit
       IN  drained' = drained \o SubSeq(events, 1, n)
    /\ UNCHANGED <<events, lastEvent>>

\* The oldest events, all of them without a limit.  (In a context that has
\* ended nothing is drained.)
Drain(limit) ==
    /\ LET n == IF limit <= 0 \/ limit > Len(events) THEN Len(events) ELSE limit
       IN  /\ drained' = drained \o SubSeq(events, 1, n)
           /\ events' = SubSeq(events, n + 1, Len(events))
    /\ UNCHANGED lastEvent

=============================================================================
