------------------------ MODULE ReceptionBooksProofs ------------------------
(***************************************************************************)
(* What journal, counters and alerts of a process say of each other and of *)
(* the file, for any number of callers and any batches.                    *)
(*                                                                         *)
(* Receive and its callers write them in calls of their own, so that they  *)
(* are out of balance by the callers that are between two of these.  Each  *)
(* invariant is a balance with those callers counted in: a step moves a    *)
(* caller from one side to the other, and a caller that gives up, or ends  *)
(* with its process, takes its weight with it.                             *)
(***************************************************************************)
EXTENDS ReceptionProofs

-----------------------------------------------------------------------------
(* Counting the calls that are at some step. *)

\* The calls under way that are, with their caller, in a set.
Those(S) == {c \in DOMAIN calls : <<c, calls[c]>> \in S}

\* How many calls are in a set after a call has changed, has ended or has
\* been started.
One(S, c, call) == IF <<c, call>> \in S THEN 1 ELSE 0

\* There are finitely many of them.
LEMMA ThoseFinite ==
    ASSUME IsFiniteSet(DOMAIN calls), NEW S
    PROVE  IsFiniteSet(Those(S)) /\ Cardinality(Those(S)) \in Nat
<1>1. Those(S) \subseteq DOMAIN calls
  BY DEF Those
<1>2. IsFiniteSet(Those(S))
  BY <1>1, FS_Subset
<1> QED
  BY <1>2, FS_CardinalityType

\* And after a step.
LEMMA ThoseFiniteNext ==
    ASSUME IsFiniteSet(DOMAIN calls'), NEW S
    PROVE  Cardinality(Those(S)') \in Nat
<1>1. Those(S)' \subseteq DOMAIN calls'
  BY DEF Those
<1>2. IsFiniteSet(Those(S)')
  BY <1>1, FS_Subset
<1> QED
  BY <1>2, FS_CardinalityType

\* A call that changes moves in or out of a set, or neither.
LEMMA ThoseChange ==
    ASSUME IsMap(calls, Callers, Call), IsFiniteSet(DOMAIN calls), NEW S,
           NEW c \in DOMAIN calls, NEW w \in Call, Becomes(c, w)
    PROVE  Cardinality(Those(S)') + One(S, c, calls[c])
             = Cardinality(Those(S)) + One(S, c, w)
<1>1. /\ DOMAIN calls' = DOMAIN calls
      /\ calls'[c] = w
      /\ \A x \in DOMAIN calls \ {c} : calls'[x] = calls[x]
  BY CallBecomes
<1>2. IsFiniteSet(Those(S)) /\ Cardinality(Those(S)) \in Nat
  BY ThoseFinite
<1>3. c \in Those(S) <=> <<c, calls[c]>> \in S
  BY DEF Those
<1>4. CASE <<c, w>> \in S
  <2>1. Those(S)' = Those(S) \cup {c}
    BY <1>1, <1>4 DEF Those
  <2>2. Cardinality(Those(S)') = IF c \in Those(S) THEN Cardinality(Those(S))
                                                  ELSE Cardinality(Those(S)) + 1
    BY <1>2, <2>1, FS_AddElement
  <2> QED
    BY <1>2, <1>3, <1>4, <2>2 DEF One
<1>5. CASE <<c, w>> \notin S
  <2>1. Those(S)' = Those(S) \ {c}
    BY <1>1, <1>5 DEF Those
  <2>2. Cardinality(Those(S)') = IF c \in Those(S) THEN Cardinality(Those(S)) - 1
                                                  ELSE Cardinality(Those(S))
    BY <1>2, <2>1, FS_RemoveElement
  <2> QED
    BY <1>2, <1>3, <1>5, <2>2 DEF One
<1> QED
  BY <1>4, <1>5

\* A call that ends is in none.
LEMMA ThoseLeave ==
    ASSUME IsMap(calls, Callers, Call), IsFiniteSet(DOMAIN calls), NEW S,
           NEW c \in DOMAIN calls, Leaving(c)
    PROVE  Cardinality(Those(S)') + One(S, c, calls[c]) = Cardinality(Those(S))
<1>1. DOMAIN calls' = DOMAIN calls \ {c} /\ \A x \in DOMAIN calls' : calls'[x] = calls[x]
  BY DEF Leaving
<1>2. IsFiniteSet(Those(S)) /\ Cardinality(Those(S)) \in Nat
  BY ThoseFinite
<1>3. c \in Those(S) <=> <<c, calls[c]>> \in S
  BY DEF Those
<1>4. Those(S)' = Those(S) \ {c}
  BY <1>1 DEF Those
<1>5. Cardinality(Those(S)') = IF c \in Those(S) THEN Cardinality(Those(S)) - 1
                                                ELSE Cardinality(Those(S))
  BY <1>2, <1>4, FS_RemoveElement
<1> QED
  BY <1>2, <1>3, <1>5 DEF One

\* A call that starts may be in some.
LEMMA ThoseStart ==
    ASSUME IsMap(calls, Callers, Call), IsFiniteSet(DOMAIN calls), NEW S,
           NEW c, c \notin DOMAIN calls, NEW w, calls' = Put(calls, c, w)
    PROVE  Cardinality(Those(S)') = Cardinality(Those(S)) + One(S, c, w)
<1>1. /\ DOMAIN calls' = DOMAIN calls \cup {c}
      /\ calls'[c] = w
      /\ \A x \in DOMAIN calls : calls'[x] = calls[x]
  BY DEF Put
<1>2. IsFiniteSet(Those(S)) /\ Cardinality(Those(S)) \in Nat
  BY ThoseFinite
<1>3. c \notin Those(S)
  BY DEF Those
<1>4. CASE <<c, w>> \in S
  <2>1. Those(S)' = Those(S) \cup {c}
    BY <1>1, <1>4 DEF Those
  <2>2. Cardinality(Those(S)') = Cardinality(Those(S)) + 1
    BY <1>2, <1>3, <2>1, FS_AddElement
  <2> QED
    BY <1>4, <2>2 DEF One
<1>5. CASE <<c, w>> \notin S
  <2>1. Those(S)' = Those(S)
    BY <1>1, <1>5 DEF Those
  <2> QED
    BY <1>2, <1>5, <2>1 DEF One
<1> QED
  BY <1>4, <1>5

\* No calls, none in a set.
LEMMA ThoseNone == ASSUME calls = EmptyMap, NEW S PROVE Cardinality(Those(S)) = 0
<1>1. Those(S) = {}
  BY DEF Those, EmptyMap
<1> QED
  BY <1>1, FS_EmptySet

\* The steps that change a call, and the others.
LEMMA WhoMoves ==
    ASSUME [ReceptionNext]_receptionVars
    PROVE  \/ \E c \in Callers : \E todo : Start(c, todo)
           \/ \E c \in Callers : \/ LogReceived(c) \/ Commit(c) \/ Count(c)
                                 \/ LogCommitted(c)
           \/ \E c \in Expiring : Expire(c)
           \/ \E c \in Posters : Answer(c)
           \/ \E c \in Replayers : FinishReplay(c)
           \/ Die
           \/ Restart
           \/ /\ UNCHANGED <<calls, counts, journalVars, received, inherited>>
              /\ \/ UNCHANGED queueVars
                 \/ \E limit \in DrainLimits : Drain(limit) /\ UNCHANGED serviceVars
              /\ Others \/ UNCHANGED serviceVars
<1>1. ASSUME NEW c \in Posters, NEW b \in Posts, Post(c, b)
      PROVE  \E x \in Callers : \E todo : Start(x, todo)
  BY <1>1 DEF Post, Callers
<1>2. ASSUME NEW c \in Replayers, StartReplay(c)
      PROVE  \E x \in Callers : \E todo : Start(x, todo)
  BY <1>2 DEF StartReplay, Callers
<1>3. CASE UNCHANGED receptionVars
  BY <1>3 DEF receptionVars, memoryVars, journalVars, queueVars, serviceVars
<1>4. CASE Others /\ UNCHANGED <<memoryVars, calls, received, inherited>>
  BY <1>4 DEF memoryVars, journalVars, queueVars
<1> QED
  BY <1>1, <1>2, <1>3, <1>4 DEF ReceptionNext

-----------------------------------------------------------------------------
(* What calls know. *)

\* What is known of a call at each of its steps.
Knows(call, snapshot) ==
    /\ call.next \in {"receive", "commit"} => call.result = "failed"
    /\ call.next = "log" => call.result # "failed"
    /\ call.result # "failed" =>
         /\ BatchValid(Head(call.todo))
         /\ \E b \in Batches : b.id = Head(call.todo).id /\ Holds(snapshot, b)
    /\ TellsTruth(call, snapshot)

CallsKnow ==
    /\ IsFiniteSet(DOMAIN calls)
    /\ \A c \in DOMAIN calls : Knows(calls[c], disk)

\* A batch in the file stays there.
LEMMA HeldStays ==
    ASSUME StoreInv, StoreInv', LogsExtend, NEW b \in Batches, Holds(disk, b)
    PROVE  Holds(disk', b)
<1> DEFINE log == disk.readings[b.stationId]
           new == disk'.readings[b.stationId]
<1>1. b.stationId \in StationIds
  BY StoreAssumption DEF ReadingBatch
<1>2. /\ log \in Seq(Reading) /\ new \in Seq(Reading)
      /\ Len(log) <= Len(new)
      /\ \A i \in 1 .. Len(log) : new[i] = log[i]
  BY <1>1 DEF StoreInv, TypeOK, IsDiskState, LogsExtend, Extends
<1>3. /\ DOMAIN log = 1 .. Len(log) /\ DOMAIN new = 1 .. Len(new)
      /\ Len(log) \in Nat /\ Len(new) \in Nat
  BY <1>2, LenProperties
<1>4. \A i \in DOMAIN log : i \in DOMAIN new /\ new[i] = log[i]
  BY <1>2, <1>3
<1>5. \A i \in DOMAIN b.readings : /\ b.readings[i].sequence \in DOMAIN log
                                   /\ log[b.readings[i].sequence] = b.readings[i]
  BY DEF Holds
<1> HIDE DEF log
<1>6. \A i \in DOMAIN b.readings : /\ b.readings[i].sequence \in DOMAIN new
                                   /\ new[b.readings[i].sequence] = b.readings[i]
  BY <1>4, <1>5
<1> QED
  BY <1>6 DEF Holds

\* A caller's answer stays true.
LEMMA AnswerStays ==
    ASSUME StoreInv, StoreInv', LogsExtend, NEW call \in Call, TellsTruth(call, disk)
    PROVE  TellsTruth(call, disk')
<1> DEFINE b == Head(call.todo)
<1>1. b \in Batches /\ b.stationId \in StationIds /\ call.cursor \in Nat
  BY CallFields, StoreAssumption DEF ReadingBatch, Call
<1>2. CASE call.result = "failed"
  BY <1>2 DEF TellsTruth
<1>3. CASE call.result # "failed"
  <2> DEFINE log == disk.readings[b.stationId]
             new == disk'.readings[b.stationId]
  <2>1. Len(log) \in Nat /\ Len(new) \in Nat /\ Len(log) <= Len(new)
    BY <1>1, LenProperties DEF StoreInv, TypeOK, IsDiskState, LogsExtend, Extends
  <2>2. call.cursor <= Len(log)
    BY <1>3 DEF TellsTruth
  <2>3. \/ Holds(disk, b) /\ LastSequence(b) <= call.cursor
        \/ call.result = "duplicate" /\ ~Unique(b)
    BY <1>3 DEF TellsTruth
  <2>4. Holds(disk, b) => Holds(disk', b)
    BY <1>1, HeldStays
  <2> HIDE DEF log
  <2>5. call.cursor <= Len(new)
    BY <1>1, <2>1, <2>2
  <2> QED
    BY <2>3, <2>4, <2>5 DEF TellsTruth
<1> QED
  BY <1>2, <1>3

\* What is in the file is covered by the length of its log.
LEMMA HeldWithin ==
    ASSUME NEW d, IsDiskState(d), NEW b \in Batches, BatchValid(b), Holds(d, b)
    PROVE  LastSequence(b) <= Len(d.readings[b.stationId])
<1> DEFINE log == d.readings[b.stationId]
<1>1. DOMAIN log = 1 .. Len(log)
  BY StoreAssumption, LenProperties DEF ReadingBatch, IsDiskState
<1>2. b.readings \in Seq(Reading) /\ b.readings # <<>>
  BY StoreAssumption DEF BatchValid, ReadingBatch
<1>3. Len(b.readings) \in DOMAIN b.readings
  BY <1>2, LenProperties, EmptySeq
<1>4. LastSequence(b) \in DOMAIN log
  BY <1>3 DEF LastSequence, Holds
<1> QED
  BY <1>1, <1>4

\* What CommitBatch answers is so in the file it leaves.
LEMMA AnswerIsTrue ==
    ASSUME StoreInv, StoreInv', NEW b \in Batches, NEW now \in Times,
           NEW call, Head(call.todo) = b, call.cursor = state'.cursors[b.stationId],
           \/ CommitApplied(b, now) /\ call.result = "accepted"
           \/ CommitDuplicate(b) /\ call.result = "duplicate"
    PROVE  TellsTruth(call, disk')
<1>1. /\ BatchValid(b) /\ Ready /\ mode' = mode /\ b \in acked'
      /\ b.stationId \in DOMAIN state.stations
  BY DEF CommitApplied, CommitDuplicate, Admissible
<1>2. b.stationId \in DOMAIN state'.stations
  <2>1. ASSUME CommitApplied(b, now) PROVE b.stationId \in DOMAIN state'.stations
    BY <2>1 DEF CommitApplied, Applied, Put
  <2>2. ASSUME CommitDuplicate(b) PROVE b.stationId \in DOMAIN state'.stations
    BY <1>1, <2>2 DEF CommitDuplicate
  <2> QED
    BY <2>1, <2>2
<1>3. /\ IsDiskState(disk') /\ CursorDescribes(state')
      /\ state'.readings = disk'.readings
  BY <1>1 DEF StoreInv, TypeOK, CursorsAreReadable, VisibleIsDurable, Ready
<1>4. call.cursor = Len(disk'.readings[b.stationId])
  BY <1>2, <1>3, StoreAssumption DEF CursorDescribes, ReadingBatch
<1>5. Len(disk'.readings[b.stationId]) \in Nat
  BY <1>3, StoreAssumption, LenProperties DEF IsDiskState, ReadingBatch
<1>6. CASE CommitApplied(b, now) /\ call.result = "accepted"
  <2>1. SoundSnapshot(state) /\ FirstSequence(b) = state.cursors[b.stationId] + 1
    BY <1>6, InvIsSoundness DEF CommitApplied, Expected
  <2>2. disk' = Applied(state, b, now)
    BY <1>6 DEF CommitApplied, Persist
  <2>3. Holds(disk', b)
    BY <1>1, <2>1, <2>2, AppliedSound
  <2>4. LastSequence(b) <= Len(disk'.readings[b.stationId])
    BY <1>1, <1>3, <2>3, HeldWithin
  <2> QED
    BY <1>4, <1>5, <2>3, <2>4 DEF TellsTruth
<1>7. CASE CommitDuplicate(b) /\ call.result = "duplicate"
  <2>1. PICK c \in Batches : c.id = b.id /\ Holds(disk', c)
    BY <1>1 DEF StoreInv, AcceptedSurvives
  <2>2. CASE Unique(b)
    <3>1. Holds(disk', b)
      BY <2>1, <2>2 DEF Unique
    <3>2. LastSequence(b) <= Len(disk'.readings[b.stationId])
      BY <1>1, <1>3, <3>1, HeldWithin
    <3> QED
      BY <1>4, <1>5, <3>1, <3>2 DEF TellsTruth
  <2> QED
    BY <1>4, <1>5, <1>7, <2>2 DEF TellsTruth
<1> QED
  BY <1>6, <1>7

\* Every step keeps what calls know.
LEMMA CallsKnowStep ==
    ASSUME ReceptionInv, CallsKnow, [ReceptionNext]_receptionVars
    PROVE  CallsKnow'
<1>1. StoreInv /\ StoreInv' /\ LogsExtend
  BY ServiceStep
<1>2. IsMap(calls, Callers, Call)
  BY DEF ReceptionInv, MemorySound
<1>3. \A c \in DOMAIN calls : Knows(calls[c], disk')
  BY <1>1, <1>2, HeldStays, AnswerStays, CallFields DEF CallsKnow, Knows
<1>4. ASSUME UNCHANGED calls PROVE CallsKnow'
  BY <1>3, <1>4 DEF CallsKnow
<1>5. ASSUME NEW c \in DOMAIN calls, NEW w \in Call, Becomes(c, w), Knows(w, disk')
      PROVE  CallsKnow'
  <2>1. /\ DOMAIN calls' = DOMAIN calls /\ calls'[c] = w
        /\ \A x \in DOMAIN calls \ {c} : calls'[x] = calls[x]
    BY <1>2, <1>5, CallBecomes
  <2> QED
    BY <1>3, <1>5, <2>1 DEF CallsKnow
<1>6. ASSUME NEW c, Leaving(c) PROVE CallsKnow'
  <2>1. DOMAIN calls' = DOMAIN calls \ {c} /\ \A x \in DOMAIN calls' : calls'[x] = calls[x]
    BY <1>6 DEF Leaving
  <2>2. IsFiniteSet(DOMAIN calls')
    BY <2>1, FS_RemoveElement DEF CallsKnow
  <2> QED
    BY <1>3, <2>1, <2>2 DEF CallsKnow
<1>7. ASSUME NEW c, NEW todo, Start(c, todo) PROVE CallsKnow'
  <2> DEFINE w == [todo |-> todo, next |-> "receive", live |-> TRUE,
                   result |-> "failed", cursor |-> 0]
  <2>1. calls' = Put(calls, c, w)
    BY <1>7 DEF Start
  <2>2. Knows(w, disk')
    BY DEF Knows, TellsTruth
  <2> HIDE DEF w
  <2>3. /\ DOMAIN calls' = DOMAIN calls \cup {c} /\ calls'[c] = w
        /\ \A x \in DOMAIN calls : x # c => calls'[x] = calls[x]
    BY <2>1 DEF Put
  <2>4. IsFiniteSet(DOMAIN calls')
    BY <2>3, FS_AddElement DEF CallsKnow
  <2> QED
    BY <1>3, <2>2, <2>3, <2>4 DEF CallsKnow
<1>8. ASSUME NEW c, LogReceived(c) PROVE CallsKnow'
  <2> DEFINE w == [calls[c] EXCEPT !.next = "commit"]
  <2>1. /\ c \in DOMAIN calls /\ calls[c] \in Call /\ calls[c].next = "receive"
        /\ Knows(calls[c], disk')
    BY <1>2, <1>3, <1>8, CallFields DEF LogReceived, At
  <2>2. w \in Call /\ Knows(w, disk')
    BY <2>1 DEF Call, Steps, Knows, TellsTruth
  <2>3. Becomes(c, w)
    BY <1>8 DEF LogReceived
  <2> QED
    BY <1>5, <2>1, <2>2, <2>3
<1>9. ASSUME NEW c, Expire(c) PROVE CallsKnow'
  <2> DEFINE w == [calls[c] EXCEPT !.live = FALSE]
  <2>1. c \in DOMAIN calls /\ calls[c] \in Call /\ Knows(calls[c], disk')
    BY <1>2, <1>3, <1>9, CallFields DEF Expire
  <2>2. w \in Call /\ Knows(w, disk')
    BY <2>1 DEF Call, Knows, TellsTruth
  <2>3. Becomes(c, w)
    BY <1>9 DEF Expire
  <2> QED
    BY <1>5, <2>1, <2>2, <2>3
<1>10. ASSUME NEW c, Count(c) PROVE CallsKnow'
  <2> DEFINE w == [calls[c] EXCEPT !.next = IF calls[c].result = "failed"
                                               THEN "finish" ELSE "log"]
  <2>1. c \in DOMAIN calls /\ calls[c] \in Call /\ Knows(calls[c], disk')
    BY <1>2, <1>3, <1>10, CallFields DEF Count, At
  <2>2. w \in Call /\ Knows(w, disk')
    BY <2>1 DEF Call, Steps, Knows, TellsTruth
  <2>3. Becomes(c, w)
    BY <1>10 DEF Count
  <2> QED
    BY <1>5, <2>1, <2>2, <2>3
<1>11. ASSUME NEW c, LogCommitted(c) PROVE CallsKnow'
  <2> DEFINE w == [calls[c] EXCEPT !.next = "finish"]
  <2>1. c \in DOMAIN calls /\ calls[c] \in Call /\ Knows(calls[c], disk')
    BY <1>2, <1>3, <1>11, CallFields DEF LogCommitted, At
  <2>2. w \in Call /\ Knows(w, disk')
    BY <2>1 DEF Call, Steps, Knows, TellsTruth
  <2>3. Becomes(c, w)
    BY <1>11 DEF LogCommitted
  <2> QED
    BY <1>5, <2>1, <2>2, <2>3
<1>12. ASSUME NEW c, Commit(c) PROVE CallsKnow'
  <2> DEFINE b == Current(c)
  <2>1. /\ c \in DOMAIN calls /\ calls[c] \in Call /\ b \in Batches
        /\ b = Head(calls[c].todo)
    BY <1>2, <1>12, CallFields DEF Commit, At, Current
  <2>2. PICK now \in Times : Refused(c, b, now) \/ Stored(c, b, now)
    BY <1>12 DEF Commit
  <2> HIDE DEF b
  <2>3. ASSUME Becomes(c, [calls[c] EXCEPT !.next = "count", !.result = "failed"])
        PROVE  CallsKnow'
    <3> DEFINE w == [calls[c] EXCEPT !.next = "count", !.result = "failed"]
    <3>1. w \in Call /\ Knows(w, disk')
      BY <2>1 DEF Call, Steps, Results, Knows, TellsTruth
    <3>2. Becomes(c, w)
      BY <2>3
    <3> QED
      BY <1>5, <2>1, <3>1, <3>2
  <2>4. ASSUME NEW result \in {"accepted", "duplicate"}, NEW cursor \in Nat,
               BatchValid(b), b \in acked', cursor = state'.cursors[b.stationId],
               \/ CommitApplied(b, now) /\ result = "accepted"
               \/ CommitDuplicate(b) /\ result = "duplicate",
               Becomes(c, [calls[c] EXCEPT !.next = "count", !.result = result,
                                           !.cursor = cursor])
        PROVE  CallsKnow'
    <3> DEFINE w == [calls[c] EXCEPT !.next = "count", !.result = result,
                                     !.cursor = cursor]
    <3>1. \E x \in Batches : x.id = b.id /\ Holds(disk', x)
      BY <1>1, <2>4 DEF StoreInv, AcceptedSurvives
    <3>2. /\ w \in Call /\ w.todo = calls[c].todo /\ w.next = "count"
          /\ w.result = result /\ w.cursor = cursor
      BY <2>1, <2>4 DEF Call, Steps, Results
    <3>3. Becomes(c, w)
      BY <2>4
    <3> HIDE DEF w
    <3>4. TellsTruth(w, disk')
      BY <1>1, <2>1, <2>4, <3>2, AnswerIsTrue
    <3>5. Knows(w, disk')
      BY <2>1, <2>4, <3>1, <3>2, <3>4 DEF Knows
    <3> QED
      BY <1>5, <2>1, <3>2, <3>3, <3>5
  <2>5. ASSUME NEW cursor, CommitApplied(b, now) \/ CommitDuplicate(b),
               cursor = state'.cursors[b.stationId]
        PROVE  cursor \in Nat /\ BatchValid(b) /\ b \in acked'
    <3>1. BatchValid(b) /\ b \in acked' /\ b.stationId \in DOMAIN state.stations
      BY <2>5 DEF CommitApplied, CommitDuplicate, Admissible
    <3>2. b.stationId \in DOMAIN state'.stations
      <4>1. CASE CommitApplied(b, now)
        BY <4>1 DEF CommitApplied, Applied, Put
      <4>2. CASE CommitDuplicate(b)
        BY <3>1, <4>2 DEF CommitDuplicate
      <4> QED
        BY <2>5, <4>1, <4>2
    <3>3. IsMap(state'.cursors, StationIds, Nat) /\ b.stationId \in DOMAIN state'.cursors
      BY <1>1, <3>2 DEF StoreInv, TypeOK, IsDiskState, CursorsAreReadable, CursorDescribes
    <3> QED
      BY <2>5, <3>1, <3>3 DEF IsMap
  <2>6. CASE CommitApplied(b, now) /\
             Becomes(c, [calls[c] EXCEPT !.next = "count", !.result = "accepted",
                                         !.cursor = state'.cursors[b.stationId]])
    BY <2>4, <2>5, <2>6
  <2>7. CASE CommitDuplicate(b) /\
             Becomes(c, [calls[c] EXCEPT !.next = "count", !.result = "duplicate",
                                         !.cursor = state.cursors[b.stationId]])
    <3>1. state' = state
      BY <2>7 DEF CommitDuplicate
    <3> QED
      BY <2>4, <2>5, <2>7, <3>1
  <2> QED
    BY <2>2, <2>3, <2>6, <2>7 DEF Refused, Stored
<1>13. ASSUME NEW c, FinishReplay(c) PROVE CallsKnow'
  <2> DEFINE w == [calls[c] EXCEPT !.todo = Tail(@), !.next = "receive",
                                   !.result = "failed", !.cursor = 0]
  <2>1. /\ c \in DOMAIN calls /\ calls[c] \in Call
    BY <1>2, <1>13, CallFields DEF FinishReplay, At
  <2>2. CASE Becomes(c, w)
    <3>1. calls' = [calls EXCEPT ![c] = w]
      BY <2>2 DEF Becomes
    <3>2. Knows(w, disk')
      BY <2>1 DEF Call, Knows, TellsTruth
    <3> HIDE DEF w
    <3> QED
      BY <1>3, <2>1, <3>1, <3>2 DEF CallsKnow
  <2> QED
    BY <1>6, <1>13, <2>2 DEF FinishReplay, Proceed
<1>14. CASE Die
  <2>1. calls' = EmptyMap
    BY <1>14 DEF Die
  <2> QED
    BY <2>1, FS_EmptySet DEF EmptyMap, CallsKnow
<1>15. ASSUME NEW c, Answer(c) PROVE CallsKnow'
  BY <1>6, <1>15 DEF Answer
<1> QED
  BY <1>4, <1>7, <1>8, <1>9, <1>10, <1>11, <1>12, <1>13, <1>14, <1>15, WhoMoves
     DEF Restart

-----------------------------------------------------------------------------
(* The queue of alerts. *)

\* Events and their numbers.
Event == [id : Nat, stationId : StationIds, sequence : Int,
          severity : {"critical", "warning"}]

QueueSound ==
    /\ events \in Seq(Event) /\ drained \in Seq(Event)
    /\ lastEvent \in Nat
    /\ EventsOnce

\* What was raised so far, as a sequence.
LEMMA RaisedIsSeq ==
    ASSUME QueueSound
    PROVE  /\ Raised \in Seq(Event) /\ Len(Raised) = lastEvent
           /\ DOMAIN Raised = 1 .. lastEvent /\ lastEvent \in Nat
<1>1. Raised \in Seq(Event)
  BY ConcatProperties DEF QueueSound, Raised
<1>2. Len(Raised) = lastEvent /\ lastEvent \in Nat
  BY DEF QueueSound, EventsOnce
<1> QED
  BY <1>1, <1>2, LenProperties

\* What was raised before stays where it is; what is added are alerts for
\* different readings of the batch, numbered on.
LEMMA Enqueued ==
    ASSUME QueueSound, NEW st \in StationIds, NEW rows \in Seq(Reading),
           NEW live, Enqueue(st, rows, live)
    PROVE  /\ QueueSound' /\ lastEvent' \in Nat /\ lastEvent' >= lastEvent
           /\ DOMAIN Raised' = 1 .. lastEvent'
           /\ \A i \in 1 .. lastEvent : Raised'[i] = Raised[i]
           /\ \E place \in [lastEvent + 1 .. lastEvent' -> DOMAIN rows] :
                /\ \A i \in lastEvent + 1 .. lastEvent' :
                     /\ Raised'[i].stationId = st
                     /\ Raised'[i].sequence = rows[place[i]].sequence
                     /\ Raised'[i].severity = Classify(rows[place[i]])
                /\ \A i, j \in lastEvent + 1 .. lastEvent' :
                     i # j => place[i] # place[j]
<1> DEFINE alarming == {i \in DOMAIN rows : Classify(rows[i]) # ""}
           raised(order) == [n \in DOMAIN order |->
                               [id |-> lastEvent + n, stationId |-> st,
                                sequence |-> rows[order[n]].sequence,
                                severity |-> Classify(rows[order[n]])]]
<1>1. /\ Raised \in Seq(Event) /\ Len(Raised) = lastEvent
      /\ DOMAIN Raised = 1 .. lastEvent /\ lastEvent \in Nat
  BY RaisedIsSeq
<1>2. CASE UNCHANGED queueVars
  <2>1. lastEvent' = lastEvent /\ Raised' = Raised
    BY <1>2 DEF queueVars, Raised
  <2>2. QueueSound'
    BY <1>2 DEF queueVars, QueueSound, EventsOnce, Raised
  <2>3. lastEvent + 1 .. lastEvent' = {}
    BY <1>1, <2>1
  <2> DEFINE place == [i \in {} |-> 1]
  <2>4. place \in [lastEvent + 1 .. lastEvent' -> DOMAIN rows]
    BY <2>3
  <2>5. \A i \in lastEvent + 1 .. lastEvent' : FALSE
    BY <2>3
  <2>6. /\ lastEvent' \in Nat /\ lastEvent' >= lastEvent
        /\ DOMAIN Raised' = 1 .. lastEvent'
        /\ \A i \in 1 .. lastEvent : Raised'[i] = Raised[i]
    BY <1>1, <2>1
  <2> HIDE DEF place
  <2> QED
    BY <2>2, <2>4, <2>5, <2>6
<1>3. ASSUME NEW order \in SetToSeqs(alarming),
             events' = events \o raised(order),
             lastEvent' = lastEvent + Len(order), UNCHANGED drained
      PROVE  /\ QueueSound' /\ lastEvent' \in Nat /\ lastEvent' >= lastEvent
             /\ DOMAIN Raised' = 1 .. lastEvent'
             /\ \A i \in 1 .. lastEvent : Raised'[i] = Raised[i]
             /\ \E place \in [lastEvent + 1 .. lastEvent' -> DOMAIN rows] :
                  /\ \A i \in lastEvent + 1 .. lastEvent' :
                       /\ Raised'[i].stationId = st
                       /\ Raised'[i].sequence = rows[place[i]].sequence
                       /\ Raised'[i].severity = Classify(rows[place[i]])
                  /\ \A i, j \in lastEvent + 1 .. lastEvent' :
                       i # j => place[i] # place[j]
  <2> DEFINE m == Cardinality(alarming)
             new == raised(order)
  <2> HIDE DEF alarming, m, new
  <2>1. /\ DOMAIN rows = 1 .. Len(rows) /\ Len(rows) \in Nat
        /\ \A i \in DOMAIN rows : rows[i] \in Reading
    BY LenProperties, ElementOfSeq
  <2>2. IsFiniteSet(alarming)
    <3>1. IsFiniteSet(1 .. Len(rows))
      BY <2>1, FS_Interval
    <3>2. alarming \subseteq 1 .. Len(rows)
      BY <2>1 DEF alarming
    <3> QED
      BY <3>1, <3>2, FS_Subset
  <2>3. m \in Nat
    BY <2>2, FS_CardinalityType DEF m
  <2>4. /\ order \in [1 .. m -> alarming]
        /\ \A i, j \in 1 .. m : i # j => order[i] # order[j]
    BY <1>3 DEF SetToSeqs, m
  <2>5. order \in Seq(alarming) /\ Len(order) = m /\ DOMAIN order = 1 .. m
    BY <2>3, <2>4
  <2>6. \A n \in 1 .. m : /\ order[n] \in DOMAIN rows
                          /\ Classify(rows[order[n]]) \in {"critical", "warning"}
                          /\ rows[order[n]].sequence \in Int
    <3> TAKE n \in 1 .. m
    <3>1. order[n] \in alarming
      BY <2>4
    <3>2. order[n] \in DOMAIN rows /\ rows[order[n]] \in Reading
      BY <2>1, <3>1 DEF alarming
    <3>3. Classify(rows[order[n]]) \in {"critical", "warning"}
      BY <3>1 DEF Classify, alarming
    <3> QED
      BY <3>2, <3>3 DEF Reading
  <2>7. /\ DOMAIN new = 1 .. m
        /\ \A n \in 1 .. m : /\ new[n] \in Event
                             /\ new[n].id = lastEvent + n
                             /\ new[n].stationId = st
                             /\ new[n].sequence = rows[order[n]].sequence
                             /\ new[n].severity = Classify(rows[order[n]])
    <3> SUFFICES ASSUME NEW n \in 1 .. m
                 PROVE  /\ new[n] \in Event
                        /\ new[n].id = lastEvent + n
                        /\ new[n].stationId = st
                        /\ new[n].sequence = rows[order[n]].sequence
                        /\ new[n].severity = Classify(rows[order[n]])
      BY <2>5 DEF new
    <3>1. new[n] = [id |-> lastEvent + n, stationId |-> st,
                    sequence |-> rows[order[n]].sequence,
                    severity |-> Classify(rows[order[n]])]
      BY <2>5 DEF new
    <3>2. lastEvent + n \in Nat
      BY <1>1, <2>3
    <3> QED
      BY <2>6, <3>1, <3>2 DEF Event
  <2>8. events' = events \o new
    BY <1>3 DEF new
  <2>9. new \in Seq(Event) /\ Len(new) = m
    <3>1. new = [n \in 1 .. m |-> new[n]]
      BY <2>7 DEF new
    <3>2. [n \in 1 .. m |-> new[n]] \in Seq(Event)
      BY <2>3, <2>7, IsASeq
    <3>3. Len([n \in 1 .. m |-> new[n]]) = m
      BY <2>3
    <3> QED
      BY <3>1, <3>2, <3>3
  <2>10. Raised' = Raised \o new
    <3>1. drained \in Seq(Event) /\ events \in Seq(Event)
      BY DEF QueueSound
    <3>2. Raised' = drained \o (events \o new)
      BY <1>3, <2>8 DEF Raised
    <3>3. (drained \o events) \o new = drained \o (events \o new)
      BY <2>9, <3>1, ConcatAssociative
    <3> QED
      BY <3>2, <3>3 DEF Raised
  <2>11. /\ Raised' \in Seq(Event) /\ Len(Raised') = lastEvent + m
         /\ DOMAIN Raised' = 1 .. lastEvent + m
         /\ \A i \in 1 .. lastEvent : Raised'[i] = Raised[i]
         /\ \A n \in 1 .. m : Raised'[lastEvent + n] = new[n]
    <3> DEFINE all == Raised \o new
    <3>1. Raised \in Seq(Event) /\ Len(Raised) = lastEvent
      BY <1>1
    <3> HIDE DEF new, m
    <3>2. /\ all \in Seq(Event) /\ Len(all) = Len(Raised) + Len(new)
          /\ DOMAIN all = 1 .. Len(Raised) + Len(new)
          /\ \A i \in 1 .. Len(Raised) : all[i] = Raised[i]
          /\ \A n \in 1 .. Len(new) : all[Len(Raised) + n] = new[n]
      BY <2>9, <3>1, Joined
    <3> HIDE DEF all
    <3> QED
      BY <2>9, <2>10, <3>1, <3>2 DEF all
  <2>12. lastEvent' = lastEvent + m
    BY <1>3, <2>5
  <2>13. \A i \in lastEvent + 1 .. lastEvent' :
            i - lastEvent \in 1 .. m /\ Raised'[i] = new[i - lastEvent]
    <3> TAKE i \in lastEvent + 1 .. lastEvent'
    <3>1. i - lastEvent \in 1 .. m /\ lastEvent + (i - lastEvent) = i
      BY <1>1, <2>3, <2>12
    <3> QED
      BY <2>11, <3>1
  <2>14. QueueSound'
    <3>1. events' \in Seq(Event) /\ drained' \in Seq(Event)
      BY <1>3, <2>8, <2>9, ConcatProperties DEF QueueSound
    <3>2. \A i \in DOMAIN Raised' : Raised'[i].id = i
      <4> TAKE i \in DOMAIN Raised'
      <4>1. CASE i \in 1 .. lastEvent
        BY <1>1, <2>11, <4>1 DEF QueueSound, EventsOnce
      <4>2. CASE i \in lastEvent + 1 .. lastEvent'
        BY <1>1, <2>3, <2>7, <2>13, <4>2
      <4> QED
        BY <1>1, <2>3, <2>11, <2>12, <4>1, <4>2
    <3>3. Len(Raised)' = lastEvent' /\ lastEvent' \in Nat
      BY <1>1, <2>3, <2>11, <2>12
    <3> QED
      BY <3>1, <3>2, <3>3 DEF QueueSound, EventsOnce
  <2> DEFINE place == [i \in lastEvent + 1 .. lastEvent' |-> order[i - lastEvent]]
  <2>15. place \in [lastEvent + 1 .. lastEvent' -> DOMAIN rows]
    BY <2>6, <2>13
  <2>16. \A i \in lastEvent + 1 .. lastEvent' :
           /\ place[i] = order[i - lastEvent]
           /\ Raised'[i].stationId = st
           /\ Raised'[i].sequence = rows[place[i]].sequence
           /\ Raised'[i].severity = Classify(rows[place[i]])
    BY <2>7, <2>13
  <2>17. \A i, j \in lastEvent + 1 .. lastEvent' : i # j => place[i] # place[j]
    <3> TAKE i, j \in lastEvent + 1 .. lastEvent'
    <3>1. i # j => i - lastEvent # j - lastEvent
      BY <1>1
    <3> QED
      BY <2>4, <2>13, <2>16, <3>1
  <2>18. /\ lastEvent' \in Nat /\ lastEvent' >= lastEvent
         /\ DOMAIN Raised' = 1 .. lastEvent'
    BY <1>1, <2>3, <2>11, <2>12
  <2> HIDE DEF place
  <2> QED
    BY <2>11, <2>14, <2>15, <2>16, <2>17, <2>18
<1> QED
  BY <1>2, <1>3 DEF Enqueue

\* Events that are drained were waiting, and those that wait stay in order.
LEMMA Drained ==
    ASSUME QueueSound, NEW limit \in Int, Drain(limit)
    PROVE  QueueSound' /\ Raised' = Raised
<1> DEFINE n == IF limit <= 0 \/ limit > Len(events) THEN Len(events) ELSE limit
           out == SubSeq(events, 1, n)
           in == SubSeq(events, n + 1, Len(events))
<1>1. /\ events \in Seq(Event) /\ drained \in Seq(Event)
      /\ Len(events) \in Nat
  BY LenProperties DEF QueueSound
<1>2. n \in 0 .. Len(events)
  BY <1>1
<1>3. drained' = drained \o out /\ events' = in /\ lastEvent' = lastEvent
  BY DEF Drain
<1> HIDE DEF n
<1>4. out \o in = events
  <2>1. SubSeq(events, 1, n) \o SubSeq(events, n + 1, Len(events))
          = SubSeq(events, 1, Len(events))
    <3>1. /\ 1 \in 1 .. Len(events) + 1 /\ n \in 1 - 1 .. Len(events)
          /\ Len(events) \in n .. Len(events)
      BY <1>1, <1>2
    <3> QED
      BY <1>1, <3>1, ConcatAdjacentSubSeq
  <2> QED
    BY <1>1, <2>1, SubSeqFull
<1>5. out \in Seq(Event) /\ in \in Seq(Event)
  <2>1. \A i \in 1 .. Len(events) : events[i] \in Event
    BY <1>1, ElementOfSeq
  <2>2. \A i \in 1 .. n : events[i] \in Event
    BY <1>1, <1>2, <2>1
  <2>3. \A i \in n + 1 .. Len(events) : events[i] \in Event
    BY <1>1, <1>2, <2>1
  <2>4. out \in Seq(Event)
    BY <1>2, <2>2, SubSeqProperties
  <2>5. in \in Seq(Event)
    BY <1>1, <1>2, <2>3, SubSeqProperties
  <2> QED
    BY <2>4, <2>5
<1> HIDE DEF out, in
<1>6. Raised' = Raised
  <2>1. Raised' = (drained \o out) \o in
    BY <1>3 DEF Raised
  <2>2. (drained \o out) \o in = drained \o (out \o in)
    BY <1>1, <1>5, ConcatAssociative
  <2> QED
    BY <1>4, <2>1, <2>2 DEF Raised
<1>7. drained' \in Seq(Event) /\ events' \in Seq(Event)
  BY <1>1, <1>3, <1>5, ConcatProperties
<1> QED
  BY <1>3, <1>6, <1>7 DEF QueueSound, EventsOnce

\* What an answer queues.
LEMMA AnswerQueues ==
    ASSUME IsMap(calls, Callers, Call), NEW c, Answer(c)
    PROVE  /\ c \in DOMAIN calls /\ calls[c] \in Call /\ calls[c].next = "finish"
           /\ Current(c) \in Batches
           /\ Current(c).stationId \in StationIds /\ Current(c).readings \in Seq(Reading)
           /\ \/ calls[c].result = "failed" /\ UNCHANGED queueVars
              \/ /\ calls[c].result # "failed"
                 /\ Enqueue(Current(c).stationId, Current(c).readings, calls[c].live)
<1>1. c \in DOMAIN calls /\ calls[c] \in Call /\ Current(c) \in Batches
  BY CallFields DEF Answer, At
<1>2. Current(c).stationId \in StationIds /\ Current(c).readings \in Seq(Reading)
  BY <1>1, StoreAssumption DEF ReadingBatch
<1> QED
  BY <1>1, <1>2 DEF Answer, At

\* Only answers, drains and the end of the process touch the queue.
LEMMA QueueMoves ==
    ASSUME [ReceptionNext]_receptionVars
    PROVE  \/ UNCHANGED queueVars
           \/ \E c \in Posters : Answer(c)
           \/ \E limit \in DrainLimits : Drain(limit)
           \/ Die
<1>1. ASSUME NEW c, \/ LogReceived(c) \/ Commit(c) \/ Count(c) \/ LogCommitted(c)
                    \/ Expire(c) \/ FinishReplay(c) \/ \E todo : Start(c, todo)
      PROVE  UNCHANGED queueVars
  BY <1>1 DEF LogReceived, Commit, Count, LogCommitted, Expire, FinishReplay, Start,
              memoryVars, queueVars
<1>2. ASSUME Restart PROVE UNCHANGED queueVars
  BY <1>2 DEF Restart, memoryVars, queueVars
<1> QED
  BY <1>1, <1>2, WhoMoves

\* A new process has raised nothing.
LEMMA NothingRaised ==
    ASSUME Die
    PROVE  /\ events' = <<>> /\ drained' = <<>> /\ lastEvent' = 0
           /\ Raised' = <<>>
<1>1. events' = <<>> /\ drained' = <<>> /\ lastEvent' = 0
  BY DEF Die
<1>2. Raised' = <<>>
  BY <1>1, EmptySeq, ConcatEmptySeq DEF Raised
<1> QED
  BY <1>1, <1>2

\* Every step keeps the queue in its order.
LEMMA QueueSoundStep ==
    ASSUME IsMap(calls, Callers, Call), QueueSound, [ReceptionNext]_receptionVars
    PROVE  QueueSound'
<1>1. ASSUME UNCHANGED queueVars PROVE QueueSound'
  BY <1>1 DEF queueVars, QueueSound, EventsOnce, Raised
<1>2. ASSUME NEW c, Answer(c) PROVE QueueSound'
  BY <1>1, <1>2, AnswerQueues, Enqueued
<1>3. ASSUME NEW limit \in DrainLimits, Drain(limit) PROVE QueueSound'
  BY <1>3, Drained, ReceptionAssumption
<1>4. ASSUME Die PROVE QueueSound'
  BY <1>4, NothingRaised, EmptySeq DEF QueueSound, EventsOnce
<1> QED
  BY <1>1, <1>2, <1>3, <1>4, QueueMoves

\* An alert that somebody can look up.
ReadableAlert(e, snapshot) ==
    \E b, c \in Batches :
        /\ b.stationId = e.stationId
        /\ \E r \in Range(b.readings) : /\ r.sequence = e.sequence
                                       /\ Classify(r) = e.severity
        /\ c.id = b.id
        /\ Holds(snapshot, c)

\* Who answers with a success knows of the batch in the file, and batches
\* stay in the file.
LEMMA AlertsReadableStep ==
    ASSUME ReceptionInv, CallsKnow, QueueSound, AlertsAreReadable,
           [ReceptionNext]_receptionVars
    PROVE  AlertsAreReadable'
<1>1. StoreInv /\ StoreInv' /\ LogsExtend /\ IsMap(calls, Callers, Call)
  BY ServiceStep DEF ReceptionInv, MemorySound
<1>2. ASSUME NEW e, ReadableAlert(e, disk) PROVE ReadableAlert(e, disk')
  <2>1. PICK b, c \in Batches :
          /\ b.stationId = e.stationId
          /\ \E r \in Range(b.readings) : /\ r.sequence = e.sequence
                                         /\ Classify(r) = e.severity
          /\ c.id = b.id
          /\ Holds(disk, c)
    BY <1>2 DEF ReadableAlert
  <2>2. Holds(disk', c)
    BY <1>1, <2>1, HeldStays
  <2> QED
    BY <2>1, <2>2 DEF ReadableAlert
<1>3. /\ AlertsAreReadable <=> \A i \in DOMAIN Raised : ReadableAlert(Raised[i], disk)
      /\ AlertsAreReadable' <=> \A i \in DOMAIN Raised' : ReadableAlert(Raised'[i], disk')
  BY DEF AlertsAreReadable, ReadableAlert
<1>4. ASSUME Raised' = Raised PROVE AlertsAreReadable'
  BY <1>2, <1>3, <1>4
<1>5. CASE UNCHANGED queueVars
  BY <1>4, <1>5 DEF queueVars, Raised
<1>6. ASSUME NEW c, Answer(c) PROVE AlertsAreReadable'
  <2> DEFINE b == Current(c)
  <2>1. /\ c \in DOMAIN calls /\ b \in Batches /\ b = Head(calls[c].todo)
        /\ b.stationId \in StationIds /\ b.readings \in Seq(Reading)
        /\ \/ UNCHANGED queueVars
           \/ /\ calls[c].result # "failed"
              /\ Enqueue(b.stationId, b.readings, calls[c].live)
    BY <1>1, <1>6, AnswerQueues DEF Current
  <2> HIDE DEF b
  <2>2. CASE /\ calls[c].result # "failed"
             /\ Enqueue(b.stationId, b.readings, calls[c].live)
    <3>1. PICK x \in Batches : x.id = b.id /\ Holds(disk, x)
      BY <2>1, <2>2 DEF CallsKnow, Knows
    <3>2. /\ lastEvent' \in Nat /\ lastEvent' >= lastEvent
          /\ DOMAIN Raised' = 1 .. lastEvent'
          /\ \A i \in 1 .. lastEvent : Raised'[i] = Raised[i]
      BY <2>1, <2>2, Enqueued
    <3>3. PICK place \in [lastEvent + 1 .. lastEvent' -> DOMAIN b.readings] :
            \A i \in lastEvent + 1 .. lastEvent' :
              /\ Raised'[i].stationId = b.stationId
              /\ Raised'[i].sequence = b.readings[place[i]].sequence
              /\ Raised'[i].severity = Classify(b.readings[place[i]])
      BY <2>1, <2>2, Enqueued
    <3>4. DOMAIN Raised = 1 .. lastEvent /\ lastEvent \in Nat
      BY RaisedIsSeq
    <3>5. ASSUME NEW i \in lastEvent + 1 .. lastEvent'
          PROVE  ReadableAlert(Raised'[i], disk)
      <4>1. b.readings[place[i]] \in Range(b.readings)
        BY <3>3 DEF Range
      <4> QED
        BY <2>1, <3>1, <3>3, <4>1 DEF ReadableAlert
    <3>6. ASSUME NEW i \in 1 .. lastEvent
          PROVE  ReadableAlert(Raised'[i], disk)
      BY <1>3, <3>2, <3>4
    <3>7. \A i \in DOMAIN Raised' : i \in 1 .. lastEvent \/ i \in lastEvent + 1 .. lastEvent'
      BY <3>2, <3>4
    <3> QED
      BY <1>2, <1>3, <3>5, <3>6, <3>7
  <2> QED
    BY <1>4, <2>1, <2>2 DEF queueVars, Raised
<1>7. ASSUME NEW limit \in DrainLimits, Drain(limit) PROVE AlertsAreReadable'
  BY <1>4, <1>7, Drained, ReceptionAssumption
<1>8. CASE Die
  BY <1>3, <1>8, NothingRaised, EmptySeq
<1> QED
  BY <1>5, <1>6, <1>7, <1>8, QueueMoves

-----------------------------------------------------------------------------
(* The journal, while it is not full. *)

\* The calls that have reported a batch received, and may yet report it
\* committed.
Reporters(bid) == {p \in Callers \X Call : /\ p[2].live
                                           /\ p[2].next \in {"commit", "count", "log"}
                                           /\ Head(p[2].todo).id = bid}

\* (The backends know no empty string: its set is given a name.)
Named == BatchIds \ {""}

Reporting(bid) == Cardinality(Those(Reporters(bid)))

\* No more is reported committed, now and by those on their way, than was
\* reported received.
JournalBalance ==
    /\ \A i \in DOMAIN entries : entries[i].entity \in Named
    /\ CommitsWereReceived
    /\ lastEntry <= Capacity => \A bid \in Named :
         Reported(lastEntry, "batch_committed", bid) + Reporting(bid)
           <= Reported(lastEntry, "batch_received", bid)

\* A journal with room takes an entry at its end.
TakesEntry(new) == /\ lastEntry < Capacity
                   /\ lastEntry' = lastEntry + 1
                   /\ entries' = Append(entries, new)

\* An entry is refused, or finds the journal full, or is taken.
LEMMA AppendedWithRoom ==
    ASSUME JournalNumbered, NEW kind, NEW entity \in BatchIds, NEW cursor, NEW live,
           AppendEntry(kind, entity, cursor, live)
    PROVE  \/ UNCHANGED journalVars /\ ~(live /\ entity \in Named)
           \/ /\ live /\ entity \in Named /\ lastEntry' > Capacity
           \/ /\ live /\ entity \in Named
              /\ TakesEntry([id |-> lastEntry + 1, kind |-> kind,
                             entity |-> entity, cursor |-> cursor])
<1>0. entity \in Named <=> entity # ""
  BY DEF Named
<1>1. CASE ~(live /\ entity \in Named)
  BY <1>0, <1>1 DEF AppendEntry
<1>2. CASE live /\ entity \in Named /\ ~(lastEntry' > Capacity)
  <2> DEFINE new == [id |-> lastEntry + 1, kind |-> kind, entity |-> entity,
                     cursor |-> cursor]
  <2>1. lastEntry' = lastEntry + 1 /\ entries' = Kept(Append(entries, new))
    BY <1>0, <1>2 DEF AppendEntry
  <2>2. /\ lastEntry \in Nat /\ lastEntry < Capacity /\ Len(entries) = lastEntry
        /\ Len(Append(entries, new)) = lastEntry + 1
    BY <1>2, <2>1, CapacityType DEF JournalNumbered
  <2> HIDE DEF new
  <2>3. entries' = Append(entries, new)
    BY <2>1, <2>2, CapacityType DEF Kept
  <2> QED
    BY <1>2, <2>1, <2>2, <2>3 DEF new, TakesEntry
<1> QED
  BY <1>1, <1>2

\* Reports are counted in naturals.
LEMMA ReportedType ==
    ASSUME NEW i \in Nat, NEW kind, NEW bid
    PROVE  Reported(i, kind, bid) \in Nat
<1>1. IsFiniteSet(1 .. i)
  BY FS_Interval
<1>2. {j \in 1 .. i : entries[j].kind = kind /\ entries[j].entity = bid} \subseteq 1 .. i
  OBVIOUS
<1>3. IsFiniteSet({j \in 1 .. i : entries[j].kind = kind /\ entries[j].entity = bid})
  BY <1>1, <1>2, FS_Subset
<1> QED
  BY <1>3, FS_CardinalityType DEF Reported

\* What the journal then holds.
LEMMA JournalAppends ==
    ASSUME JournalNumbered, NEW new \in Entry, TakesEntry(new)
    PROVE  /\ entries \in Seq(Entry) /\ lastEntry \in Nat
           /\ lastEntry' = lastEntry + 1 /\ lastEntry < Capacity
           /\ DOMAIN entries = 1 .. lastEntry
           /\ DOMAIN entries' = 1 .. lastEntry + 1
           /\ entries'[lastEntry + 1] = new
           /\ \A i \in 1 .. lastEntry : entries'[i] = entries[i]
           /\ \A i \in DOMAIN entries' : i \in 1 .. lastEntry \/ i = lastEntry + 1
<1>1. /\ entries \in Seq(Entry) /\ lastEntry \in Nat
      /\ Len(entries) = lastEntry /\ lastEntry < Capacity
      /\ lastEntry' = lastEntry + 1 /\ entries' = Append(entries, new)
  BY DEF JournalNumbered, TakesEntry
<1>2. entries' \in Seq(Entry) /\ Len(entries') = lastEntry + 1
  BY <1>1, AppendProperties
<1>3. DOMAIN entries' = 1 .. lastEntry + 1 /\ DOMAIN entries = 1 .. lastEntry
  BY <1>1, <1>2, LenProperties
<1>4. /\ entries'[lastEntry + 1] = new
      /\ \A i \in 1 .. lastEntry : entries'[i] = entries[i]
  BY <1>1, AppendProperties
<1> QED
  BY <1>1, <1>3, <1>4

Mentions(entry, kind, bid) ==
    IF entry.kind = kind /\ entry.entity = bid THEN 1 ELSE 0

\* How many reports of a kind there are, with one entry more.
LEMMA ReportedMore ==
    ASSUME JournalNumbered, NEW new \in Entry, TakesEntry(new), NEW kind, NEW bid,
           NEW n, n = lastEntry
    PROVE  /\ \A i \in 0 .. n : Reported(i, kind, bid)' = Reported(i, kind, bid)
           /\ Reported(n + 1, kind, bid)'
                = Reported(n, kind, bid) + Mentions(new, kind, bid)
<1> DEFINE old(i) == {j \in 1 .. i : entries[j].kind = kind /\ entries[j].entity = bid}
           now(i) == {j \in 1 .. i : entries'[j].kind = kind /\ entries'[j].entity = bid}
<1>1. /\ \A j \in 1 .. n : entries'[j] = entries[j]
      /\ entries'[n + 1] = new /\ n \in Nat
  BY JournalAppends
<1>2. \A i \in 0 .. n : now(i) = old(i)
  BY <1>1
<1>3. \A i \in 0 .. n + 1 : Reported(i, kind, bid)' = Cardinality(now(i))
  BY DEF Reported
<1>4. \A i \in 0 .. n : Reported(i, kind, bid) = Cardinality(old(i))
  BY DEF Reported
<1>0. n \in Nat
  BY <1>1
<1>5. IsFiniteSet(old(n)) /\ Cardinality(old(n)) \in Nat /\ n + 1 \notin old(n)
  <2>1. IsFiniteSet(1 .. n)
    BY <1>1, FS_Interval
  <2>2. old(n) \subseteq 1 .. n /\ n + 1 \notin 1 .. n
    BY <1>1
  <2>3. IsFiniteSet(old(n))
    BY <2>1, <2>2, FS_Subset
  <2> QED
    BY <2>2, <2>3, FS_CardinalityType
<1>6. CASE new.kind = kind /\ new.entity = bid
  <2>1. now(n + 1) = old(n) \cup {n + 1}
    BY <1>1, <1>6
  <2>2. Cardinality(now(n + 1)) = Cardinality(old(n)) + 1
    BY <1>5, <2>1, FS_AddElement
  <2> HIDE DEF old, now
  <2> QED
    BY <1>0, <1>2, <1>3, <1>4, <1>6, <2>2 DEF Mentions
<1>7. CASE ~(new.kind = kind /\ new.entity = bid)
  <2>1. now(n + 1) = old(n)
    BY <1>1, <1>7
  <2> HIDE DEF old, now
  <2> QED
    BY <1>0, <1>2, <1>3, <1>4, <1>5, <1>7, <2>1 DEF Mentions
<1> QED
  BY <1>6, <1>7

\* Who has yet to report a batch.
LEMMA ReporterIf ==
    ASSUME NEW c \in Callers, NEW call \in Call, NEW bid
    PROVE  One(Reporters(bid), c, call) =
             IF /\ call.live /\ call.next \in {"commit", "count", "log"}
                /\ Head(call.todo).id = bid THEN 1 ELSE 0
BY DEF One, Reporters

\* Their number.
LEMMA ReportingType ==
    ASSUME IsFiniteSet(DOMAIN calls), NEW bid PROVE Reporting(bid) \in Nat
BY ThoseFinite DEF Reporting

\* A smaller claim fits where a larger one did.
LEMMA SpareFits == \A p, q, r, s \in Nat : p + q <= r /\ s <= q => p + s <= r
OBVIOUS

\* Steps that write nothing to the journal, and after which no more calls
\* are on their way to it.
LEMMA JournalQuiet ==
    ASSUME CallsKnow, JournalNumbered, JournalBalance, UNCHANGED journalVars,
           \A bid \in Named :
             /\ Reporting(bid)' \in Nat
             /\ Reporting(bid)' <= Reporting(bid)
    PROVE  JournalBalance'
<1>1. entries' = entries /\ lastEntry' = lastEntry /\ lastEntry \in Nat
  BY DEF journalVars, JournalNumbered
<1>2. \A i, kind, bid : Reported(i, kind, bid)' = Reported(i, kind, bid)
  BY <1>1 DEF Reported
<1>3. CommitsWereReceived'
  BY <1>1, <1>2 DEF JournalBalance, CommitsWereReceived
<1>4. ASSUME lastEntry <= Capacity, NEW bid \in Named
      PROVE  Reported(lastEntry, "batch_committed", bid)
               + Reporting(bid)'
               <= Reported(lastEntry, "batch_received", bid)
  <2>1. /\ Reported(lastEntry, "batch_committed", bid) \in Nat
        /\ Reported(lastEntry, "batch_received", bid) \in Nat
        /\ Reporting(bid) \in Nat
    BY <1>1, ReportedType, ReportingType DEF CallsKnow
  <2>2. Reported(lastEntry, "batch_committed", bid) + Reporting(bid)
          <= Reported(lastEntry, "batch_received", bid)
    BY <1>4 DEF JournalBalance
  <2>3. /\ Reporting(bid)' <= Reporting(bid)
        /\ Reporting(bid)' \in Nat
    OBVIOUS
  <2> QED
    BY <2>1, <2>2, <2>3, SpareFits, Zenon
<1>5. \A bid \in Named :
        /\ Reported(lastEntry, "batch_committed", bid)'
             = Reported(lastEntry, "batch_committed", bid)
        /\ Reported(lastEntry, "batch_received", bid)'
             = Reported(lastEntry, "batch_received", bid)
  BY <1>1 DEF Reported
<1> QED
  BY <1>1, <1>3, <1>4, <1>5 DEF JournalBalance

\* A claim that is met makes room for no other.
LEMMA SpareIsUsed ==
    \A n, r, k, x, y, m \in Nat : n + k <= r /\ m + x <= k + y =>
        /\ (n + x) + m <= r + y
        /\ n + x <= r + y
OBVIOUS

\* How a report changes what is expected.
Accounted(entry, bid) ==
    /\ Reporting(bid)' \in Nat
    /\ Reporting(bid)' + Mentions(entry, "batch_committed", bid)
         <= Reporting(bid) + Mentions(entry, "batch_received", bid)

\* A new report, of which a call that was on its way takes the count, or for
\* which a call may follow.
LEMMA JournalMore ==
    ASSUME CallsKnow, JournalNumbered, JournalBalance,
           NEW new \in Entry, new.entity \in Named, TakesEntry(new),
           \A bid \in Named : Accounted(new, bid)
    PROVE  JournalBalance'
<1>n. PICK n : n = lastEntry
  OBVIOUS
<1> DEFINE old(kind, bid) == Reported(n, kind, bid)
           more(kind, bid) == Mentions(new, kind, bid)
<1>1. /\ entries \in Seq(Entry) /\ n \in Nat
      /\ DOMAIN entries = 1 .. n /\ DOMAIN entries' = 1 .. n + 1
      /\ entries'[n + 1] = new
      /\ \A i \in 1 .. n : entries'[i] = entries[i]
      /\ \A i \in DOMAIN entries' : i \in 1 .. n \/ i = n + 1
      /\ lastEntry' = n + 1 /\ n < Capacity
  BY <1>n, JournalAppends
<1>2. /\ \A i \in DOMAIN entries : entries[i].entity \in Named
      /\ CommitsWereReceived
      /\ \A bid \in Named :
           old("batch_committed", bid) + Reporting(bid) <= old("batch_received", bid)
  BY <1>n, <1>1, CapacityType DEF JournalBalance
<1>3. \A i \in DOMAIN entries' : entries'[i].entity \in Named
  BY <1>1, <1>2, Zenon
<1>4. \A kind, bid : /\ \A i \in 0 .. n : Reported(i, kind, bid)' = Reported(i, kind, bid)
                     /\ Reported(n + 1, kind, bid)' = old(kind, bid) + more(kind, bid)
  BY <1>n, ReportedMore
<1>5. \A kind, bid : old(kind, bid) \in Nat /\ more(kind, bid) \in Nat
  BY <1>1, ReportedType DEF Mentions
<1> HIDE DEF old, more
<1>6. ASSUME NEW bid \in Named
      PROVE  /\ Reported(n + 1, "batch_committed", bid)' + Reporting(bid)'
                  <= Reported(n + 1, "batch_received", bid)'
             /\ Reported(n + 1, "batch_committed", bid)'
                  <= Reported(n + 1, "batch_received", bid)'
  <2> DEFINE k == Reporting(bid)
             m == Reporting(bid)'
  <2>1. k \in Nat /\ m \in Nat
    BY <1>6, ReportingType DEF CallsKnow, Accounted
  <2>2. old("batch_committed", bid) + k <= old("batch_received", bid)
    BY <1>2, <1>6
  <2>3. m + more("batch_committed", bid) <= k + more("batch_received", bid)
    BY <1>6 DEF Accounted, more
  <2> HIDE DEF k, m
  <2>4. /\ (old("batch_committed", bid) + more("batch_committed", bid)) + m
             <= old("batch_received", bid) + more("batch_received", bid)
        /\ old("batch_committed", bid) + more("batch_committed", bid)
             <= old("batch_received", bid) + more("batch_received", bid)
    BY <1>5, <2>1, <2>2, <2>3, SpareIsUsed, Zenon
  <2> QED
    BY <1>4, <2>4 DEF m
<1>7. ASSUME NEW i \in DOMAIN entries', NEW bid \in BatchIds
      PROVE  Reported(i, "batch_committed", bid)' <= Reported(i, "batch_received", bid)'
  <2>1. CASE i \in 1 .. n
    <3>1. Reported(i, "batch_committed", bid) <= Reported(i, "batch_received", bid)
      BY <1>1, <1>2, <2>1, <1>n, CapacityType DEF CommitsWereReceived
    <3>2. i \in 0 .. n
      BY <1>1, <2>1
    <3> QED
      BY <1>4, <3>1, <3>2
  <2>2. CASE i = n + 1 /\ bid \in Named
    <3>1. /\ Reported(n + 1, "batch_committed", bid)'
                <= Reported(n + 1, "batch_received", bid)'
      BY <1>6, <2>2
    <3> QED
      BY <2>2, <3>1
  <2>3. CASE bid \notin Named
    <3> DEFINE none(kind) == {j \in 1 .. i : entries'[j].kind = kind /\ entries'[j].entity = bid}
    <3>1. 1 .. i \subseteq DOMAIN entries'
      BY <1>1
    <3>2. \A kind : none(kind) = {}
      BY <1>3, <2>3, <3>1
    <3>3. \A kind : Reported(i, kind, bid)' = Cardinality(none(kind))
      BY DEF Reported
    <3>4. \A kind : Reported(i, kind, bid)' = 0
      BY <3>2, <3>3, FS_EmptySet
    <3> QED
      BY <3>4
  <2> QED
    BY <1>1, <2>1, <2>2, <2>3
<1> QED
  BY <1>1, <1>3, <1>6, <1>7 DEF JournalBalance, CommitsWereReceived

\* Entries name their batches, whatever falls out of the journal.
LEMMA JournalFull ==
    ASSUME JournalNumbered, JournalBalance, lastEntry' > Capacity,
           NEW kind \in {"batch_received", "batch_committed"},
           NEW entity \in Named, NEW cursor \in Nat, NEW live,
           AppendEntry(kind, entity, cursor, live)
    PROVE  JournalBalance'
<1>1. entity \in BatchIds
  BY Zenon DEF Named
<1>2. \A i \in DOMAIN entries' :
        (\E j \in DOMAIN entries : entries'[i] = entries[j]) \/ entries'[i].entity = entity
  BY <1>1, Appended
<1>3. \A j \in DOMAIN entries : entries[j].entity \in Named
  BY DEF JournalBalance
<1>4. \A i \in DOMAIN entries' : entries'[i].entity \in Named
  BY <1>2, <1>3
<1>5. lastEntry' \in Nat
  BY <1>1, Appended DEF JournalNumbered
<1>6. ~(lastEntry' <= Capacity)
  BY <1>5, CapacityType
<1> QED
  BY <1>4, <1>6 DEF JournalBalance, CommitsWereReceived

\* A call counts once.
LEMMA OneIsSmall == \A S, c, call : One(S, c, call) \in {0, 1}
BY DEF One

\* While the journal is not full, what may yet be reported committed is part
\* of what was reported received.
LEMMA JournalBalanceStep ==
    ASSUME ReceptionInv, ReceptionInv', CallsKnow, CallsKnow', JournalBalance,
           [ReceptionNext]_receptionVars
    PROVE  JournalBalance'
<1> DEFINE On == {"commit", "count", "log"}
<1>1. /\ IsMap(calls, Callers, Call) /\ IsMap(calls', Callers, Call)
      /\ IsFiniteSet(DOMAIN calls) /\ IsFiniteSet(DOMAIN calls')
      /\ JournalNumbered
  BY DEF ReceptionInv, MemorySound, CallsKnow
<1>2. \A bid : Reporting(bid) \in Nat /\ Reporting(bid)' \in Nat
  BY <1>1, ThoseFinite, ThoseFiniteNext DEF Reporting
<1>3. ASSUME UNCHANGED journalVars, \A bid \in Named : Reporting(bid)' <= Reporting(bid)
      PROVE  JournalBalance'
  BY <1>1, <1>2, <1>3, JournalQuiet
<1>4. ASSUME NEW c, NEW w, c \in DOMAIN calls, Becomes(c, w)
      PROVE  /\ c \in Callers /\ w \in Call /\ calls[c] \in Call
             /\ \A bid : Reporting(bid)' + One(Reporters(bid), c, calls[c])
                           = Reporting(bid) + One(Reporters(bid), c, w)
  <2>1. w = calls'[c] /\ DOMAIN calls' = DOMAIN calls
    BY <1>4 DEF Becomes
  <2>2. c \in Callers /\ w \in Call /\ calls[c] \in Call
    BY <1>1, <1>4, <2>1 DEF IsMap
  <2> QED
    BY <1>1, <1>4, <2>2, ThoseChange DEF Reporting
<1>5. ASSUME NEW c, NEW w, c \in DOMAIN calls, Becomes(c, w), UNCHANGED journalVars,
             \/ w.next \notin On \/ ~w.live
             \/ /\ w.todo = calls[c].todo /\ w.live = calls[c].live
                /\ calls[c].next \in On
      PROVE  JournalBalance'
  <2>1. ASSUME NEW bid PROVE Reporting(bid)' <= Reporting(bid)
    <3> DEFINE x == One(Reporters(bid), c, calls[c])
               y == One(Reporters(bid), c, w)
               k == Reporting(bid)
               m == Reporting(bid)'
    <3>1. m + x = k + y
      BY <1>4, <1>5
    <3>2. x \in {0, 1} /\ y \in {0, 1}
      BY OneIsSmall
    <3>3. y = 1 => x = 1
      BY <1>4, <1>5, ReporterIf
    <3>4. k \in Nat /\ m \in Nat
      BY <1>2
    <3> HIDE DEF x, y, k, m
    <3>5. m <= k
      BY <3>1, <3>2, <3>3, <3>4
    <3> QED
      BY <3>5 DEF k, m
  <2> QED
    BY <1>3, <1>5, <2>1
<1>6. ASSUME NEW c, Leaving(c), c \in DOMAIN calls, UNCHANGED journalVars
      PROVE  JournalBalance'
  <2>1. ASSUME NEW bid PROVE Reporting(bid)' <= Reporting(bid)
    <3> DEFINE x == One(Reporters(bid), c, calls[c])
               k == Reporting(bid)
               m == Reporting(bid)'
    <3>1. m + x = k
      BY <1>1, <1>6, ThoseLeave DEF Reporting
    <3>2. x \in {0, 1}
      BY OneIsSmall
    <3>3. k \in Nat /\ m \in Nat
      BY <1>2
    <3> HIDE DEF x, k, m
    <3>4. m <= k
      BY <3>1, <3>2, <3>3
    <3> QED
      BY <3>4 DEF k, m
  <2> QED
    BY <1>3, <1>6, <2>1
<1>7. ASSUME UNCHANGED <<calls, journalVars>> PROVE JournalBalance'
  <2>1. \A bid : Reporting(bid)' = Reporting(bid)
    BY <1>7 DEF Reporting, Those
  <2> QED
    BY <1>2, <1>3, <1>7, <2>1
<1>8. ASSUME NEW c \in Callers, NEW todo, Start(c, todo) PROVE JournalBalance'
  <2> DEFINE w == [todo |-> todo, next |-> "receive", live |-> TRUE,
                   result |-> "failed", cursor |-> 0]
  <2>1. calls' = Put(calls, c, w) /\ c \notin DOMAIN calls
    BY <1>8 DEF Start
  <2>2. \A bid : One(Reporters(bid), c, w) = 0
    BY DEF One, Reporters
  <2> HIDE DEF w
  <2>3. \A bid : Reporting(bid)' = Reporting(bid) + 0
    BY <1>1, <2>1, <2>2, ThoseStart DEF Reporting
  <2>4. UNCHANGED journalVars
    BY <1>8 DEF Start, memoryVars, journalVars
  <2>5. \A bid : Reporting(bid)' <= Reporting(bid)
    BY <1>2, <2>3
  <2> QED
    BY <1>3, <2>4, <2>5
<1>9. ASSUME NEW c, NEW kind \in {"batch_received", "batch_committed"},
             NEW cursor \in Nat, NEW w, c \in DOMAIN calls, Becomes(c, w),
             w.todo = calls[c].todo, w.live = calls[c].live,
             AppendEntry(kind, Current(c).id, cursor, calls[c].live),
             \/ kind = "batch_received" /\ w.next = "commit" /\ calls[c].next = "receive"
             \/ kind = "batch_committed" /\ w.next = "finish" /\ calls[c].next = "log"
      PROVE  JournalBalance'
  <2> DEFINE id == Current(c).id
             entry == [id |-> lastEntry + 1, kind |-> kind, entity |-> id,
                       cursor |-> cursor]
  <2>1. /\ id \in BatchIds /\ c \in Callers /\ w \in Call /\ calls[c] \in Call
        /\ id = Head(calls[c].todo).id
    BY <1>1, <1>4, <1>9, CallFields DEF Current
  <2> HIDE DEF id
  <2>2. \A bid :
          /\ One(Reporters(bid), c, w)
               = IF w.live /\ w.next = "commit" /\ id = bid THEN 1 ELSE 0
          /\ One(Reporters(bid), c, calls[c])
               = IF calls[c].live /\ calls[c].next = "log" /\ id = bid THEN 1 ELSE 0
    BY <1>9, <2>1, ReporterIf
  <2>3. CASE UNCHANGED journalVars /\ ~(calls[c].live /\ id \in Named)
    <3>1. \A bid \in Named : /\ One(Reporters(bid), c, w) = 0
                             /\ One(Reporters(bid), c, calls[c]) = 0
      BY <1>9, <2>2, <2>3
    <3>2. \A bid \in Named : Reporting(bid)' + 0 = Reporting(bid) + 0
      BY <1>4, <1>9, <3>1
    <3>3. \A bid \in Named : Reporting(bid)' <= Reporting(bid)
      BY <1>2, <3>2
    <3> QED
      BY <1>3, <2>3, <3>3
  <2>4. CASE id \in Named /\ lastEntry' > Capacity
    BY <1>1, <1>9, <2>4, JournalFull DEF id
  <2>5. CASE calls[c].live /\ id \in Named /\ TakesEntry(entry)
    <3>1. entry \in Entry /\ entry.entity = id /\ entry.kind = kind
      BY <1>1, <2>1 DEF Entry, JournalNumbered
    <3> HIDE DEF entry
    <3>2. ASSUME NEW bid \in Named PROVE Accounted(entry, bid)
      <4>1. Reporting(bid)' + One(Reporters(bid), c, calls[c])
              = Reporting(bid) + One(Reporters(bid), c, w)
        BY <1>4, <1>9
      <4>2. /\ One(Reporters(bid), c, calls[c]) = Mentions(entry, "batch_committed", bid)
            /\ One(Reporters(bid), c, w) = Mentions(entry, "batch_received", bid)
        BY <1>9, <2>2, <2>5, <3>1 DEF Mentions
      <4>3. /\ Mentions(entry, "batch_committed", bid) \in Nat
            /\ Mentions(entry, "batch_received", bid) \in Nat
        BY DEF Mentions
      <4> QED
        BY <1>2, <4>1, <4>2, <4>3 DEF Accounted
    <3>3. entry.entity \in Named
      BY <2>5, <3>1
    <3> QED
      BY <1>1, <2>5, <3>1, <3>2, <3>3, JournalMore
  <2>6. \/ UNCHANGED journalVars /\ ~(calls[c].live /\ id \in Named)
        \/ calls[c].live /\ id \in Named /\ lastEntry' > Capacity
        \/ calls[c].live /\ id \in Named /\ TakesEntry(entry)
    BY <1>1, <1>9, <2>1, AppendedWithRoom DEF id
  <2> QED
    BY <2>3, <2>4, <2>5, <2>6
<1>10. ASSUME NEW c, LogReceived(c) PROVE JournalBalance'
  <2> DEFINE w == [calls[c] EXCEPT !.next = "commit"]
  <2>1. /\ c \in DOMAIN calls /\ calls[c] \in Call /\ calls[c].next = "receive"
        /\ Becomes(c, w) /\ AppendEntry("batch_received", Current(c).id, 0, calls[c].live)
    BY <1>1, <1>10, CallFields DEF LogReceived, At
  <2>2. w.todo = calls[c].todo /\ w.live = calls[c].live /\ w.next = "commit"
    BY <2>1 DEF Call
  <2> HIDE DEF w
  <2> QED
    BY <1>9, <2>1, <2>2
<1>11. ASSUME NEW c, LogCommitted(c) PROVE JournalBalance'
  <2> DEFINE w == [calls[c] EXCEPT !.next = "finish"]
  <2>1. /\ c \in DOMAIN calls /\ calls[c] \in Call /\ calls[c].next = "log"
        /\ calls[c].cursor \in Nat /\ Becomes(c, w)
        /\ AppendEntry("batch_committed", Current(c).id, calls[c].cursor, calls[c].live)
    BY <1>1, <1>11, CallFields DEF LogCommitted, At
  <2>2. w.todo = calls[c].todo /\ w.live = calls[c].live /\ w.next = "finish"
    BY <2>1 DEF Call
  <2> HIDE DEF w
  <2> QED
    BY <1>9, <2>1, <2>2
<1>12. ASSUME NEW c, Commit(c) PROVE JournalBalance'
  <2>1. /\ c \in DOMAIN calls /\ calls[c] \in Call /\ calls[c].next = "commit"
        /\ UNCHANGED journalVars
    BY <1>1, <1>12, CallFields DEF Commit, At, memoryVars, journalVars
  <2>2. PICK result, cursor :
          \/ Becomes(c, [calls[c] EXCEPT !.next = "count", !.result = result])
          \/ Becomes(c, [calls[c] EXCEPT !.next = "count", !.result = result,
                                         !.cursor = cursor])
    BY <1>12 DEF Commit, Refused, Stored
  <2> DEFINE v == [calls[c] EXCEPT !.next = "count", !.result = result]
             w == [calls[c] EXCEPT !.next = "count", !.result = result,
                                   !.cursor = cursor]
  <2>3. /\ v.next = "count" /\ v.todo = calls[c].todo /\ v.live = calls[c].live
        /\ w.next = "count" /\ w.todo = calls[c].todo /\ w.live = calls[c].live
    BY <2>1 DEF Call
  <2>4. Becomes(c, v) \/ Becomes(c, w)
    BY <2>2
  <2> HIDE DEF v, w
  <2> QED
    BY <1>5, <2>1, <2>3, <2>4
<1>13. ASSUME NEW c, Count(c) PROVE JournalBalance'
  <2> DEFINE w == [calls[c] EXCEPT !.next = IF calls[c].result = "failed"
                                               THEN "finish" ELSE "log"]
  <2>1. /\ c \in DOMAIN calls /\ calls[c] \in Call /\ calls[c].next = "count"
        /\ UNCHANGED journalVars /\ Becomes(c, w)
    BY <1>1, <1>13, CallFields DEF Count, At
  <2>2. w.todo = calls[c].todo /\ w.live = calls[c].live
    BY <2>1 DEF Call
  <2> HIDE DEF w
  <2> QED
    BY <1>5, <2>1, <2>2
<1>14. ASSUME NEW c, Expire(c) PROVE JournalBalance'
  <2> DEFINE w == [calls[c] EXCEPT !.live = FALSE]
  <2>1. /\ c \in DOMAIN calls /\ calls[c] \in Call
        /\ UNCHANGED journalVars /\ Becomes(c, w)
    BY <1>1, <1>14, CallFields DEF Expire, memoryVars, journalVars
  <2>2. ~w.live
    BY <2>1 DEF Call
  <2> HIDE DEF w
  <2> QED
    BY <1>5, <2>1, <2>2
<1>15. ASSUME NEW c, FinishReplay(c) PROVE JournalBalance'
  <2> DEFINE w == [calls[c] EXCEPT !.todo = Tail(@), !.next = "receive",
                                   !.result = "failed", !.cursor = 0]
  <2>1. /\ c \in DOMAIN calls /\ calls[c] \in Call
        /\ UNCHANGED journalVars /\ (Becomes(c, w) \/ Leaving(c))
    BY <1>1, <1>15, CallFields DEF FinishReplay, Proceed, At, memoryVars, journalVars
  <2>2. w.next = "receive"
    BY <2>1 DEF Call
  <2> HIDE DEF w
  <2> QED
    BY <1>5, <1>6, <2>1, <2>2
<1>16. ASSUME NEW c, Answer(c) PROVE JournalBalance'
  BY <1>6, <1>16 DEF Answer, At
<1>17. CASE Die
  <2>1. calls' = EmptyMap /\ entries' = <<>> /\ lastEntry' = 0
    BY <1>17 DEF Die
  <2>2. \A bid : Reporting(bid)' = 0
    BY <2>1, FS_EmptySet DEF Reporting, Those, EmptyMap
  <2>3. \A kind, bid : Reported(lastEntry, kind, bid)' = 0
    <3>1. 1 .. 0 = {}
      OBVIOUS
    <3> QED
      BY <2>1, <3>1, FS_EmptySet DEF Reported
  <2>4. DOMAIN entries' = {}
    BY <2>1
  <2> QED
    BY <2>2, <2>3, <2>4 DEF JournalBalance, CommitsWereReceived
<1>18. CASE Restart
  BY <1>7, <1>18 DEF Restart, memoryVars, journalVars
<1> QED
  BY <1>7, <1>8, <1>10, <1>11, <1>12, <1>13, <1>14, <1>15, <1>16, <1>17, <1>18, WhoMoves

\* An empty journal balances.
LEMMA JournalBalanceInit == ASSUME ReceptionInit PROVE JournalBalance
<1>1. calls = EmptyMap /\ entries = <<>> /\ lastEntry = 0
  BY DEF ReceptionInit, MemoryInit, JournalInit
<1>2. \A bid : Reporting(bid) = 0
  BY <1>1, ThoseNone DEF Reporting
<1>3. \A kind, bid : Reported(lastEntry, kind, bid) = 0
  <2>1. 1 .. 0 = {}
    OBVIOUS
  <2> QED
    BY <1>1, <2>1, FS_EmptySet DEF Reported
<1>4. DOMAIN entries = {}
  BY <1>1
<1> QED
  BY <1>2, <1>3, <1>4 DEF JournalBalance, CommitsWereReceived

-----------------------------------------------------------------------------
(* Alerts and answers. *)

\* The calls whose success is counted, and not alerted yet.
Unalerted == {p \in Posters \X Call : /\ p[2].next \in {"log", "finish"}
                                      /\ p[2].result # "failed"}

Alerting == Cardinality(Those(Unalerted))

Successes == counts.accepted + counts.duplicates

\* The alerts for a reading, known by its station and its number.
RaisedFor(s, n) ==
    {i \in DOMAIN Raised : Raised[i].stationId = s /\ Raised[i].sequence = n}

\* No reading was alerted more often than answers were given: successes are
\* counted before their alerts are queued.
AlertBalance ==
    \A s \in StationIds, n \in Int :
        Cardinality(RaisedFor(s, n)) + Alerting <= Successes

\* Alerts are counted in naturals.
LEMMA RaisedFinite ==
    ASSUME QueueSound, NEW s, NEW n
    PROVE  IsFiniteSet(RaisedFor(s, n)) /\ Cardinality(RaisedFor(s, n)) \in Nat
<1>1. DOMAIN Raised = 1 .. lastEvent /\ lastEvent \in Nat
  BY RaisedIsSeq
<1>2. IsFiniteSet(1 .. lastEvent)
  BY <1>1, FS_Interval
<1>3. RaisedFor(s, n) \subseteq 1 .. lastEvent
  BY <1>1 DEF RaisedFor
<1>4. IsFiniteSet(RaisedFor(s, n))
  BY <1>2, <1>3, FS_Subset
<1> QED
  BY <1>4, FS_CardinalityType

\* An answer alerts a reading at most once.
LEMMA RaisedOnce ==
    ASSUME QueueSound, NEW b \in Batches, BatchValid(b), NEW live,
           Enqueue(b.stationId, b.readings, live), NEW s, NEW n
    PROVE  /\ Cardinality(RaisedFor(s, n)') \in Nat
           /\ Cardinality(RaisedFor(s, n)') <= Cardinality(RaisedFor(s, n)) + 1
<1> DEFINE old == RaisedFor(s, n)
           now == RaisedFor(s, n)'
           new == now \cap (lastEvent + 1 .. lastEvent')
<1>1. /\ b.stationId \in StationIds /\ b.readings \in Seq(Reading)
      /\ DOMAIN b.readings = 1 .. Len(b.readings) /\ FirstSequence(b) \in Nat
      /\ \A i \in DOMAIN b.readings : b.readings[i].sequence = FirstSequence(b) + i - 1
  BY StoreAssumption, ValidBatch, LenProperties
<1>2. /\ DOMAIN Raised = 1 .. lastEvent /\ lastEvent \in Nat
      /\ IsFiniteSet(old) /\ Cardinality(old) \in Nat
  BY RaisedIsSeq, RaisedFinite
<1>3. /\ lastEvent' \in Nat /\ lastEvent' >= lastEvent
      /\ DOMAIN Raised' = 1 .. lastEvent'
      /\ \A i \in 1 .. lastEvent : Raised'[i] = Raised[i]
  BY <1>1, Enqueued
<1>4. PICK place \in [lastEvent + 1 .. lastEvent' -> DOMAIN b.readings] :
        /\ \A i \in lastEvent + 1 .. lastEvent' :
             Raised'[i].sequence = b.readings[place[i]].sequence
        /\ \A i, j \in lastEvent + 1 .. lastEvent' : i # j => place[i] # place[j]
  BY <1>1, Enqueued
<1>5. now = old \cup new
  BY <1>2, <1>3 DEF RaisedFor
<1>6. \A i, j \in new : i = j
  <2> SUFFICES ASSUME NEW i \in new, NEW j \in new PROVE i = j
    OBVIOUS
  <2>1. /\ i \in lastEvent + 1 .. lastEvent' /\ Raised'[i].sequence = n
        /\ j \in lastEvent + 1 .. lastEvent' /\ Raised'[j].sequence = n
    BY DEF RaisedFor
  <2>2. b.readings[place[i]].sequence = b.readings[place[j]].sequence
    BY <1>4, <2>1
  <2>3. place[i] \in DOMAIN b.readings /\ place[j] \in DOMAIN b.readings
    BY <1>4, <2>1
  <2>4. place[i] = place[j]
    BY <1>1, <2>2, <2>3
  <2> QED
    BY <1>4, <2>1, <2>4
<1> HIDE DEF old, now, new
<1>7. CASE new = {}
  <2>1. now = old
    BY <1>5, <1>7
  <2>2. Cardinality(now) = Cardinality(old)
    BY <2>1
  <2> QED
    BY <1>2, <2>2 DEF old, now
<1>8. ASSUME NEW k \in new
      PROVE  Cardinality(now) \in Nat /\ Cardinality(now) <= Cardinality(old) + 1
  <2>1. now = old \cup {k}
    BY <1>5, <1>6, <1>8
  <2>2. Cardinality(now) = IF k \in old THEN Cardinality(old) ELSE Cardinality(old) + 1
    BY <1>2, <2>1, FS_AddElement
  <2> QED
    BY <1>2, <2>2
<1> QED
  BY <1>7, <1>8 DEF old, now

\* Who has yet to alert.
LEMMA UnalertedIf ==
    ASSUME NEW c \in Callers, NEW call \in Call
    PROVE  One(Unalerted, c, call) =
             IF c \in Posters /\ call.next \in {"log", "finish"} /\ call.result # "failed"
             THEN 1 ELSE 0
BY DEF One, Unalerted

\* Who is counted when a call becomes another, and what it is counted for.
LEMMA AlertQuiet ==
    ASSUME AlertBalance, QueueSound, Raised' = Raised,
           Alerting \in Nat, Alerting' \in Nat, Successes \in Nat, Successes' \in Nat,
           NEW x \in Nat, NEW y \in Nat, NEW z \in Nat, y <= x + z,
           Alerting' + x = Alerting + y, Successes' = Successes + z
    PROVE  AlertBalance'
<1> SUFFICES ASSUME NEW s \in StationIds, NEW n \in Int
             PROVE  Cardinality(RaisedFor(s, n)') + Alerting' <= Successes'
  BY DEF AlertBalance
<1>1. RaisedFor(s, n)' = RaisedFor(s, n)
  BY DEF RaisedFor
<1> DEFINE r == Cardinality(RaisedFor(s, n))
           before == Alerting
           after == Alerting'
           had == Successes
           have == Successes'
<1>2. /\ r \in Nat /\ before \in Nat /\ after \in Nat
      /\ had \in Nat /\ have \in Nat
  BY RaisedFinite
<1>3. r + before <= had
  BY DEF AlertBalance
<1>4. after + x = before + y /\ have = had + z
  OBVIOUS
<1> HIDE DEF r, before, after, had, have
<1>5. r + after <= have
  BY <1>2, <1>3, <1>4
<1> QED
  BY <1>1, <1>5 DEF r, after, have

\* Every step keeps alerts and successes in balance.
LEMMA AlertBalanceStep ==
    ASSUME ReceptionInv, ReceptionInv', CallsKnow, CallsKnow', QueueSound,
           AlertBalance, [ReceptionNext]_receptionVars
    PROVE  AlertBalance'
<1>1. /\ IsMap(calls, Callers, Call) /\ IsMap(calls', Callers, Call)
      /\ IsFiniteSet(DOMAIN calls) /\ IsFiniteSet(DOMAIN calls')
      /\ counts \in [DOMAIN NoCounts -> Nat] /\ counts' \in [DOMAIN NoCounts -> Nat]
  BY DEF ReceptionInv, MemorySound, CallsKnow
<1>2. /\ Alerting \in Nat /\ Alerting' \in Nat
      /\ Successes \in Nat /\ Successes' \in Nat
  <2>1. Alerting \in Nat /\ Alerting' \in Nat
    BY <1>1, ThoseFinite, ThoseFiniteNext DEF Alerting
  <2>2. Successes \in Nat /\ Successes' \in Nat
    BY <1>1 DEF Successes, NoCounts
  <2> QED
    BY <2>1, <2>2
<1>3. ASSUME UNCHANGED queueVars PROVE Raised' = Raised
  BY <1>3 DEF queueVars, Raised
<1>4. ASSUME UNCHANGED counts PROVE Successes' = Successes + 0
  <2>1. Successes' = Successes
    BY <1>4 DEF Successes
  <2> QED
    BY <1>2, <2>1
<1>5. ASSUME NEW c, NEW w, c \in DOMAIN calls, Becomes(c, w)
      PROVE  /\ c \in Callers /\ w \in Call /\ calls[c] \in Call
             /\ Alerting' + One(Unalerted, c, calls[c]) = Alerting + One(Unalerted, c, w)
  <2>1. w = calls'[c] /\ DOMAIN calls' = DOMAIN calls
    BY <1>5 DEF Becomes
  <2>2. c \in Callers /\ w \in Call /\ calls[c] \in Call
    BY <1>1, <1>5, <2>1 DEF IsMap
  <2> QED
    BY <1>1, <1>5, <2>2, ThoseChange DEF Alerting
<1>6. ASSUME NEW c, NEW w, c \in DOMAIN calls, Becomes(c, w),
             UNCHANGED <<counts, queueVars>>,
             \/ w.next \notin {"log", "finish"}
             \/ c \notin Posters
             \/ w.result = calls[c].result /\ calls[c].next \in {"log", "finish"}
      PROVE  AlertBalance'
  <2> DEFINE x == One(Unalerted, c, calls[c])
             y == One(Unalerted, c, w)
  <2>1. Alerting' + x = Alerting + y
    BY <1>5, <1>6
  <2>2. x \in {0, 1} /\ y \in {0, 1}
    BY OneIsSmall
  <2>3. y = 1 => x = 1
    BY <1>5, <1>6, UnalertedIf
  <2> HIDE DEF x, y
  <2>4. x \in Nat /\ y \in Nat /\ 0 \in Nat /\ y <= x + 0
    BY <2>2, <2>3
  <2>5. Successes' = Successes + 0 /\ Raised' = Raised
    BY <1>3, <1>4, <1>6
  <2> QED
    BY <1>2, <2>1, <2>4, <2>5, AlertQuiet
<1>7. ASSUME UNCHANGED <<calls, counts>>, Raised' = Raised PROVE AlertBalance'
  <2>1. Alerting' = Alerting
    BY <1>7 DEF Alerting, Those
  <2>2. Alerting' + 0 = Alerting + 0 /\ Successes' = Successes + 0
    BY <1>4, <1>7, <2>1
  <2>3. 0 \in Nat /\ 0 <= 0 + 0
    OBVIOUS
  <2> QED
    BY <1>2, <1>7, <2>2, <2>3, AlertQuiet
<1>8. ASSUME NEW c \in Callers, NEW todo, Start(c, todo) PROVE AlertBalance'
  <2> DEFINE w == [todo |-> todo, next |-> "receive", live |-> TRUE,
                   result |-> "failed", cursor |-> 0]
  <2>1. calls' = Put(calls, c, w) /\ c \notin DOMAIN calls
    BY <1>8 DEF Start
  <2>2. One(Unalerted, c, w) = 0
    BY DEF One, Unalerted
  <2> HIDE DEF w
  <2>3. Alerting' = Alerting + 0
    BY <1>1, <2>1, <2>2, ThoseStart DEF Alerting
  <2>4. UNCHANGED <<counts, queueVars>>
    BY <1>8 DEF Start, memoryVars, queueVars
  <2>5. Successes' = Successes + 0 /\ Raised' = Raised
    BY <1>3, <1>4, <2>4
  <2>6. Alerting' + 0 = Alerting + 0 /\ 0 \in Nat /\ 0 <= 0 + 0
    BY <1>2, <2>3
  <2> QED
    BY <1>2, <2>5, <2>6, AlertQuiet
<1>9. ASSUME NEW c, LogReceived(c) PROVE AlertBalance'
  <2> DEFINE w == [calls[c] EXCEPT !.next = "commit"]
  <2>1. /\ c \in DOMAIN calls /\ calls[c] \in Call
        /\ Becomes(c, w) /\ UNCHANGED <<counts, queueVars>>
    BY <1>1, <1>9, CallFields DEF LogReceived, At
  <2>2. w.next = "commit"
    BY <2>1 DEF Call
  <2> HIDE DEF w
  <2> QED
    BY <1>6, <2>1, <2>2
<1>10. ASSUME NEW c, LogCommitted(c) PROVE AlertBalance'
  <2> DEFINE w == [calls[c] EXCEPT !.next = "finish"]
  <2>1. /\ c \in DOMAIN calls /\ calls[c] \in Call /\ calls[c].next = "log"
        /\ Becomes(c, w) /\ UNCHANGED <<counts, queueVars>>
    BY <1>1, <1>10, CallFields DEF LogCommitted, At
  <2>2. w.result = calls[c].result
    BY <2>1 DEF Call
  <2> HIDE DEF w
  <2> QED
    BY <1>6, <2>1, <2>2
<1>11. ASSUME NEW c, Commit(c) PROVE AlertBalance'
  <2>1. /\ c \in DOMAIN calls /\ calls[c] \in Call
        /\ UNCHANGED <<counts, queueVars>>
    BY <1>1, <1>11, CallFields DEF Commit, At, memoryVars, queueVars
  <2>2. PICK result, cursor :
          \/ Becomes(c, [calls[c] EXCEPT !.next = "count", !.result = result])
          \/ Becomes(c, [calls[c] EXCEPT !.next = "count", !.result = result,
                                         !.cursor = cursor])
    BY <1>11 DEF Commit, Refused, Stored
  <2> DEFINE v == [calls[c] EXCEPT !.next = "count", !.result = result]
             w == [calls[c] EXCEPT !.next = "count", !.result = result,
                                   !.cursor = cursor]
  <2>3. v.next = "count" /\ w.next = "count"
    BY <2>1 DEF Call
  <2>4. Becomes(c, v) \/ Becomes(c, w)
    BY <2>2
  <2> HIDE DEF v, w
  <2> QED
    BY <1>6, <2>1, <2>3, <2>4
<1>12. ASSUME NEW c, Count(c) PROVE AlertBalance'
  <2> DEFINE w == [calls[c] EXCEPT !.next = IF calls[c].result = "failed"
                                               THEN "finish" ELSE "log"]
             failed == calls[c].result = "failed"
             x == One(Unalerted, c, calls[c])
             y == One(Unalerted, c, w)
  <2>1. /\ c \in DOMAIN calls /\ calls[c] \in Call /\ calls[c].next = "count"
        /\ calls[c].result \in Results
        /\ Becomes(c, w) /\ RecordOutcome(calls[c].result)
        /\ UNCHANGED queueVars
    BY <1>1, <1>12, CallFields DEF Count, At
  <2>2. w.result = calls[c].result
    BY <2>1 DEF Call
  <2> HIDE DEF w
  <2>3. Alerting' + x = Alerting + y
    BY <1>5, <2>1
  <2>4. x = 0 /\ y \in {0, 1} /\ (y = 1 => ~failed)
    BY <1>5, <2>1, <2>2, UnalertedIf, OneIsSmall
  <2> DEFINE z == IF failed THEN 0 ELSE 1
  <2>5. Successes' = Successes + z
    BY <1>1, <2>1 DEF RecordOutcome, Results, Successes, NoCounts
  <2> HIDE DEF x, y, failed
  <2>6. x \in Nat /\ y \in Nat /\ z \in Nat /\ y <= x + z
    BY <2>4
  <2>7. Raised' = Raised
    BY <1>3, <2>1
  <2> HIDE DEF z
  <2> QED
    BY <1>2, <2>3, <2>5, <2>6, <2>7, AlertQuiet
<1>13. ASSUME NEW c, Expire(c) PROVE AlertBalance'
  <2> DEFINE w == [calls[c] EXCEPT !.live = FALSE]
  <2>1. /\ c \in DOMAIN calls /\ calls[c] \in Call
        /\ Becomes(c, w) /\ UNCHANGED <<counts, queueVars>>
    BY <1>1, <1>13, CallFields DEF Expire, memoryVars, queueVars
  <2>2. w.result = calls[c].result /\ w.next = calls[c].next
    BY <2>1 DEF Call
  <2> HIDE DEF w
  <2> QED
    BY <1>6, <2>1, <2>2
<1>14. ASSUME NEW c \in Replayers, FinishReplay(c) PROVE AlertBalance'
  <2> DEFINE w == [calls[c] EXCEPT !.todo = Tail(@), !.next = "receive",
                                   !.result = "failed", !.cursor = 0]
  <2>1. /\ c \in DOMAIN calls /\ calls[c] \in Call
        /\ UNCHANGED <<counts, queueVars>> /\ (Becomes(c, w) \/ Leaving(c))
    BY <1>1, <1>14, CallFields DEF FinishReplay, Proceed, At, memoryVars, queueVars
  <2>2. c \notin Posters
    BY <1>14, ReceptionAssumption
  <2>3. CASE Leaving(c)
    <3>1. One(Unalerted, c, calls[c]) = 0
      BY <2>2 DEF One, Unalerted
    <3>2. Alerting' + 0 = Alerting
      BY <1>1, <2>1, <2>3, <3>1, ThoseLeave DEF Alerting
    <3>3. Successes' = Successes + 0 /\ Raised' = Raised
      BY <1>3, <1>4, <2>1
    <3>4. Alerting = Alerting + 0 /\ 0 \in Nat /\ 0 <= 0 + 0
      BY <1>2
    <3>5. Alerting' + 0 = Alerting + 0
      BY <3>2, <3>4, Zenon
    <3> QED
      BY <1>2, <3>3, <3>4, <3>5, AlertQuiet
  <2> HIDE DEF w
  <2> QED
    BY <1>6, <2>1, <2>2, <2>3
<1>15. ASSUME NEW c \in Posters, Answer(c) PROVE AlertBalance'
  <2> DEFINE b == Current(c)
             x == One(Unalerted, c, calls[c])
  <2>1. /\ c \in DOMAIN calls /\ calls[c] \in Call /\ calls[c].next = "finish"
        /\ b \in Batches /\ b = Head(calls[c].todo)
        /\ \/ calls[c].result = "failed" /\ UNCHANGED queueVars
           \/ /\ calls[c].result # "failed"
              /\ Enqueue(b.stationId, b.readings, calls[c].live)
    BY <1>1, <1>15, AnswerQueues DEF Current
  <2>2. c \in Callers /\ Leaving(c) /\ UNCHANGED counts
    BY <1>15 DEF Answer, Callers
  <2> HIDE DEF b
  <2>3. Alerting' + x = Alerting + 0
    <3>1. Alerting' + x = Alerting
      BY <1>1, <2>1, <2>2, ThoseLeave DEF Alerting
    <3> QED
      BY <1>2, <3>1
  <2>4. x = IF calls[c].result # "failed" THEN 1 ELSE 0
    BY <1>15, <2>1, <2>2, UnalertedIf
  <2>5. Successes' = Successes + 0
    BY <1>4, <2>2
  <2> HIDE DEF x
  <2>6. CASE calls[c].result = "failed" /\ UNCHANGED queueVars
    <3>1. x \in Nat /\ 0 \in Nat /\ 0 <= x + 0
      BY <2>4
    <3>2. Raised' = Raised
      BY <1>3, <2>6
    <3> QED
      BY <1>2, <2>3, <2>5, <3>1, <3>2, AlertQuiet
  <2>7. CASE /\ calls[c].result # "failed"
             /\ Enqueue(b.stationId, b.readings, calls[c].live)
    <3> SUFFICES ASSUME NEW s \in StationIds, NEW n \in Int
                 PROVE  Cardinality(RaisedFor(s, n)') + Alerting' <= Successes'
      BY DEF AlertBalance
    <3>1. BatchValid(b)
      BY <2>1, <2>7 DEF CallsKnow, Knows
    <3>2. /\ Cardinality(RaisedFor(s, n)') \in Nat
          /\ Cardinality(RaisedFor(s, n)') <= Cardinality(RaisedFor(s, n)) + 1
      BY <2>1, <2>7, <3>1, RaisedOnce
    <3>3. Cardinality(RaisedFor(s, n)) \in Nat
      BY RaisedFinite
    <3>4. Cardinality(RaisedFor(s, n)) + Alerting <= Successes
      BY DEF AlertBalance
    <3>5. x = 1
      BY <2>4, <2>7
    <3> DEFINE r == Cardinality(RaisedFor(s, n))
               now == Cardinality(RaisedFor(s, n)')
               before == Alerting
               after == Alerting'
               had == Successes
               have == Successes'
    <3>6. /\ r \in Nat /\ now \in Nat /\ before \in Nat /\ after \in Nat
          /\ had \in Nat /\ have \in Nat
      BY <1>2, <3>2, <3>3
    <3>7. /\ r + before <= had /\ now <= r + 1
          /\ after + x = before + 0 /\ have = had + 0
      BY <2>3, <2>5, <3>2, <3>4
    <3> HIDE DEF r, now, before, after, had, have
    <3>8. now + after <= have
      BY <3>5, <3>6, <3>7
    <3> QED
      BY <3>8 DEF now, after, have
  <2> QED
    BY <2>1, <2>6, <2>7
<1>16. ASSUME NEW limit \in DrainLimits, Drain(limit) PROVE Raised' = Raised
  BY <1>16, Drained, ReceptionAssumption
<1>17. CASE Die
  <2>1. calls' = EmptyMap /\ counts' = NoCounts
    BY <1>17 DEF Die
  <2>2. Alerting' = 0
    BY <2>1, FS_EmptySet DEF Alerting, Those, EmptyMap
  <2>3. Successes' = 0
    BY <2>1 DEF Successes, NoCounts
  <2>4. Raised' = <<>>
    BY <1>17, NothingRaised
  <2>5. \A s, n : Cardinality(RaisedFor(s, n)') = 0
    BY <2>4, FS_EmptySet, EmptySeq DEF RaisedFor
  <2> QED
    BY <2>2, <2>3, <2>5 DEF AlertBalance
<1>18. CASE Restart
  BY <1>3, <1>7, <1>18 DEF Restart, memoryVars, queueVars
<1> QED
  BY <1>3, <1>7, <1>8, <1>9, <1>10, <1>11, <1>12, <1>13, <1>14, <1>15, <1>16, <1>17,
     <1>18, WhoMoves

\* With neither alerts nor successes they are.
LEMMA AlertBalanceInit == ASSUME ReceptionInit PROVE AlertBalance
<1>1. /\ calls = EmptyMap /\ counts = NoCounts
      /\ events = <<>> /\ drained = <<>>
  BY DEF ReceptionInit, MemoryInit, QueueInit
<1>2. Alerting = 0
  BY <1>1, ThoseNone DEF Alerting
<1>3. Successes = 0
  BY <1>1 DEF Successes, NoCounts
<1>4. Raised = <<>>
  BY <1>1, EmptySeq, ConcatEmptySeq DEF Raised
<1>5. \A s, n : Cardinality(RaisedFor(s, n)) = 0
  BY <1>4, FS_EmptySet, EmptySeq DEF RaisedFor
<1> QED
  BY <1>2, <1>3, <1>5 DEF AlertBalance

-----------------------------------------------------------------------------
(* Growth and its counters. *)

\* The calls that have been accepted, and are not counted yet.
Uncounted == {p \in Callers \X Call : /\ p[2].next = "count"
                                      /\ p[2].result = "accepted"}

Unnoted == Cardinality(Those(Uncounted))

\* What the file has gained since this process found it.
Gained == {b \in Batches : InLog(disk.readings, b) /\ ~InLog(inherited, b)}

Growth == Cardinality(Gained)

\* What was accepted is counted, or is about to be.
GrowthBalance ==
    /\ \A s \in StationIds : Extends(disk.readings[s], inherited[s])
    /\ mode = "down" => calls = EmptyMap /\ counts = NoCounts
    /\ IsFiniteSet(Gained)
    /\ mode # "down" => counts.accepted + Unnoted = Growth

SameLogs == disk'.readings = disk.readings /\ mode' = mode

\* Only an accepted batch moves a log.
LEMMA RecordsMoveNoLog ==
    ASSUME StoreInv, NEW ok \in BOOLEAN
    PROVE  /\ \A id \in StationIds : RegisterStation(id, ok) => SameLogs
           /\ \A id, station : SetStation(id, station, ok) => SameLogs
           /\ \A bid, now : MarkBatchFailed(bid, now, ok) => SameLogs
           /\ \A b, now : CommitFaulted(b, now, ok) => SameLogs
<1>1. SoundSnapshot(state) /\ VisibleIsDurable
  BY InvIsSoundness
<1>2. ASSUME Ready, Persist(state', ok),
             state'.readings = state.readings
      PROVE  disk'.readings = disk.readings
  BY <1>1, <1>2 DEF Persist, VisibleIsDurable, Ready
<1>3. ASSUME NEW id \in StationIds, RegisterStation(id, ok)
      PROVE  disk'.readings = disk.readings /\ mode' = mode
  <2>1. /\ state' = Registered(state, id) /\ id \notin DOMAIN state.stations
        /\ Ready /\ Persist(state', ok) /\ mode' = mode
    BY <1>3 DEF RegisterStation, Registered
  <2>2. state'.readings = state.readings
    BY <1>1, <2>1, RegisteredSound
  <2> QED
    BY <1>2, <2>1, <2>2
<1>4. ASSUME NEW id, NEW station, SetStation(id, station, ok)
      PROVE  disk'.readings = disk.readings /\ mode' = mode
  <2>1. /\ state' = WithStation(state, id, station)
        /\ Ready /\ Persist(state', ok) /\ mode' = mode
    BY <1>4 DEF SetStation
  <2>2. state'.readings = state.readings
    BY <1>1, <2>1, WithFields DEF SoundSnapshot
  <2> QED
    BY <1>2, <2>1, <2>2
<1>5. ASSUME NEW bid, NEW record, Ready, Persist(state', ok),
             state' = WithRecord(state, bid, record)
      PROVE  disk'.readings = disk.readings
  <2>1. state'.readings = state.readings
    BY <1>1, <1>5, WithFields DEF SoundSnapshot
  <2> QED
    BY <1>2, <1>5, <2>1
<1> QED
  BY <1>3, <1>4, <1>5 DEF SameLogs, MarkBatchFailed, CommitFaulted, Admissible

\* Stations and replays move no log, and end no process.
LEMMA OthersMoveNoLog ==
    ASSUME StoreInv, Others
    PROVE  /\ disk'.readings = disk.readings
           /\ mode' = mode \/ (mode # "down" /\ mode' = "closed")
<1>1. ASSUME NEW o \in Operators, Operate(o)
      PROVE  disk'.readings = disk.readings /\ mode' = mode
  <2>1. ASSUME UNCHANGED storeVars PROVE disk'.readings = disk.readings /\ mode' = mode
    BY <2>1 DEF storeVars
  <2>2. ASSUME NEW ok \in BOOLEAN, WriteBack(o, ok)
        PROVE  disk'.readings = disk.readings /\ mode' = mode
    BY <2>2, RecordsMoveNoLog DEF WriteBack, SameLogs
  <2> QED
    BY <1>1, <2>1, <2>2 DEF Operate, ChangeStatus, RecordFailure, Take, GiveUp
<1>2. ASSUME NEW id \in StationIds, NEW ok \in BOOLEAN, RegisterStation(id, ok)
      PROVE  disk'.readings = disk.readings /\ mode' = mode
  BY <1>2, RecordsMoveNoLog DEF SameLogs
<1>3. ASSUME Arm PROVE disk'.readings = disk.readings /\ mode' = mode
  BY <1>3 DEF Arm, SetFaultPlan
<1>4. ASSUME Close 
      PROVE  disk'.readings = disk.readings /\ mode # "down" /\ mode' = "closed"
  BY <1>4 DEF Close
<1> QED
  BY <1>1, <1>2, <1>3, <1>4 DEF Others

\* What this process found in the file is still the beginning of the logs.
LEMMA InheritedStays ==
    ASSUME StoreInv, StoreInv', LogsExtend, inherited \in [StationIds -> Seq(Reading)],
           \A s \in StationIds : Extends(disk.readings[s], inherited[s]),
           NEW s \in StationIds, inherited' = inherited
    PROVE  Extends(disk'.readings[s], inherited'[s])
<1> DEFINE log == disk.readings[s]
           new == disk'.readings[s]
           old == inherited[s]
<1>1. /\ log \in Seq(Reading) /\ new \in Seq(Reading) /\ old \in Seq(Reading)
      /\ Len(old) <= Len(log) /\ Len(log) <= Len(new)
      /\ \A i \in 1 .. Len(old) : log[i] = old[i]
      /\ \A i \in 1 .. Len(log) : new[i] = log[i]
  BY DEF StoreInv, TypeOK, IsDiskState, LogsExtend, Extends
<1>2. Len(old) \in Nat /\ Len(log) \in Nat /\ Len(new) \in Nat
  BY <1>1, LenProperties
<1> HIDE DEF log, new, old
<1>3. Len(old) <= Len(new) /\ \A i \in 1 .. Len(old) : new[i] = old[i]
  BY <1>1, <1>2
<1> QED
  BY <1>3 DEF Extends, new, old

\* An accepted batch, and no other, becomes readable.
LEMMA GainedOne ==
    ASSUME ReadingsApart, StoreInv, NEW b \in Batches, NEW now, now \in Times,
           CommitApplied(b, now), inherited' = inherited,
           inherited \in [StationIds -> Seq(Reading)],
           \A s \in StationIds : Extends(disk.readings[s], inherited[s])
    PROVE  Gained' = Gained \cup {b} /\ b \notin Gained
<1> DEFINE s == b.stationId
           log == disk.readings[s]
           rows == b.readings
           old == inherited[s]
<1>1. /\ SoundSnapshot(state) /\ SoundSnapshot(disk) /\ VisibleIsDurable
  BY InvIsSoundness
<1>2. /\ BatchValid(b) /\ Ready /\ s \in DOMAIN state.stations
      /\ FirstSequence(b) = state.cursors[s] + 1
      /\ disk' = Applied(state, b, now)
  BY DEF CommitApplied, Admissible, Expected, Persist
<1>3. /\ disk'.readings = [state.readings EXCEPT ![s] = @ \o rows]
      /\ Ledger!Continues(s, state.readings[s], rows)
  BY <1>1, <1>2, AppliedSound
<1>4. state.readings = disk.readings
  BY <1>1, <1>2 DEF VisibleIsDurable, Ready
<1>5. s \in StationIds /\ rows \in Seq(Reading)
  BY StoreAssumption DEF ReadingBatch
<1>6. disk.readings \in [StationIds -> Seq(Reading)]
  BY <1>1 DEF SoundSnapshot, IsDiskState
<1>7. /\ disk'.readings[s] = log \o rows
      /\ \A t \in StationIds \ {s} : disk'.readings[t] = disk.readings[t]
  BY <1>3, <1>4, <1>5, <1>6
<1>8. log \in Seq(Reading) /\ old \in Seq(Reading)
  BY <1>5, <1>6
<1> HIDE DEF log, rows, old, s
<1>9. /\ DOMAIN (log \o rows) = 1 .. Len(log) + Len(rows)
      /\ \A k \in 1 .. Len(log) : (log \o rows)[k] = log[k]
      /\ \A k \in 1 .. Len(rows) : (log \o rows)[Len(log) + k] = rows[k]
  BY <1>5, <1>8, Joined
<1>10. /\ Len(log) \in Nat /\ DOMAIN log = 1 .. Len(log)
       /\ Len(rows) \in Nat /\ DOMAIN rows = 1 .. Len(rows)
       /\ Len(old) \in Nat /\ DOMAIN old = 1 .. Len(old)
  BY <1>5, <1>8, LenProperties
<1>11. \A k \in DOMAIN log : log[k].sequence = k
  BY <1>1, <1>5 DEF SoundSnapshot, CursorDescribes, log
<1>12. /\ 1 \in DOMAIN rows /\ rows[1].sequence = Len(log) + 1
  <2>1. rows # <<>> /\ \A i \in DOMAIN rows : rows[i].sequence = Len(log) + i
    BY <1>3, <1>4 DEF Ledger!Continues, log
  <2>2. 1 \in DOMAIN rows
    BY <1>5, <1>10, <2>1, EmptySeq
  <2> QED
    BY <2>1, <2>2
<1>13. \A k \in DOMAIN old : k \in DOMAIN log /\ log[k] = old[k]
  <2>1. Len(old) <= Len(log) /\ \A i \in 1 .. Len(old) : log[i] = old[i]
    BY <1>5 DEF Extends, log, old
  <2> QED
    BY <1>10, <2>1
<1>14. \A k \in DOMAIN log : log[k] # rows[1]
  BY <1>10, <1>11, <1>12
<1>15. ~InLog(disk.readings, b) /\ ~InLog(inherited, b)
  BY <1>12, <1>13, <1>14 DEF InLog, log, old, rows, s
<1>16. InLog(disk'.readings, b)
  <2>1. \A k \in DOMAIN rows : /\ Len(log) + k \in DOMAIN (log \o rows)
                               /\ (log \o rows)[Len(log) + k] = rows[k]
    BY <1>9, <1>10
  <2> QED
    BY <1>7, <2>1 DEF InLog, rows, s
<1>17. ASSUME NEW c \in Batches, c # b
       PROVE  InLog(disk'.readings, c) <=> InLog(disk.readings, c)
  <2>1. c.stationId \in StationIds
    BY StoreAssumption DEF ReadingBatch
  <2>2. CASE c.stationId # s
    BY <1>7, <2>1, <2>2 DEF InLog
  <2>3. CASE c.stationId = s
    <3>1. \A i \in DOMAIN c.readings, k \in DOMAIN rows : rows[k] # c.readings[i]
      BY <1>17 DEF ReadingsApart, Range, rows
    <3>2. ASSUME NEW k \in DOMAIN (log \o rows)
          PROVE  \/ k \in DOMAIN log /\ (log \o rows)[k] = log[k]
                 \/ \E j \in DOMAIN rows : (log \o rows)[k] = rows[j]
      <4>1. CASE k <= Len(log)
        BY <1>9, <1>10, <3>2, <4>1
      <4>2. CASE k > Len(log)
        <5>1. k - Len(log) \in 1 .. Len(rows) /\ k = Len(log) + (k - Len(log))
          BY <1>9, <1>10, <3>2, <4>2
        <5> QED
          BY <1>9, <1>10, <5>1
      <4> QED
        BY <1>9, <1>10, <3>2, <4>1, <4>2
    <3>3. \A k \in DOMAIN log : k \in DOMAIN (log \o rows) /\ (log \o rows)[k] = log[k]
      BY <1>9, <1>10
    <3> DEFINE all == log \o rows
    <3>4. disk'.readings[c.stationId] = all /\ disk.readings[c.stationId] = log
      BY <1>7, <2>3 DEF log
    <3> HIDE DEF all
    <3>5. /\ \A k \in DOMAIN all : \/ k \in DOMAIN log /\ all[k] = log[k]
                                  \/ \E j \in DOMAIN rows : all[k] = rows[j]
          /\ \A k \in DOMAIN log : k \in DOMAIN all /\ all[k] = log[k]
      BY <3>2, <3>3 DEF all
    <3>6. \A i \in DOMAIN c.readings :
            (\E k \in DOMAIN all : all[k] = c.readings[i])
              <=> (\E k \in DOMAIN log : log[k] = c.readings[i])
      BY <3>1, <3>5
    <3> QED
      BY <3>4, <3>6 DEF InLog
  <2> QED
    BY <2>2, <2>3
<1> QED
  BY <1>15, <1>16, <1>17 DEF Gained

\* Who has yet to be counted.
LEMMA UncountedIf ==
    ASSUME NEW c \in Callers, NEW call \in Call
    PROVE  One(Uncounted, c, call) =
             IF call.next = "count" /\ call.result = "accepted" THEN 1 ELSE 0
BY DEF One, Uncounted

\* What the file has gained moves with its logs only.
LEMMA SameGrowth ==
    ASSUME disk'.readings = disk.readings, inherited' = inherited
    PROVE  Gained' = Gained
BY DEF Gained, InLog

\* In every step but a restart, which starts from the file as it is.
LEMMA StillInherited ==
    ASSUME ReceptionInv, [ReceptionNext]_receptionVars, GrowthBalance,
           inherited' = inherited
    PROVE  \A s \in StationIds : Extends(disk'.readings[s], inherited'[s])
<1>1. /\ StoreInv /\ StoreInv' /\ LogsExtend
      /\ inherited \in [StationIds -> Seq(Reading)]
  BY ServiceStep DEF ReceptionInv, MemorySound
<1>2. \A s \in StationIds : Extends(disk.readings[s], inherited[s])
  BY DEF GrowthBalance
<1> QED
  BY <1>1, <1>2, InheritedStays

\* Steps that move no log: who is no longer expected to count has counted.
LEMMA GrowthQuiet ==
    ASSUME ReceptionInv, [ReceptionNext]_receptionVars, GrowthBalance,
           disk'.readings = disk.readings, inherited' = inherited,
           counts \in [DOMAIN NoCounts -> Nat], counts' \in [DOMAIN NoCounts -> Nat],
           Unnoted \in Nat, Unnoted' \in Nat, mode # "down",
           mode' # "down", NEW x \in Nat, NEW y \in Nat,
           Unnoted' + x = Unnoted, counts'.accepted = counts.accepted + x
    PROVE  GrowthBalance'
<1>1. Gained' = Gained
  BY SameGrowth
<1>2. Growth' = Growth /\ IsFiniteSet(Gained')
  BY <1>1 DEF Growth, GrowthBalance
<1>3. counts.accepted + Unnoted = Growth
  BY DEF GrowthBalance
<1>4. counts.accepted \in Nat /\ counts'.accepted \in Nat
  BY DEF NoCounts
<1> DEFINE a == counts.accepted
           p == Unnoted
           q == Unnoted'
           g == Growth
<1>5. a \in Nat /\ p \in Nat /\ q \in Nat /\ q + x = p /\ a + p = g
  BY <1>3, <1>4
<1> HIDE DEF a, p, q, g
<1>6. (a + x) + q = g
  BY <1>5
<1>7. counts'.accepted + Unnoted' = Growth'
  BY <1>2, <1>6 DEF a, p, q, g
<1> QED
  BY <1>2, <1>7, StillInherited DEF GrowthBalance

\* Every step keeps counters and growth in balance.
LEMMA GrowthBalanceStep ==
    ASSUME ReadingsApart, ReceptionInv, ReceptionInv', CallsKnow, CallsKnow',
           GrowthBalance, [ReceptionNext]_receptionVars
    PROVE  GrowthBalance'
<1>1. /\ IsMap(calls, Callers, Call) /\ IsMap(calls', Callers, Call)
      /\ IsFiniteSet(DOMAIN calls) /\ IsFiniteSet(DOMAIN calls')
      /\ counts \in [DOMAIN NoCounts -> Nat] /\ counts' \in [DOMAIN NoCounts -> Nat]
      /\ inherited \in [StationIds -> Seq(Reading)]
  BY DEF ReceptionInv, MemorySound, CallsKnow
<1>2. Unnoted \in Nat /\ Unnoted' \in Nat
  BY <1>1, ThoseFinite, ThoseFiniteNext DEF Unnoted
<1>3. StoreInv
  BY DEF ReceptionInv, ServiceInv
<1>4. ASSUME NEW c \in DOMAIN calls PROVE mode # "down"
  BY <1>4 DEF GrowthBalance, EmptyMap
<1>5. ASSUME NEW c, NEW w, c \in DOMAIN calls, Becomes(c, w)
      PROVE  /\ c \in Callers /\ w \in Call /\ calls[c] \in Call
             /\ Unnoted' + One(Uncounted, c, calls[c]) = Unnoted + One(Uncounted, c, w)
  <2>1. w = calls'[c] /\ DOMAIN calls' = DOMAIN calls
    BY <1>5 DEF Becomes
  <2>2. c \in Callers /\ w \in Call /\ calls[c] \in Call
    BY <1>1, <1>5, <2>1 DEF IsMap
  <2> QED
    BY <1>1, <1>5, <2>2, ThoseChange DEF Unnoted
<1>6. counts.accepted = counts.accepted + 0
  BY <1>1 DEF NoCounts
\* A call goes on, and is counted on neither side.
<1>7. ASSUME NEW c, NEW w, c \in DOMAIN calls, Becomes(c, w), SameLogs,
             UNCHANGED <<counts, inherited>>,
             One(Uncounted, c, calls[c]) = One(Uncounted, c, w)
      PROVE  GrowthBalance'
  <2> DEFINE x == One(Uncounted, c, calls[c])
             p == Unnoted
             q == Unnoted'
  <2>1. q + x = p + x /\ x \in Nat /\ p \in Nat /\ q \in Nat
    BY <1>2, <1>5, <1>7, OneIsSmall
  <2>2. mode # "down" /\ mode' # "down"
    BY <1>4, <1>7 DEF SameLogs
  <2> HIDE DEF x, p, q
  <2>3. q + 0 = p
    BY <2>1
  <2>4. Unnoted' + 0 = Unnoted
    BY <2>3 DEF p, q
  <2>5. counts'.accepted = counts.accepted + 0 /\ 0 \in Nat
    BY <1>6, <1>7
  <2> QED
    BY <1>1, <1>2, <1>7, <2>2, <2>4, <2>5, GrowthQuiet DEF SameLogs
<1>8. ASSUME NEW c, c \in DOMAIN calls, Leaving(c), SameLogs,
             UNCHANGED <<counts, inherited>>, calls[c].next = "finish"
      PROVE  GrowthBalance'
  <2>1. One(Uncounted, c, calls[c]) = 0
    BY <1>8 DEF One, Uncounted
  <2>2. Unnoted' + 0 = Unnoted
    BY <1>1, <1>8, <2>1, ThoseLeave DEF Unnoted
  <2>3. mode # "down" /\ mode' # "down"
    BY <1>4, <1>8 DEF SameLogs
  <2>4. counts'.accepted = counts.accepted + 0 /\ 0 \in Nat
    BY <1>6, <1>8
  <2> QED
    BY <1>1, <1>2, <1>8, <2>2, <2>3, <2>4, GrowthQuiet DEF SameLogs
<1>9. ASSUME UNCHANGED serviceVars PROVE SameLogs
  BY <1>9 DEF serviceVars, SameLogs
<1>10. ASSUME NEW c \in Callers, NEW todo, Start(c, todo) PROVE GrowthBalance'
  <2> DEFINE w == [todo |-> todo, next |-> "receive", live |-> TRUE,
                   result |-> "failed", cursor |-> 0]
  <2>1. /\ calls' = Put(calls, c, w) /\ c \notin DOMAIN calls /\ mode # "down"
        /\ UNCHANGED <<serviceVars, counts, inherited>>
    BY <1>10 DEF Start, memoryVars
  <2>2. One(Uncounted, c, w) = 0
    BY DEF One, Uncounted
  <2> HIDE DEF w
  <2>3. Unnoted' = Unnoted + 0
    BY <1>1, <2>1, <2>2, ThoseStart DEF Unnoted
  <2>4. Unnoted' + 0 = Unnoted
    BY <1>2, <2>3
  <2>5. counts'.accepted = counts.accepted + 0 /\ 0 \in Nat
    BY <1>6, <2>1
  <2> QED
    BY <1>1, <1>2, <1>9, <2>1, <2>4, <2>5, GrowthQuiet DEF SameLogs
<1>11. ASSUME NEW c, LogReceived(c) PROVE GrowthBalance'
  <2> DEFINE w == [calls[c] EXCEPT !.next = "commit"]
  <2>1. /\ c \in DOMAIN calls /\ calls[c] \in Call /\ calls[c].next = "receive"
        /\ Becomes(c, w) /\ UNCHANGED <<serviceVars, counts, inherited>>
    BY <1>1, <1>11, CallFields DEF LogReceived, At
  <2>2. w.next = "commit"
    BY <2>1 DEF Call
  <2> HIDE DEF w
  <2>3. One(Uncounted, c, calls[c]) = One(Uncounted, c, w)
    BY <1>5, <2>1, <2>2, UncountedIf
  <2> QED
    BY <1>7, <1>9, <2>1, <2>3
<1>12. ASSUME NEW c, LogCommitted(c) PROVE GrowthBalance'
  <2> DEFINE w == [calls[c] EXCEPT !.next = "finish"]
  <2>1. /\ c \in DOMAIN calls /\ calls[c] \in Call /\ calls[c].next = "log"
        /\ Becomes(c, w) /\ UNCHANGED <<serviceVars, counts, inherited>>
    BY <1>1, <1>12, CallFields DEF LogCommitted, At
  <2>2. w.next = "finish"
    BY <2>1 DEF Call
  <2> HIDE DEF w
  <2>3. One(Uncounted, c, calls[c]) = One(Uncounted, c, w)
    BY <1>5, <2>1, <2>2, UncountedIf
  <2> QED
    BY <1>7, <1>9, <2>1, <2>3
<1>13. ASSUME NEW c, Expire(c) PROVE GrowthBalance'
  <2> DEFINE w == [calls[c] EXCEPT !.live = FALSE]
  <2>1. /\ c \in DOMAIN calls /\ calls[c] \in Call
        /\ Becomes(c, w) /\ UNCHANGED <<serviceVars, counts, inherited>>
    BY <1>1, <1>13, CallFields DEF Expire, memoryVars
  <2>2. w.next = calls[c].next /\ w.result = calls[c].result
    BY <2>1 DEF Call
  <2> HIDE DEF w
  <2>3. One(Uncounted, c, calls[c]) = One(Uncounted, c, w)
    BY <1>5, <2>1, <2>2, UncountedIf
  <2> QED
    BY <1>7, <1>9, <2>1, <2>3
<1>14. ASSUME NEW c, Commit(c) PROVE GrowthBalance'
  <2> DEFINE b == Current(c)
  <2>1. /\ c \in DOMAIN calls /\ calls[c] \in Call /\ b \in Batches
        /\ calls[c].next = "commit" /\ UNCHANGED <<counts, inherited>>
    BY <1>1, <1>14, CallFields DEF Commit, At, memoryVars
  <2>2. PICK now \in Times : Refused(c, b, now) \/ Stored(c, b, now)
    BY <1>14 DEF Commit
  <2> HIDE DEF b
  \* Nothing was accepted: the next step counts a refusal or a duplicate.
  <2>3. ASSUME NEW w, Becomes(c, w), w.result # "accepted", SameLogs
        PROVE  GrowthBalance'
    <3>1. One(Uncounted, c, calls[c]) = One(Uncounted, c, w)
      BY <1>5, <2>1, <2>3, UncountedIf
    <3> QED
      BY <1>7, <2>1, <2>3, <3>1
  <2>4. ASSUME SameLogs,
               Becomes(c, [calls[c] EXCEPT !.next = "count", !.result = "failed"])
        PROVE  GrowthBalance'
    <3> DEFINE w == [calls[c] EXCEPT !.next = "count", !.result = "failed"]
    <3>1. w.result # "accepted" /\ Becomes(c, w)
      BY <2>1, <2>4 DEF Call
    <3> HIDE DEF w
    <3> QED
      BY <2>3, <2>4, <3>1
  <2>5. CASE Refused(c, b, now)
    BY <2>4, <2>5 DEF Refused, storeVars, SameLogs
  <2>6. ASSUME NEW ok \in BOOLEAN, CommitFaulted(b, now, ok),
               Becomes(c, [calls[c] EXCEPT !.next = "count", !.result = "failed"])
        PROVE  GrowthBalance'
    BY <1>3, <2>4, <2>6, RecordsMoveNoLog
  <2>7. ASSUME CommitDuplicate(b),
               Becomes(c, [calls[c] EXCEPT !.next = "count", !.result = "duplicate",
                                           !.cursor = state.cursors[b.stationId]])
        PROVE  GrowthBalance'
    <3> DEFINE w == [calls[c] EXCEPT !.next = "count", !.result = "duplicate",
                                     !.cursor = state.cursors[b.stationId]]
    <3>1. w.result # "accepted" /\ Becomes(c, w)
      BY <2>1, <2>7 DEF Call
    <3>2. SameLogs
      BY <2>7 DEF CommitDuplicate, SameLogs
    <3> HIDE DEF w
    <3> QED
      BY <2>3, <3>1, <3>2
  <2>8. ASSUME CommitApplied(b, now),
               Becomes(c, [calls[c] EXCEPT !.next = "count", !.result = "accepted",
                                           !.cursor = state'.cursors[b.stationId]])
        PROVE  GrowthBalance'
    <3> DEFINE w == [calls[c] EXCEPT !.next = "count", !.result = "accepted",
                                     !.cursor = state'.cursors[b.stationId]]
    <3>1. w.next = "count" /\ w.result = "accepted" /\ Becomes(c, w)
      BY <2>1, <2>8 DEF Call
    <3> HIDE DEF w
    <3>2. One(Uncounted, c, calls[c]) = 0 /\ One(Uncounted, c, w) = 1
      BY <1>5, <2>1, <3>1, UncountedIf
    <3>3. Unnoted' + 0 = Unnoted + 1
      BY <1>5, <2>1, <3>1, <3>2
    <3>4. \A s \in StationIds : Extends(disk.readings[s], inherited[s])
      BY DEF GrowthBalance
    <3>5. Gained' = Gained \cup {b} /\ b \notin Gained
      BY <1>1, <1>3, <2>1, <2>8, <3>4, GainedOne
    <3>6. IsFiniteSet(Gained') /\ Cardinality(Gained') = Cardinality(Gained) + 1
      BY <3>5, FS_AddElement DEF GrowthBalance
    <3>7. mode = "open" /\ mode' = "open"
      BY <2>8 DEF CommitApplied, Admissible, Ready
    <3>8. counts.accepted + Unnoted = Growth /\ counts.accepted \in Nat
      BY <1>1, <3>7 DEF GrowthBalance, NoCounts
    <3> DEFINE a == counts.accepted
               p == Unnoted
               q == Unnoted'
               g == Growth
               h == Growth'
    <3>9. /\ a \in Nat /\ p \in Nat /\ q \in Nat /\ q + 0 = p + 1
          /\ a + p = g /\ h = g + 1
      BY <1>2, <3>3, <3>6, <3>8 DEF Growth
    <3>10. a = counts'.accepted
      BY <2>1
    <3> HIDE DEF a, p, q, g, h
    <3>11. a + q = h
      BY <3>9
    <3>12. counts'.accepted + Unnoted' = Growth'
      BY <3>10, <3>11 DEF q, h
    <3> QED
      BY <2>1, <3>6, <3>7, <3>12, StillInherited DEF GrowthBalance
  <2> QED
    BY <2>2, <2>5, <2>6, <2>7, <2>8 DEF Stored
<1>15. ASSUME NEW c, Count(c) PROVE GrowthBalance'
  <2> DEFINE w == [calls[c] EXCEPT !.next = IF calls[c].result = "failed"
                                               THEN "finish" ELSE "log"]
             x == One(Uncounted, c, calls[c])
             p == Unnoted
             q == Unnoted'
  <2>1. /\ c \in DOMAIN calls /\ calls[c] \in Call /\ calls[c].next = "count"
        /\ calls[c].result \in Results
        /\ Becomes(c, w) /\ RecordOutcome(calls[c].result)
        /\ UNCHANGED <<serviceVars, inherited>>
    BY <1>1, <1>15, CallFields DEF Count, At
  <2>2. w.next # "count"
    BY <2>1 DEF Call
  <2> HIDE DEF w
  <2>3. One(Uncounted, c, w) = 0
    BY <1>5, <2>1, <2>2, UncountedIf
  <2>4. x = IF calls[c].result = "accepted" THEN 1 ELSE 0
    BY <1>5, <2>1, UncountedIf
  <2>5. q + x = p + 0 /\ p \in Nat
    BY <1>2, <1>5, <2>1, <2>3
  <2> HIDE DEF x
  <2>6. counts'.accepted = counts.accepted + x
    BY <1>1, <2>1, <2>4 DEF RecordOutcome, Results, NoCounts
  <2> HIDE DEF p, q
  <2>7. x \in Nat /\ p = p + 0
    BY <2>4, <2>5
  <2>8. Unnoted' + x = Unnoted
    BY <2>5, <2>7, Zenon DEF p, q
  <2>9. mode # "down" /\ mode' # "down" /\ disk'.readings = disk.readings
    BY <1>4, <2>1 DEF serviceVars
  <2> QED
    BY <1>1, <1>2, <2>1, <2>6, <2>7, <2>8, <2>9, GrowthQuiet
<1>16. ASSUME NEW c \in Replayers, FinishReplay(c) PROVE GrowthBalance'
  <2> DEFINE w == [calls[c] EXCEPT !.todo = Tail(@), !.next = "receive",
                                   !.result = "failed", !.cursor = 0]
  <2>1. /\ c \in DOMAIN calls /\ calls[c] \in Call /\ calls[c].next = "finish"
        /\ UNCHANGED <<counts, inherited>> /\ (Becomes(c, w) \/ Leaving(c))
    BY <1>1, <1>16, CallFields DEF FinishReplay, Proceed, At, memoryVars
  <2>2. SameLogs
    <3>1. CASE UNCHANGED storeVars
      BY <3>1 DEF storeVars, SameLogs
    <3>2. ASSUME NEW now \in Times, NEW ok \in BOOLEAN,
                 MarkBatchFailed(Current(c).id, now, ok)
          PROVE  SameLogs
      BY <1>3, <3>2, RecordsMoveNoLog
    <3> QED
      BY <1>16, <3>1, <3>2 DEF FinishReplay, Mark
  <2>3. w.next = "receive"
    BY <2>1 DEF Call
  <2> HIDE DEF w
  <2>4. CASE Becomes(c, w)
    <3>1. One(Uncounted, c, calls[c]) = One(Uncounted, c, w)
      BY <1>5, <2>1, <2>3, <2>4, UncountedIf
    <3> QED
      BY <1>7, <2>1, <2>2, <2>4, <3>1
  <2> QED
    BY <1>8, <2>1, <2>2, <2>4
<1>17. ASSUME NEW c \in Posters, Answer(c) PROVE GrowthBalance'
  <2>1. /\ c \in DOMAIN calls /\ calls[c].next = "finish"
        /\ Leaving(c) /\ UNCHANGED <<serviceVars, counts, inherited>>
    BY <1>17 DEF Answer, At
  <2> QED
    BY <1>8, <1>9, <2>1
<1>18. ASSUME UNCHANGED <<calls, counts, inherited>>, disk'.readings = disk.readings,
              mode' = mode \/ (mode # "down" /\ mode' = "closed")
       PROVE  GrowthBalance'
  <2>1. Unnoted' = Unnoted
    BY <1>18 DEF Unnoted, Those
  <2>2. Gained' = Gained
    BY <1>18, SameGrowth
  <2>3. Growth' = Growth
    BY <2>2 DEF Growth
  <2> QED
    BY <1>18, <2>1, <2>2, <2>3, StillInherited DEF GrowthBalance
<1>19. CASE Die
  <2>1. calls' = EmptyMap /\ counts' = NoCounts /\ mode' = "down"
        /\ disk' = disk /\ inherited' = inherited
    BY <1>19 DEF Die, Crash
  <2>2. Gained' = Gained
    BY <2>1, SameGrowth
  <2> QED
    BY <2>1, <2>2, StillInherited DEF GrowthBalance
<1>20. CASE Restart
  <2>1. /\ inherited' = disk.readings /\ disk' = disk /\ mode' = "open"
        /\ mode = "down" /\ UNCHANGED <<counts, calls>>
    BY <1>20 DEF Restart, OpenFile, memoryVars
  <2>2. calls' = EmptyMap /\ counts' = NoCounts
    BY <2>1 DEF GrowthBalance
  <2>3. Gained' = {}
    BY <2>1 DEF Gained
  <2>4. IsFiniteSet(Gained') /\ Growth' = 0
    BY <2>3, FS_EmptySet DEF Growth
  <2>5. Unnoted' = 0
    BY <2>2, FS_EmptySet DEF Unnoted, Those, EmptyMap
  <2>6. \A s \in StationIds : Extends(disk'.readings[s], inherited'[s])
    <3>1. disk.readings \in [StationIds -> Seq(Reading)]
      BY <1>3 DEF StoreInv, TypeOK, IsDiskState
    <3> QED
      BY <2>1, <3>1, LenProperties DEF Extends
  <2>7. counts'.accepted + Unnoted' = Growth'
    BY <2>2, <2>4, <2>5 DEF NoCounts
  <2> QED
    BY <2>1, <2>4, <2>6, <2>7 DEF GrowthBalance
<1>21. ASSUME UNCHANGED <<calls, counts, inherited>>, Others \/ UNCHANGED serviceVars
       PROVE  GrowthBalance'
  <2>1. /\ disk'.readings = disk.readings
        /\ mode' = mode \/ (mode # "down" /\ mode' = "closed")
    BY <1>3, <1>21, OthersMoveNoLog DEF serviceVars
  <2> QED
    BY <1>18, <1>21, <2>1
<1> QED
  BY <1>10, <1>11, <1>12, <1>13, <1>14, <1>15, <1>16, <1>17, <1>19, <1>20, <1>21,
     WhoMoves

\* A process that has done nothing has grown nothing.
LEMMA GrowthBalanceInit == ASSUME ReceptionInit PROVE GrowthBalance
<1>1. /\ calls = EmptyMap /\ counts = NoCounts /\ mode = "open"
      /\ disk = EmptyState /\ inherited = disk.readings
  BY DEF ReceptionInit, MemoryInit, ServiceInit, StoreInit
<1>2. Unnoted = 0
  BY <1>1, ThoseNone DEF Unnoted
<1>3. Gained = {}
  BY <1>1 DEF Gained
<1>4. IsFiniteSet(Gained) /\ Growth = 0
  BY <1>3, FS_EmptySet DEF Growth
<1>5. \A s \in StationIds : Extends(disk.readings[s], inherited[s])
  <2>1. 1 .. 0 = {} /\ 0 <= 0
    OBVIOUS
  <2>2. disk.readings = [s \in StationIds |-> <<>>] /\ inherited = disk.readings
    BY <1>1 DEF EmptyState
  <2> QED
    BY <2>1, <2>2, EmptySeq DEF Extends
<1> QED
  BY <1>1, <1>2, <1>4, <1>5 DEF GrowthBalance, NoCounts

-----------------------------------------------------------------------------
(* The books: what journal, counters and alerts say of each other. *)

Books == /\ CallsKnow
         /\ QueueSound
         /\ AlertsAreReadable
         /\ JournalBalance
         /\ AlertBalance

\* The books are in order when the process starts.
LEMMA BooksInit == ReceptionInit => Books
<1> SUFFICES ASSUME ReceptionInit PROVE Books
  OBVIOUS
<1>1. calls = EmptyMap /\ events = <<>> /\ drained = <<>> /\ lastEvent = 0
  BY DEF ReceptionInit, MemoryInit, QueueInit
<1>2. CallsKnow
  BY <1>1, FS_EmptySet DEF CallsKnow, EmptyMap
<1>3. Raised = <<>>
  BY <1>1, EmptySeq, ConcatEmptySeq DEF Raised
<1>4. QueueSound
  BY <1>1, <1>3, EmptySeq DEF QueueSound, EventsOnce
<1>5. AlertsAreReadable
  BY <1>3, EmptySeq DEF AlertsAreReadable
<1> QED
  BY <1>2, <1>4, <1>5, JournalBalanceInit, AlertBalanceInit DEF Books

\* Every step keeps the books.
LEMMA BooksStep ==
    ReceptionInv /\ Books /\ [ReceptionNext]_receptionVars => Books'
<1> SUFFICES ASSUME ReceptionInv, Books, [ReceptionNext]_receptionVars PROVE Books'
  OBVIOUS
<1>1. ReceptionInv' /\ IsMap(calls, Callers, Call)
  BY ReceptionStepInv DEF ReceptionInv, MemorySound
<1>2. /\ CallsKnow /\ QueueSound /\ AlertsAreReadable
      /\ JournalBalance /\ AlertBalance
  BY DEF Books
<1>3. CallsKnow'
  BY <1>2, CallsKnowStep
<1>4. QueueSound'
  BY <1>1, <1>2, QueueSoundStep
<1>5. AlertsAreReadable'
  BY <1>2, AlertsReadableStep
<1>6. JournalBalance'
  BY <1>1, <1>2, <1>3, JournalBalanceStep
<1>7. AlertBalance'
  BY <1>1, <1>2, <1>3, AlertBalanceStep
<1> QED
  BY <1>3, <1>4, <1>5, <1>6, <1>7 DEF Books

\* The books are kept throughout.
THEOREM BooksAreKept == ReceptionSpec => []Books
BY BooksInit, BooksStep, ReceptionInvariance, PTL DEF ReceptionSpec

\* The events drained and those waiting are numbered 1, 2, ..., whatever the
\* callers of Enqueue and Drain do between one another (queue.go:34-59).
THEOREM EventsReachOnce == ReceptionSpec => []EventsOnce
<1>1. Books => EventsOnce
  BY DEF Books, QueueSound
<1> QED
  BY <1>1, BooksAreKept, PTL

\* What a caller was told is so in the file until it answers; only a duplicate
\* under an identifier that another batch has too may have been dropped.
THEOREM AnswersKept == ReceptionSpec => []AnswersAreKept
<1>1. Books => AnswersAreKept
  BY DEF Books, CallsKnow, Knows, AnswersAreKept
<1> QED
  BY <1>1, BooksAreKept, PTL

\* What is alerted was accepted, and can be read now and after a restart
\* (server.go:140-146).
THEOREM AlertsReadable == ReceptionSpec => []AlertsAreReadable
<1>1. Books => AlertsAreReadable
  BY DEF Books
<1> QED
  BY <1>1, BooksAreKept, PTL

\* Nothing is reported committed more often than it was reported received,
\* as long as the journal has dropped nothing (ingest/service.go:39 and 58).
THEOREM CommitsFollowReceipts == ReceptionSpec => []CommitsWereReceived
<1>1. Books => CommitsWereReceived
  BY DEF Books, JournalBalance
<1> QED
  BY <1>1, BooksAreKept, PTL

\* A reading is alerted no more often than successes were counted
\* (server.go:140-146).
THEOREM AlertsAreAnswers == ReceptionSpec => []AlertsPerAnswer
<1>1. ASSUME ReceptionInv, Books PROVE AlertsPerAnswer
  <2> SUFFICES ASSUME NEW b \in Batches, NEW r \in Range(b.readings)
               PROVE  Cardinality(RaisedFor(b.stationId, r.sequence)) <= Successes
    BY DEF AlertsPerAnswer, RaisedFor, Successes
  <2>1. b.stationId \in StationIds /\ r.sequence \in Int
    <3>1. b.stationId \in StationIds /\ b.readings \in Seq(Reading)
      BY StoreAssumption DEF ReadingBatch
    <3>2. r \in Reading
      BY <3>1, ElementOfSeq DEF Range
    <3> QED
      BY <3>1, <3>2 DEF Reading
  <2> DEFINE n == Cardinality(RaisedFor(b.stationId, r.sequence))
             k == Alerting
             m == Successes
  <2>2. n + k <= m
    BY <1>1, <2>1 DEF Books, AlertBalance
  <2>3. n \in Nat
    BY <1>1, RaisedFinite DEF Books
  <2>4. k \in Nat
    BY <1>1, ThoseFinite DEF Books, CallsKnow, Alerting
  <2>5. m \in Nat
    BY <1>1 DEF ReceptionInv, MemorySound, Successes, NoCounts
  <2> HIDE DEF n, k, m
  <2>6. n <= m
    BY <2>2, <2>3, <2>4, <2>5
  <2> QED
    BY <2>6 DEF n, m
<1> QED
  BY <1>1, BooksAreKept, ReceptionInvariance, PTL

\* For batches that have no reading in common, the counters tell by how much
\* the file has grown (ingest/service.go:47-57).
THEOREM CountersAreGrowth ==
    ASSUME ReadingsApart PROVE ReceptionSpec => []CountersTellGrowth
<1>1. ReceptionInit => GrowthBalance
  BY GrowthBalanceInit
<1>2. /\ ReceptionInv /\ ReceptionInv' /\ Books /\ Books' /\ GrowthBalance
      /\ [ReceptionNext]_receptionVars
      => GrowthBalance'
  BY ReadingsApart, GrowthBalanceStep DEF Books
<1>3. ASSUME ReceptionInv, GrowthBalance PROVE CountersTellGrowth
  <2>1. Counting = Those(Uncounted)
    BY <1>3 DEF Counting, Those, Uncounted, At, ReceptionInv, MemorySound, IsMap
  <2> QED
    BY <1>3, <2>1 DEF CountersTellGrowth, GrowthBalance, Growth, Gained, Unnoted
<1> QED
  BY <1>1, <1>2, <1>3, BooksAreKept, ReceptionInvariance, PTL DEF ReceptionSpec

-----------------------------------------------------------------------------
(* Through the service and the store: what was proved of them holds of     *)
(* receiving, call by call.                                                *)

\* Receiving implements the ledger contract.
THEOREM ReceptionKeepsLedger == ReceptionSpec => LedgerSpec
BY ReceptionRespectsService, ServiceRespectsStore, Refinement, PTL
   DEF ReceptionIsService, StoreIsRespected

\* However calls overlap, a batch with an identifier of its own is applied
\* once (file_store.go:184-190).
THEOREM ReceivedOnce == ReceptionSpec => AcceptedOnce
BY ReceptionRespectsService, ServiceRespectsStore, AppliedAtMostOnce, PTL
   DEF ReceptionIsService, StoreIsRespected

=============================================================================
