-------------------------- MODULE Guardrails_proofs --------------------------
(***************************************************************************)
(* Proofs about the loop guardrails, for every policy, every set of calls  *)
(* and runs of any length.                                                 *)
(***************************************************************************)
EXTENDS Guardrails, TLAPS

(***************************************************************************)
(* What one call of observe does to the counters and flags of guardState,  *)
(* and when it halts or nudges.  Everything below rests on these facts.    *)
(***************************************************************************)
\* Thresholds are positive whatever the caller put into GuardrailPolicy.
LEMMA ThresholdsPositive ==
  /\ RepeatNudge \in Nat \ {0} /\ RepeatHalt \in Nat \ {0}
  /\ MistakeNudge \in Nat \ {0} /\ MistakeHalt \in Nat \ {0}
BY GuardrailAssumption DEF RepeatNudge, RepeatHalt, MistakeNudge, MistakeHalt, OrDefault

\* observe keeps guardState well formed and answers with a verdict.
LEMMA ObserveTyped ==
  ASSUME NEW g \in GuardStates, NEW key \in Keys \cup {Several}, NEW failed \in BOOLEAN
  PROVE  /\ ObserveRound(g, key, failed).guard \in GuardStates
         /\ ObserveRound(g, key, failed).verdict \in Verdicts
<1> DEFINE r == TrackRepeat(g, key)
           t == TrackMistakes(r, failed)
<1>1. r \in GuardStates
  <2>1. CASE key = Several
    BY <2>1 DEF TrackRepeat, GuardStates
  <2>2. CASE key # Several /\ key = g.lastCallKey
    BY <2>2 DEF TrackRepeat, GuardStates
  <2>3. CASE key # Several /\ key # g.lastCallKey
    BY <2>3 DEF TrackRepeat, GuardStates
  <2> QED BY <2>1, <2>2, <2>3
<1>2. t \in GuardStates
  <2> HIDE DEF r
  <2>1. CASE failed
    BY <1>1, <2>1 DEF TrackMistakes, GuardStates
  <2>2. CASE ~failed
    BY <1>1, <2>2 DEF TrackMistakes, GuardStates
  <2> QED BY <2>1, <2>2
<1> HIDE DEF t
<1>3. Verdict(t) \in Verdicts
  BY DEF Verdict, Verdicts, OK, Nudge, Halt, Kinds
<1>4. \A v \in Verdicts : Remember(t, v) \in GuardStates
  BY <1>2 DEF Remember, GuardStates
<1>5. OK \in Verdicts
  BY DEF OK, Verdicts
<1>6. /\ ObserveRound(g, key, failed).guard = IF Disabled THEN g ELSE Remember(t, Verdict(t))
      /\ ObserveRound(g, key, failed).verdict = IF Disabled THEN OK ELSE Verdict(t)
  BY DEF ObserveRound, t
<1> QED BY <1>3, <1>4, <1>5, <1>6

\* Type correctness of guardState and of the history of rounds.
THEOREM GuardTypeCorrect == Spec => []TypeOK
<1>1. Init => TypeOK
  BY GuardrailAssumption DEF Init, TypeOK, NewGuard, GuardStates
<1>2. TypeOK /\ [Next]_vars => TypeOK'
  <2> SUFFICES ASSUME TypeOK, [Next]_vars PROVE TypeOK'
    OBVIOUS
  <2>1. ASSUME NEW key \in Keys \cup {Several}, NEW failed \in BOOLEAN, Observe(key, failed)
        PROVE  TypeOK'
    <3> DEFINE o == ObserveRound(guard, key, failed)
    <3>1. o.guard \in GuardStates /\ o.verdict \in Verdicts
      BY ObserveTyped DEF TypeOK
    <3>2. /\ guard' = o.guard
          /\ rounds' = Append(rounds, [key |-> key, failed |-> failed, verdict |-> o.verdict])
          /\ Len(rounds) < MaxRounds
      BY <2>1 DEF Observe
    <3> HIDE DEF o
    <3>3. [key |-> key, failed |-> failed, verdict |-> o.verdict] \in Rounds
      BY <3>1 DEF Rounds
    <3> QED BY <3>1, <3>2, <3>3, GuardrailAssumption DEF TypeOK
  <2>2. CASE UNCHANGED vars
    BY <2>2 DEF vars, TypeOK
  <2> QED BY <2>1, <2>2 DEF Next
<1> QED BY <1>1, <1>2, PTL DEF Spec

-----------------------------------------------------------------------------
(***************************************************************************)
(* One round, in first-order terms: how the counters move, and which       *)
(* verdict the four ordered tests of observe give on the moved counters.   *)
(***************************************************************************)
SameCall(key) == key # Several /\ key = guard.lastCallKey

CountersMove(key, failed) ==
  /\ guard'.lastCallKey = key
  /\ guard'.repeatCount = IF key = Several THEN 0
                          ELSE IF key = guard.lastCallKey THEN guard.repeatCount + 1 ELSE 1
  /\ guard'.mistakeRounds = IF failed THEN guard.mistakeRounds + 1 ELSE 0

VerdictGiven(key, failed, v) ==
  /\ v = Halt("repeat") <=> guard'.repeatCount >= RepeatHalt
  /\ v = Halt("mistakes") <=>
       guard'.mistakeRounds >= MistakeHalt /\ guard'.repeatCount < RepeatHalt
  /\ v = Nudge("repeat") <=>
       /\ guard'.repeatCount < RepeatHalt /\ guard'.mistakeRounds < MistakeHalt
       /\ guard'.repeatCount >= RepeatNudge /\ ~(SameCall(key) /\ guard.repeatNudged)
  /\ v = Nudge("mistakes") <=>
       /\ guard'.repeatCount < RepeatHalt /\ guard'.mistakeRounds < MistakeHalt
       /\ v # Nudge("repeat")
       /\ guard'.mistakeRounds >= MistakeNudge /\ ~(failed /\ guard.mistakeNudged)
  /\ guard'.repeatNudged <=> (SameCall(key) /\ guard.repeatNudged) \/ v = Nudge("repeat")
  /\ guard'.mistakeNudged <=> (failed /\ guard.mistakeNudged) \/ v = Nudge("mistakes")

\* observe, when the guardrails are enabled, is that move and that verdict.
LEMMA ObserveEffect ==
  ASSUME TypeOK, ~Disabled, NEW key \in Keys \cup {Several}, NEW failed \in BOOLEAN,
         Observe(key, failed)
  PROVE  /\ CountersMove(key, failed)
         /\ VerdictGiven(key, failed, ObserveRound(guard, key, failed).verdict)
<1> DEFINE r == TrackRepeat(guard, key)
           t == TrackMistakes(r, failed)
           v == Verdict(t)
<1>0. guard \in GuardStates
  BY DEF TypeOK
<1>1. /\ r \in GuardStates
      /\ r.lastCallKey = key
      /\ r.repeatCount = IF key = Several THEN 0
                         ELSE IF key = guard.lastCallKey THEN guard.repeatCount + 1 ELSE 1
      /\ r.repeatNudged <=> SameCall(key) /\ guard.repeatNudged
      /\ r.mistakeRounds = guard.mistakeRounds
      /\ r.mistakeNudged = guard.mistakeNudged
  <2>1. CASE key = Several
    BY <1>0, <2>1 DEF TrackRepeat, GuardStates, SameCall
  <2>2. CASE key # Several /\ key = guard.lastCallKey
    BY <1>0, <2>2 DEF TrackRepeat, GuardStates, SameCall
  <2>3. CASE key # Several /\ key # guard.lastCallKey
    BY <1>0, <2>3 DEF TrackRepeat, GuardStates, SameCall
  <2> QED BY <2>1, <2>2, <2>3
<1> HIDE DEF r
<1>2. /\ t \in GuardStates
      /\ t.lastCallKey = r.lastCallKey /\ t.repeatCount = r.repeatCount
      /\ t.repeatNudged = r.repeatNudged
      /\ t.mistakeRounds = IF failed THEN r.mistakeRounds + 1 ELSE 0
      /\ t.mistakeNudged <=> failed /\ r.mistakeNudged
  <2>1. CASE failed
    BY <1>1, <2>1 DEF TrackMistakes, GuardStates
  <2>2. CASE ~failed
    BY <1>1, <2>2 DEF TrackMistakes, GuardStates
  <2> QED BY <2>1, <2>2
<1>3. ObserveRound(guard, key, failed) = [guard |-> Remember(t, v), verdict |-> v]
  BY DEF ObserveRound, r
<1> HIDE DEF t
<1>4. /\ v = Halt("repeat") <=> t.repeatCount >= RepeatHalt
      /\ v = Halt("mistakes") <=> t.mistakeRounds >= MistakeHalt /\ ~(t.repeatCount >= RepeatHalt)
      /\ v = Nudge("repeat") <=>
           /\ ~(t.repeatCount >= RepeatHalt) /\ ~(t.mistakeRounds >= MistakeHalt)
           /\ t.repeatCount >= RepeatNudge /\ ~t.repeatNudged
      /\ v = Nudge("mistakes") <=>
           /\ ~(t.repeatCount >= RepeatHalt) /\ ~(t.mistakeRounds >= MistakeHalt)
           /\ ~(t.repeatCount >= RepeatNudge /\ ~t.repeatNudged)
           /\ t.mistakeRounds >= MistakeNudge /\ ~t.mistakeNudged
  BY DEF Verdict, Halt, Nudge, OK
<1> HIDE DEF v
<1>5. guard' = Remember(t, v)
  BY <1>3 DEF Observe
<1>6. /\ guard'.lastCallKey = t.lastCallKey /\ guard'.repeatCount = t.repeatCount
      /\ guard'.mistakeRounds = t.mistakeRounds
      /\ guard'.repeatNudged <=> t.repeatNudged \/ v = Nudge("repeat")
      /\ guard'.mistakeNudged <=> t.mistakeNudged \/ v = Nudge("mistakes")
  BY <1>2, <1>5 DEF Remember, GuardStates
<1>7. t.repeatCount \in Nat /\ t.mistakeRounds \in Nat
  BY <1>2 DEF GuardStates
<1>8. CountersMove(key, failed)
  BY <1>1, <1>2, <1>6 DEF CountersMove
<1>9. VerdictGiven(key, failed, v)
  BY <1>1, <1>2, <1>4, <1>6, <1>7, ThresholdsPositive DEF VerdictGiven
<1> QED BY <1>3, <1>8, <1>9

\* The history grows by the round just observed and is otherwise kept.
LEMMA HistoryGrows ==
  ASSUME TypeOK, NEW key \in Keys \cup {Several}, NEW failed \in BOOLEAN, Observe(key, failed)
  PROVE  /\ Len(rounds) \in Nat
         /\ Len(rounds') = Len(rounds) + 1
         /\ \A i \in 1 .. Len(rounds) : rounds'[i] = rounds[i]
         /\ rounds'[Len(rounds) + 1] =
              [key |-> key, failed |-> failed,
               verdict |-> ObserveRound(guard, key, failed).verdict]
<1> DEFINE o == ObserveRound(guard, key, failed)
<1>1. rounds' = Append(rounds, [key |-> key, failed |-> failed, verdict |-> o.verdict])
  BY DEF Observe
<1>2. o.verdict \in Verdicts
  BY ObserveTyped DEF TypeOK
<1> HIDE DEF o
<1>3. [key |-> key, failed |-> failed, verdict |-> o.verdict] \in Rounds /\ rounds \in Seq(Rounds)
  BY <1>2 DEF Rounds, TypeOK
<1> QED BY <1>1, <1>3 DEF o

-----------------------------------------------------------------------------
(* The inductive invariant, one lemma per conjunct that a round can disturb. *)

\* The counters keep measuring the streaks at the end of the history.
LEMMA KeepsMeasure ==
  ASSUME TypeOK, ~Disabled, CountersMeasureStreaks,
         NEW key \in Keys \cup {Several}, NEW failed \in BOOLEAN, Observe(key, failed)
  PROVE  CountersMeasureStreaks'
<1> DEFINE L == Len(rounds)
           M == Len(rounds')
           rc == guard.repeatCount
           mr == guard.mistakeRounds
<1>1. CountersMove(key, failed)
  BY ObserveEffect
<1>2. /\ L \in Nat /\ M = L + 1
      /\ \A i \in 1 .. L : rounds'[i] = rounds[i]
      /\ rounds'[M].key = key /\ rounds'[M].failed = failed
      /\ rounds' # <<>>
  BY HistoryGrows DEF Observe
<1>3. rc \in Nat /\ mr \in Nat
  BY DEF TypeOK, GuardStates
<1>4. rc <= L /\ mr <= L
  BY DEF CountersMeasureStreaks
<1>5. /\ rc = 0 <=> guard.lastCallKey = Several
      /\ L > 0 => guard.lastCallKey = rounds[L].key
      /\ L = 0 => guard.lastCallKey = Several
  <2>1. rounds = <<>> <=> L = 0
    BY DEF TypeOK
  <2> QED BY <1>2, <2>1 DEF CountersMeasureStreaks
<1>6. /\ \A i \in (L - rc + 1) .. L : rounds[i].key = guard.lastCallKey
      /\ rc > 0 /\ rc < L => rounds[L - rc].key # guard.lastCallKey
  BY DEF CountersMeasureStreaks
<1>7. /\ \A i \in (L - mr + 1) .. L : rounds[i].failed
      /\ mr < L => ~rounds[L - mr].failed
  BY DEF CountersMeasureStreaks
<1> DEFINE rcn == guard'.repeatCount
           mrn == guard'.mistakeRounds
<1>8. /\ rcn = IF key = Several THEN 0 ELSE IF key = guard.lastCallKey THEN rc + 1 ELSE 1
      /\ mrn = IF failed THEN mr + 1 ELSE 0
      /\ guard'.lastCallKey = key
  BY <1>1 DEF CountersMove
<1> HIDE DEF L, M, rc, mr, rcn, mrn
<1>9. rcn \in Nat /\ mrn \in Nat /\ rcn <= M /\ mrn <= M /\ (rcn = 0 <=> key = Several)
  BY <1>2, <1>3, <1>4, <1>8
<1>10. /\ \A i \in (M - rcn + 1) .. M : rounds'[i].key = key
       /\ rcn > 0 /\ rcn < M => rounds'[M - rcn].key # key
  <2>1. CASE key = Several
    BY <1>2, <1>8, <2>1
  <2>2. CASE key # Several /\ key = guard.lastCallKey
    <3>1. M - rcn = L - rc /\ rc > 0 /\ rcn = rc + 1
      BY <1>2, <1>3, <1>5, <1>8, <2>2
    <3>2. ASSUME NEW i \in (L - rc + 1) .. M PROVE rounds'[i].key = key
      <4>1. CASE i = M
        BY <1>2, <4>1
      <4>2. CASE i # M
        <5>1. i \in (L - rc + 1) .. L /\ i \in 1 .. L
          BY <1>2, <1>3, <1>4, <4>2
        <5> QED BY <1>2, <1>6, <2>2, <5>1
      <4> QED BY <4>1, <4>2
    <3>3. rcn < M => L - rc \in 1 .. L /\ rc < L
      BY <1>2, <1>3, <1>4, <3>1
    <3>4. rcn < M => rounds'[L - rc].key # key
      BY <1>2, <1>6, <2>2, <3>1, <3>3
    <3> QED BY <3>1, <3>2, <3>4
  <2>3. CASE key # Several /\ key # guard.lastCallKey
    <3>1. rcn = 1 /\ M - rcn = L /\ M - rcn + 1 = M
      BY <1>2, <1>8, <2>3
    <3>2. rcn < M => rounds'[L].key # key
      BY <1>2, <1>5, <2>3, <3>1
    <3>3. \A i \in M .. M : i = M
      BY <1>2
    <3> QED BY <1>2, <3>1, <3>2, <3>3
  <2> QED BY <2>1, <2>2, <2>3
<1>11. /\ \A i \in (M - mrn + 1) .. M : rounds'[i].failed
       /\ mrn < M => ~rounds'[M - mrn].failed
  <2>1. CASE ~failed
    <3>1. mrn = 0 /\ M - mrn = M
      BY <1>2, <1>8, <2>1
    <3>2. \A i \in (M + 1) .. M : FALSE
      BY <1>2
    <3> QED BY <1>2, <2>1, <3>1, <3>2
  <2>2. CASE failed
    <3>1. M - mrn = L - mr /\ mrn = mr + 1
      BY <1>2, <1>3, <1>8, <2>2
    <3>2. ASSUME NEW i \in (L - mr + 1) .. M PROVE rounds'[i].failed
      <4>1. CASE i = M
        BY <1>2, <2>2, <4>1
      <4>2. CASE i # M
        <5>1. i \in (L - mr + 1) .. L /\ i \in 1 .. L
          BY <1>2, <1>3, <1>4, <4>2
        <5> QED BY <1>2, <1>7, <5>1
      <4> QED BY <4>1, <4>2
    <3>3. mrn < M => L - mr \in 1 .. L /\ mr < L
      BY <1>2, <1>3, <1>4, <3>1
    <3>4. mrn < M => ~rounds'[L - mr].failed
      BY <1>2, <1>7, <3>3
    <3> QED BY <3>1, <3>2, <3>4
  <2> QED BY <2>1, <2>2
<1> USE DEF M, rcn, mrn
<1> QED BY <1>2, <1>8, <1>9, <1>10, <1>11 DEF CountersMeasureStreaks

\* A nudged flag keeps pointing at a nudge inside the streak it belongs to.
LEMMA KeepsFlags ==
  ASSUME TypeOK, ~Disabled, FlagsRememberNudges, CountersMeasureStreaks,
         NEW key \in Keys \cup {Several}, NEW failed \in BOOLEAN, Observe(key, failed)
  PROVE  FlagsRememberNudges'
<1> DEFINE L == Len(rounds)
           v == ObserveRound(guard, key, failed).verdict
<1>1. CountersMove(key, failed) /\ VerdictGiven(key, failed, v)
  BY ObserveEffect
<1>2. /\ L \in Nat /\ Len(rounds') = L + 1
      /\ \A i \in 1 .. L : rounds'[i] = rounds[i]
      /\ rounds'[L + 1].verdict = v
  <2>1. rounds'[L + 1] = [key |-> key, failed |-> failed, verdict |-> v]
    BY HistoryGrows
  <2> QED BY <2>1, HistoryGrows
<1>3. /\ guard.repeatCount \in Nat /\ guard.mistakeRounds \in Nat
      /\ guard.repeatCount <= L /\ guard.mistakeRounds <= L
  BY DEF TypeOK, GuardStates, CountersMeasureStreaks
<1> HIDE DEF v
<1>4. guard'.repeatNudged =>
        \E i \in (L + 1 - guard'.repeatCount + 1) .. (L + 1) : rounds'[i].verdict = Nudge("repeat")
  <2>1. CASE v = Nudge("repeat")
    <3>1. guard'.repeatCount >= 1
      BY <1>1, <2>1, ThresholdsPositive, <1>3 DEF VerdictGiven, CountersMove
    <3> QED BY <1>1, <1>2, <1>3, <2>1, <3>1 DEF CountersMove
  <2>2. CASE v # Nudge("repeat") /\ guard'.repeatNudged
    <3>1. SameCall(key) /\ guard.repeatNudged
      BY <1>1, <2>2 DEF VerdictGiven
    <3>2. guard'.repeatCount = guard.repeatCount + 1
      BY <1>1, <3>1 DEF CountersMove, SameCall
    <3>3. PICK i \in (L - guard.repeatCount + 1) .. L : rounds[i].verdict = Nudge("repeat")
      BY <3>1 DEF FlagsRememberNudges
    <3> QED BY <1>2, <1>3, <3>2, <3>3
  <2> QED BY <2>1, <2>2
<1>5. guard'.mistakeNudged =>
        \E i \in (L + 1 - guard'.mistakeRounds + 1) .. (L + 1) : rounds'[i].verdict = Nudge("mistakes")
  <2>1. CASE v = Nudge("mistakes")
    <3>1. guard'.mistakeRounds >= 1
      BY <1>1, <2>1, ThresholdsPositive, <1>3 DEF VerdictGiven, CountersMove
    <3> QED BY <1>1, <1>2, <1>3, <2>1, <3>1 DEF CountersMove
  <2>2. CASE v # Nudge("mistakes") /\ guard'.mistakeNudged
    <3>1. failed /\ guard.mistakeNudged
      BY <1>1, <2>2 DEF VerdictGiven
    <3>2. guard'.mistakeRounds = guard.mistakeRounds + 1
      BY <1>1, <3>1 DEF CountersMove
    <3>3. PICK i \in (L - guard.mistakeRounds + 1) .. L : rounds[i].verdict = Nudge("mistakes")
      BY <3>1 DEF FlagsRememberNudges
    <3>4. i \in (L + 1 - guard'.mistakeRounds + 1) .. (L + 1) BY <1>3, <3>2, <3>3
    <3>5. rounds'[i] = rounds[i] BY <1>2, <1>3, <3>3
    <3> QED BY <3>3, <3>4, <3>5
  <2> QED BY <2>1, <2>2
<1>6. guard'.repeatCount \in Nat /\ guard'.mistakeRounds \in Nat
  BY <1>1, <1>3 DEF CountersMove
<1> QED BY <1>2, <1>4, <1>5, <1>6 DEF FlagsRememberNudges

\* The last verdict keeps saying whether a counter reached its limit.
LEMMA KeepsVerdict ==
  ASSUME TypeOK, ~Disabled, VerdictFollowsCounters,
         NEW key \in Keys \cup {Several}, NEW failed \in BOOLEAN, Observe(key, failed)
  PROVE  VerdictFollowsCounters'
<1> DEFINE L == Len(rounds)
           v == ObserveRound(guard, key, failed).verdict
<1>1. CountersMove(key, failed) /\ VerdictGiven(key, failed, v)
  BY ObserveEffect
<1>2. /\ L \in Nat /\ Len(rounds') = L + 1 /\ rounds' # <<>>
      /\ rounds'[L + 1].verdict = v
  BY HistoryGrows DEF Observe
<1>3. guard.repeatCount \in Nat /\ guard.mistakeRounds \in Nat
  BY DEF TypeOK, GuardStates
<1>4. guard.repeatCount < RepeatHalt /\ guard.mistakeRounds < MistakeHalt
  <2>1. CASE rounds = <<>>
    BY <2>1, ThresholdsPositive DEF VerdictFollowsCounters
  <2>2. CASE rounds # <<>>
    <3>1. rounds[L].verdict.action # "halt"
      BY <2>2 DEF Observe, Halted
    <3>2. rounds[L].verdict # Halt("repeat") /\ rounds[L].verdict # Halt("mistakes")
      BY <3>1 DEF Halt
    <3> QED BY <1>3, <2>2, <3>2, ThresholdsPositive DEF VerdictFollowsCounters
  <2> QED BY <2>1, <2>2
<1>5. guard'.repeatCount <= RepeatHalt /\ guard'.mistakeRounds <= MistakeHalt
  BY <1>1, <1>3, <1>4, ThresholdsPositive DEF CountersMove
<1> HIDE DEF v
<1> QED BY <1>1, <1>2, <1>5 DEF VerdictFollowsCounters, VerdictGiven

\* With ordered thresholds a streak past its nudge threshold has been nudged.
LEMMA KeepsNudged ==
  ASSUME TypeOK, ~Disabled, PolicyOrdered, StreaksAreNudged, VerdictFollowsCounters,
         NEW key \in Keys \cup {Several}, NEW failed \in BOOLEAN, Observe(key, failed)
  PROVE  StreaksAreNudged'
<1> DEFINE L == Len(rounds)
           v == ObserveRound(guard, key, failed).verdict
<1>1. CountersMove(key, failed) /\ VerdictGiven(key, failed, v)
  BY ObserveEffect
<1>2. /\ L \in Nat /\ Len(rounds') = L + 1 /\ rounds' # <<>>
      /\ rounds'[L + 1].verdict = v
  BY HistoryGrows DEF Observe
<1>3. /\ guard.repeatCount \in Nat /\ guard.mistakeRounds \in Nat
      /\ guard'.repeatCount \in Nat /\ guard'.mistakeRounds \in Nat
  BY <1>1 DEF TypeOK, GuardStates, CountersMove
<1>4. /\ guard.repeatCount >= RepeatNudge => guard.repeatNudged
      /\ guard.mistakeRounds > MistakeNudge => guard.mistakeNudged
      /\ guard.mistakeRounds = MistakeNudge /\ ~guard.mistakeNudged =>
           guard.repeatCount >= RepeatNudge
  BY <1>3, ThresholdsPositive DEF StreaksAreNudged, Observe
<1>5. ~Halted' => guard'.repeatCount < RepeatHalt /\ guard'.mistakeRounds < MistakeHalt
  <2> SUFFICES ASSUME ~Halted' PROVE guard'.repeatCount < RepeatHalt /\ guard'.mistakeRounds < MistakeHalt
    OBVIOUS
  <2>1. v.action # "halt"
    BY <1>2 DEF Halted
  <2>2. v # Halt("repeat") /\ v # Halt("mistakes")
    BY <2>1 DEF Halt
  <2> QED BY <1>1, <1>3, <2>2, ThresholdsPositive DEF VerdictGiven
<1> HIDE DEF v
<1>6. guard'.repeatCount > RepeatNudge => guard'.repeatNudged
  BY <1>1, <1>3, <1>4, ThresholdsPositive DEF CountersMove, VerdictGiven, SameCall
<1>7. guard'.mistakeRounds > MistakeNudge + 1 => guard'.mistakeNudged
  BY <1>1, <1>3, <1>4, ThresholdsPositive DEF CountersMove, VerdictGiven
<1>8. ASSUME ~Halted' PROVE guard'.repeatCount = RepeatNudge => guard'.repeatNudged
  BY <1>1, <1>3, <1>5, <1>8, ThresholdsPositive DEF VerdictGiven, PolicyOrdered
<1>9. ASSUME ~Halted', guard'.mistakeRounds = MistakeNudge + 1 PROVE guard'.mistakeNudged
  <2>1. failed /\ guard.mistakeRounds = MistakeNudge
    BY <1>1, <1>3, <1>9, ThresholdsPositive DEF CountersMove
  <2>2. CASE guard.mistakeNudged
    BY <1>1, <2>1, <2>2 DEF VerdictGiven
  <2>3. CASE ~guard.mistakeNudged
    <3>1. guard.repeatCount >= RepeatNudge /\ guard.repeatNudged
      BY <1>4, <2>1, <2>3
    <3>2. v # Nudge("repeat")
      BY <1>1, <1>3, <3>1, ThresholdsPositive
      DEF VerdictGiven, CountersMove, SameCall, PolicyOrdered
    <3> QED BY <1>1, <1>3, <1>5, <1>9, <2>1, <3>2, ThresholdsPositive DEF VerdictGiven
  <2> QED BY <2>2, <2>3
<1>10. ASSUME ~Halted', guard'.mistakeRounds = MistakeNudge, ~guard'.mistakeNudged
       PROVE  guard'.repeatCount >= RepeatNudge
  <2>1. v = Nudge("repeat")
    BY <1>1, <1>3, <1>5, <1>10, ThresholdsPositive DEF VerdictGiven
  <2> QED BY <1>1, <2>1 DEF VerdictGiven
<1> QED BY <1>6, <1>7, <1>8, <1>9, <1>10 DEF StreaksAreNudged

\* The strengthening is an invariant of the guardrails.
THEOREM GuardInductive == Spec => []IInv
<1>1. Init => IInv
  <2> SUFFICES ASSUME Init PROVE IInv
    OBVIOUS
  <2>1. TypeOK
    BY GuardrailAssumption DEF Init, TypeOK, NewGuard, GuardStates
  <2>2. /\ guard.repeatCount = 0 /\ guard.mistakeRounds = 0 /\ guard.lastCallKey = Several
        /\ ~guard.repeatNudged /\ ~guard.mistakeNudged /\ rounds = <<>> /\ Len(rounds) = 0
    BY DEF Init, NewGuard
  <2>3. CountersMeasureStreaks /\ FlagsRememberNudges
    BY <2>2 DEF CountersMeasureStreaks, FlagsRememberNudges
  <2>4. VerdictFollowsCounters /\ StreaksAreNudged
    BY <2>2, ThresholdsPositive DEF VerdictFollowsCounters, StreaksAreNudged
  <2> QED BY <2>1, <2>2, <2>3, <2>4 DEF IInv
<1>2. IInv /\ [Next]_vars => IInv'
  <2> SUFFICES ASSUME IInv, [Next]_vars PROVE IInv'
    OBVIOUS
  <2>1. ASSUME NEW key \in Keys \cup {Several}, NEW failed \in BOOLEAN, Observe(key, failed)
        PROVE  IInv'
    <3>1. TypeOK'
      <4> DEFINE o == ObserveRound(guard, key, failed)
      <4>1. o.guard \in GuardStates /\ o.verdict \in Verdicts
        BY ObserveTyped DEF IInv, TypeOK
      <4>2. /\ guard' = o.guard
            /\ rounds' = Append(rounds, [key |-> key, failed |-> failed, verdict |-> o.verdict])
            /\ Len(rounds) < MaxRounds
        BY <2>1 DEF Observe
      <4> HIDE DEF o
      <4>3. [key |-> key, failed |-> failed, verdict |-> o.verdict] \in Rounds
        BY <4>1 DEF Rounds
      <4> QED BY <4>1, <4>2, <4>3, GuardrailAssumption DEF IInv, TypeOK
    <3>2. Disabled => \A i \in 1 .. Len(rounds') : rounds'[i].verdict = OK
      <4> SUFFICES ASSUME Disabled PROVE \A i \in 1 .. Len(rounds') : rounds'[i].verdict = OK
        OBVIOUS
      <4>1. ObserveRound(guard, key, failed).verdict = OK
        BY DEF ObserveRound
      <4>2. /\ Len(rounds) \in Nat /\ Len(rounds') = Len(rounds) + 1
            /\ \A i \in 1 .. Len(rounds) : rounds'[i] = rounds[i]
            /\ rounds'[Len(rounds) + 1].verdict = OK
        <5>0. TypeOK
          BY DEF IInv
        <5>1. rounds'[Len(rounds) + 1] = [key |-> key, failed |-> failed, verdict |-> OK]
          BY <2>1, <4>1, <5>0, HistoryGrows
        <5>2. rounds'[Len(rounds) + 1].verdict = OK
          BY <5>1
        <5> QED BY <2>1, <5>0, <5>2, HistoryGrows
      <4>3. \A i \in 1 .. Len(rounds) : rounds[i].verdict = OK
        BY DEF IInv
      <4> QED BY <4>2, <4>3
    <3>3. ~Disabled => CountersMeasureStreaks' /\ FlagsRememberNudges' /\ VerdictFollowsCounters'
      BY <2>1, KeepsMeasure, KeepsFlags, KeepsVerdict DEF IInv
    <3>4. ~Disabled /\ PolicyOrdered => StreaksAreNudged'
      BY <2>1, KeepsNudged DEF IInv
    <3> QED BY <3>1, <3>2, <3>3, <3>4 DEF IInv, PolicyOrdered, RepeatNudge, RepeatHalt,
              MistakeNudge, MistakeHalt, OrDefault
  <2>2. CASE UNCHANGED vars
    BY <2>2 DEF vars, IInv, TypeOK, CountersMeasureStreaks, FlagsRememberNudges,
                VerdictFollowsCounters, StreaksAreNudged, Halted
  <2> QED BY <2>1, <2>2 DEF Next
<1> QED BY <1>1, <1>2, PTL DEF Spec

-----------------------------------------------------------------------------
(* What the strengthening says about the history. *)

\* The counter of identical calls has reached n exactly when the last n rounds
\* of the history repeat one call; likewise the counter of failed rounds.
LEMMA CountersAreStreaks ==
  ASSUME TypeOK, CountersMeasureStreaks, rounds # <<>>, NEW n \in Nat \ {0}
  PROVE  /\ Repeats(n) <=> guard.repeatCount >= n
         /\ Fails(n) <=> guard.mistakeRounds >= n
<1> DEFINE L == Len(rounds)
           rc == guard.repeatCount
           mr == guard.mistakeRounds
<1>1. /\ L \in Nat /\ L > 0 /\ rc \in Nat /\ mr \in Nat /\ rc <= L /\ mr <= L
  BY DEF TypeOK, GuardStates, CountersMeasureStreaks
<1>2. /\ \A i \in (L - rc + 1) .. L : rounds[i].key = guard.lastCallKey
      /\ rc > 0 /\ rc < L => rounds[L - rc].key # guard.lastCallKey
      /\ rc = 0 <=> guard.lastCallKey = Several
      /\ guard.lastCallKey = rounds[L].key
  BY DEF CountersMeasureStreaks
<1>3. /\ \A i \in (L - mr + 1) .. L : rounds[i].failed
      /\ mr < L => ~rounds[L - mr].failed
  BY DEF CountersMeasureStreaks
<1>4. /\ Repeats(n) <=> /\ n <= L
                        /\ \A i \in (L - n + 1) .. L :
                             rounds[i].key # Several /\ rounds[i].key = rounds[L].key
      /\ Fails(n) <=> n <= L /\ \A i \in (L - n + 1) .. L : rounds[i].failed
  BY DEF Repeats, Fails
<1> HIDE DEF L, rc, mr
<1>5. ASSUME Repeats(n) PROVE rc >= n
  <2> SUFFICES ASSUME rc < n PROVE FALSE
    BY <1>1
  <2>1. n <= L /\ L \in (L - n + 1) .. L /\ rounds[L].key # Several
    BY <1>1, <1>4, <1>5
  <2>2. rc > 0 /\ rc < L
    BY <1>1, <1>2, <2>1
  <2>3. (L - rc) \in (L - n + 1) .. L
    BY <1>1, <2>1, <2>2
  <2>4. rounds[L - rc].key = rounds[L].key
    BY <1>4, <1>5, <2>3
  <2> QED BY <1>2, <2>2, <2>4
<1>6. ASSUME rc >= n PROVE Repeats(n)
  <2>1. n <= L /\ rc # 0
    BY <1>1, <1>6
  <2>2. ASSUME NEW i \in (L - n + 1) .. L
        PROVE  rounds[i].key # Several /\ rounds[i].key = rounds[L].key
    <3>1. i \in (L - rc + 1) .. L
      BY <1>1, <1>6
    <3> QED BY <1>2, <2>1, <3>1
  <2> QED BY <1>4, <2>1, <2>2
<1>7. ASSUME Fails(n) PROVE mr >= n
  <2> SUFFICES ASSUME mr < n PROVE FALSE
    BY <1>1
  <2>1. n <= L
    BY <1>4, <1>7
  <2>2. mr < L /\ (L - mr) \in (L - n + 1) .. L
    BY <1>1, <2>1
  <2> QED BY <1>3, <1>4, <1>7, <2>2
<1>8. ASSUME mr >= n PROVE Fails(n)
  <2>1. ASSUME NEW i \in (L - n + 1) .. L PROVE rounds[i].failed
    <3>1. i \in (L - mr + 1) .. L
      BY <1>1, <1>8
    <3> QED BY <1>3, <3>1
  <2> QED BY <1>1, <1>4, <1>8, <2>1
<1> USE DEF L, rc, mr
<1> QED BY <1>5, <1>6, <1>7, <1>8

\* The guardrails halt a run exactly when the history earns it, for every policy.
THEOREM HaltsAreExact == Spec => []HaltsExactlyAtTheLimit
<1>1. IInv => HaltsExactlyAtTheLimit
  <2> SUFFICES ASSUME IInv, ~Disabled, rounds # <<>>
               PROVE  LET v == rounds[Len(rounds)].verdict
                      IN  /\ v = Halt("repeat") <=> Repeats(RepeatHalt)
                          /\ v = Halt("mistakes") <=> Fails(MistakeHalt) /\ ~Repeats(RepeatHalt)
    BY DEF HaltsExactlyAtTheLimit
  <2>1. /\ Repeats(RepeatHalt) <=> guard.repeatCount >= RepeatHalt
        /\ Fails(MistakeHalt) <=> guard.mistakeRounds >= MistakeHalt
    BY CountersAreStreaks, ThresholdsPositive DEF IInv
  <2>2. guard.repeatCount \in Nat
    BY DEF IInv, TypeOK, GuardStates
  <2> QED BY <2>1, <2>2, ThresholdsPositive DEF IInv, VerdictFollowsCounters
<1> QED BY <1>1, GuardInductive, PTL

\* A halt is always preceded, in the same streak, by a nudge of the same kind: the
\* graduated response the package comment promises, for ordered thresholds (the
\* defaults are).
THEOREM ResponseIsGraduated ==
  ASSUME PolicyOrdered PROVE Spec => []GraduatedResponse
<1>1. IInv => GraduatedResponse
  <2> SUFFICES ASSUME IInv, rounds # <<>>
               PROVE  LET v == rounds[Len(rounds)].verdict
                      IN  /\ v = Halt("repeat") => GivenWithin(RepeatHalt, Nudge("repeat"))
                          /\ v = Halt("mistakes") => GivenWithin(MistakeHalt, Nudge("mistakes"))
    BY DEF GraduatedResponse
  <2> DEFINE L == Len(rounds)
             v == rounds[L].verdict
  <2>1. L \in Nat /\ L > 0 /\ guard.repeatCount \in Nat /\ guard.mistakeRounds \in Nat
    BY DEF IInv, TypeOK, GuardStates
  <2>2. CASE Disabled
    <3>1. v = OK
      BY <2>1, <2>2 DEF IInv
    <3> QED BY <3>1 DEF OK, Halt
  <2>3. CASE ~Disabled
    <3>1. FlagsRememberNudges /\ VerdictFollowsCounters /\ StreaksAreNudged
          /\ guard.repeatCount <= L /\ guard.mistakeRounds <= L
      BY <2>3 DEF IInv, CountersMeasureStreaks
    <3>2. ASSUME v = Halt("repeat") PROVE GivenWithin(RepeatHalt, Nudge("repeat"))
      <4>1. guard.repeatCount = RepeatHalt /\ guard.repeatNudged
        BY <2>1, <3>1, <3>2, ThresholdsPositive
        DEF VerdictFollowsCounters, StreaksAreNudged, PolicyOrdered
      <4>2. PICK i \in (L - RepeatHalt + 1) .. L : rounds[i].verdict = Nudge("repeat")
        BY <3>1, <4>1 DEF FlagsRememberNudges
      <4>3. Nudge("repeat") # Halt("repeat")
        BY DEF Nudge, Halt
      <4>4. i # L /\ i >= 1
        BY <2>1, <3>1, <3>2, <4>1, <4>2, <4>3, ThresholdsPositive
      <4>5. i \in (L - RepeatHalt + 1) .. (L - 1)
        BY <2>1, <4>4, ThresholdsPositive
      <4> QED BY <4>2, <4>4, <4>5 DEF GivenWithin
    <3>3. ASSUME v = Halt("mistakes") PROVE GivenWithin(MistakeHalt, Nudge("mistakes"))
      <4>1. guard.mistakeRounds = MistakeHalt /\ guard.mistakeNudged
        BY <2>1, <3>1, <3>3, ThresholdsPositive
        DEF VerdictFollowsCounters, StreaksAreNudged, PolicyOrdered
      <4>2. PICK i \in (L - MistakeHalt + 1) .. L : rounds[i].verdict = Nudge("mistakes")
        BY <3>1, <4>1 DEF FlagsRememberNudges
      <4>3. Nudge("mistakes") # Halt("mistakes")
        BY DEF Nudge, Halt
      <4>4. i # L /\ i >= 1
        BY <2>1, <3>1, <3>3, <4>1, <4>2, <4>3, ThresholdsPositive
      <4>5. i \in (L - MistakeHalt + 1) .. (L - 1)
        BY <2>1, <4>4, ThresholdsPositive
      <4> QED BY <4>2, <4>4, <4>5 DEF GivenWithin
    <3> QED BY <3>2, <3>3
  <2> QED BY <2>2, <2>3
<1> QED BY <1>1, GuardInductive, PTL

\* So halts are due, for every policy: at the limit of a streak, and after a nudge of its
\* kind where the policy is ordered (observe, loop/guardrails.go).
THEOREM HaltsStayDue == Spec => []HaltsAreDue
<1>1. CASE PolicyOrdered
  <2>1. HaltsExactlyAtTheLimit /\ GraduatedResponse => HaltsAreDue BY DEF HaltsAreDue
  <2>2. Spec => []GraduatedResponse BY <1>1, ResponseIsGraduated
  <2> QED BY <2>1, <2>2, HaltsAreExact, PTL
<1>2. CASE ~PolicyOrdered
  <2>1. HaltsExactlyAtTheLimit => HaltsAreDue BY <1>2 DEF HaltsAreDue
  <2> QED BY <2>1, HaltsAreExact, PTL
<1> QED BY <1>1, <1>2
=============================================================================
