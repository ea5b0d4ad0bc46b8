--------------------------- MODULE AgentLoop_proofs ---------------------------
(***************************************************************************)
(* Proofs about AgentLoop, for every set of calls, every bound and policy, *)
(* sequential and parallel rounds: IInv is inductive, so transcripts are   *)
(* paired, effects are accounted for and licensed, what Run returns agrees *)
(* with its transcript and what it emits balances; retries keep history;   *)
(* and the rounds of Run implement Guardrails, whose theorems then hold of *)
(* the loop. And about the login that the streams of several loops share,  *)
(* for any streams in any processes (CodexAuth).                           *)
(***************************************************************************)
EXTENDS AgentLoop, CodexAuth, SequenceTheorems, FiniteSetTheorems, TLAPS

-----------------------------------------------------------------------------
(* The guardrails, and their proofs, of this loop. *)

GP == INSTANCE Guardrails_proofs WITH Keys <- Calls, MaxRounds <- MaxTurns

\* Both instances of Guardrails are one.
LEMMA SameGuard ==
  /\ G!GuardStates = GP!GuardStates /\ G!Verdicts = GP!Verdicts
  /\ \A g, k, f : G!ObserveRound(g, k, f) = GP!ObserveRound(g, k, f)
<1>1. G!GuardStates = GP!GuardStates BY DEF G!GuardStates, GP!GuardStates
<1>2. G!Verdicts = GP!Verdicts BY DEF G!Verdicts, GP!Verdicts, G!Kinds, GP!Kinds
<1>3. \A g, k : G!TrackRepeat(g, k) = GP!TrackRepeat(g, k) BY DEF G!TrackRepeat, GP!TrackRepeat
<1>4. \A g, f : G!TrackMistakes(g, f) = GP!TrackMistakes(g, f)
  BY DEF G!TrackMistakes, GP!TrackMistakes
<1>5. \A g : G!Verdict(g) = GP!Verdict(g)
  BY DEF G!Verdict, GP!Verdict, G!Halt, G!Nudge, G!OK, GP!Halt, GP!Nudge, GP!OK,
         G!RepeatHalt, G!RepeatNudge, G!MistakeHalt, G!MistakeNudge, G!OrDefault,
         GP!RepeatHalt, GP!RepeatNudge, GP!MistakeHalt, GP!MistakeNudge, GP!OrDefault
<1>6. \A g, v : G!Remember(g, v) = GP!Remember(g, v)
  BY DEF G!Remember, GP!Remember, G!Nudge, GP!Nudge
<1> QED BY <1>1, <1>2, <1>3, <1>4, <1>5, <1>6 DEF G!ObserveRound, GP!ObserveRound, G!OK, GP!OK

\* observe keeps guardState well formed and answers with a verdict
\* (loop/guardrails.go).
LEMMA ObserveTyped ==
  ASSUME NEW g \in G!GuardStates, NEW key \in Calls \cup {Several}, NEW failed \in BOOLEAN
  PROVE  /\ G!ObserveRound(g, key, failed).guard \in G!GuardStates
         /\ G!ObserveRound(g, key, failed).verdict \in G!Verdicts
<1>1. g \in GP!GuardStates BY SameGuard
<1>2. /\ GP!ObserveRound(g, key, failed).guard \in GP!GuardStates
      /\ GP!ObserveRound(g, key, failed).verdict \in GP!Verdicts
  BY <1>1, GP!ObserveTyped, LoopAssumption
<1> QED BY <1>2, SameGuard

-----------------------------------------------------------------------------
(* Positions in a transcript. *)

\* A position of a set of positions is told by how many come before it.
LEMMA RankIsUnique ==
  ASSUME NEW R, IsFiniteSet(R), R \subseteq Nat, NEW k \in R, NEW m \in R,
         Cardinality({j \in R : j < k}) = Cardinality({j \in R : j < m})
  PROVE  k = m
<1>1. ASSUME NEW a \in R, NEW b \in R, a < b,
             Cardinality({j \in R : j < a}) = Cardinality({j \in R : j < b})
      PROVE  FALSE
  <2> DEFINE A == {j \in R : j < a}
             B == {j \in R : j < b}
  <2>1. IsFiniteSet(B) BY FS_Subset
  <2>2. A \in SUBSET B
    <3>1. \A j \in R : j < a => j < b BY <1>1
    <3> QED BY <3>1
  <2>3. B = A BY <1>1, <2>1, <2>2, FS_Subset
  <2>4. a \in B /\ a \notin A BY <1>1
  <2> QED BY <2>3, <2>4
<1>2. k < m \/ m < k \/ k = m OBVIOUS
<1> QED BY <1>1, <1>2

\* The positions of a transcript that satisfy a condition are finitely many.
LEMMA PositionsFinite ==
  ASSUME transcript \in Seq(Messages)
  PROVE  /\ DOMAIN transcript = 1 .. Len(transcript) /\ Len(transcript) \in Nat
         /\ Replies \subseteq 1 .. Len(transcript) /\ IsFiniteSet(Replies)
         /\ Continues \subseteq 1 .. Len(transcript) /\ IsFiniteSet(Continues)
         /\ Cardinality(Replies) \in Nat
<1>1. DOMAIN transcript = 1 .. Len(transcript) /\ Len(transcript) \in Nat BY LenProperties
<1>2. IsFiniteSet(1 .. Len(transcript)) BY <1>1, FS_Interval
<1>3. Replies \subseteq 1 .. Len(transcript) /\ Continues \subseteq 1 .. Len(transcript)
  BY <1>1 DEF Replies, Continues
<1> QED BY <1>1, <1>2, <1>3, FS_Subset, FS_CardinalityType

\* So they are after the step.
LEMMA NextPositionsFinite ==
  ASSUME transcript' \in Seq(Messages)
  PROVE  /\ DOMAIN transcript' = 1 .. Len(transcript') /\ Len(transcript') \in Nat
         /\ Replies' \subseteq 1 .. Len(transcript') /\ IsFiniteSet(Replies')
         /\ Continues' \subseteq 1 .. Len(transcript') /\ IsFiniteSet(Continues')
<1>1. DOMAIN transcript' = 1 .. Len(transcript') /\ Len(transcript') \in Nat BY LenProperties
<1>2. IsFiniteSet(1 .. Len(transcript')) BY <1>1, FS_Interval
<1>3. Replies' \subseteq 1 .. Len(transcript') /\ Continues' \subseteq 1 .. Len(transcript')
  BY <1>1 DEF Replies, Continues
<1> QED BY <1>1, <1>2, <1>3, FS_Subset

\* What every step of Run leaves of the messages appended so far: their roles, the
\* calls of the replies, and all of the others.
Alike(m, n) ==
  /\ m.role = n.role
  /\ IF m.role = "assistant" THEN m.calls = n.calls ELSE m = n

Preserved ==
  /\ transcript \in Seq(Messages) /\ transcript' \in Seq(Messages)
  /\ Len(transcript) <= Len(transcript')
  /\ \A k \in 1 .. Len(transcript) : Alike(transcript'[k], transcript[k])

\* The replies stay where they are, and new ones come after all messages.
LEMMA KeptReplies ==
  ASSUME Preserved
  PROVE  /\ Replies \subseteq Replies'
         /\ \A k \in Replies' : k \in Replies \/ k > Len(transcript)
         /\ \A k \in Replies : transcript'[k].calls = transcript[k].calls
<1>1. /\ DOMAIN transcript = 1 .. Len(transcript) /\ Len(transcript) \in Nat
      /\ DOMAIN transcript' = 1 .. Len(transcript') /\ Len(transcript') \in Nat
  BY PositionsFinite, NextPositionsFinite DEF Preserved
<1>2. 1 .. Len(transcript) \subseteq 1 .. Len(transcript') BY <1>1 DEF Preserved
<1>3. \A k \in 1 .. Len(transcript) : transcript'[k].role = transcript[k].role
  BY DEF Preserved, Alike
<1>4. \A k \in 1 .. Len(transcript') : k \in 1 .. Len(transcript) \/ k > Len(transcript)
  BY <1>1
<1>5. \A k \in Replies : transcript'[k].calls = transcript[k].calls
  BY <1>1 DEF Replies, Preserved, Alike
<1> QED BY <1>1, <1>2, <1>3, <1>4, <1>5 DEF Replies

\* An answered reply stays answered.
LEMMA KeptAnswers ==
  ASSUME Preserved, NEW k \in Replies, Answered(k)
  PROVE  Answered(k)'
<1>1. transcript'[k].calls = transcript[k].calls BY KeptReplies
<1>2. Len(transcript) \in Nat /\ Len(transcript') \in Nat /\ k \in Nat
  BY PositionsFinite, NextPositionsFinite DEF Preserved
<1> SUFFICES ASSUME NEW i \in DOMAIN transcript[k].calls
             PROVE  /\ k + i <= Len(transcript')
                    /\ transcript'[k + i].role = "tool"
                    /\ transcript'[k + i].pos = i
                    /\ transcript'[k + i].call = transcript[k].calls[i]
  BY <1>1 DEF Answered
<1>3. /\ k + i <= Len(transcript) /\ transcript[k + i].role = "tool"
      /\ transcript[k + i].pos = i /\ transcript[k + i].call = transcript[k].calls[i]
  BY DEF Answered
<1>4. i \in Nat \ {0}
  <2>1. transcript[k] \in Messages /\ transcript[k].role = "assistant"
    BY PositionsFinite, ElementOfSeq DEF Preserved, Replies
  <2>2. transcript[k].calls \in Seq(Calls) BY <2>1 DEF Messages
  <2>3. i \in 1 .. Len(transcript[k].calls) BY <2>2, LenProperties
  <2> QED BY <2>2, <2>3, LenProperties
<1>5. k + i \in 1 .. Len(transcript) BY <1>2, <1>3, <1>4
<1>6. transcript'[k + i] = transcript[k + i] BY <1>3, <1>5 DEF Preserved, Alike
<1>7. k + i <= Len(transcript') BY <1>2, <1>3, <1>4 DEF Preserved
<1> QED BY <1>3, <1>6, <1>7

\* As many replies come before a reply as before.
LEMMA KeptRanks ==
  ASSUME Preserved, NEW k \in Replies
  PROVE  {j \in Replies' : j < k} = {j \in Replies : j < k}
<1>1. Len(transcript) \in Nat /\ k \in 1 .. Len(transcript) /\ Replies' \subseteq Nat
  <2>1. Replies' \subseteq 1 .. Len(transcript') /\ Len(transcript') \in Nat
    BY NextPositionsFinite DEF Preserved
  <2> QED BY <2>1, PositionsFinite DEF Preserved
<1>2. ASSUME NEW j \in Replies', j < k PROVE j \in Replies
  BY <1>1, <1>2, KeptReplies
<1> QED BY <1>2, KeptReplies

\* The reply of a turn is the one that as many others precede.
LEMMA ReplyIsOf ==
  ASSUME transcript \in Seq(Messages), NEW k \in Replies, NEW t,
         t = Cardinality({j \in Replies : j < k})
  PROVE  ReplyOf(t) = k
<1> DEFINE m == CHOOSE m \in Replies : Cardinality({j \in Replies : j < m}) = t
<1>1. IsFiniteSet(Replies) /\ Replies \subseteq Nat BY PositionsFinite
<1>2. ASSUME NEW n \in Replies, Cardinality({j \in Replies : j < n}) = t PROVE n = k
  <2>1. Cardinality({j \in Replies : j < n}) = Cardinality({j \in Replies : j < k}) BY <1>2
  <2> QED BY <1>1, <2>1, RankIsUnique
<1>3. m \in Replies /\ Cardinality({j \in Replies : j < m}) = t OBVIOUS
<1>4. m = k BY <1>2, <1>3
<1> QED BY <1>4 DEF ReplyOf

\* So it is after the step.
LEMMA NextReplyIsOf ==
  ASSUME transcript' \in Seq(Messages), NEW k \in Replies', NEW t,
         t = Cardinality({j \in Replies' : j < k})
  PROVE  ReplyOf(t)' = k
<1> DEFINE m == CHOOSE m \in Replies' : Cardinality({j \in Replies' : j < m}) = t
<1>1. IsFiniteSet(Replies') /\ Replies' \subseteq Nat BY NextPositionsFinite
<1>2. ASSUME NEW n \in Replies', Cardinality({j \in Replies' : j < n}) = t PROVE n = k
  <2>1. Cardinality({j \in Replies' : j < n}) = Cardinality({j \in Replies' : j < k}) BY <1>2
  <2> QED BY <1>1, <2>1, RankIsUnique
<1>3. m \in Replies' /\ Cardinality({j \in Replies' : j < m}) = t OBVIOUS
<1>4. m = k BY <1>2, <1>3
<1> QED BY <1>4 DEF ReplyOf

\* The replies of the turns so far stay the replies of those turns.
LEMMA KeptReplyOf ==
  ASSUME Preserved, NEW t, ReplyOf(t) # 0
  PROVE  ReplyOf(t) \in Replies /\ ReplyOf(t)' = ReplyOf(t)
<1> DEFINE k == ReplyOf(t)
<1>1. k \in Replies /\ Cardinality({j \in Replies : j < k}) = t BY DEF ReplyOf
<1>2. k \in Replies' /\ Cardinality({j \in Replies' : j < k}) = t
  BY <1>1, KeptReplies, KeptRanks
<1> HIDE DEF k
<1>3. ReplyOf(t)' = k BY <1>2, NextReplyIsOf DEF Preserved
<1> QED BY <1>1, <1>3 DEF k

-----------------------------------------------------------------------------
(* What the steps of Run append. *)

\* What Run appends are messages.
LEMMA Appendable ==
  ASSUME TypeOK
  PROVE  /\ Reply(draft.calls, draft.stall) \in Messages
         /\ \A why \in {"continue", "repeat", "mistakes"} : UserNudge(why) \in Messages
         /\ \A i \in DOMAIN calls : ResultOf(i) \in Messages
<1>1. draft.calls \in Seq(Calls) /\ draft.stall \in BOOLEAN BY DEF TypeOK
<1>2. Reply(draft.calls, draft.stall) \in Messages BY <1>1 DEF Reply, Messages
<1>3. \A why \in {"continue", "repeat", "mistakes"} : UserNudge(why) \in Messages
  BY DEF UserNudge, Messages
<1>4. ASSUME NEW i \in DOMAIN calls PROVE ResultOf(i) \in Messages
  <2>1. calls \in Seq(Calls) /\ DOMAIN calls = 1 .. Len(calls) /\ Len(calls) <= MaxCalls
    BY LenProperties DEF TypeOK
  <2>2. calls[i] \in Calls BY <2>1, ElementOfSeq
  <2>3. i \in 1 .. MaxCalls BY <2>1, LenProperties, LoopAssumption
  <2> QED BY <2>2, <2>3 DEF ResultOf, Messages
<1> QED BY <1>2, <1>3, <1>4

\* Appending preserves.
LEMMA AppendPreserves ==
  ASSUME transcript \in Seq(Messages), transcript' \in Seq(Messages),
         Len(transcript) <= Len(transcript'),
         \A k \in 1 .. Len(transcript) : transcript'[k] = transcript[k]
  PROVE  Preserved
BY DEF Preserved, Alike

\* FinalReply and ToolReply append the reply,
LEMMA ReplyAdded ==
  ASSUME TypeOK, transcript' = Appended
  PROVE  /\ Preserved /\ Len(transcript') = Len(transcript) + 1
         /\ \A k \in 1 .. Len(transcript) : transcript'[k] = transcript[k]
         /\ transcript'[Len(transcript) + 1] = Reply(draft.calls, draft.stall)
<1>1. transcript \in Seq(Messages) /\ Len(transcript) \in Nat BY LenProperties DEF TypeOK
<1>2. /\ transcript' \in Seq(Messages) /\ Len(transcript') = Len(transcript) + 1
      /\ \A k \in 1 .. Len(transcript) : transcript'[k] = transcript[k]
      /\ transcript'[Len(transcript) + 1] = Reply(draft.calls, draft.stall)
  BY <1>1, Appendable, AppendProperties DEF Appended
<1> QED BY <1>1, <1>2, AppendPreserves

\* PleaseContinue a nudge after it,
LEMMA ContinueAdded ==
  ASSUME TypeOK, transcript' = Append(Appended, UserNudge("continue"))
  PROVE  /\ Preserved /\ Len(transcript') = Len(transcript) + 2
         /\ \A k \in 1 .. Len(transcript) : transcript'[k] = transcript[k]
         /\ transcript'[Len(transcript) + 1] = Reply(draft.calls, draft.stall)
         /\ transcript'[Len(transcript) + 2] = UserNudge("continue")
<1>1. transcript \in Seq(Messages) /\ Len(transcript) \in Nat BY LenProperties DEF TypeOK
<1>2. /\ Appended \in Seq(Messages) /\ Len(Appended) = Len(transcript) + 1
      /\ \A k \in 1 .. Len(transcript) : Appended[k] = transcript[k]
      /\ Appended[Len(transcript) + 1] = Reply(draft.calls, draft.stall)
  BY <1>1, Appendable, AppendProperties DEF Appended
<1>3. UserNudge("continue") \in Messages BY Appendable
<1>4. /\ transcript' \in Seq(Messages) /\ Len(transcript') = Len(Appended) + 1
      /\ \A k \in 1 .. Len(Appended) : transcript'[k] = Appended[k]
      /\ transcript'[Len(Appended) + 1] = UserNudge("continue")
  BY <1>2, <1>3, AppendProperties
<1>5. \A k \in 1 .. Len(transcript) : k \in 1 .. Len(Appended) BY <1>1, <1>2
<1>6. Len(transcript) + 1 \in 1 .. Len(Appended) BY <1>1, <1>2
<1>7. Len(Appended) + 1 = Len(transcript) + 2 BY <1>1, <1>2
<1>8. \A k \in 1 .. Len(transcript) : transcript'[k] = transcript[k] BY <1>2, <1>4, <1>5
<1> QED BY <1>1, <1>2, <1>4, <1>6, <1>7, <1>8, AppendPreserves

\* Intervals from 1 with the same elements end alike.
LEMMA SameLength ==
  ASSUME NEW m \in Nat, NEW n \in Nat, 1 .. m = 1 .. n
  PROVE  m = n
<1>1. ASSUME m < n PROVE FALSE
  <2>1. n \in 1 .. n /\ n \notin 1 .. m BY <1>1
  <2> QED BY <2>1
<1>2. ASSUME n < m PROVE FALSE
  <2>1. m \in 1 .. m /\ m \notin 1 .. n BY <1>2
  <2> QED BY <2>1
<1> QED BY <1>1, <1>2

\* EndRound the results in source order and the corrective message, if there is one,
LEMMA RoundAdded ==
  ASSUME TypeOK, NEW v \in G!Verdicts, transcript' = Extended(v)
  PROVE  /\ Preserved
         /\ Len(transcript') = Len(transcript) + Len(calls) + (IF v.action = "nudge" THEN 1 ELSE 0)
         /\ \A k \in 1 .. Len(transcript) : transcript'[k] = transcript[k]
         /\ \A i \in 1 .. Len(calls) : transcript'[Len(transcript) + i] = ResultOf(i)
         /\ v.action = "nudge" =>
              /\ v.kind \in {"repeat", "mistakes"}
              /\ transcript'[Len(transcript) + Len(calls) + 1] = UserNudge(v.kind)
<1> DEFINE results == [i \in DOMAIN calls |-> ResultOf(i)]
           nudge == IF v.action = "nudge" THEN <<UserNudge(v.kind)>> ELSE <<>>
           t == transcript \o results
<1>1. /\ transcript \in Seq(Messages) /\ Len(transcript) \in Nat
      /\ Len(calls) \in Nat /\ DOMAIN calls = 1 .. Len(calls)
  BY LenProperties DEF TypeOK
<1>2. results \in Seq(Messages) /\ Len(results) = Len(calls)
  <2>1. results \in [1 .. Len(calls) -> Messages] BY <1>1, Appendable
  <2>2. results \in Seq(Messages) BY <1>1, <2>1, SeqDef
  <2>3. DOMAIN results = 1 .. Len(results) /\ Len(results) \in Nat BY <2>2, LenProperties
  <2>4. DOMAIN results = 1 .. Len(calls) BY <1>1
  <2> HIDE DEF results
  <2> QED BY <1>1, <2>2, <2>3, <2>4, SameLength
<1>3. \A i \in 1 .. Len(calls) : results[i] = ResultOf(i) BY <1>1
<1>4. v.action = "nudge" => v.kind \in {"repeat", "mistakes"} BY DEF G!Verdicts, G!Kinds
<1>5. /\ nudge \in Seq(Messages) /\ Len(nudge) = IF v.action = "nudge" THEN 1 ELSE 0
      /\ v.action = "nudge" => nudge[1] = UserNudge(v.kind)
  <2>1. CASE v.action = "nudge"
    <3>1. UserNudge(v.kind) \in Messages BY <1>4, <2>1, Appendable
    <3> QED BY <2>1, <3>1
  <2>2. CASE v.action # "nudge" BY <2>2
  <2> QED BY <2>1, <2>2
<1>6. transcript' = t \o nudge BY DEF Extended
<1> HIDE DEF results, nudge
<1>7. /\ t \in Seq(Messages) /\ Len(t) = Len(transcript) + Len(calls)
      /\ \A k \in 1 .. Len(t) :
           t[k] = IF k <= Len(transcript) THEN transcript[k] ELSE results[k - Len(transcript)]
  <2>1. /\ t \in Seq(Messages) /\ Len(t) = Len(transcript) + Len(results)
        /\ \A k \in 1 .. Len(transcript) + Len(results) :
             t[k] = IF k <= Len(transcript) THEN transcript[k] ELSE results[k - Len(transcript)]
    BY <1>1, <1>2, ConcatProperties
  <2> QED BY <1>2, <2>1
<1>8. \A k \in 1 .. Len(transcript) : k \in 1 .. Len(t) /\ t[k] = transcript[k] BY <1>1, <1>7
<1>9. \A i \in 1 .. Len(calls) : /\ Len(transcript) + i \in 1 .. Len(t)
                                 /\ t[Len(transcript) + i] = ResultOf(i)
  BY <1>1, <1>3, <1>7
<1> HIDE DEF t
<1>10. /\ transcript' \in Seq(Messages) /\ Len(transcript') = Len(t) + Len(nudge)
       /\ \A k \in 1 .. Len(t) + Len(nudge) :
            transcript'[k] = IF k <= Len(t) THEN t[k] ELSE nudge[k - Len(t)]
  <2>1. /\ t \o nudge \in Seq(Messages) /\ Len(t \o nudge) = Len(t) + Len(nudge)
        /\ \A k \in 1 .. Len(t) + Len(nudge) :
             (t \o nudge)[k] = IF k <= Len(t) THEN t[k] ELSE nudge[k - Len(t)]
    <3>1. t \in Seq(Messages) /\ nudge \in Seq(Messages) BY <1>5, <1>7
    <3> QED BY <3>1, ConcatProperties
  <2> QED BY <1>6, <2>1
<1>11. Len(t) \in Nat /\ Len(nudge) \in Nat BY <1>1, <1>5, <1>7
<1>12. \A k \in 1 .. Len(t) : transcript'[k] = t[k] BY <1>10, <1>11
<1>13. v.action = "nudge" => transcript'[Len(t) + 1] = UserNudge(v.kind)
  BY <1>5, <1>10, <1>11
<1>14. Preserved BY <1>1, <1>5, <1>7, <1>8, <1>10, <1>11, <1>12, AppendPreserves
<1> QED BY <1>4, <1>5, <1>7, <1>8, <1>9, <1>10, <1>12, <1>13, <1>14

\* and TurnsExhausted tags a reply: the last one, which the code looks for from the end.
LEMMA LastReplyIsLast ==
  ASSUME TypeOK, ReplyInv, Replies # {}
  PROVE  LastReply \in Replies /\ \A j \in Replies : j <= LastReply
<1>1. PICK k \in Replies : \A j \in Replies : j <= k BY DEF ReplyInv
<1>2. Replies \subseteq Nat /\ DOMAIN transcript \subseteq Nat BY PositionsFinite DEF TypeOK
<1>3. /\ transcript[k].role = "assistant"
      /\ \A j \in DOMAIN transcript : j > k => transcript[j].role # "assistant"
  BY <1>1, <1>2 DEF Replies
<1>4. k \in DOMAIN transcript BY DEF Replies
<1>5. /\ LastReply \in DOMAIN transcript /\ transcript[LastReply].role = "assistant"
      /\ \A j \in DOMAIN transcript : j > LastReply => transcript[j].role # "assistant"
  BY <1>3, <1>4 DEF LastReply
<1> QED BY <1>2, <1>5 DEF Replies

\* All other messages stay as they are.
LEMMA LastIsTagged ==
  ASSUME TypeOK, ReplyInv, TurnsExhausted
  PROVE  /\ Preserved /\ Len(transcript') = Len(transcript)
         /\ LastReply \in Replies /\ \A j \in Replies : j <= LastReply
         /\ transcript'[LastReply].stop = "max_turns"
         /\ \A k \in 1 .. Len(transcript) : k # LastReply => transcript'[k] = transcript[k]
<1> DEFINE l == LastReply
           m == [transcript[l] EXCEPT !.stop = "max_turns"]
<1>1. turn \in Nat /\ MaxTurns \in Nat \ {0} BY LoopAssumption DEF TypeOK
<1>2. Replies # {}
  <2>1. Cardinality(Replies) = turn /\ turn # 0 BY <1>1 DEF ReplyInv, TurnsExhausted
  <2> QED BY <2>1, FS_EmptySet
<1>3. l \in Replies /\ \A j \in Replies : j <= l BY <1>2, LastReplyIsLast
<1>4. transcript \in Seq(Messages) /\ l \in 1 .. Len(transcript) /\ Len(transcript) \in Nat
  BY <1>3, PositionsFinite DEF TypeOK
<1>5. transcript[l] \in Messages /\ transcript[l].role = "assistant"
  BY <1>3, <1>4, ElementOfSeq DEF Replies
<1>6. transcript' = [transcript EXCEPT ![l] = m] BY DEF TurnsExhausted
<1> HIDE DEF l
<1>7. m \in Messages /\ m.role = "assistant" /\ m.calls = transcript[l].calls /\ m.stop = "max_turns"
  BY <1>5 DEF Messages
<1> HIDE DEF m
<1>8. /\ transcript' \in Seq(Messages) /\ Len(transcript') = Len(transcript)
      /\ \A j \in 1 .. Len(transcript) : transcript'[j] = IF j = l THEN m ELSE transcript[j]
  BY <1>4, <1>6, <1>7, ExceptSeq
<1>9. \A k \in 1 .. Len(transcript) : Alike(transcript'[k], transcript[k])
  BY <1>5, <1>7, <1>8 DEF Alike
<1>10. Preserved BY <1>4, <1>8, <1>9 DEF Preserved
<1> QED BY <1>3, <1>4, <1>7, <1>8, <1>10 DEF l

\* The guardrails answer every round with a verdict.
LEMMA ObservedTyped ==
  ASSUME TypeOK
  PROVE  Observed.guard \in G!GuardStates /\ Observed.verdict \in G!Verdicts
         /\ RoundKey \in Calls \cup {Several} /\ RoundFailed \in BOOLEAN
<1>1. RoundKey \in Calls \cup {Several}
  <2>1. CASE Len(calls) = 1
    <3>1. calls \in Seq(Calls) /\ 1 \in 1 .. Len(calls) BY <2>1 DEF TypeOK
    <3> QED BY <2>1, <3>1, ElementOfSeq DEF RoundKey
  <2>2. CASE Len(calls) # 1 BY <2>2 DEF RoundKey
  <2> QED BY <2>1, <2>2
<1>2. RoundFailed \in BOOLEAN BY DEF RoundFailed
<1>3. guard \in G!GuardStates BY DEF TypeOK
<1> QED BY <1>1, <1>2, <1>3, ObserveTyped DEF Observed

\* No step rewrites the transcript: it appends, and tags at the very end.
LEMMA TranscriptStep ==
  ASSUME TypeOK, ReplyInv, [Next]_vars
  PROVE  Preserved
<1>1. ASSUME UNCHANGED transcript PROVE Preserved
  <2>1. Len(transcript) \in Nat BY LenProperties DEF TypeOK
  <2> QED BY <1>1, <2>1 DEF TypeOK, Preserved, Alike
<1>2. CASE TurnsExhausted BY <1>2, LastIsTagged
<1>3. CASE FinalReply \/ ToolReply BY <1>3, ReplyAdded DEF FinalReply, ToolReply
<1>4. CASE PleaseContinue BY <1>4, ContinueAdded DEF PleaseContinue
<1>5. CASE EndRound BY <1>5, RoundAdded, ObservedTyped DEF EndRound
<1>6. CASE BeginTurn \/ OpenStream \/ Stream BY <1>1, <1>6
  DEF BeginTurn, OpenStream, Stream, StreamStart, StreamDone, StreamError, StreamClose,
      StreamCancelled, StreamToolCall, StreamRest
<1>7. CASE Cancel \/ GiveUp \/ BackOff \/ Retry \/ BackOffCancelled \/ RoundAborts BY <1>1, <1>7
  DEF Cancel, GiveUp, BackOff, Retry, BackOffCancelled, RetryRest, RoundAborts
<1>8. ASSUME NEW i \in DOMAIN calls, Tool(i) PROVE Preserved BY <1>1, <1>8
  DEF Tool, ToolStart, ToolInvalid, PreTool, ToolAllowed, ToolDenied, ToolExecuted, ToolRest
<1>9. CASE UNCHANGED vars BY <1>1, <1>9 DEF vars
<1> QED BY <1>2, <1>3, <1>4, <1>5, <1>6, <1>7, <1>8, <1>9 DEF Next, Finished

-----------------------------------------------------------------------------
(* Control and types. *)

\* Actions of a provider attempt and what becomes of it leave the rounds alone.
LEMMA ControlStep ==
  ASSUME TypeOK, ControlInv, [Next]_vars
  PROVE  ControlInv'
<1> USE DEF ControlInv
<1>1. CASE Cancel BY <1>1 DEF Cancel, streamVars, roundVars
<1>2. CASE TurnsExhausted BY <1>2 DEF TurnsExhausted, Return, streamVars, roundVars
<1>3. CASE BeginTurn BY <1>3 DEF BeginTurn, Return, roundVars
<1>4. CASE OpenStream BY <1>4 DEF OpenStream, AttemptFails, NoDraft, roundVars
<1>5. CASE StreamStart BY <1>5 DEF StreamStart, StreamRest, roundVars, TypeOK
<1>6. ASSUME NEW c \in Calls, StreamToolCall(c) PROVE ControlInv'
  BY <1>6 DEF StreamToolCall, StreamRest, roundVars, TypeOK
<1>7. CASE StreamDone BY <1>7 DEF StreamDone, StreamRest, roundVars
<1>8. CASE StreamError \/ StreamClose \/ StreamCancelled
  BY <1>8 DEF StreamError, StreamClose, StreamCancelled, AttemptFails, StreamRest, roundVars
<1>9. CASE GiveUp BY <1>9 DEF GiveUp, Return, RetryRest, roundVars
<1>10. CASE BackOff BY <1>10 DEF BackOff, RetryRest, roundVars
<1>11. CASE Retry BY <1>11 DEF Retry, RetryRest, roundVars
<1>12. CASE BackOffCancelled BY <1>12 DEF BackOffCancelled, Return, RetryRest, roundVars
<1>13. CASE FinalReply BY <1>13 DEF FinalReply, streamVars, roundVars
<1>14. CASE PleaseContinue BY <1>14 DEF PleaseContinue, streamVars, roundVars
<1>15. CASE ToolReply BY <1>15 DEF ToolReply, Return, streamVars, roundVars
<1>16. ASSUME NEW i \in DOMAIN calls, Tool(i) PROVE ControlInv'
  BY <1>16 DEF Tool, ToolStart, ToolInvalid, PreTool, ToolAllowed, ToolDenied, ToolExecuted, ToolRest,
               streamVars
<1>17. CASE RoundAborts BY <1>17 DEF RoundAborts, Return, streamVars, roundVars
<1>18. CASE EndRound
  <2>1. Observed.verdict.kind \in {"none", "repeat", "mistakes"}
    BY ObservedTyped DEF G!Verdicts, G!Kinds
  <2> QED BY <1>18, <2>1 DEF EndRound, streamVars
<1>19. CASE UNCHANGED vars BY <1>19 DEF vars, streamVars, roundVars
<1> QED BY <1>1, <1>2, <1>3, <1>4, <1>5, <1>6, <1>7, <1>8, <1>9, <1>10, <1>11, <1>12, <1>13, <1>14,
           <1>15, <1>16, <1>17, <1>18, <1>19 DEF Next, Stream, Finished

\* The types in three parts: the round, the control and the rest.
RoundTypes ==
  /\ calls \in Seq(Calls) /\ Len(calls) <= MaxCalls
  /\ status \in [DOMAIN calls -> {"idle", "started", "asked", "executing", "finished"}]
  /\ result \in [DOMAIN calls -> {"none", "ok", "error", "abort"}]

ControlTypes ==
  /\ pc \in {"turn", "attempt", "stream", "failed", "backoff", "reply", "tools", "done"}
  /\ cancelled \in BOOLEAN /\ parallel \in Modes /\ outcome \in Outcomes
  /\ turn \in 0 .. MaxTurns /\ attempt \in 0 .. MaxRetries
  /\ autoContinues \in 0 .. MaxAutoContinues
  /\ err \in Errors \cup {"canceled"}

DataTypes ==
  /\ draft \in [started : BOOLEAN, done : BOOLEAN, calls : Seq(Calls), stall : BOOLEAN]
  /\ Len(draft.calls) <= MaxCalls
  /\ transcript \in Seq(Messages)
  /\ guard \in G!GuardStates
  /\ ui \in [loop : BOOLEAN, turn : BOOLEAN, message : BOOLEAN, tools : 0 .. MaxCalls]
  /\ effects \subseteq (0 .. MaxTurns) \X (1 .. MaxCalls)
  /\ approved \subseteq (0 .. MaxTurns) \X (1 .. MaxCalls)

LEMMA TypeParts == /\ TypeOK <=> RoundTypes /\ ControlTypes /\ DataTypes
                   /\ TypeOK' <=> RoundTypes' /\ ControlTypes' /\ DataTypes'
<1>1. TypeOK <=> RoundTypes /\ ControlTypes /\ DataTypes
  BY Zenon DEF TypeOK, RoundTypes, ControlTypes, DataTypes
<1>2. TypeOK' <=> RoundTypes' /\ ControlTypes' /\ DataTypes'
  BY Zenon DEF TypeOK, RoundTypes, ControlTypes, DataTypes
<1> QED BY <1>1, <1>2

LEMMA RoundKept ==
  ASSUME TypeOK, UNCHANGED roundVars
  PROVE  RoundTypes'
<1>1. RoundTypes BY TypeParts
<1>2. calls' = calls /\ status' = status /\ result' = result /\ DOMAIN calls' = DOMAIN calls BY DEF roundVars
<1> QED BY <1>1, <1>2, Zenon DEF RoundTypes

\* Every step keeps the types: a turn begins within MaxTurns, a retry within
\* MaxRetries, and the tools an observer sees are those of the round.
LEMMA TypeStep ==
  ASSUME TypeOK, ControlInv, ReplyInv, RoundInv, ObserverInv, [Next]_vars
  PROVE  TypeOK'
<1> USE LoopAssumption DEF Errors, Outcomes
<1>1. transcript' \in Seq(Messages) BY TranscriptStep DEF Preserved
<1>2. CASE Cancel
  <2>1. RoundTypes' BY <1>2, RoundKept DEF Cancel
  <2>2. ControlTypes' BY <1>2, TypeParts DEF Cancel, streamVars, history, ControlTypes
  <2>3. DataTypes' BY <1>2, TypeParts DEF Cancel, streamVars, guardVars, history, DataTypes
  <2> QED BY <2>1, <2>2, <2>3, TypeParts
<1>3. CASE TurnsExhausted
  <2>1. RoundTypes' BY <1>1, <1>3, RoundKept DEF TurnsExhausted
  <2>2. ControlTypes' BY <1>1, <1>3, TypeParts DEF TurnsExhausted, Return, streamVars, history, ControlTypes
  <2>3. DataTypes' BY <1>1, <1>3, TypeParts DEF TurnsExhausted, Return, streamVars, guardVars, history, DataTypes
  <2> QED BY <2>1, <2>2, <2>3, TypeParts
<1>4. CASE BeginTurn
  <2>1. attempt' \in 0 .. MaxRetries /\ pc' \in {"done", "attempt"}
    BY <1>4 DEF BeginTurn, Return, TypeOK
  <2>2. /\ ui' \in [loop : BOOLEAN, turn : BOOLEAN, message : BOOLEAN, tools : 0 .. MaxCalls]
        /\ outcome' \in Outcomes
    <3>1. \/ outcome' = "canceled" /\ ui' = [ui EXCEPT !.loop = FALSE]
          \/ outcome' = outcome /\ ui' = [ui EXCEPT !.turn = TRUE]
      BY <1>4 DEF BeginTurn, Return
    <3>2. /\ ui \in [loop : BOOLEAN, turn : BOOLEAN, message : BOOLEAN, tools : 0 .. MaxCalls]
          /\ outcome \in Outcomes
      BY DEF TypeOK
    <3> QED BY <3>1, <3>2
  <2>3. RoundTypes' BY <1>4, RoundKept DEF BeginTurn
  <2>4. ControlTypes' BY <1>4, <2>1, <2>2, TypeParts DEF BeginTurn, history, ControlTypes
  <2>5. DataTypes' BY <1>4, <2>1, <2>2, TypeParts DEF BeginTurn, guardVars, history, DataTypes
  <2> QED BY <2>3, <2>4, <2>5, TypeParts
<1>5. CASE OpenStream
  <2>1. draft' = NoDraft /\ NoDraft.calls = <<>> /\ Len(<<>>) <= MaxCalls
    BY <1>5, EmptySeq DEF OpenStream, NoDraft
  <2>2. NoDraft \in [started : BOOLEAN, done : BOOLEAN, calls : Seq(Calls), stall : BOOLEAN]
    BY EmptySeq DEF NoDraft
  <2>3. pc' \in {"stream", "failed"} /\ err' \in Errors \cup {"canceled"}
    BY <1>5 DEF OpenStream, AttemptFails, TypeOK
  <2>4. RoundTypes' BY <1>5, RoundKept DEF OpenStream
  <2>5. ControlTypes' BY <1>5, <2>3, TypeParts DEF OpenStream, ControlTypes, history
  <2>6. DataTypes' BY <1>5, <2>1, <2>2, TypeParts DEF OpenStream, DataTypes, guardVars, history
  <2> QED BY <2>4, <2>5, <2>6, TypeParts
<1>6. CASE StreamStart
  <2>1. RoundTypes' BY <1>6, RoundKept DEF StreamStart, StreamRest
  <2>2. ControlTypes' BY <1>6, TypeParts DEF StreamStart, StreamRest, history, ControlTypes
  <2>3. DataTypes' BY <1>6, TypeParts DEF StreamStart, StreamRest, guardVars, history, DataTypes
  <2> QED BY <2>1, <2>2, <2>3, TypeParts
<1>7. ASSUME NEW c \in Calls, StreamToolCall(c) PROVE TypeOK'
  <2>1. draft.calls \in Seq(Calls) /\ Len(draft.calls) < MaxCalls /\ Len(draft.calls) \in Nat
    BY <1>7, LenProperties DEF StreamToolCall, TypeOK
  <2>2. Append(draft.calls, c) \in Seq(Calls) /\ Len(Append(draft.calls, c)) <= MaxCalls
    BY <2>1, AppendProperties
  <2>3. RoundTypes' BY <1>7, RoundKept DEF StreamToolCall, StreamRest
  <2>4. ControlTypes' BY <1>7, TypeParts DEF StreamToolCall, StreamRest, history, ControlTypes
  <2>5. DataTypes' BY <1>7, <2>2, TypeParts DEF StreamToolCall, StreamRest, guardVars, history, DataTypes
  <2> QED BY <2>3, <2>4, <2>5, TypeParts
<1>8. CASE StreamDone
  <2>1. PICK cs \in {draft.calls, <<>>} \cup {<<c>> : c \in Calls}, stall \in BOOLEAN :
          draft' = [started |-> TRUE, done |-> TRUE, calls |-> cs, stall |-> stall]
    BY <1>8 DEF StreamDone
  <2>2. cs \in Seq(Calls) /\ Len(cs) <= MaxCalls
    <3>1. CASE cs = draft.calls BY <3>1 DEF TypeOK
    <3>2. CASE cs = <<>> BY <3>2, EmptySeq
    <3>3. ASSUME NEW c \in Calls, cs = <<c>> PROVE cs \in Seq(Calls) /\ Len(cs) <= MaxCalls
      BY <3>3
    <3> QED BY <3>1, <3>2, <3>3
  <2>3. /\ draft' \in [started : BOOLEAN, done : BOOLEAN, calls : Seq(Calls), stall : BOOLEAN]
        /\ Len(draft'.calls) <= MaxCalls
    BY <2>1, <2>2
  <2>4. ui' \in [loop : BOOLEAN, turn : BOOLEAN, message : BOOLEAN, tools : 0 .. MaxCalls]
    BY <1>8 DEF StreamDone, TypeOK
  <2>5. UNCHANGED <<pc, err>> /\ StreamRest BY <1>8 DEF StreamDone
  <2>6. RoundTypes' BY <2>5, RoundKept DEF StreamRest
  <2>7. ControlTypes' BY <2>5, TypeParts DEF StreamRest, ControlTypes, history
  <2>8. DataTypes' BY <2>3, <2>4, <2>5, TypeParts DEF StreamRest, DataTypes, guardVars, history
  <2> QED BY <2>6, <2>7, <2>8, TypeParts
<1>9. CASE StreamError \/ StreamClose \/ StreamCancelled
  <2>1. UNCHANGED <<draft, ui>> /\ StreamRest BY <1>9 DEF StreamError, StreamClose, StreamCancelled
  <2>2. /\ pc' \in {"failed", "reply"}
        /\ err' \in Errors \cup {"canceled"}
    BY <1>9 DEF StreamError, StreamClose, StreamCancelled, AttemptFails, TypeOK
  <2>3. RoundTypes' BY <2>1, RoundKept DEF StreamRest
  <2>4. ControlTypes' BY <2>1, <2>2, TypeParts DEF StreamRest, ControlTypes, history
  <2>5. DataTypes' BY <2>1, TypeParts DEF StreamRest, DataTypes, guardVars, history
  <2> QED BY <2>3, <2>4, <2>5, TypeParts
<1>10. CASE GiveUp \/ BackOff \/ BackOffCancelled
  <2>1. UNCHANGED <<cancelled, turn, attempt, autoContinues, draft, err, roundVars, transcript,
                    guardVars, history>>
    BY <1>10 DEF GiveUp, BackOff, BackOffCancelled, RetryRest
  <2>2. \/ pc' = "backoff" /\ UNCHANGED <<ui, outcome>>
        \/ \E why \in Outcomes : Return(why)
    BY <1>10 DEF GiveUp, BackOff, BackOffCancelled
  <2>3. pc' \in {"backoff", "done"} /\ outcome' \in Outcomes
    BY <2>2 DEF Return, TypeOK
  <2>4. ui' \in [loop : BOOLEAN, turn : BOOLEAN, message : BOOLEAN, tools : 0 .. MaxCalls]
    BY <2>2 DEF Return, TypeOK
  <2>5. RoundTypes' BY <2>1, RoundKept
  <2>6. ControlTypes' BY <2>1, <2>3, TypeParts DEF ControlTypes, history
  <2>7. DataTypes' BY <2>1, <2>4, TypeParts DEF DataTypes, guardVars, history
  <2> QED BY <2>5, <2>6, <2>7, TypeParts
<1>11. CASE Retry
  <2>1. RoundTypes' BY <1>11, RoundKept DEF Retry, RetryRest
  <2>2. attempt' \in 0 .. MaxRetries
    <3>1. attempt < MaxRetries /\ attempt' = attempt + 1 BY <1>11 DEF Retry, ControlInv
    <3>2. attempt \in 0 .. MaxRetries BY DEF TypeOK
    <3> QED BY <3>1, <3>2
  <2>3. ControlTypes' BY <1>11, <2>2, TypeParts DEF Retry, RetryRest, ControlTypes, history
  <2>4. DataTypes' BY <1>11, TypeParts DEF Retry, RetryRest, DataTypes, guardVars, history
  <2> QED BY <2>1, <2>3, <2>4, TypeParts
<1>12. CASE FinalReply
  <2>1. RoundTypes' BY <1>1, <1>12, RoundKept DEF FinalReply
  <2>2. ControlTypes' BY <1>1, <1>12, TypeParts DEF FinalReply, streamVars, history, ControlTypes
  <2>3. DataTypes' BY <1>1, <1>12, TypeParts DEF FinalReply, streamVars, guardVars, history, DataTypes
  <2> QED BY <2>1, <2>2, <2>3, TypeParts
<1>13. CASE PleaseContinue
  <2>1. autoContinues' \in 0 .. MaxAutoContinues
    <3>1. autoContinues < MaxAutoContinues /\ autoContinues' = autoContinues + 1
      BY <1>13 DEF PleaseContinue, Stalled
    <3>2. autoContinues \in 0 .. MaxAutoContinues BY DEF TypeOK
    <3> QED BY <3>1, <3>2
  <2>2. turn' \in 0 .. MaxTurns
    <3>1. turn < MaxTurns /\ turn' = turn + 1 BY <1>13 DEF PleaseContinue, ControlInv
    <3>2. turn \in 0 .. MaxTurns BY DEF TypeOK
    <3> QED BY <3>1, <3>2
  <2>3. ui' \in [loop : BOOLEAN, turn : BOOLEAN, message : BOOLEAN, tools : 0 .. MaxCalls]
    BY <1>13 DEF PleaseContinue, TypeOK
  <2>4. RoundTypes' BY <1>13, RoundKept DEF PleaseContinue
  <2>5. ControlTypes' BY <1>13, <2>1, <2>2, TypeParts DEF PleaseContinue, ControlTypes, streamVars, history
  <2>6. DataTypes' BY <1>1, <1>13, <2>3, TypeParts DEF PleaseContinue, DataTypes, streamVars, guardVars, history
  <2> QED BY <2>4, <2>5, <2>6, TypeParts
<1>14. CASE ToolReply
  <2>1. draft.calls \in Seq(Calls) /\ Len(draft.calls) <= MaxCalls BY DEF TypeOK
  <2>2. /\ calls' \in Seq(Calls) /\ Len(calls') <= MaxCalls
        /\ status' \in [DOMAIN calls' -> {"idle", "started", "asked", "executing", "finished"}]
        /\ result' \in [DOMAIN calls' -> {"none", "ok", "error", "abort"}]
    <3>1. CASE cancelled BY <1>14, <3>1 DEF ToolReply, TypeOK, roundVars
    <3>2. CASE ~cancelled BY <1>14, <2>1, <3>2 DEF ToolReply
    <3> QED BY <3>1, <3>2
  <2>3. /\ ui' \in [loop : BOOLEAN, turn : BOOLEAN, message : BOOLEAN, tools : 0 .. MaxCalls]
        /\ pc' \in {"tools", "done"} /\ outcome' \in Outcomes
    BY <1>14 DEF ToolReply, Return, TypeOK
  <2>4. RoundTypes' BY <2>2 DEF RoundTypes
  <2>5. ControlTypes' BY <1>14, <2>3, TypeParts DEF ToolReply, ControlTypes, streamVars, history
  <2>6. DataTypes' BY <1>1, <1>14, <2>3, TypeParts DEF ToolReply, DataTypes, streamVars, guardVars, history
  <2> QED BY <2>4, <2>5, <2>6, TypeParts
<1>15. ASSUME NEW i \in DOMAIN calls, Tool(i) PROVE TypeOK'
  <2>1. i \in 1 .. MaxCalls /\ i \in 1 .. Len(calls) /\ Len(calls) <= MaxCalls /\ Len(calls) \in Nat
    <3>1. DOMAIN calls = 1 .. Len(calls) /\ Len(calls) \in Nat /\ Len(calls) <= MaxCalls
      BY LenProperties DEF TypeOK
    <3> QED BY <3>1
  <2>2. pc = "tools" BY <1>15
    DEF Tool, ToolStart, ToolInvalid, PreTool, ToolAllowed, ToolDenied, ToolExecuted
  <2>3. UNCHANGED <<pc, cancelled, turn, autoContinues, streamVars, calls, transcript, guardVars,
                    outcome, parallel>>
    BY <1>15 DEF Tool, ToolStart, ToolInvalid, PreTool, ToolAllowed, ToolDenied, ToolExecuted,
                 ToolRest, history
  <2>4. \A r \in {"ok", "error", "abort"} :
          Finish(i, r) => /\ status' \in [DOMAIN calls -> {"idle", "started", "asked", "executing", "finished"}]
                          /\ result' \in [DOMAIN calls -> {"none", "ok", "error", "abort"}]
    BY DEF Finish, TypeOK
  <2>5. /\ status' \in [DOMAIN calls -> {"idle", "started", "asked", "executing", "finished"}]
        /\ result' \in [DOMAIN calls -> {"none", "ok", "error", "abort"}]
    <3>1. CASE ToolStart(i) \/ ToolAllowed(i) BY <3>1 DEF ToolStart, ToolAllowed, TypeOK
    <3>2. CASE ToolInvalid(i) \/ ToolDenied(i) \/ ToolExecuted(i)
      BY <2>4, <3>2 DEF ToolInvalid, ToolDenied, ToolExecuted
    <3>3. CASE PreTool(i)
      <4>1. CASE \E r \in {"error", "abort"} : Finish(i, r) BY <2>4, <4>1
      <4>2. CASE /\ status' = [status EXCEPT ![i] = IF NeedsDecision(i) THEN "asked" ELSE "executing"]
                 /\ UNCHANGED result
        BY <4>2 DEF TypeOK
      <4> QED BY <3>3, <4>1, <4>2 DEF PreTool
    <3> QED BY <1>15, <3>1, <3>2, <3>3 DEF Tool
  <2>6. <<turn, i>> \in (0 .. MaxTurns) \X (1 .. MaxCalls) BY <2>1 DEF TypeOK
  <2>7. /\ effects' \subseteq (0 .. MaxTurns) \X (1 .. MaxCalls)
        /\ approved' \subseteq (0 .. MaxTurns) \X (1 .. MaxCalls)
    BY <1>15, <2>6 DEF Tool, ToolStart, ToolInvalid, PreTool, ToolAllowed, ToolDenied, ToolExecuted,
                       history, TypeOK
  <2>8. ui' \in [loop : BOOLEAN, turn : BOOLEAN, message : BOOLEAN, tools : 0 .. MaxCalls]
    <3>1. CASE ToolStart(i)
      <4>1. status[i] = "idle" BY <3>1 DEF ToolStart
      <4>2. ui.tools < i BY <2>1, <2>2, <4>1 DEF RoundInv, TypeOK
      <4>3. ui.tools + 1 \in 0 .. MaxCalls
        <5>1. ui.tools \in 0 .. MaxCalls BY DEF TypeOK
        <5> QED BY <2>1, <4>2, <5>1
      <4> QED BY <3>1, <4>3 DEF ToolStart, TypeOK
    <3>2. CASE ~ToolStart(i)
      BY <1>15, <3>2 DEF Tool, ToolInvalid, PreTool, ToolAllowed, ToolDenied, ToolExecuted, TypeOK
    <3> QED BY <3>1, <3>2
  <2>9. calls' = calls /\ DOMAIN calls' = DOMAIN calls BY <2>3
  <2>10. UNCHANGED <<pc, cancelled, turn, autoContinues, attempt, draft, err, transcript, guard, outcome,
                     parallel>>
    BY <2>3 DEF streamVars, guardVars
  <2>11. /\ status' \in [DOMAIN calls' -> {"idle", "started", "asked", "executing", "finished"}]
         /\ result' \in [DOMAIN calls' -> {"none", "ok", "error", "abort"}]
    BY <2>5, <2>9
  <2>12. RoundTypes'
    <3>1. calls' \in Seq(Calls) /\ Len(calls') <= MaxCalls BY <2>9 DEF TypeOK
    <3> QED BY <2>11, <3>1 DEF RoundTypes
  <2>13. ControlTypes' BY <2>10, TypeParts DEF ControlTypes
  <2>14. DataTypes' BY <2>7, <2>8, <2>10, TypeParts DEF DataTypes
  <2> QED BY <2>12, <2>13, <2>14, TypeParts
<1>16. CASE RoundAborts
  <2>1. ui' \in [loop : BOOLEAN, turn : BOOLEAN, message : BOOLEAN, tools : 0 .. MaxCalls]
    <3>1. CASE parallel /\ AllFinished /\ ~cancelled /\ Aborted
      <4>1. PICK i \in DOMAIN calls : ui' = [ui EXCEPT !.tools = @ - (i - 1), !.loop = FALSE]
        BY <1>16, <3>1 DEF RoundAborts
      <4>2. i \in Nat \ {0} /\ i \in DOMAIN calls
        BY LenProperties DEF TypeOK
      <4>3. status[i] = "finished" BY <3>1 DEF AllFinished
      <4>4. i <= ui.tools BY <1>16, <4>3 DEF RoundInv, RoundAborts
      <4>5. ui.tools - (i - 1) \in 0 .. MaxCalls
        <5>1. ui.tools \in 0 .. MaxCalls BY DEF TypeOK
        <5> QED BY <4>2, <4>4, <5>1
      <4> QED BY <4>1, <4>5 DEF TypeOK
    <3>2. CASE ~(parallel /\ AllFinished /\ ~cancelled /\ Aborted)
      BY <1>16, <3>2 DEF RoundAborts, Return, TypeOK
    <3> QED BY <3>1, <3>2
  <2>2. RoundTypes' BY <1>16, RoundKept DEF RoundAborts
  <2>3. ControlTypes' BY <1>16, TypeParts DEF RoundAborts, Return, ControlTypes, streamVars, history
  <2>4. DataTypes' BY <1>16, <2>1, TypeParts DEF RoundAborts, DataTypes, streamVars, guardVars, history
  <2> QED BY <2>2, <2>3, <2>4, TypeParts
<1>17. CASE EndRound
  <2>1. Observed.guard \in G!GuardStates /\ Observed.verdict \in G!Verdicts BY ObservedTyped
  <2>2. ToolsLeftOpen = 0
    <3>1. Len(calls) \in Nat /\ DOMAIN calls = 1 .. Len(calls) BY LenProperties DEF TypeOK
    <3>2. Len(calls) # 0 => Len(calls) <= ui.tools
      <4>1. Len(calls) # 0 => Len(calls) \in DOMAIN calls BY <3>1
      <4> QED BY <1>17, <4>1 DEF EndRound, AllFinished, RoundInv
    <3>3. ui.tools \in Nat /\ ui.tools <= Len(calls) BY <1>17 DEF EndRound, RoundInv, TypeOK
    <3> QED BY <3>1, <3>2, <3>3 DEF ToolsLeftOpen
  <2>3. /\ calls' \in Seq(Calls) /\ Len(calls') <= MaxCalls
        /\ status' \in [DOMAIN calls' -> {"idle", "started", "asked", "executing", "finished"}]
        /\ result' \in [DOMAIN calls' -> {"none", "ok", "error", "abort"}]
    <3>1. calls' = <<>> /\ status' = <<>> /\ result' = <<>> BY <1>17 DEF EndRound
    <3>2. \A S : <<>> \in [DOMAIN <<>> -> S] OBVIOUS
    <3> QED BY <3>1, <3>2, EmptySeq
  <2>4. ui' \in [loop : BOOLEAN, turn : BOOLEAN, message : BOOLEAN, tools : 0 .. MaxCalls]
    <3>1. 0 \in 0 .. MaxCalls OBVIOUS
    <3>2. \/ ui' = [ui EXCEPT !.tools = 0, !.loop = FALSE]
          \/ ui' = [ui EXCEPT !.tools = 0, !.turn = FALSE]
      BY <1>17, <2>2 DEF EndRound
    <3>3. ui \in [loop : BOOLEAN, turn : BOOLEAN, message : BOOLEAN, tools : 0 .. MaxCalls]
      BY DEF TypeOK
    <3>4. CASE ui' = [ui EXCEPT !.tools = 0, !.loop = FALSE] BY <3>1, <3>3, <3>4
    <3>5. CASE ui' = [ui EXCEPT !.tools = 0, !.turn = FALSE] BY <3>1, <3>3, <3>5
    <3> QED BY <3>2, <3>4, <3>5
  <2>5. turn' \in 0 .. MaxTurns
    <3>1. turn < MaxTurns /\ (turn' = turn \/ turn' = turn + 1) BY <1>17 DEF EndRound, ControlInv
    <3>2. turn \in 0 .. MaxTurns BY DEF TypeOK
    <3> QED BY <3>1, <3>2
  <2>6. Observed.verdict.action = "halt" => Observed.verdict.kind \in {"repeat", "mistakes"}
    BY <2>1 DEF G!Verdicts, G!Kinds
  <2>7. guard' \in G!GuardStates BY <1>17, <2>1 DEF EndRound
  <2>8. /\ pc' \in {"turn", "attempt", "stream", "failed", "backoff", "reply", "tools", "done"}
        /\ outcome' \in Outcomes
    BY <1>17, <2>6 DEF EndRound, TypeOK
  <2>9. RoundTypes' BY <2>3 DEF RoundTypes
  <2>10. ControlTypes' BY <1>17, <2>5, <2>8, TypeParts DEF EndRound, ControlTypes, streamVars, history
  <2>11. DataTypes' BY <1>1, <1>17, <2>4, <2>7, TypeParts DEF EndRound, DataTypes, streamVars, history
  <2> QED BY <2>9, <2>10, <2>11, TypeParts
<1>18. CASE UNCHANGED vars
  <2>1. RoundTypes' BY <1>18, RoundKept DEF vars
  <2>2. ControlTypes' BY <1>18, TypeParts DEF vars, streamVars, history, ControlTypes
  <2>3. DataTypes' BY <1>18, TypeParts DEF vars, streamVars, guardVars, history, DataTypes
  <2> QED BY <2>1, <2>2, <2>3, TypeParts
<1> QED BY <1>2, <1>3, <1>4, <1>5, <1>6, <1>7, <1>8, <1>9, <1>10, <1>11, <1>12, <1>13, <1>14, <1>15,
           <1>16, <1>17, <1>18 DEF Next, Stream, Finished

-----------------------------------------------------------------------------
(* Replies and results. *)

\* Appending a reply adds it to the replies, as the last of them.
LEMMA OneReplyMore ==
  ASSUME Preserved, Len(transcript) < Len(transcript'),
         transcript'[Len(transcript) + 1].role = "assistant",
         \A k \in Len(transcript) + 2 .. Len(transcript') : transcript'[k].role # "assistant"
  PROVE  /\ Replies' = Replies \cup {Len(transcript) + 1}
         /\ Cardinality(Replies') = Cardinality(Replies) + 1
         /\ Cardinality(Replies) \in Nat
         /\ \A k \in Replies : k < Len(transcript) + 1
<1> DEFINE n == Len(transcript) + 1
<1>1. /\ Len(transcript) \in Nat /\ Replies \subseteq 1 .. Len(transcript) /\ IsFiniteSet(Replies)
      /\ Cardinality(Replies) \in Nat
  BY PositionsFinite DEF Preserved
<1>2. /\ Len(transcript') \in Nat /\ DOMAIN transcript' = 1 .. Len(transcript')
      /\ Replies' \subseteq 1 .. Len(transcript')
  BY NextPositionsFinite DEF Preserved
<1>3. n \in Replies' BY <1>1, <1>2 DEF Replies
<1>4. \A k \in Replies' : k \in Replies \/ k = n
  <2> SUFFICES ASSUME NEW k \in Replies', k \notin Replies PROVE k = n OBVIOUS
  <2>1. k > Len(transcript) /\ k \in 1 .. Len(transcript') BY <1>2, KeptReplies
  <2>2. transcript'[k].role = "assistant" BY DEF Replies
  <2>3. k \notin Len(transcript) + 2 .. Len(transcript') BY <2>2
  <2> QED BY <1>1, <1>2, <2>1, <2>3
<1>5. Replies' = Replies \cup {n} BY <1>3, <1>4, KeptReplies
<1>6. \A k \in Replies : k < n BY <1>1
<1>7. Cardinality(Replies \cup {n}) = Cardinality(Replies) + 1
  <2>1. n \notin Replies BY <1>1, <1>6
  <2> QED BY <1>1, <2>1, FS_AddElement
<1> QED BY <1>1, <1>5, <1>6, <1>7

\* Appending anything else leaves them as they are.
LEMMA NoReplyMore ==
  ASSUME Preserved,
         \A k \in Len(transcript) + 1 .. Len(transcript') : transcript'[k].role # "assistant"
  PROVE  Replies' = Replies
<1>1. Len(transcript) \in Nat /\ Len(transcript') \in Nat /\ Replies' \subseteq 1 .. Len(transcript')
  BY PositionsFinite, NextPositionsFinite DEF Preserved
<1>2. ASSUME NEW k \in Replies' PROVE k \in Replies
  <2> SUFFICES ASSUME k > Len(transcript) PROVE FALSE BY KeptReplies
  <2>1. k \in Len(transcript) + 1 .. Len(transcript') BY <1>1
  <2> QED BY <2>1 DEF Replies
<1> QED BY <1>2, KeptReplies

\* A reply is appended by FinalReply, ToolReply and PleaseContinue, and by nothing else.
LEMMA AppendsReply ==
  ASSUME TypeOK, FinalReply \/ ToolReply \/ PleaseContinue
  PROVE  /\ Preserved /\ Len(transcript) < Len(transcript')
         /\ transcript'[Len(transcript) + 1] = Reply(draft.calls, draft.stall)
         /\ transcript'[Len(transcript) + 1].role = "assistant"
         /\ \A k \in Len(transcript) + 2 .. Len(transcript') : transcript'[k].role # "assistant"
<1>1. Len(transcript) \in Nat BY LenProperties DEF TypeOK
<1>2. CASE FinalReply \/ ToolReply
  <2>1. transcript' = Appended BY <1>2 DEF FinalReply, ToolReply
  <2> QED BY <1>1, <2>1, ReplyAdded DEF Reply
<1>3. CASE PleaseContinue
  <2>1. transcript' = Append(Appended, UserNudge("continue")) BY <1>3 DEF PleaseContinue
  <2>2. UserNudge("continue").role # "assistant" BY DEF UserNudge
  <2> QED BY <1>1, <2>1, <2>2, ContinueAdded DEF Reply
<1> QED BY <1>2, <1>3

\* EndRound appends the results of the round in source order, a corrective message at most,
\* and no reply.
LEMMA EndRoundAppends ==
  ASSUME TypeOK, EndRound
  PROVE  /\ Preserved
         /\ \A k \in Len(transcript) + 1 .. Len(transcript') : transcript'[k].role # "assistant"
         /\ \A k \in Len(transcript) + 1 .. Len(transcript') : transcript'[k].role = "tool" =>
              k - Len(transcript) \in DOMAIN calls
         /\ Len(transcript) + Len(calls) <= Len(transcript')
         /\ \A i \in DOMAIN calls : transcript'[Len(transcript) + i] = ResultOf(i)
         /\ \A k \in Len(transcript) + 1 .. Len(transcript') : transcript'[k] # UserNudge("continue")
         /\ \A k \in 1 .. Len(transcript) : transcript'[k] = transcript[k]
<1> DEFINE v == Observed.verdict
           n == Len(transcript)
<1>1. v \in G!Verdicts BY ObservedTyped
<1>2. transcript' = Extended(v) BY DEF EndRound
<1>3. n \in Nat /\ Len(calls) \in Nat /\ DOMAIN calls = 1 .. Len(calls)
  BY LenProperties DEF TypeOK
<1> HIDE DEF v
<1>4. /\ Preserved /\ Len(transcript') = n + Len(calls) + (IF v.action = "nudge" THEN 1 ELSE 0)
      /\ \A k \in 1 .. n : transcript'[k] = transcript[k]
      /\ \A i \in 1 .. Len(calls) : transcript'[n + i] = ResultOf(i)
      /\ v.action = "nudge" => /\ v.kind \in {"repeat", "mistakes"}
                               /\ transcript'[n + Len(calls) + 1] = UserNudge(v.kind)
  BY <1>1, <1>2, RoundAdded
<1> HIDE DEF n
<1>5. ASSUME NEW k \in n + 1 .. Len(transcript')
      PROVE  \/ k - n \in 1 .. Len(calls) /\ transcript'[k] = ResultOf(k - n)
             \/ \E why \in {"repeat", "mistakes"} : transcript'[k] = UserNudge(why)
  <2>1. CASE k <= n + Len(calls)
    <3>1. k - n \in 1 .. Len(calls) /\ n + (k - n) = k BY <1>3, <1>4, <2>1
    <3> QED BY <1>4, <3>1
  <2>2. CASE ~(k <= n + Len(calls))
    <3>1. v.action = "nudge" /\ k = n + Len(calls) + 1 BY <1>3, <1>4, <2>2
    <3> QED BY <1>4, <3>1
  <2> QED BY <2>1, <2>2
<1>6. /\ \A i : ResultOf(i).role = "tool"
      /\ \A why \in {"continue", "repeat", "mistakes"} : UserNudge(why).role = "user"
      /\ UserNudge("repeat") # UserNudge("continue") /\ UserNudge("mistakes") # UserNudge("continue")
  <2>1. UserNudge("repeat").why # UserNudge("continue").why BY DEF UserNudge
  <2>2. UserNudge("mistakes").why # UserNudge("continue").why BY DEF UserNudge
  <2> QED BY <2>1, <2>2 DEF ResultOf, UserNudge
<1>7. \A k \in n + 1 .. Len(transcript') :
        /\ transcript'[k].role # "assistant"
        /\ transcript'[k].role = "tool" => k - n \in DOMAIN calls
        /\ transcript'[k] # UserNudge("continue")
  BY <1>3, <1>5, <1>6
<1>8. n + Len(calls) <= Len(transcript') BY <1>3, <1>4
<1> QED BY <1>3, <1>4, <1>7, <1>8 DEF n

\* TurnsExhausted only tags.
LEMMA TaggingAppendsNothing ==
  ASSUME TypeOK, ReplyInv, TurnsExhausted
  PROVE  Preserved /\ Replies' = Replies /\ Len(transcript') = Len(transcript)
<1>1. Preserved /\ Len(transcript') = Len(transcript) /\ Len(transcript) \in Nat
  BY LastIsTagged, LenProperties DEF TypeOK
<1>2. Len(transcript) + 1 .. Len(transcript') = {} BY <1>1
<1> QED BY <1>1, <1>2, NoReplyMore

\* The steps that leave the transcript alone.
LEMMA OtherSteps ==
  ASSUME [Next]_vars
  PROVE  \/ TurnsExhausted \/ FinalReply \/ ToolReply \/ PleaseContinue \/ EndRound
         \/ /\ UNCHANGED <<transcript, turn, autoContinues, guardVars>>
            /\ pc = "tools" => pc' \in {"tools", "done"}
            /\ pc' = "tools" => pc = "tools" /\ calls' = calls
            /\ pc = "done" => UNCHANGED vars
            /\ outcome' = outcome
               \/ outcome' \in {"canceled", "overflow", "provider", "retries", "aborted"}
<1>1. CASE BeginTurn \/ OpenStream BY <1>1 DEF BeginTurn, OpenStream, AttemptFails, Return
<1>2. CASE Stream BY <1>2
  DEF Stream, StreamStart, StreamDone, StreamError, StreamClose, StreamCancelled, StreamToolCall,
      StreamRest, AttemptFails
<1>3. CASE Cancel BY <1>3 DEF Cancel, roundVars
<1>4. CASE GiveUp \/ BackOff \/ Retry \/ BackOffCancelled BY <1>4
  DEF GiveUp, BackOff, Retry, BackOffCancelled, RetryRest, Return
<1>5. ASSUME NEW i \in DOMAIN calls, Tool(i)
      PROVE  /\ UNCHANGED <<transcript, turn, autoContinues, guardVars, calls, outcome>>
             /\ pc = "tools" /\ pc' = "tools"
  BY <1>5
  DEF Tool, ToolStart, ToolInvalid, PreTool, ToolAllowed, ToolDenied, ToolExecuted, ToolRest
<1>6. CASE RoundAborts BY <1>6 DEF RoundAborts, Return, roundVars
<1>7. CASE UNCHANGED vars BY <1>7 DEF vars, roundVars
<1> QED BY <1>1, <1>2, <1>3, <1>4, <1>5, <1>6, <1>7 DEF Next, Finished

\* One reply per turn, the last of them under way while its tools run.
LEMMA ReplyStep ==
  ASSUME TypeOK, ReplyInv, [Next]_vars
  PROVE  ReplyInv'
<1>1. ASSUME Replies' = Replies
      PROVE  (Replies # {} => \E k \in Replies : \A j \in Replies : j <= k)'
  BY <1>1 DEF ReplyInv
<1>2. CASE FinalReply \/ ToolReply \/ PleaseContinue
  <2>1. /\ Replies' = Replies \cup {Len(transcript) + 1}
        /\ Cardinality(Replies') = Cardinality(Replies) + 1
        /\ \A k \in Replies : k < Len(transcript) + 1
    BY <1>2, AppendsReply, OneReplyMore
  <2>2. Len(transcript) \in Nat /\ turn \in Nat BY LenProperties, LoopAssumption DEF TypeOK
  <2>3. \A j \in Replies' : j <= Len(transcript) + 1
    <3>1. \A j \in Replies : j \in Nat BY PositionsFinite DEF TypeOK
    <3> QED BY <2>1, <2>2, <3>1
  <2>4. Cardinality(Replies) = turn BY <1>2 DEF FinalReply, ToolReply, PleaseContinue, ReplyInv
  <2>5. (Replies # {} => \E k \in Replies : \A j \in Replies : j <= k)' BY <2>1, <2>3
  <2>6. CASE FinalReply BY <2>5, <2>6 DEF FinalReply, ReplyInv
  <2>7. CASE PleaseContinue BY <2>1, <2>4, <2>5, <2>7 DEF PleaseContinue, ReplyInv
  <2>8. CASE ToolReply
    <3>1. CASE pc' = "done" BY <2>5, <3>1 DEF ReplyInv
    <3>2. CASE pc' # "done"
      <4>1. pc' = "tools" /\ calls' = draft.calls /\ turn' = turn /\ transcript' = Appended
        BY <2>8, <3>2 DEF ToolReply, Return
      <4>2. /\ Len(transcript') = Len(transcript) + 1
            /\ transcript'[Len(transcript) + 1] = Reply(draft.calls, draft.stall)
        BY <4>1, ReplyAdded
      <4>3. Len(transcript') \in Replies' /\ transcript'[Len(transcript')].calls = calls'
        BY <2>1, <4>1, <4>2 DEF Reply
      <4> QED BY <2>1, <2>4, <2>5, <4>1, <4>3 DEF ReplyInv
    <3> QED BY <3>1, <3>2
  <2> QED BY <1>2, <2>6, <2>7, <2>8
<1>3. CASE EndRound
  <2>1. Replies' = Replies BY <1>3, EndRoundAppends, NoReplyMore
  <2>2. Cardinality(Replies) = turn + 1 BY <1>3 DEF EndRound, ReplyInv
  <2>3. pc' = "done" \/ (pc' = "turn" /\ turn' = turn + 1) BY <1>3 DEF EndRound
  <2> QED BY <1>1, <2>1, <2>2, <2>3 DEF ReplyInv
<1>4. CASE TurnsExhausted
  <2>1. pc' = "done" /\ Replies' = Replies
    BY <1>4, TaggingAppendsNothing DEF TurnsExhausted, Return
  <2> QED BY <1>1, <2>1 DEF ReplyInv
<1>5. CASE /\ UNCHANGED <<transcript, turn>>
           /\ pc = "tools" => pc' \in {"tools", "done"}
           /\ pc' = "tools" => pc = "tools" /\ calls' = calls
           /\ pc = "done" => UNCHANGED vars
  <2>1. Replies' = Replies BY <1>5 DEF Replies
  <2>2. pc = "done" => pc' = "done" BY <1>5 DEF vars
  <2> QED BY <1>1, <1>5, <2>1, <2>2 DEF ReplyInv
<1> QED BY <1>2, <1>3, <1>4, <1>5, OtherSteps

\* The replies and the results there were stay paired.
LEMMA KeptTools ==
  ASSUME Preserved, TranscriptPaired, NEW k \in 1 .. Len(transcript), transcript'[k].role = "tool"
  PROVE  /\ k - transcript'[k].pos \in Replies'
         /\ transcript'[k].pos \in DOMAIN transcript'[k - transcript'[k].pos].calls
<1>1. transcript'[k] = transcript[k] BY DEF Preserved, Alike
<1>2. k \in DOMAIN transcript BY PositionsFinite DEF Preserved
<1>3. /\ k - transcript[k].pos \in Replies
      /\ transcript[k].pos \in DOMAIN transcript[k - transcript[k].pos].calls
  BY <1>1, <1>2 DEF TranscriptPaired
<1> QED BY <1>1, <1>3, KeptReplies

\* A complete round answers the last reply, and so all of them are.
LEMMA RoundAnswers ==
  ASSUME TypeOK, ReplyInv, TranscriptPaired, EndRound
  PROVE  /\ Len(transcript) \in Replies /\ transcript[Len(transcript)].calls = calls
         /\ \A k \in Replies' : Answered(k)'
<1>0. PICK n : n = Len(transcript) OBVIOUS
<1>1. n \in Replies /\ transcript[n].calls = calls /\ pc = "tools"
  BY <1>0 DEF EndRound, ReplyInv
<1>2. \A k \in Replies : Answered(k) \/ k = n BY <1>0 DEF TranscriptPaired
<1>3. Preserved BY EndRoundAppends
<1>4. transcript'[n].calls = calls BY <1>1, <1>3, KeptReplies
<1>5. DOMAIN calls = 1 .. Len(calls) /\ Len(calls) \in Nat BY LenProperties DEF TypeOK
<1>6. Replies' = Replies BY EndRoundAppends, NoReplyMore
<1>7. Len(transcript) \in Nat /\ Len(transcript') \in Nat
  BY <1>3, PositionsFinite, NextPositionsFinite DEF Preserved
<1>8. \A i \in DOMAIN calls : transcript'[n + i] = ResultOf(i) /\ n + i <= Len(transcript')
  BY <1>0, <1>5, <1>7, EndRoundAppends
<1>9. \A i \in DOMAIN calls : ResultOf(i).role = "tool" /\ ResultOf(i).pos = i
                              /\ ResultOf(i).call = calls[i]
  BY DEF ResultOf
<1>10. \A i \in DOMAIN calls : /\ n + i <= Len(transcript') /\ transcript'[n + i].role = "tool"
                               /\ transcript'[n + i].pos = i /\ transcript'[n + i].call = calls[i]
  BY <1>8, <1>9
<1>11. Answered(n)' BY <1>4, <1>10 DEF Answered
<1>12. \A k \in Replies' : Answered(k)' BY <1>2, <1>3, <1>6, <1>11, KeptAnswers
<1> QED BY <1>0, <1>1, <1>12

\* Results are appended under their reply, all at once.
LEMMA PairedStep ==
  ASSUME TypeOK, ReplyInv, TranscriptPaired, [Next]_vars
  PROVE  TranscriptPaired'
<1>1. Preserved BY TranscriptStep
<1>2. /\ Len(transcript) \in Nat /\ Len(transcript') \in Nat
      /\ DOMAIN transcript' = 1 .. Len(transcript')
      /\ \A k \in 1 .. Len(transcript') : k \in 1 .. Len(transcript)
                                          \/ k \in Len(transcript) + 1 .. Len(transcript')
  BY <1>1, PositionsFinite, NextPositionsFinite DEF Preserved
<1>3. ASSUME \A k \in Replies : Answered(k),
             \A k \in Replies' : k > Len(transcript) =>
               Answered(k)' \/ (pc' \in {"tools", "done"} /\ k = Len(transcript')),
             \A k \in Len(transcript) + 1 .. Len(transcript') : transcript'[k].role # "tool"
      PROVE  TranscriptPaired'
  <2>1. \A k \in Replies' : Answered(k)' \/ (pc' \in {"tools", "done"} /\ k = Len(transcript'))
    BY <1>1, <1>3, KeptReplies, KeptAnswers
  <2>2. \A k \in DOMAIN transcript' :
          transcript'[k].role = "tool" =>
            /\ k - transcript'[k].pos \in Replies'
            /\ transcript'[k].pos \in DOMAIN transcript'[k - transcript'[k].pos].calls
    BY <1>1, <1>2, <1>3, KeptTools
  <2> QED BY <2>1, <2>2 DEF TranscriptPaired
<1>4. pc \notin {"tools", "done"} => \A k \in Replies : Answered(k) BY DEF TranscriptPaired
<1>5. CASE FinalReply \/ ToolReply
  <2>1. \A k \in Replies : Answered(k) BY <1>4, <1>5 DEF FinalReply, ToolReply
  <2>2. pc' \in {"tools", "done"} /\ transcript' = Appended
    BY <1>5 DEF FinalReply, ToolReply, Return
  <2>3. /\ Len(transcript') = Len(transcript) + 1
        /\ transcript'[Len(transcript) + 1].role = "assistant"
    BY <2>2, ReplyAdded DEF Reply
  <2>4. \A k \in Len(transcript) + 1 .. Len(transcript') : transcript'[k].role # "tool"
    BY <1>2, <2>3
  <2>5. \A k \in Replies' : k > Len(transcript) => k = Len(transcript')
    <3>1. Replies' = Replies \cup {Len(transcript) + 1} /\ \A k \in Replies : k < Len(transcript) + 1
      BY <1>5, AppendsReply, OneReplyMore
    <3>2. Replies \subseteq Nat BY <1>1, PositionsFinite DEF Preserved
    <3> QED BY <1>2, <2>3, <3>1, <3>2
  <2> QED BY <1>3, <2>1, <2>2, <2>4, <2>5
<1>6. CASE PleaseContinue
  <2>1. \A k \in Replies : Answered(k) BY <1>4, <1>6 DEF PleaseContinue
  <2>2. transcript' = Append(Appended, UserNudge("continue")) /\ draft.calls = <<>>
    BY <1>6 DEF PleaseContinue
  <2>3. /\ Len(transcript') = Len(transcript) + 2
        /\ transcript'[Len(transcript) + 1].role = "assistant"
        /\ transcript'[Len(transcript) + 1].calls = <<>>
        /\ transcript'[Len(transcript) + 2].role = "user"
    BY <2>2, ContinueAdded DEF Reply, UserNudge
  <2>4. \A k \in Len(transcript) + 1 .. Len(transcript') : transcript'[k].role # "tool"
    BY <1>2, <2>3
  <2>5. ASSUME NEW k, k = Len(transcript) + 1 PROVE Answered(k)' BY <2>3, <2>5 DEF Answered
  <2>6. \A k \in Replies' : k > Len(transcript) => Answered(k)'
    <3>1. Replies' = Replies \cup {Len(transcript) + 1} /\ \A k \in Replies : k < Len(transcript) + 1
      BY <1>6, AppendsReply, OneReplyMore
    <3>2. Replies \subseteq Nat BY <1>1, PositionsFinite DEF Preserved
    <3>3. \A k \in Replies' : k > Len(transcript) => k = Len(transcript) + 1
      BY <1>2, <3>1, <3>2
    <3> QED BY <2>5, <3>3
  <2> QED BY <1>3, <2>1, <2>4, <2>6
<1>7. CASE EndRound
  <2>1. PICK n : n = Len(transcript) OBVIOUS
  <2>2. n \in Replies /\ transcript[n].calls = calls /\ \A k \in Replies' : Answered(k)'
    BY <1>7, <2>1, RoundAnswers
  <2>3. transcript'[n].calls = calls /\ Replies' = Replies
    BY <1>1, <1>7, <2>2, KeptReplies, EndRoundAppends, NoReplyMore
  <2>4. ASSUME NEW k \in n + 1 .. Len(transcript'), transcript'[k].role = "tool"
        PROVE  /\ k - transcript'[k].pos \in Replies'
               /\ transcript'[k].pos \in DOMAIN transcript'[k - transcript'[k].pos].calls
    <3>1. k - n \in DOMAIN calls BY <1>7, <2>1, <2>4, EndRoundAppends
    <3>2. n + (k - n) = k /\ k - (k - n) = n BY <1>2, <2>1
    <3>3. transcript'[k] = ResultOf(k - n) BY <1>7, <2>1, <3>1, <3>2, EndRoundAppends
    <3>4. transcript'[k].pos = k - n BY <3>3 DEF ResultOf
    <3> QED BY <2>2, <2>3, <3>1, <3>2, <3>4
  <2>5. \A k \in DOMAIN transcript' :
          transcript'[k].role = "tool" =>
            /\ k - transcript'[k].pos \in Replies'
            /\ transcript'[k].pos \in DOMAIN transcript'[k - transcript'[k].pos].calls
    BY <1>1, <1>2, <2>1, <2>4, KeptTools
  <2> QED BY <2>2, <2>5 DEF TranscriptPaired
<1>8. CASE TurnsExhausted
  <2>1. \A k \in Replies : Answered(k) BY <1>4, <1>8 DEF TurnsExhausted
  <2>2. Replies' = Replies /\ Len(transcript') = Len(transcript) BY <1>8, TaggingAppendsNothing
  <2>3. Len(transcript) + 1 .. Len(transcript') = {} BY <1>2, <2>2
  <2>4. \A k \in Replies' : ~(k > Len(transcript))
    BY <1>1, <1>2, <2>2, PositionsFinite DEF Preserved
  <2> QED BY <1>3, <2>1, <2>3, <2>4
<1>9. CASE /\ UNCHANGED transcript
           /\ pc = "tools" => pc' \in {"tools", "done"}
           /\ pc = "done" => UNCHANGED vars
  <2>1. pc \in {"tools", "done"} => pc' \in {"tools", "done"} BY <1>9 DEF vars
  <2> QED BY <1>9, <2>1 DEF TranscriptPaired, Replies, Answered
<1> QED BY <1>5, <1>6, <1>7, <1>8, <1>9, OtherSteps

-----------------------------------------------------------------------------
(* The tools of a round. *)

\* A tool starts as the next one in source order.
LEMMA StartsNext ==
  ASSUME TypeOK, RoundInv, NEW i \in DOMAIN calls, ToolStart(i)
  PROVE  /\ i = ui.tools + 1 /\ ui'.tools = i /\ ui'.message = ui.message
         /\ status' = [status EXCEPT ![i] = "started"] /\ status[i] = "idle"
         /\ \A j \in DOMAIN calls : status'[j] # "idle" <=> j <= i
<1>1. DOMAIN calls = 1 .. Len(calls) /\ Len(calls) \in Nat /\ i \in Nat \ {0}
  BY LenProperties DEF TypeOK
<1>2. \A j \in DOMAIN calls : status[j] # "idle" <=> j <= ui.tools BY DEF ToolStart, RoundInv
<1>3. ui.tools \in Nat BY DEF TypeOK
<1>4. ui.tools < i BY <1>1, <1>2, <1>3 DEF ToolStart
<1>5. i - 1 <= ui.tools
  <2>1. CASE i = 1 BY <1>3, <2>1
  <2>2. CASE i # 1
    <3>1. i - 1 \in DOMAIN calls /\ i - 1 \in 1 .. (i - 1) BY <1>1, <2>2
    <3> QED BY <1>2, <3>1 DEF ToolStart
  <2> QED BY <2>1, <2>2
<1>6. i = ui.tools + 1 BY <1>1, <1>3, <1>4, <1>5
<1>7. ui'.tools = ui.tools + 1 /\ ui'.message = ui.message BY DEF ToolStart, TypeOK
<1>8. status' = [status EXCEPT ![i] = "started"] /\ status[i] = "idle" BY DEF ToolStart
<1>9. \A j \in DOMAIN calls : status'[j] # "idle" <=> j <= i
  <2> SUFFICES ASSUME NEW j \in DOMAIN calls PROVE status'[j] # "idle" <=> j <= i OBVIOUS
  <2>1. status'[j] = IF j = i THEN "started" ELSE status[j] BY <1>8 DEF TypeOK
  <2>2. j <= i <=> j <= ui.tools \/ j = i BY <1>1, <1>3, <1>6
  <2> QED BY <1>2, <2>1, <2>2
<1> QED BY <1>6, <1>7, <1>8, <1>9

\* Every other step of a tool moves a call that has started and not finished; only
\* an execution is an effect, and only an approval lets a gated call execute.
LEMMA ToolMoves ==
  ASSUME TypeOK, NEW i \in DOMAIN calls, Tool(i), ~ToolStart(i)
  PROVE  /\ UNCHANGED ui
         /\ status[i] \in {"started", "asked", "executing"}
         /\ status'[i] \in {"asked", "executing", "finished"}
         /\ \A j \in DOMAIN calls : j # i => status'[j] = status[j] /\ result'[j] = result[j]
         /\ approved \subseteq approved'
         /\ status'[i] = "executing" /\ calls[i] \in Gated => <<turn, i>> \in approved'
         /\ \/ effects' = effects
            \/ /\ effects' = effects \cup {<<turn, i>>}
               /\ status[i] = "executing" /\ status'[i] = "finished"
<1> USE DEF TypeOK
<1>1. ASSUME NEW r, Finish(i, r)
      PROVE  /\ status'[i] = "finished"
             /\ \A j \in DOMAIN calls : j # i => status'[j] = status[j] /\ result'[j] = result[j]
  BY <1>1 DEF Finish
<1>2. CASE ToolInvalid(i) BY <1>1, <1>2 DEF ToolInvalid, history
<1>3. CASE PreTool(i)
  <2>1. CASE \E r \in {"error", "abort"} : Finish(i, r) BY <1>1, <1>3, <2>1 DEF PreTool, history
  <2>2. CASE /\ status' = [status EXCEPT ![i] = IF NeedsDecision(i) THEN "asked" ELSE "executing"]
             /\ UNCHANGED result
    <3>1. status'[i] = IF NeedsDecision(i) THEN "asked" ELSE "executing" BY <2>2
    <3> QED BY <1>3, <2>2, <3>1 DEF PreTool, NeedsDecision, history
  <2> QED BY <1>3, <2>1, <2>2 DEF PreTool
<1>4. CASE ToolAllowed(i) BY <1>4 DEF ToolAllowed
<1>5. CASE ToolDenied(i) BY <1>1, <1>5 DEF ToolDenied, history
<1>6. CASE ToolExecuted(i) BY <1>1, <1>6 DEF ToolExecuted
<1> QED BY <1>2, <1>3, <1>4, <1>5, <1>6 DEF Tool

\* A step of a tool stays within its round.
LEMMA ToolFrame ==
  ASSUME NEW i \in DOMAIN calls, Tool(i)
  PROVE  /\ pc = "tools" /\ pc' = "tools"
         /\ UNCHANGED <<turn, calls, parallel, transcript, outcome, guardVars, autoContinues, draft>>
BY DEF Tool, ToolStart, ToolInvalid, PreTool, ToolAllowed, ToolDenied, ToolExecuted, ToolRest, history,
       streamVars

\* The steps outside a round leave its calls and its effects alone.
LEMMA EffectsFrame ==
  ASSUME [Next]_vars
  PROVE  \/ \E i \in DOMAIN calls : Tool(i)
         \/ UNCHANGED <<effects, approved, parallel>>
BY DEF Next, vars, history, Cancel, TurnsExhausted, BeginTurn, OpenStream, Stream, StreamStart, StreamDone,
       StreamError, StreamClose, StreamCancelled, StreamToolCall, StreamRest, GiveUp, BackOff, Retry,
       BackOffCancelled, RetryRest, FinalReply, PleaseContinue, ToolReply, RoundAborts, EndRound, Finished

\* Tools start in source order and an effect belongs to a finished call.
LEMMA RoundToolStep ==
  ASSUME TypeOK, RoundInv, NEW i \in DOMAIN calls, Tool(i)
  PROVE  RoundInv'
<1>1. pc = "tools" /\ pc' = "tools" /\ UNCHANGED <<turn, calls, parallel>> BY ToolFrame
<1>2. DOMAIN calls = 1 .. Len(calls) /\ Len(calls) \in Nat /\ i \in 1 .. Len(calls)
      /\ ui.tools \in Nat
  BY LenProperties DEF TypeOK
<1>3. CASE ToolStart(i)
  <2>1. /\ ui'.tools = i /\ status' = [status EXCEPT ![i] = "started"] /\ status[i] = "idle"
        /\ \A j \in DOMAIN calls : status'[j] # "idle" <=> j <= i
    BY <1>3, StartsNext
  <2>2. result' = result /\ effects' = effects /\ approved' = approved
    BY <1>3 DEF ToolStart, history
  <2>3. \A j \in DOMAIN calls : status'[j] = IF j = i THEN "started" ELSE status[j]
    BY <2>1 DEF TypeOK
  <2>4. \A j \in DOMAIN calls :
          status'[j] = "executing" /\ calls[j] \in Gated => <<turn, j>> \in approved
    BY <1>1, <2>3 DEF RoundInv
  <2>5. ~parallel => \A j, k \in DOMAIN calls :
           j < k /\ status'[k] # "idle" => status'[j] = "finished" /\ result[j] # "abort"
    <3> SUFFICES ASSUME ~parallel, NEW j \in DOMAIN calls, NEW k \in DOMAIN calls, j < k,
                        status'[k] # "idle"
                 PROVE  status'[j] = "finished" /\ result[j] # "abort"
      OBVIOUS
    <3>1. CASE k = i
      <4>1. j \in 1 .. (i - 1) /\ j # i BY <1>2, <3>1
      <4> QED BY <1>3, <2>3, <4>1 DEF ToolStart
    <3>2. CASE k # i
      <4>1. status[j] = "finished" /\ result[j] # "abort" BY <1>1, <2>3, <3>2 DEF RoundInv
      <4> QED BY <2>1, <2>3, <4>1
    <3> QED BY <3>1, <3>2
  <2>6. \A e \in effects : e[1] = turn => e[2] \in DOMAIN calls /\ status'[e[2]] = "finished"
    BY <1>1, <2>1, <2>3 DEF RoundInv
  <2>7. i <= Len(calls) BY <1>2
  <2> QED BY <1>1, <2>1, <2>2, <2>4, <2>5, <2>6, <2>7 DEF RoundInv
<1>4. CASE ~ToolStart(i)
  <2>1. /\ UNCHANGED ui
        /\ status[i] \in {"started", "asked", "executing"}
        /\ status'[i] \in {"asked", "executing", "finished"}
        /\ \A j \in DOMAIN calls : j # i => status'[j] = status[j] /\ result'[j] = result[j]
        /\ approved \subseteq approved'
        /\ status'[i] = "executing" /\ calls[i] \in Gated => <<turn, i>> \in approved'
        /\ \/ effects' = effects
           \/ effects' = effects \cup {<<turn, i>>} /\ status'[i] = "finished"
    BY <1>4, ToolMoves
  <2>2. \A j \in DOMAIN calls : status'[j] # "idle" <=> status[j] # "idle" BY <2>1
  <2>3. \A j \in DOMAIN calls :
          status'[j] = "executing" /\ calls[j] \in Gated => <<turn, j>> \in approved'
    BY <1>1, <2>1 DEF RoundInv
  <2>4. ~parallel => \A j, k \in DOMAIN calls :
           j < k /\ status'[k] # "idle" => status'[j] = "finished" /\ result'[j] # "abort"
    <3> SUFFICES ASSUME ~parallel, NEW j \in DOMAIN calls, NEW k \in DOMAIN calls, j < k,
                        status'[k] # "idle"
                 PROVE  status'[j] = "finished" /\ result'[j] # "abort"
      OBVIOUS
    <3>1. status[j] = "finished" /\ result[j] # "abort" BY <1>1, <2>2 DEF RoundInv
    <3> QED BY <2>1, <3>1
  <2>5. \A e \in effects' : /\ e[1] <= turn
                            /\ e[1] = turn => e[2] \in DOMAIN calls /\ status'[e[2]] = "finished"
    <3> SUFFICES ASSUME NEW e \in effects'
                 PROVE  /\ e[1] <= turn
                        /\ e[1] = turn => e[2] \in DOMAIN calls /\ status'[e[2]] = "finished"
      OBVIOUS
    <3>1. CASE e \in effects
      <4>1. e[1] <= turn /\ (e[1] = turn => e[2] \in DOMAIN calls /\ status[e[2]] = "finished")
        BY <1>1, <3>1 DEF RoundInv
      <4> QED BY <2>1, <4>1
    <3>2. CASE e = <<turn, i>> /\ status'[i] = "finished"
      <4>1. turn <= turn BY LoopAssumption DEF TypeOK
      <4> QED BY <3>2, <4>1
    <3> QED BY <2>1, <3>1, <3>2
  <2>6. /\ ui.tools <= Len(calls)
        /\ \A j \in DOMAIN calls : status[j] # "idle" <=> j <= ui.tools
    BY <1>1 DEF RoundInv
  <2> QED BY <1>1, <2>1, <2>2, <2>3, <2>4, <2>5, <2>6 DEF RoundInv
<1> QED BY <1>3, <1>4

\* Every step of Run leaves the round as it is, runs one of its tools, starts or ends it.
LEMMA RoundStep ==
  ASSUME TypeOK, ControlInv, RoundInv, ObserverInv, [Next]_vars
  PROVE  RoundInv'
<1>1. turn \in Nat BY LoopAssumption DEF TypeOK
<1>2. CASE \E i \in DOMAIN calls : Tool(i) BY <1>2, RoundToolStep
<1>3. ASSUME UNCHANGED effects, pc \in {"turn", "attempt", "stream", "failed", "backoff", "reply"},
             pc' # "tools", turn' = turn \/ turn' = turn + 1
      PROVE  RoundInv'
  <2>1. \A e \in effects : e[1] \in Nat /\ e[1] <= turn /\ e[1] # turn
    BY <1>3, LoopAssumption DEF RoundInv, TypeOK
  <2>2. \A e \in effects : e[1] <= turn' /\ e[1] # turn' BY <1>1, <1>3, <2>1
  <2> QED BY <1>3, <2>2 DEF RoundInv
<1>4. CASE UNCHANGED <<effects, approved, parallel>>
  <2>1. UNCHANGED <<effects, approved, parallel>> BY <1>4
  <2>2. CASE ToolReply
    <3>1. CASE cancelled BY <1>3, <2>1, <2>2, <3>1 DEF ToolReply, Return
    <3>2. CASE ~cancelled
      <4>1. /\ pc' = "tools" /\ calls' = draft.calls /\ ui' = ui /\ turn' = turn
            /\ status' = [j \in DOMAIN calls' |-> "idle"]
        BY <2>2, <3>2 DEF ToolReply
      <4>2. ui.tools = 0 BY <2>2 DEF ToolReply, ObserverInv
      <4>3. Len(calls') \in Nat /\ DOMAIN calls' = 1 .. Len(calls')
        BY <4>1, LenProperties DEF TypeOK
      <4>4. \A e \in effects : e[1] <= turn /\ e[1] # turn BY <2>2 DEF ToolReply, RoundInv
      <4> QED BY <2>1, <4>1, <4>2, <4>3, <4>4 DEF RoundInv
    <3> QED BY <3>1, <3>2
  <2>3. CASE EndRound
    <3>1. pc = "tools" /\ ((pc' = "done" /\ turn' = turn) \/ (pc' = "turn" /\ turn' = turn + 1))
      BY <2>3 DEF EndRound
    <3>2. \A e \in effects : e[1] <= turn /\ e[1] # turn + 1
      <4>1. \A e \in effects : e[1] \in Nat /\ e[1] <= turn BY LoopAssumption DEF RoundInv, TypeOK
      <4> QED BY <1>1, <4>1
    <3>3. \A e \in effects : e[1] <= turn + 1
      <4>1. \A e \in effects : e[1] \in Nat /\ e[1] <= turn BY LoopAssumption DEF RoundInv, TypeOK
      <4> QED BY <1>1, <4>1
    <3> QED BY <2>1, <3>1, <3>2, <3>3 DEF RoundInv
  <2>4. CASE PleaseContinue
    <3>1. \A e \in effects : e[1] \in Nat /\ e[1] <= turn BY LoopAssumption DEF RoundInv, TypeOK
    <3>2. \A e \in effects : e[1] <= turn + 1 /\ e[1] # turn + 1 BY <1>1, <3>1
    <3>3. pc' = "turn" /\ turn' = turn + 1 BY <2>4 DEF PleaseContinue
    <3> QED BY <2>1, <3>2, <3>3 DEF RoundInv
  <2>5. CASE FinalReply \/ TurnsExhausted
    BY <1>3, <2>1, <2>5 DEF FinalReply, TurnsExhausted, Return
  <2>6. CASE RoundAborts
    <3>1. pc = "tools" /\ pc' = "done" /\ turn' = turn BY <2>6 DEF RoundAborts, Return
    <3> QED BY <2>1, <3>1 DEF RoundInv
  <2>7. CASE Cancel
    BY <2>1, <2>7 DEF Cancel, RoundInv, roundVars
  <2>8. CASE BeginTurn \/ OpenStream BY <1>3, <2>1, <2>8 DEF BeginTurn, OpenStream, Return, AttemptFails
  <2>9. CASE Stream BY <1>3, <2>1, <2>9
    DEF Stream, StreamStart, StreamDone, StreamError, StreamClose, StreamCancelled, StreamToolCall,
        StreamRest, AttemptFails
  <2>10. CASE GiveUp \/ BackOff \/ Retry \/ BackOffCancelled BY <1>3, <2>1, <2>10
    DEF GiveUp, BackOff, Retry, BackOffCancelled, RetryRest, Return
  <2>11. CASE UNCHANGED vars BY <2>11 DEF vars, roundVars, history, RoundInv
  <2> QED BY <1>2, <2>2, <2>3, <2>4, <2>5, <2>6, <2>7, <2>8, <2>9, <2>10, <2>11 DEF Next, Finished
<1> QED BY <1>2, <1>4, EffectsFrame

\* What an observer sees is closed when a turn ends, and loop_end comes last.
LEMMA ObserverStep ==
  ASSUME TypeOK, ControlInv, RoundInv, ObserverInv, EventsBalance, [Next]_vars
  PROVE  ObserverInv' /\ EventsBalance'
<1> USE DEF ObserverInv, EventsBalance
<1>0. ui \in [loop : BOOLEAN, turn : BOOLEAN, message : BOOLEAN, tools : 0 .. MaxCalls]
  BY DEF TypeOK
<1>1. CASE Cancel BY <1>1 DEF Cancel, streamVars
<1>2. CASE TurnsExhausted BY <1>0, <1>2 DEF TurnsExhausted, Return
<1>3. CASE BeginTurn
  <2>1. outcome = "running" BY <1>3 DEF BeginTurn, ControlInv
  <2> QED BY <1>0, <1>3, <2>1 DEF BeginTurn, Return
<1>4. CASE OpenStream
  <2>1. ~(draft.done)' BY <1>4 DEF OpenStream, NoDraft
  <2>2. pc' \in {"stream", "failed"} /\ UNCHANGED <<ui, outcome>>
    BY <1>4 DEF OpenStream, AttemptFails
  <2> QED BY <1>4, <2>1, <2>2 DEF OpenStream, ControlInv
<1>5. CASE StreamStart
  <2>1. ~(draft.done)' BY <1>5 DEF StreamStart, ControlInv, TypeOK
  <2> QED BY <1>0, <1>5, <2>1 DEF StreamStart, StreamRest, ControlInv
<1>6. ASSUME NEW c \in Calls, StreamToolCall(c) PROVE ObserverInv' /\ EventsBalance'
  <2>1. ~(draft.done)' BY <1>6 DEF StreamToolCall, TypeOK
  <2> QED BY <1>0, <1>6, <2>1 DEF StreamToolCall, StreamRest, ControlInv
<1>7. CASE StreamDone BY <1>0, <1>7 DEF StreamDone, StreamRest, ControlInv
<1>8. CASE StreamError \/ StreamClose \/ StreamCancelled
  BY <1>8 DEF StreamError, StreamClose, StreamCancelled, AttemptFails, StreamRest, ControlInv
<1>9. CASE GiveUp BY <1>0, <1>9 DEF GiveUp, Return, RetryRest
<1>10. CASE BackOff \/ Retry BY <1>10 DEF BackOff, Retry, RetryRest, ControlInv
<1>11. CASE BackOffCancelled BY <1>0, <1>11 DEF BackOffCancelled, Return, RetryRest
<1>12. CASE FinalReply BY <1>0, <1>12 DEF FinalReply, ControlInv
<1>13. CASE PleaseContinue BY <1>0, <1>13 DEF PleaseContinue, ControlInv
<1>14. CASE ToolReply BY <1>0, <1>14 DEF ToolReply, Return, ControlInv
<1>15. ASSUME NEW i \in DOMAIN calls, Tool(i) PROVE ObserverInv' /\ EventsBalance'
  <2>1. pc = "tools" /\ pc' = "tools" /\ outcome' = outcome /\ outcome = "running"
    BY <1>15, ToolFrame DEF ControlInv
  <2>2. CASE ToolStart(i)
    <3>1. ui'.message = ui.message /\ ui'.loop = ui.loop BY <1>0, <2>2 DEF ToolStart
    <3> QED BY <2>1, <3>1
  <2>3. CASE ~ToolStart(i)
    <3>1. ui' = ui BY <1>15, <2>3, ToolMoves
    <3> QED BY <2>1, <3>1
  <2> QED BY <2>2, <2>3
<1>16. CASE RoundAborts
  <2>1. pc' = "done" /\ outcome' \in {"aborted", "canceled"} /\ ~ui'.loop
    BY <1>0, <1>16 DEF RoundAborts, Return
  <2> QED BY <2>1
<1>17. CASE EndRound
  <2>1. ToolsLeftOpen = 0
    <3>1. Len(calls) \in Nat /\ DOMAIN calls = 1 .. Len(calls) BY LenProperties DEF TypeOK
    <3>2. Len(calls) # 0 => Len(calls) <= ui.tools
      <4>1. Len(calls) # 0 => Len(calls) \in DOMAIN calls BY <3>1
      <4> QED BY <1>17, <4>1 DEF EndRound, AllFinished, RoundInv
    <3>3. ui.tools \in Nat /\ ui.tools <= Len(calls) BY <1>17 DEF EndRound, RoundInv, TypeOK
    <3> QED BY <3>1, <3>2, <3>3 DEF ToolsLeftOpen
  <2>2. ~ui.message /\ outcome = "running" /\ ui.loop BY <1>17 DEF EndRound, ControlInv
  <2>3. CASE Observed.verdict.action = "halt"
    <3>1. Observed.verdict.kind \in {"repeat", "mistakes"}
      BY <2>3, ObservedTyped DEF G!Verdicts, G!Kinds
    <3>2. pc' = "done" /\ outcome' = Observed.verdict.kind /\ ~ui'.loop
      BY <1>0, <1>17, <2>3 DEF EndRound
    <3> QED BY <3>1, <3>2
  <2>4. CASE Observed.verdict.action # "halt"
    <3>1. /\ pc' = "turn" /\ outcome' = outcome
          /\ ui' = [ui EXCEPT !.tools = 0, !.turn = FALSE]
      BY <1>17, <2>1, <2>4 DEF EndRound
    <3> QED BY <1>0, <2>2, <3>1
  <2> QED BY <2>3, <2>4
<1>18. CASE UNCHANGED vars BY <1>18 DEF vars, streamVars
<1> QED BY <1>1, <1>2, <1>3, <1>4, <1>5, <1>6, <1>7, <1>8, <1>9, <1>10, <1>11, <1>12, <1>13, <1>14,
           <1>15, <1>16, <1>17, <1>18 DEF Next, Stream, Finished

-----------------------------------------------------------------------------
(* Counters and the guardrails. *)

\* Appending no "Please continue." leaves their number.
LEMMA SameContinues ==
  ASSUME Preserved,
         \A k \in Len(transcript) + 1 .. Len(transcript') : transcript'[k] # UserNudge("continue")
  PROVE  Continues' = Continues
<1>1. /\ DOMAIN transcript = 1 .. Len(transcript) /\ Len(transcript) \in Nat
      /\ DOMAIN transcript' = 1 .. Len(transcript') /\ Len(transcript') \in Nat
      /\ Len(transcript) <= Len(transcript')
  BY PositionsFinite, NextPositionsFinite DEF Preserved
<1>2. UserNudge("continue").role # "assistant" BY DEF UserNudge
<1>3. \A k \in 1 .. Len(transcript) :
        transcript'[k] = UserNudge("continue") <=> transcript[k] = UserNudge("continue")
  BY <1>2 DEF Preserved, Alike
<1>4. \A k \in 1 .. Len(transcript') : k \in 1 .. Len(transcript)
                                        \/ k \in Len(transcript) + 1 .. Len(transcript')
  BY <1>1
<1>5. UserNudge("continue")' = UserNudge("continue") BY DEF UserNudge
<1>6. 1 .. Len(transcript) \subseteq 1 .. Len(transcript') BY <1>1
<1> QED BY <1>1, <1>3, <1>4, <1>5, <1>6 DEF Continues

\* autoContinues counts the "Please continue." messages of the transcript.
LEMMA NudgeStep ==
  ASSUME TypeOK, ReplyInv, NudgeInv, [Next]_vars
  PROVE  NudgeInv'
<1>1. ASSUME Continues' = Continues, autoContinues' = autoContinues PROVE NudgeInv'
  BY <1>1 DEF NudgeInv
<1>2. Len(transcript) \in Nat BY LenProperties DEF TypeOK
<1>3. CASE FinalReply \/ ToolReply
  <2>1. transcript' = Appended /\ autoContinues' = autoContinues
    BY <1>3 DEF FinalReply, ToolReply
  <2>2. /\ Preserved /\ Len(transcript') = Len(transcript) + 1
        /\ transcript'[Len(transcript) + 1].role = "assistant"
    BY <2>1, ReplyAdded DEF Reply
  <2>3. UserNudge("continue").role # "assistant" BY DEF UserNudge
  <2>4. \A k \in Len(transcript) + 1 .. Len(transcript') : transcript'[k] # UserNudge("continue")
    BY <1>2, <2>2, <2>3
  <2> QED BY <1>1, <2>1, <2>2, <2>4, SameContinues
<1>4. CASE PleaseContinue
  <2> DEFINE n == Len(transcript) + 2
  <2>1. transcript' = Append(Appended, UserNudge("continue")) /\ autoContinues' = autoContinues + 1
    BY <1>4 DEF PleaseContinue
  <2>2. /\ Preserved /\ Len(transcript') = n
        /\ \A k \in 1 .. Len(transcript) : transcript'[k] = transcript[k]
        /\ transcript'[Len(transcript) + 1].role = "assistant"
        /\ transcript'[n] = UserNudge("continue")
    BY <2>1, ContinueAdded DEF Reply
  <2>3. UserNudge("continue").role # "assistant" BY DEF UserNudge
  <2>4. /\ DOMAIN transcript = 1 .. Len(transcript) /\ DOMAIN transcript' = 1 .. n
        /\ Continues \subseteq 1 .. Len(transcript) /\ IsFiniteSet(Continues)
    BY <2>2, PositionsFinite, NextPositionsFinite DEF Preserved
  <2>5. \A k \in 1 .. n : k \in 1 .. Len(transcript) \/ k = Len(transcript) + 1 \/ k = n BY <1>2
  <2>6. n \in 1 .. n /\ n \notin 1 .. Len(transcript) /\ 1 .. Len(transcript) \subseteq 1 .. n
    BY <1>2
  <2>7. UserNudge("continue")' = UserNudge("continue") BY DEF UserNudge
  <2> HIDE DEF n
  <2>8. Continues' = Continues \cup {n}
    BY <2>2, <2>3, <2>4, <2>5, <2>6, <2>7 DEF Continues
  <2>9. Cardinality(Continues') = Cardinality(Continues) + 1
    BY <2>4, <2>6, <2>8, FS_AddElement
  <2> QED BY <2>1, <2>9 DEF NudgeInv
<1>5. CASE EndRound
  <2>1. autoContinues' = autoContinues BY <1>5 DEF EndRound
  <2> QED BY <1>1, <1>5, <2>1, EndRoundAppends, SameContinues
<1>6. CASE TurnsExhausted
  <2>1. Preserved /\ Len(transcript') = Len(transcript) BY <1>6, TaggingAppendsNothing
  <2>2. Len(transcript) + 1 .. Len(transcript') = {} BY <1>2, <2>1
  <2>3. autoContinues' = autoContinues BY <1>6 DEF TurnsExhausted
  <2> QED BY <1>1, <2>1, <2>2, <2>3, SameContinues
<1>7. CASE UNCHANGED <<transcript, autoContinues>>
  BY <1>1, <1>7 DEF Continues, UserNudge
<1> QED BY <1>3, <1>4, <1>5, <1>6, <1>7, OtherSteps

\* A round is observed once, before the next turn begins, and none after a halt.
LEMMA ObservesRound ==
  ASSUME TypeOK, ControlInv, GuardInv, EndRound
  PROVE  /\ G!Observe(RoundKey, RoundFailed)
         /\ rounds' \in Seq(G!Rounds) /\ Len(rounds') = Len(rounds) + 1 /\ Len(rounds) \in Nat
         /\ pc' # "done" => ~G!Halted' /\ turn' = turn + 1
<1>1. rounds \in Seq(G!Rounds) /\ Len(rounds) \in Nat BY LenProperties DEF GuardInv
<1>2. ~G!Halted /\ Len(rounds) <= turn BY DEF GuardInv, EndRound
<1>3. Len(rounds) < MaxTurns
  <2>1. turn < MaxTurns /\ turn \in Nat /\ MaxTurns \in Nat
    BY LoopAssumption DEF ControlInv, EndRound, TypeOK
  <2> QED BY <1>1, <1>2, <2>1
<1> DEFINE v == Observed.verdict
           r == [key |-> RoundKey, failed |-> RoundFailed, verdict |-> v]
<1>4. r \in G!Rounds BY ObservedTyped DEF G!Rounds
<1>5. rounds' = Append(rounds, r) /\ guard' = Observed.guard BY DEF EndRound
<1>6. G!Observe(RoundKey, RoundFailed) BY <1>2, <1>3, <1>5 DEF G!Observe, Observed
<1>7. pc' # "done" => v.action # "halt" /\ turn' = turn + 1 BY DEF EndRound
<1> HIDE DEF v
<1>8. /\ rounds' \in Seq(G!Rounds) /\ Len(rounds') = Len(rounds) + 1
      /\ rounds'[Len(rounds) + 1] = r
  BY <1>1, <1>4, <1>5, AppendProperties
<1>9. pc' # "done" => ~G!Halted'
  <2>1. rounds'[Len(rounds')].verdict = v BY <1>8
  <2> QED BY <1>7, <2>1 DEF G!Halted
<1> QED BY <1>1, <1>6, <1>7, <1>8, <1>9

\* The guardrails observe at most one round per turn.
LEMMA GuardStep ==
  ASSUME TypeOK, ControlInv, GuardInv, [Next]_vars
  PROVE  GuardInv'
<1>1. turn \in Nat /\ Len(rounds) \in Nat BY LoopAssumption, LenProperties DEF TypeOK, GuardInv
<1>2. CASE EndRound
  <2>1. ~G!Halted /\ Len(rounds) <= turn BY <1>2 DEF GuardInv, EndRound
  <2> QED BY <1>1, <1>2, <2>1, ObservesRound DEF GuardInv
<1>3. ASSUME UNCHANGED guardVars, pc # "done", turn' \in {turn, turn + 1} PROVE GuardInv'
  <2>1. rounds' = rounds BY <1>3 DEF guardVars
  <2>2. ~G!Halted' BY <1>3, <2>1 DEF GuardInv, G!Halted
  <2> QED BY <1>1, <1>3, <2>1, <2>2 DEF GuardInv
<1>4. CASE FinalReply \/ ToolReply \/ PleaseContinue
  BY <1>3, <1>4 DEF FinalReply, ToolReply, PleaseContinue
<1>5. CASE TurnsExhausted BY <1>3, <1>5 DEF TurnsExhausted
<1>6. CASE /\ UNCHANGED <<turn, guardVars>>
           /\ pc = "done" => UNCHANGED vars
  <2>1. CASE pc # "done" BY <1>3, <1>6, <2>1
  <2>2. CASE pc = "done"
    <3>1. pc' = "done" /\ rounds' = rounds BY <1>6, <2>2 DEF vars, guardVars
    <3> QED BY <3>1 DEF GuardInv
  <2> QED BY <2>1, <2>2
<1> QED BY <1>2, <1>4, <1>5, <1>6, OtherSteps

-----------------------------------------------------------------------------
(* Outcomes. *)

\* What Run returns agrees with what it appended.
LEMMA OutcomeStep ==
  ASSUME TypeOK, TypeOK', ControlInv, ReplyInv, NudgeInv', TranscriptPaired,
         OutcomeMatchesTranscript, [Next]_vars
  PROVE  OutcomeMatchesTranscript'
<1> DEFINE Tags(k) == transcript[k].stop = "max_turns"
           Within == Cardinality(Continues) <= MaxAutoContinues
<1>1. Within'
  <2>1. autoContinues' \in 0 .. MaxAutoContinues BY DEF TypeOK
  <2> QED BY <2>1, LoopAssumption DEF NudgeInv
<1>2. OutcomeMatchesTranscript <=>
        /\ outcome = "ok" => /\ transcript # <<>>
                             /\ transcript[Len(transcript)].role = "assistant"
                             /\ transcript[Len(transcript)].calls = <<>>
        /\ \A k \in Replies : Tags(k) <=> outcome = "max_turns" /\ \A j \in Replies : j <= k
        /\ outcome = "max_turns" => Cardinality(Replies) = MaxTurns
        /\ outcome \in {"repeat", "mistakes"} => \A k \in Replies : Answered(k)
        /\ Within
  BY DEF OutcomeMatchesTranscript, Continues
<1>3. OutcomeMatchesTranscript' <=>
        /\ outcome' = "ok" => /\ transcript' # <<>>
                              /\ transcript'[Len(transcript')].role = "assistant"
                              /\ transcript'[Len(transcript')].calls = <<>>
        /\ \A k \in Replies' : Tags(k)' <=> outcome' = "max_turns" /\ \A j \in Replies' : j <= k
        /\ outcome' = "max_turns" => Cardinality(Replies') = MaxTurns
        /\ outcome' \in {"repeat", "mistakes"} => \A k \in Replies' : Answered(k)'
        /\ Within'
  BY DEF OutcomeMatchesTranscript, Continues
<1> HIDE DEF Within
<1>4. Len(transcript) \in Nat /\ Len(transcript') \in Nat /\ Replies \subseteq 1 .. Len(transcript)
  BY LenProperties, PositionsFinite DEF TypeOK
<1>5. pc # "done" => outcome = "running" BY DEF ControlInv
<1>6. CASE FinalReply \/ ToolReply \/ PleaseContinue
  <2> DEFINE n == Len(transcript) + 1
  <2>1. outcome = "running" BY <1>5, <1>6 DEF FinalReply, ToolReply, PleaseContinue
  <2>2. outcome' \in {"ok", "canceled", "running"}
    BY <1>6, <2>1 DEF FinalReply, ToolReply, PleaseContinue, Return
  <2>3. Replies' = Replies \cup {n} BY <1>6, AppendsReply, OneReplyMore
  <2>4. transcript'[n] = Reply(draft.calls, draft.stall) BY <1>6, AppendsReply
  <2>5. \A k \in Replies : transcript'[k] = transcript[k]
    <3>1. transcript' = Appended \/ transcript' = Append(Appended, UserNudge("continue"))
      BY <1>6 DEF FinalReply, ToolReply, PleaseContinue
    <3> QED BY <1>4, <3>1, ReplyAdded, ContinueAdded
  <2>6. \A k \in Replies' : ~Tags(k)'
    <3>1. \A k \in Replies : ~Tags(k) BY <1>2, <2>1
    <3>2. transcript'[n].stop # "max_turns" BY <2>4 DEF Reply
    <3> QED BY <2>3, <2>5, <3>1, <3>2
  <2>7. outcome' = "ok" => /\ transcript' # <<>>
                           /\ transcript'[Len(transcript')].role = "assistant"
                           /\ transcript'[Len(transcript')].calls = <<>>
    <3> SUFFICES ASSUME outcome' = "ok"
                 PROVE  /\ transcript' # <<>>
                        /\ transcript'[Len(transcript')].role = "assistant"
                        /\ transcript'[Len(transcript')].calls = <<>>
      OBVIOUS
    <3>1. FinalReply BY <1>6, <2>1 DEF ToolReply, PleaseContinue, Return
    <3>2. transcript' = Appended /\ draft.calls = <<>> BY <3>1 DEF FinalReply
    <3>3. Len(transcript') = n BY <3>2, ReplyAdded
    <3>4. transcript' # <<>> BY <1>4, <3>3, EmptySeq
    <3> QED BY <2>4, <3>2, <3>3, <3>4 DEF Reply
  <2> QED BY <1>1, <1>3, <2>2, <2>6, <2>7
<1>7. CASE EndRound
  <2>1. outcome = "running" BY <1>5, <1>7 DEF EndRound
  <2>2. outcome' \in {"running", "repeat", "mistakes"}
    <3>1. Observed.verdict.action = "halt" => Observed.verdict.kind \in {"repeat", "mistakes"}
      BY ObservedTyped DEF G!Verdicts, G!Kinds
    <3> QED BY <1>7, <2>1, <3>1 DEF EndRound
  <2>3. Replies' = Replies BY <1>7, EndRoundAppends, NoReplyMore
  <2>4. \A k \in Replies : transcript'[k] = transcript[k] BY <1>4, <1>7, EndRoundAppends
  <2>5. \A k \in Replies' : ~Tags(k)' BY <1>2, <2>1, <2>3, <2>4
  <2>6. \A k \in Replies' : Answered(k)' BY <1>7, RoundAnswers
  <2> QED BY <1>1, <1>3, <2>2, <2>5, <2>6
<1>8. CASE TurnsExhausted
  <2>1. outcome = "running" BY <1>5, <1>8 DEF TurnsExhausted
  <2>2. outcome' = "max_turns" BY <1>8 DEF TurnsExhausted, Return
  <2>3. Replies' = Replies BY <1>8, TaggingAppendsNothing
  <2>4. /\ LastReply \in Replies /\ \A j \in Replies : j <= LastReply
        /\ transcript'[LastReply].stop = "max_turns"
        /\ \A k \in Replies : k # LastReply => transcript'[k] = transcript[k]
    BY <1>4, <1>8, LastIsTagged
  <2>5. ASSUME NEW k \in Replies' PROVE Tags(k)' <=> \A j \in Replies' : j <= k
    <3>1. CASE k = LastReply BY <2>3, <2>4, <3>1
    <3>2. CASE k # LastReply
      <4>1. ~Tags(k)' BY <1>2, <2>1, <2>3, <2>4, <3>2
      <4>2. ~(LastReply <= k) BY <1>4, <2>3, <2>4, <3>2
      <4> QED BY <2>3, <2>4, <4>1, <4>2
    <3> QED BY <3>1, <3>2
  <2>6. Cardinality(Replies) = MaxTurns
    <3>1. Cardinality(Replies) = turn BY <1>8 DEF TurnsExhausted, ReplyInv
    <3>2. turn \in 0 .. MaxTurns /\ MaxTurns \in Nat BY LoopAssumption DEF TypeOK
    <3>3. turn >= MaxTurns BY <1>8 DEF TurnsExhausted
    <3> QED BY <3>1, <3>2, <3>3
  <2> QED BY <1>1, <1>3, <2>2, <2>3, <2>5, <2>6
<1>9. CASE /\ UNCHANGED <<transcript, autoContinues>>
           /\ pc = "done" => UNCHANGED vars
           /\ outcome' = outcome
              \/ outcome' \in {"canceled", "overflow", "provider", "retries", "aborted"}
  <2>1. Replies' = Replies /\ \A k : (Answered(k)' <=> Answered(k)) /\ (Tags(k)' <=> Tags(k))
    BY <1>9 DEF Replies, Answered
  <2>2. CASE outcome' = outcome BY <1>1, <1>2, <1>3, <1>9, <2>1, <2>2
  <2>3. CASE outcome' # outcome
    <3>1. pc # "done" BY <1>9, <2>3 DEF vars
    <3>2. outcome = "running" BY <1>5, <3>1
    <3> QED BY <1>1, <1>2, <1>3, <1>9, <2>1, <2>3, <3>2
  <2> QED BY <2>2, <2>3
<1> QED BY <1>6, <1>7, <1>8, <1>9, OtherSteps

-----------------------------------------------------------------------------
(* Effects. *)

\* The reply whose tools run is the reply of this turn, and the last message.
LEMMA CurrentReply ==
  ASSUME TypeOK, ReplyInv, pc = "tools"
  PROVE  ReplyOf(turn) = Len(transcript) /\ Len(transcript) # 0
<1> DEFINE n == Len(transcript)
<1>1. n \in Replies /\ Cardinality(Replies) = turn + 1 BY DEF ReplyInv
<1>2. n \in Nat /\ Replies \subseteq 1 .. n /\ IsFiniteSet(Replies) /\ turn \in Nat
  BY PositionsFinite, LoopAssumption DEF TypeOK
<1> HIDE DEF n
<1>3. {j \in Replies : j < n} = Replies \ {n}
  <2>1. \A j \in Replies : j < n <=> j # n BY <1>2
  <2> QED BY <2>1
<1>4. Cardinality({j \in Replies : j < n}) = turn
  <2>1. Cardinality(Replies \ {n}) = Cardinality(Replies) - 1 BY <1>1, <1>2, FS_RemoveElement
  <2> QED BY <1>1, <1>2, <1>3, <2>1
<1>5. ReplyOf(turn) = n BY <1>1, <1>4, ReplyIsOf DEF TypeOK
<1> QED BY <1>1, <1>2, <1>5 DEF n

\* A round ends with its results in the transcript, or the run ends with it.
LEMMA LeavesTools ==
  ASSUME [Next]_vars, pc = "tools"
  PROVE  \/ EndRound
         \/ turn' = turn /\ (pc' = "tools" \/ outcome' \in {"canceled", "aborted"})
<1>1. CASE RoundAborts BY <1>1 DEF RoundAborts, Return
<1>2. CASE Cancel BY <1>2 DEF Cancel
<1>3. CASE \E i \in DOMAIN calls : Tool(i) BY <1>3, ToolFrame
<1>4. CASE UNCHANGED vars BY <1>4 DEF vars
<1> QED BY <1>1, <1>2, <1>3, <1>4
  DEF Next, TurnsExhausted, BeginTurn, OpenStream, Stream, StreamStart, StreamDone, StreamError,
      StreamClose, StreamCancelled, StreamToolCall, GiveUp, BackOff, Retry, BackOffCancelled, FinalReply,
      PleaseContinue, ToolReply, Finished

\* What executed in a turn is answered in the transcript when its round is complete,
\* and stays answered.
LEMMA RecordedStep ==
  ASSUME TypeOK, ControlInv, ReplyInv, RoundInv, TranscriptPaired, EffectsRecorded, [Next]_vars
  PROVE  EffectsRecorded'
<1>0. Preserved BY TranscriptStep
<1>1. ASSUME NEW t, NEW k \in Replies', ReplyOf(t)' = k,
             transcript'[k].calls # <<>>, Answered(k)'
      PROVE  (ReplyOf(t) # 0 /\ transcript[ReplyOf(t)].calls # <<>> /\ Answered(ReplyOf(t)))'
  <2>1. k # 0 BY <1>0, NextPositionsFinite DEF Preserved
  <2> QED BY <1>1, <2>1 DEF Answered
<1>2. ASSUME NEW t, ReplyOf(t) # 0, transcript[ReplyOf(t)].calls # <<>>, Answered(ReplyOf(t))
      PROVE  (ReplyOf(t) # 0 /\ transcript[ReplyOf(t)].calls # <<>> /\ Answered(ReplyOf(t)))'
  <2>1. PICK k : k = ReplyOf(t) OBVIOUS
  <2>2. k \in Replies /\ ReplyOf(t)' = k BY <1>0, <1>2, <2>1, KeptReplyOf
  <2>3. k \in Replies' /\ transcript'[k].calls = transcript[k].calls BY <1>0, <2>2, KeptReplies
  <2>4. Answered(k) BY <1>2, <2>1
  <2>5. Answered(k)' BY <1>0, <2>2, <2>4, KeptAnswers
  <2> QED BY <1>1, <1>2, <2>1, <2>2, <2>3, <2>5
<1>3. \A e \in effects :
        \/ /\ ReplyOf(e[1]) # 0 /\ transcript[ReplyOf(e[1])].calls # <<>>
           /\ Answered(ReplyOf(e[1]))
        \/ e[1] = turn /\ (pc = "tools" \/ outcome \in {"canceled", "aborted"})
  BY DEF EffectsRecorded
<1>4. CASE \E i \in DOMAIN calls : Tool(i)
  <2>1. PICK i \in DOMAIN calls : Tool(i) BY <1>4
  <2>2. pc' = "tools" /\ turn' = turn BY <2>1, ToolFrame
  <2>3. effects' \subseteq effects \cup {<<turn, i>>}
    <3>1. CASE ToolStart(i) BY <3>1 DEF ToolStart, history
    <3>2. CASE ~ToolStart(i) BY <2>1, <3>2, ToolMoves
    <3> QED BY <3>1, <3>2
  <2>4. \A e \in effects' : e[1] = turn \/ (e \in effects /\ ~(e[1] = turn)) BY <2>3
  <2> QED BY <1>2, <1>3, <2>2, <2>4 DEF EffectsRecorded
<1>5. CASE UNCHANGED <<effects, approved, parallel>>
  <2> SUFFICES ASSUME NEW e \in effects,
                      e[1] = turn, pc = "tools" \/ outcome \in {"canceled", "aborted"}
               PROVE  (\/ /\ ReplyOf(e[1]) # 0 /\ transcript[ReplyOf(e[1])].calls # <<>>
                          /\ Answered(ReplyOf(e[1]))
                       \/ e[1] = turn /\ (pc = "tools" \/ outcome \in {"canceled", "aborted"}))'
    BY <1>2, <1>3, <1>5 DEF EffectsRecorded
  <2>1. CASE EndRound
    <3>1. PICK t, k : t = e[1] /\ k = Len(transcript) OBVIOUS
    <3>2. pc = "tools" BY <2>1 DEF EndRound
    <3>3. ReplyOf(t) = k /\ k # 0 BY <3>1, <3>2, CurrentReply
    <3>4. /\ k \in Replies /\ transcript[k].calls = calls /\ \A j \in Replies' : Answered(j)'
      BY <2>1, <3>1, RoundAnswers
    <3>5. ReplyOf(t)' = k BY <1>0, <3>3, KeptReplyOf
    <3>6. k \in Replies' /\ transcript'[k].calls = calls BY <1>0, <3>4, KeptReplies
    <3>7. calls # <<>>
      <4>1. e[2] \in DOMAIN calls BY <3>2 DEF RoundInv
      <4> QED BY <4>1, EmptySeq
    <3>8. Answered(k)' BY <3>4, <3>6
    <3> QED BY <1>1, <3>1, <3>5, <3>6, <3>7, <3>8
  <2>2. CASE pc = "tools" /\ ~EndRound BY <2>2, LeavesTools
  <2>3. CASE pc # "tools"
    <3>1. pc = "done" /\ outcome \in {"canceled", "aborted"} BY <2>3 DEF ControlInv
    <3>2. UNCHANGED <<outcome, turn>>
      <4>1. UNCHANGED vars
        BY <3>1, OtherSteps DEF TurnsExhausted, FinalReply, ToolReply, PleaseContinue, EndRound
      <4> QED BY <4>1 DEF vars
    <3> QED BY <3>1, <3>2
  <2> QED BY <2>1, <2>2, <2>3
<1> QED BY <1>4, <1>5, EffectsFrame

\* A step leaves the calls of the round and their results alone, unless it is a tool's,
\* starts a round or ends it.
LEMMA RoundFrame ==
  ASSUME ControlInv, [Next]_vars, ~(\E i \in DOMAIN calls : Tool(i))
  PROVE  \/ calls' = <<>>
         \/ result' = [i \in DOMAIN calls' |-> "none"]
         \/ UNCHANGED <<calls, result, turn>>
<1>1. CASE EndRound BY <1>1 DEF EndRound
<1>2. CASE ToolReply BY <1>2 DEF ToolReply, roundVars
<1>3. CASE PleaseContinue BY <1>3 DEF PleaseContinue, roundVars, ControlInv
<1>4. CASE Cancel \/ TurnsExhausted \/ BeginTurn \/ OpenStream \/ FinalReply \/ RoundAborts
  BY <1>4 DEF Cancel, TurnsExhausted, BeginTurn, OpenStream, FinalReply, RoundAborts, roundVars
<1>5. CASE Stream BY <1>5
  DEF Stream, StreamStart, StreamDone, StreamError, StreamClose, StreamCancelled, StreamToolCall,
      StreamRest, roundVars
<1>6. CASE GiveUp \/ BackOff \/ Retry \/ BackOffCancelled BY <1>6
  DEF GiveUp, BackOff, Retry, BackOffCancelled, RetryRest, roundVars
<1>7. CASE UNCHANGED vars BY <1>7 DEF vars, roundVars
<1> QED BY <1>1, <1>2, <1>3, <1>4, <1>5, <1>6, <1>7 DEF Next, Finished

\* A gated call executes after its own approval, and in a sequential round nothing
\* executes past a call that aborted it.
LEMMA LicensedStep ==
  ASSUME TypeOK, ControlInv, ReplyInv, RoundInv, EffectsAreLicensed, [Next]_vars
  PROVE  EffectsAreLicensed'
<1>0. Preserved BY TranscriptStep
<1>1. ASSUME NEW e, ReplyOf(e[1]) # 0, approved \subseteq approved',
             transcript[ReplyOf(e[1])].calls[e[2]] \in Gated => e \in approved'
      PROVE  (ReplyOf(e[1]) # 0 /\ (transcript[ReplyOf(e[1])].calls[e[2]] \in Gated => e \in approved))'
  <2>1. PICK t, k : t = e[1] /\ k = ReplyOf(t) OBVIOUS
  <2>2. k \in Replies /\ ReplyOf(t)' = k BY <1>0, <1>1, <2>1, KeptReplyOf
  <2>3. transcript'[k].calls = transcript[k].calls BY <1>0, <2>2, KeptReplies
  <2> QED BY <1>1, <2>1, <2>2, <2>3
<1>2. \A e \in effects :
        ReplyOf(e[1]) # 0 /\ (transcript[ReplyOf(e[1])].calls[e[2]] \in Gated => e \in approved)
  BY DEF EffectsAreLicensed
<1>3. CASE UNCHANGED <<effects, approved, parallel>> /\ ~(\E i \in DOMAIN calls : Tool(i))
  <2>1. ~parallel' => \A i, j \in DOMAIN calls' :
                         i < j /\ result'[i] = "abort" => <<turn', j>> \notin effects'
    BY <1>3, EmptySeq, RoundFrame DEF EffectsAreLicensed
  <2>2. approved \subseteq approved' BY <1>3
  <2> QED BY <1>1, <1>2, <1>3, <2>1, <2>2 DEF EffectsAreLicensed
<1>4. CASE \E i \in DOMAIN calls : Tool(i)
  <2>1. PICK k \in DOMAIN calls : Tool(k) BY <1>4
  <2>2. pc = "tools" /\ UNCHANGED <<turn, calls, parallel>> BY <2>1, ToolFrame
  <2>3. CASE ToolStart(k)
    <3>1. UNCHANGED <<result, effects, approved>> BY <2>3 DEF ToolStart, history
    <3>2. approved \subseteq approved' BY <3>1
    <3> QED BY <1>1, <1>2, <2>2, <3>1, <3>2 DEF EffectsAreLicensed
  <2>4. CASE ~ToolStart(k)
    <3>1. /\ status[k] \in {"started", "asked", "executing"}
          /\ \A j \in DOMAIN calls : j # k => result'[j] = result[j]
          /\ approved \subseteq approved'
          /\ \/ effects' = effects
             \/ effects' = effects \cup {<<turn, k>>} /\ status[k] = "executing"
      BY <2>1, <2>4, ToolMoves
    <3>2. ASSUME status[k] = "executing"
          PROVE  ReplyOf(turn) # 0
                 /\ (transcript[ReplyOf(turn)].calls[k] \in Gated => <<turn, k>> \in approved')
      <4>1. ReplyOf(turn) = Len(transcript) /\ Len(transcript) # 0 BY <2>2, CurrentReply
      <4>2. transcript[Len(transcript)].calls = calls BY <2>2 DEF ReplyInv
      <4>3. calls[k] \in Gated => <<turn, k>> \in approved BY <2>2, <3>2 DEF RoundInv
      <4> QED BY <3>1, <4>1, <4>2, <4>3
    <3>3. \A e \in effects' :
            ReplyOf(e[1]) # 0 /\ (transcript[ReplyOf(e[1])].calls[e[2]] \in Gated => e \in approved')
      <4> SUFFICES ASSUME NEW e \in effects'
                   PROVE  ReplyOf(e[1]) # 0
                          /\ (transcript[ReplyOf(e[1])].calls[e[2]] \in Gated => e \in approved')
        OBVIOUS
      <4>1. CASE e \in effects BY <1>2, <3>1, <4>1
      <4>2. CASE e = <<turn, k>> /\ status[k] = "executing" BY <3>2, <4>2
      <4> QED BY <3>1, <4>1, <4>2
    <3>4. ASSUME ~parallel, NEW i \in DOMAIN calls, NEW j \in DOMAIN calls, i < j, result'[i] = "abort",
                 <<turn, j>> \in effects'
          PROVE  FALSE
      <4>1. \A m, n \in DOMAIN calls :
              m < n /\ status[n] # "idle" => status[m] = "finished" /\ result[m] # "abort"
        BY <2>2, <3>4 DEF RoundInv
      <4>2. CASE j = k
        <5>1. result[i] # "abort" /\ i # k
          <6>1. DOMAIN calls = 1 .. Len(calls) BY LenProperties DEF TypeOK
          <6> QED BY <3>1, <3>4, <4>1, <4>2, <6>1
        <5> QED BY <3>1, <3>4, <5>1
      <4>3. CASE j # k
        <5>1. <<turn, j>> \in effects BY <3>1, <3>4, <4>3
        <5>2. status[j] = "finished" BY <2>2, <5>1 DEF RoundInv
        <5>3. i # k BY <3>1, <3>4, <4>1, <5>2
        <5> QED BY <3>1, <3>4, <4>1, <5>2, <5>3
      <4> QED BY <4>2, <4>3
    <3> QED BY <1>1, <2>2, <3>1, <3>3, <3>4 DEF EffectsAreLicensed
  <2> QED BY <2>3, <2>4
<1> QED BY <1>3, <1>4, EffectsFrame

-----------------------------------------------------------------------------
(* The theorems. *)

\* A request starts with an empty transcript, no effect and a fresh guard.
LEMMA LoopInit ==
  ASSUME Init
  PROVE  IInv
<1> USE DEF Init
<1>1. Replies = {} /\ Continues = {} BY DEF Replies, Continues
<1>2. Cardinality(Replies) = 0 /\ Cardinality(Continues) = 0 BY <1>1, FS_EmptySet
<1>3. TypeOK
  <2>1. guard \in G!GuardStates BY DEF G!NewGuard, G!GuardStates
  <2>2. /\ transcript \in Seq(Messages) /\ calls \in Seq(Calls) /\ Len(calls) = 0 /\ DOMAIN calls = {}
        /\ status \in [DOMAIN calls -> {"idle", "started", "asked", "executing", "finished"}]
        /\ result \in [DOMAIN calls -> {"none", "ok", "error", "abort"}]
    BY EmptySeq
  <2>3. /\ draft \in [started : BOOLEAN, done : BOOLEAN, calls : Seq(Calls), stall : BOOLEAN]
        /\ Len(draft.calls) = 0
    BY EmptySeq DEF NoDraft
  <2>4. ui \in [loop : BOOLEAN, turn : BOOLEAN, message : BOOLEAN, tools : 0 .. MaxCalls]
    BY LoopAssumption
  <2>5. /\ turn \in 0 .. MaxTurns /\ attempt \in 0 .. MaxRetries
        /\ autoContinues \in 0 .. MaxAutoContinues /\ MaxCalls \in Nat
    BY LoopAssumption
  <2>6. Len(draft.calls) <= MaxCalls /\ Len(calls) <= MaxCalls BY <2>2, <2>3, <2>5
  <2>7. /\ effects \subseteq (0 .. MaxTurns) \X (1 .. MaxCalls)
        /\ approved \subseteq (0 .. MaxTurns) \X (1 .. MaxCalls)
    OBVIOUS
  <2>8. /\ pc \in {"turn", "attempt", "stream", "failed", "backoff", "reply", "tools", "done"}
        /\ cancelled \in BOOLEAN /\ parallel \in Modes /\ outcome \in Outcomes
        /\ err \in Errors \cup {"canceled"}
    BY DEF Errors, Outcomes
  <2> QED BY <2>1, <2>2, <2>3, <2>4, <2>5, <2>6, <2>7, <2>8 DEF TypeOK
<1>4. ControlInv /\ RoundInv /\ ObserverInv BY LoopAssumption DEF ControlInv, RoundInv, ObserverInv, NoDraft
<1>5. ReplyInv BY <1>1, <1>2 DEF ReplyInv
<1>6. NudgeInv BY <1>2 DEF NudgeInv
<1>7. GuardInv BY EmptySeq DEF GuardInv, G!Halted
<1>8. TranscriptPaired BY <1>1 DEF TranscriptPaired
<1>9. EventsBalance BY DEF EventsBalance
<1>10. OutcomeMatchesTranscript
  <2>1. Cardinality(Continues) <= MaxAutoContinues BY <1>2, LoopAssumption
  <2> QED BY <1>1, <2>1 DEF OutcomeMatchesTranscript, Continues
<1>11. EffectsRecorded /\ EffectsAreLicensed BY DEF EffectsRecorded, EffectsAreLicensed
<1> QED BY <1>3, <1>4, <1>5, <1>6, <1>7, <1>8, <1>9, <1>10, <1>11 DEF IInv

\* No step of Run breaks it.
LEMMA LoopStep ==
  ASSUME IInv, [Next]_vars
  PROVE  IInv'
<1> USE DEF IInv
<1>1. TypeOK' BY TypeStep
<1>2. ControlInv' /\ ReplyInv' /\ RoundInv' BY ControlStep, ReplyStep, RoundStep
<1>3. ObserverInv' /\ EventsBalance' BY ObserverStep
<1>4. NudgeInv' /\ GuardInv' BY NudgeStep, GuardStep
<1>5. TranscriptPaired' BY PairedStep
<1>6. OutcomeMatchesTranscript' BY <1>1, <1>4, OutcomeStep
<1>7. EffectsRecorded' /\ EffectsAreLicensed' BY RecordedStep, LicensedStep
<1> QED BY <1>1, <1>2, <1>3, <1>4, <1>5, <1>6, <1>7

\* IInv is an inductive invariant of loop.Run (loop/run.go): one reply per turn, tools
\* started in source order, effects of finished calls, counters that count.
THEOREM LoopInductive == Spec => []IInv
<1>1. Init => IInv BY LoopInit
<1>2. IInv /\ [Next]_vars => IInv' BY LoopStep
<1> QED BY <1>1, <1>2, PTL DEF Spec

\* Run stays within its types: no more than MaxTurns turns and MaxRetries retries of
\* one of them.
THEOREM LoopIsTyped == Spec => []TypeOK
<1>1. IInv => TypeOK BY DEF IInv
<1> QED BY <1>1, LoopInductive, PTL

\* Whatever the model streams, the tools return and whenever the caller cancels, the
\* calls of a reply that Run appends (loop/run.go:126) are answered at once and in
\* order (loop/run.go:154) before anything else is appended or requested, and no
\* result is without its call.
THEOREM TranscriptsArePaired == Spec => []TranscriptPaired
<1>1. IInv => TranscriptPaired BY DEF IInv
<1> QED BY <1>1, LoopInductive, PTL

\* Every tool that ran (executeToolCalls and executeOneTool, loop/run.go) is answered
\* in the transcript or belongs to the round that the run gave up, ran with its own
\* approval if it needs one, and in a sequential round not past an abort.
THEOREM EffectsAreAccountedFor == Spec => []EffectsAccounted
<1>1. IInv => EffectsAccounted BY DEF IInv, EffectsAccounted
<1> QED BY <1>1, LoopInductive, PTL

\* The error, the stop reason and the messages of RunResult agree (the returns of Run,
\* loop/run.go).
THEOREM OutcomesMatch == Spec => []OutcomeMatchesTranscript
<1>1. IInv => OutcomeMatchesTranscript BY DEF IInv
<1> QED BY <1>1, LoopInductive, PTL

\* The start and end events of Run (loop/run.go) balance for an observer.
THEOREM EventsAreBalanced == Spec => []EventsBalance
<1>1. IInv => EventsBalance BY DEF IInv
<1> QED BY <1>1, LoopInductive, PTL

\* "Nothing is appended to the transcript until an attempt succeeds" (loop/retry.go):
\* attempts and back-offs leave transcript, effects and the counters of Run alone.
THEOREM RetriesKeepHistory == Spec => RetryKeepsHistory
<1>1. [Next]_vars => [Attempting => UNCHANGED <<transcript, effects, autoContinues, guardVars>>]_vars
  <2> SUFFICES ASSUME [Next]_vars, Attempting
               PROVE  UNCHANGED <<transcript, effects, autoContinues, guardVars>>
    OBVIOUS
  <2>1. UNCHANGED <<transcript, autoContinues, guardVars>>
    BY OtherSteps
    DEF Attempting, TurnsExhausted, FinalReply, ToolReply, PleaseContinue, EndRound
  <2>2. UNCHANGED effects BY EffectsFrame, ToolFrame DEF Attempting
  <2> QED BY <2>1, <2>2
<1> QED BY <1>1, PTL DEF Spec, RetryKeepsHistory

\* Run consults the guardrails as they ask to be: once per complete round, in order,
\* never after a halt, on one guardState (newGuardState at loop/run.go:113 and
\* guard.observe at :156).
THEOREM DrivesTheGuardrails == Spec => GuardSpec
<1>1. Init => G!Init BY DEF Init, G!Init
<1>2. IInv /\ [Next]_vars => [G!Next]_(G!vars)
  <2> SUFFICES ASSUME IInv, [Next]_vars PROVE [G!Next]_(G!vars) OBVIOUS
  <2> USE DEF IInv
  <2>1. CASE EndRound
    <3>1. G!Observe(RoundKey, RoundFailed) BY <2>1, ObservesRound
    <3> QED BY <3>1, ObservedTyped DEF G!Next
  <2>2. CASE UNCHANGED guardVars BY <2>2 DEF guardVars, G!vars
  <2>3. EndRound \/ UNCHANGED guardVars
    BY OtherSteps DEF TurnsExhausted, FinalReply, ToolReply, PleaseContinue
  <2> QED BY <2>1, <2>2, <2>3
<1> QED BY <1>1, <1>2, LoopInductive, PTL DEF Spec, GuardSpec, G!Spec

\* What is proved of the guardrails is proved of those of this loop.
LEMMA SameGuardSpec == GuardSpec => GP!Spec
<1>1. G!Init => GP!Init BY DEF G!Init, GP!Init, G!NewGuard, GP!NewGuard
<1>2. [G!Next]_(G!vars) => [GP!Next]_(GP!vars)
  BY SameGuard DEF G!Next, GP!Next, G!vars, GP!vars, G!Observe, GP!Observe, G!Halted, GP!Halted
<1> QED BY <1>1, <1>2, PTL DEF GuardSpec, G!Spec, GP!Spec

\* So the loop halts for a repetition or for mistakes exactly at the limits of the
\* policy: on the last RepeatHalt rounds alike, or the last MistakeHalt rounds failed
\* (verdict.action "halt" in Run, loop/run.go:156).
THEOREM LoopHaltsAreExact == Spec => []G!HaltsExactlyAtTheLimit
<1>1. GuardSpec => GP!Spec BY SameGuardSpec
<1>2. GP!Spec => []GP!HaltsExactlyAtTheLimit
  <2>1. MaxTurns \in Nat BY LoopAssumption
  <2> QED BY <2>1, LoopAssumption, GP!HaltsAreExact
<1>3. GP!HaltsExactlyAtTheLimit => G!HaltsExactlyAtTheLimit
  BY DEF G!HaltsExactlyAtTheLimit, GP!HaltsExactlyAtTheLimit, G!Halt, GP!Halt, G!Repeats, GP!Repeats,
         G!Fails, GP!Fails, G!RepeatHalt, GP!RepeatHalt, G!MistakeHalt, GP!MistakeHalt, G!OrDefault,
         GP!OrDefault
<1> QED BY <1>1, <1>2, <1>3, DrivesTheGuardrails, PTL

\* And "the response is graduated" (loop/guardrails.go): under an ordered policy, as the
\* default one is, Run halts a streak only after the nudge of its kind went unheeded.
THEOREM LoopResponseIsGraduated ==
  ASSUME G!PolicyOrdered PROVE Spec => []G!GraduatedResponse
<1>1. GuardSpec => GP!Spec BY SameGuardSpec
<1>2. GP!Spec => []GP!GraduatedResponse
  <2>1. MaxTurns \in Nat BY LoopAssumption
  <2>2. GP!PolicyOrdered
    BY DEF G!PolicyOrdered, GP!PolicyOrdered, G!RepeatNudge, GP!RepeatNudge, G!RepeatHalt, GP!RepeatHalt,
           G!MistakeNudge, GP!MistakeNudge, G!MistakeHalt, GP!MistakeHalt, G!OrDefault, GP!OrDefault
  <2> QED BY <2>1, <2>2, LoopAssumption, GP!ResponseIsGraduated
<1>3. GP!GraduatedResponse => G!GraduatedResponse
  BY DEF G!GraduatedResponse, GP!GraduatedResponse, G!Halt, GP!Halt, G!Nudge, GP!Nudge, G!GivenWithin,
         GP!GivenWithin, G!RepeatHalt, GP!RepeatHalt, G!MistakeHalt, GP!MistakeHalt, G!OrDefault,
         GP!OrDefault
<1> QED BY <1>1, <1>2, <1>3, DrivesTheGuardrails, PTL

-----------------------------------------------------------------------------
(* CodexAuth. *)

Pairs == [access : Nat, refresh : Nat]
StreamRecords == [pc : {"idle", "refreshing", "writing", "posting", "refused", "done"},
                  tokens : Pairs, refused : Nat, used : Nat,
                  out : {"none", "ok", "error", "permanent", "unauthorized", "lost"}]

\* Only stream s moves.
Moves(s) == /\ streams' \in [Streams -> StreamRecords] /\ \A t \in Streams \ {s} : streams'[t] = streams[t]

LEMMA AuthTyped ==
  ASSUME AuthTypeOK
  PROVE  /\ rotates \in BOOLEAN /\ newest \in Nat /\ valid \in Nat /\ faults \in Nat
         /\ old \subseteq Nat /\ revoked \subseteq Nat /\ authFile \in Pairs /\ cache \in [Managers -> Pairs]
         /\ held \subseteq Managers /\ streams \in [Streams -> StreamRecords]
         /\ \A s \in Streams : streams[s] \in StreamRecords /\ streams[s].tokens \in Pairs /\ Manager[s] \in Managers
         /\ NoTokens \in Pairs
<1>1. streams \in [Streams -> StreamRecords] BY DEF AuthTypeOK, StreamRecords, Pairs
<1>2. \A s \in Streams : streams[s] \in StreamRecords BY <1>1
<1>3. \A s \in Streams : streams[s].tokens \in Pairs BY <1>2 DEF StreamRecords
<1> QED BY <1>1, <1>2, <1>3 DEF AuthTypeOK, Managers, NoTokens, Pairs

\* The tokens EnsureFresh goes on with.
KnownTokens(s) == IF cache[Manager[s]] = NoTokens THEN authFile ELSE cache[Manager[s]]

LEMMA EnsureMoves ==
  ASSUME AuthTypeOK, NEW s \in Streams, Ensure(s)
  PROVE  /\ Moves(s) /\ streams[s].pc \in {"idle", "refused"}
         /\ streams'[s].pc = (IF Stale(KnownTokens(s)) THEN "refreshing" ELSE "posting")
         /\ streams'[s].tokens = KnownTokens(s) /\ streams'[s].out = streams[s].out
         /\ KnownTokens(s) \in Pairs
         /\ cache' = [cache EXCEPT ![Manager[s]] = KnownTokens(s)]
         /\ Manager[s] \notin held /\ held' = (IF Stale(KnownTokens(s)) THEN held \cup {Manager[s]} ELSE held)
         /\ UNCHANGED <<rotates, newest, valid, old, revoked, authFile, faults>>
<1> DEFINE k == KnownTokens(s)
           p == IF Stale(k) THEN "refreshing" ELSE "posting"
           r == [streams[s] EXCEPT !.pc = p, !.tokens = k]
<1>1. /\ streams[s].pc \in {"idle", "refused"} /\ Manager[s] \notin held
      /\ cache' = [cache EXCEPT ![Manager[s]] = k] /\ streams' = [streams EXCEPT ![s].pc = p, ![s].tokens = k]
      /\ held' = (IF Stale(k) THEN held \cup {Manager[s]} ELSE held)
      /\ UNCHANGED <<rotates, newest, valid, old, revoked, authFile, faults>>
  BY DEF Ensure, Locks, KnownTokens
<1>2. k \in Pairs BY AuthTyped DEF KnownTokens
<1>3. p \in {"refreshing", "posting"} OBVIOUS
<1> HIDE DEF k, p
<1>4. streams' = [streams EXCEPT ![s] = r] BY <1>1, AuthTyped
<1>5. r \in StreamRecords /\ r.pc = p /\ r.tokens = k /\ r.out = streams[s].out
  <2>1. streams[s] \in StreamRecords BY AuthTyped
  <2> QED BY <1>2, <1>3, <2>1 DEF StreamRecords
<1> HIDE DEF r
<1>6. Moves(s) /\ streams'[s] = r BY <1>4, <1>5, AuthTyped DEF Moves
<1> QED BY <1>1, <1>2, <1>5, <1>6 DEF k, p

LEMMA StreamSet ==
  ASSUME AuthTypeOK, NEW s \in Streams, NEW r \in StreamRecords, streams' = [streams EXCEPT ![s] = r]
  PROVE  Moves(s) /\ streams'[s] = r
BY AuthTyped DEF Moves

LEMMA RefreshMoves ==
  ASSUME AuthTypeOK, NEW s \in Streams, Refresh(s)
  PROVE  /\ Moves(s) /\ streams[s].pc = "refreshing" /\ streams[s].tokens.refresh = valid
         /\ streams'[s].pc = "writing" /\ streams'[s].out = streams[s].out
         /\ streams'[s].tokens.access = newest + 1
         /\ streams'[s].tokens.refresh = (IF rotates THEN newest + 1 ELSE streams[s].tokens.refresh)
         /\ newest' = newest + 1 /\ valid' = (IF rotates THEN newest + 1 ELSE valid)
         /\ UNCHANGED <<rotates, old, revoked, authFile, cache, held, faults>>
<1> DEFINE k == Merged(streams[s].tokens, NewTokens)
           r == [streams[s] EXCEPT !.pc = "writing", !.tokens = k]
<1>1. /\ streams[s].pc = "refreshing" /\ streams[s].tokens.refresh = valid
      /\ newest' = newest + 1 /\ valid' = (IF rotates THEN newest + 1 ELSE valid)
      /\ streams' = [streams EXCEPT ![s].pc = "writing", ![s].tokens = Merged(@, NewTokens)]
      /\ UNCHANGED <<rotates, old, revoked, authFile, cache, held, faults>>
  BY DEF Refresh, Issue
<1>2. streams[s] \in StreamRecords /\ streams[s].tokens \in Pairs /\ newest \in Nat BY AuthTyped
<1>3. /\ k \in Pairs /\ k.access = newest + 1
      /\ k.refresh = (IF rotates THEN newest + 1 ELSE streams[s].tokens.refresh)
  BY <1>2 DEF Merged, NewTokens, Pairs
<1>4. streams' = [streams EXCEPT ![s].pc = "writing", ![s].tokens = k] BY <1>1, <1>2, AuthTyped
<1> HIDE DEF k
<1>5. streams' = [streams EXCEPT ![s] = r] BY <1>4, AuthTyped
<1>6. r \in StreamRecords /\ r.pc = "writing" /\ r.tokens = k /\ r.out = streams[s].out
  BY <1>2, <1>3 DEF StreamRecords
<1> HIDE DEF r
<1>7. Moves(s) /\ streams'[s] = r BY <1>5, <1>6, StreamSet
<1> QED BY <1>1, <1>3, <1>6, <1>7

LEMMA EndMoves ==
  ASSUME AuthTypeOK, NEW s \in Streams, NEW o \in {"ok", "error", "permanent"}, End(s, o)
  PROVE  /\ Moves(s) /\ streams'[s].pc = "done" /\ streams'[s].out = o /\ streams'[s].tokens = streams[s].tokens
<1> DEFINE r == [streams[s] EXCEPT !.pc = "done", !.out = o]
<1>1. streams' = [streams EXCEPT ![s] = r] BY AuthTyped DEF End
<1>2. streams[s] \in StreamRecords BY AuthTyped
<1>3. r \in StreamRecords /\ r.pc = "done" /\ r.tokens = streams[s].tokens /\ r.out = o
  BY <1>2 DEF StreamRecords
<1> HIDE DEF r
<1> QED BY <1>1, <1>3, StreamSet

LEMMA GoMoves ==
  ASSUME AuthTypeOK, NEW s \in Streams, Go(s, "posting")
  PROVE  /\ Moves(s) /\ streams'[s].pc = "posting" /\ streams'[s].out = streams[s].out
         /\ streams'[s].tokens = streams[s].tokens
<1> DEFINE r == [streams[s] EXCEPT !.pc = "posting"]
<1>1. streams' = [streams EXCEPT ![s] = r] BY AuthTyped DEF Go
<1>2. streams[s] \in StreamRecords BY AuthTyped
<1>3. r \in StreamRecords /\ r.pc = "posting" /\ r.tokens = streams[s].tokens /\ r.out = streams[s].out
  BY <1>2 DEF StreamRecords
<1> HIDE DEF r
<1> QED BY <1>1, <1>3, StreamSet

LEMMA PostMoves ==
  ASSUME AuthTypeOK, NEW s \in Streams, Post(s)
  PROVE  /\ Moves(s) /\ streams[s].pc = "posting" /\ streams'[s].pc \in {"refused", "done"}
         /\ streams'[s].out \in {"ok", "none", "unauthorized"} /\ streams'[s].tokens = streams[s].tokens
         /\ UNCHANGED <<rotates, newest, valid, old, revoked, authFile, cache, held, faults>>
<1>1. /\ streams[s].pc = "posting"
      /\ UNCHANGED <<rotates, newest, valid, old, revoked, authFile, cache, held, faults>>
  BY DEF Post
<1>2. CASE ~Refuses(streams[s].tokens.access)
  <2>1. End(s, "ok") BY <1>2 DEF Post
  <2> QED BY <1>1, <2>1, EndMoves
<1>3. CASE Refuses(streams[s].tokens.access)
  <2> DEFINE a == streams[s].tokens.access
             n == streams[s].refused + 1
             p == IF streams[s].refused = 0 THEN "refused" ELSE "done"
             o == IF streams[s].refused = 0 THEN "none" ELSE "unauthorized"
             r == [streams[s] EXCEPT !.refused = n, !.used = a, !.pc = p, !.out = o]
  <2>1. streams' = [streams EXCEPT ![s].refused = n, ![s].used = a, ![s].pc = p, ![s].out = o]
    <3>1. streams' = [streams EXCEPT ![s].refused = @ + 1, ![s].used = a, ![s].pc = p, ![s].out = o]
      BY <1>3 DEF Post
    <3> QED BY <3>1, AuthTyped
  <2>2. streams[s] \in StreamRecords /\ streams[s].tokens \in Pairs BY AuthTyped
  <2>3. n \in Nat /\ a \in Nat /\ p \in {"refused", "done"} /\ o \in {"none", "unauthorized"}
    BY <2>2 DEF StreamRecords, Pairs
  <2> HIDE DEF a, n, p, o
  <2>4. streams' = [streams EXCEPT ![s] = r] BY <2>1, AuthTyped
  <2>5. r \in StreamRecords /\ r.pc = p /\ r.tokens = streams[s].tokens /\ r.out = o
    BY <2>2, <2>3 DEF StreamRecords
  <2> HIDE DEF r
  <2>6. Moves(s) /\ streams'[s] = r BY <2>4, <2>5, StreamSet
  <2> QED BY <1>1, <2>3, <2>5, <2>6
<1> QED BY <1>2, <1>3

LEMMA AuthTypeStep ==
  ASSUME AuthTypeOK, [AuthNext]_authVars
  PROVE  AuthTypeOK'
<1> DEFINE Typed == /\ rotates' \in BOOLEAN /\ newest' \in Nat /\ valid' \in Nat /\ faults' \in Nat
                    /\ old' \subseteq Nat /\ revoked' \subseteq Nat
                    /\ authFile' \in Pairs /\ cache' \in [Managers -> Pairs] /\ held' \subseteq Managers
                    /\ streams' \in [Streams -> StreamRecords]
<1> SUFFICES Typed BY DEF AuthTypeOK, StreamRecords, Pairs
<1>1. ASSUME NEW s \in Streams, Ensure(s) PROVE Typed
  <2>1. held' \subseteq Managers BY <1>1, EnsureMoves, AuthTyped
  <2>2. cache' \in [Managers -> Pairs] BY <1>1, EnsureMoves, AuthTyped
  <2> QED BY <1>1, <2>1, <2>2, EnsureMoves, AuthTyped DEF Moves
<1>2. ASSUME NEW s \in Streams, Refresh(s) PROVE Typed
  <2>1. newest + 1 \in Nat BY AuthTyped
  <2> QED BY <1>2, <2>1, RefreshMoves, AuthTyped DEF Moves
<1>3. ASSUME NEW s \in Streams, RefreshLost(s) PROVE Typed
  <2>1. /\ End(s, "error") /\ faults' = faults + 1 /\ held' = held \ {Manager[s]}
        /\ newest' \in {newest, newest + 1} /\ valid' \in {valid, newest + 1}
        /\ UNCHANGED <<rotates, old, revoked, authFile, cache>>
    BY <1>3 DEF RefreshLost, Fault, Free, Issue
  <2>2. newest + 1 \in Nat /\ faults + 1 \in Nat BY AuthTyped
  <2> QED BY <2>1, <2>2, EndMoves, AuthTyped DEF Moves
<1>4. ASSUME NEW s \in Streams, RefreshRefused(s) PROVE Typed
  <2>1. /\ End(s, "permanent") /\ held' = held \ {Manager[s]}
        /\ UNCHANGED <<rotates, newest, valid, old, revoked, authFile, cache, faults>>
    BY <1>4 DEF RefreshRefused, Free
  <2> QED BY <2>1, EndMoves, AuthTyped DEF Moves
<1>5. ASSUME NEW s \in Streams, Write(s) PROVE Typed
  <2>1. /\ held' = held \ {Manager[s]} /\ UNCHANGED <<rotates, newest, valid, old, revoked>>
        /\ \/ /\ authFile' = streams[s].tokens /\ cache' = [cache EXCEPT ![Manager[s]] = streams[s].tokens]
              /\ Go(s, "posting") /\ UNCHANGED faults
           \/ faults' = faults + 1 /\ End(s, "error") /\ UNCHANGED <<authFile, cache>>
    BY <1>5 DEF Write, Fault, Free
  <2>2. streams[s].tokens \in Pairs /\ faults + 1 \in Nat BY AuthTyped
  <2>3. authFile' \in Pairs /\ cache' \in [Managers -> Pairs] BY <2>1, <2>2, AuthTyped
  <2>4. streams' \in [Streams -> StreamRecords] BY <2>1, EndMoves, GoMoves DEF Moves
  <2> QED BY <2>1, <2>2, <2>3, <2>4, AuthTyped
<1>6. ASSUME NEW s \in Streams, Post(s) PROVE Typed
  BY <1>6, PostMoves, AuthTyped DEF Moves
<1>7. ASSUME NEW a \in 1 .. MaxTokens, Age(a) \/ Revoke(a) PROVE Typed
  <2>1. a \in Nat BY <1>7, AuthTyped DEF Age, Revoke
  <2> QED BY <1>7, <2>1, AuthTyped DEF Age, Revoke
<1>8. ASSUME NEW m \in Managers, Killed(m) PROVE Typed
  <2>1. /\ faults' = faults + 1 /\ cache' = [cache EXCEPT ![m] = NoTokens] /\ held' = held \ {m}
        /\ streams' = [s \in Streams |-> IF Manager[s] = m /\ streams[s].pc \notin {"idle", "done"}
                                         THEN [streams[s] EXCEPT !.pc = "done", !.out = "lost"] ELSE streams[s]]
        /\ UNCHANGED <<rotates, newest, valid, old, revoked, authFile>>
    BY <1>8 DEF Killed, Fault
  <2>2. \A r \in StreamRecords : [r EXCEPT !.pc = "done", !.out = "lost"] \in StreamRecords BY DEF StreamRecords
  <2>3. streams' \in [Streams -> StreamRecords] BY <2>1, <2>2, AuthTyped
  <2>4. cache' \in [Managers -> Pairs]
    <3>1. NoTokens \in Pairs /\ cache \in [Managers -> Pairs] BY AuthTyped
    <3> QED BY <2>1, <3>1
  <2>5. faults + 1 \in Nat BY AuthTyped
  <2> QED BY <2>1, <2>3, <2>4, <2>5, AuthTyped
<1>9. CASE UNCHANGED authVars BY <1>9, AuthTyped DEF authVars
<1> QED BY <1>1, <1>2, <1>3, <1>4, <1>5, <1>6, <1>7, <1>8, <1>9 DEF AuthNext

\* What may happen while nothing fails.
LEMMA NothingFails ==
  ASSUME AuthTypeOK, [AuthNext]_authVars, faults' = 0
  PROVE  /\ faults = 0
         /\ \/ \E s \in Streams : Ensure(s)
            \/ \E s \in Streams : Refresh(s)
            \/ \E s \in Streams : RefreshRefused(s)
            \/ \E s \in Streams : Write(s) /\ authFile' = streams[s].tokens
                                  /\ cache' = [cache EXCEPT ![Manager[s]] = streams[s].tokens] /\ Go(s, "posting")
            \/ \E s \in Streams : Post(s)
            \/ UNCHANGED <<rotates, newest, valid, authFile, cache, held, streams, faults>>
<1>1. faults \in Nat BY AuthTyped
<1>2. ~Fault BY <1>1 DEF Fault
<1>3. \A s \in Streams : ~RefreshLost(s) BY <1>2 DEF RefreshLost
<1>4. \A m \in Managers : ~Killed(m) BY <1>2 DEF Killed
<1>5. \A s \in Streams : Write(s) =>
        /\ authFile' = streams[s].tokens /\ cache' = [cache EXCEPT ![Manager[s]] = streams[s].tokens]
        /\ Go(s, "posting") /\ UNCHANGED faults
  BY <1>2 DEF Write
<1>6. \A a \in 1 .. MaxTokens : Age(a) \/ Revoke(a)
     => UNCHANGED <<rotates, newest, valid, authFile, cache, held, streams, faults>>
  BY DEF Age, Revoke
<1>7. CASE AuthNext
  <2>1. \/ \E s \in Streams : Ensure(s) \/ Refresh(s) \/ RefreshRefused(s) \/ Write(s) \/ Post(s)
        \/ UNCHANGED <<rotates, newest, valid, authFile, cache, held, streams, faults>>
    BY <1>3, <1>4, <1>6, <1>7 DEF AuthNext
  <2>2. faults' = faults BY <1>5, <2>1 DEF Ensure, Refresh, RefreshRefused, Post
  <2> QED BY <1>5, <2>1, <2>2
<1>8. CASE UNCHANGED authVars BY <1>8 DEF authVars
<1> QED BY <1>7, <1>8

\* Ensure of a stream s, and what it goes on with.
LEMMA KnownIsIssued ==
  ASSUME AuthTypeOK, TokensInv, NEW s \in Streams
  PROVE  Issued(KnownTokens(s)) /\ KnownTokens(s).access \in Nat /\ KnownTokens(s) # NoTokens
<1>1. Manager[s] \in Managers BY AuthTyped
<1>2. Issued(KnownTokens(s)) BY <1>1 DEF TokensInv, KnownTokens
<1> QED BY <1>2, AuthTyped DEF Issued, NoTokens

LEMMA MutexStep ==
  ASSUME AuthTypeOK, MutexInv, [AuthNext]_authVars, faults' = 0
  PROVE  MutexInv'
<1> DEFINE Busy(k, s) == k[s].pc \in {"refreshing", "writing"}
           Mutex(k, h) == \A s \in Streams : Busy(k, s) =>
             Manager[s] \in h /\ \A t \in Streams : Busy(k, t) /\ Manager[t] = Manager[s] => t = s
<1>1. Mutex(streams, held) BY DEF MutexInv, Refreshing
<1> SUFFICES Mutex(streams', held') BY DEF MutexInv, Refreshing
<1>2. ASSUME NEW s \in Streams, Ensure(s) PROVE Mutex(streams', held')
  <2>1. /\ Moves(s) /\ Manager[s] \notin held /\ held \subseteq held'
        /\ streams'[s].pc = "refreshing" => Manager[s] \in held'
        /\ streams'[s].pc \in {"refreshing", "posting"}
    BY <1>2, EnsureMoves
  <2>2. \A t \in Streams : Busy(streams, t) => Manager[t] # Manager[s] BY <1>1, <2>1
  <2> QED BY <1>1, <2>1, <2>2 DEF Moves
<1>3. ASSUME NEW s \in Streams, Refresh(s) PROVE Mutex(streams', held')
  <2>1. Moves(s) /\ streams[s].pc = "refreshing" /\ held' = held BY <1>3, RefreshMoves
  <2> QED BY <1>1, <2>1 DEF Moves
<1>4. ASSUME NEW s \in Streams, streams[s].pc \in {"refreshing", "writing"}, Moves(s),
             streams'[s].pc \in {"posting", "done"}, held' = held \ {Manager[s]}
      PROVE  Mutex(streams', held')
  <2>1. \A t \in Streams \ {s} : Busy(streams, t) => Manager[t] # Manager[s] BY <1>1, <1>4
  <2> QED BY <1>1, <1>4, <2>1 DEF Moves
<1>5. ASSUME NEW s \in Streams, RefreshRefused(s) PROVE Mutex(streams', held')
  BY <1>4, <1>5, EndMoves DEF RefreshRefused, Free
<1>6. ASSUME NEW s \in Streams, Write(s), Go(s, "posting") PROVE Mutex(streams', held')
  BY <1>4, <1>6, GoMoves DEF Write, Free
<1>7. ASSUME NEW s \in Streams, Post(s) PROVE Mutex(streams', held')
  <2>1. Moves(s) /\ streams'[s].pc \in {"refused", "done"} /\ held' = held BY <1>7, PostMoves
  <2> QED BY <1>1, <2>1 DEF Moves
<1>8. CASE UNCHANGED <<streams, held>> BY <1>1, <1>8
<1> QED BY NothingFails, <1>2, <1>3, <1>5, <1>6, <1>7, <1>8

LEMMA TokensStep ==
  ASSUME AuthTypeOK, MutexInv, TokensInv, WriterInv, [AuthNext]_authVars, faults' = 0
  PROVE  TokensInv'
<1> DEFINE Is(t, n, r) == t.access \in 1 .. n /\ t.refresh = IF r THEN t.access ELSE 1
           Hand(k, c, n, r, s) ==
             /\ k[s].tokens = NoTokens \/ Is(k[s].tokens, n, r)
             /\ k[s].pc \in {"refreshing", "writing"} => Is(k[s].tokens, n, r)
             /\ k[s].pc = "refreshing" => k[s].tokens = c[Manager[s]]
             /\ k[s].pc # "writing" => k[s].tokens.access <= c[Manager[s]].access \/ ~r
           All(v, n, r, d, c, k) ==
             /\ v = IF r THEN n ELSE 1
             /\ Is(d, n, r)
             /\ \A m \in Managers : c[m] = NoTokens \/ Is(c[m], n, r)
             /\ \A s \in Streams : Hand(k, c, n, r, s)
<1>1. All(valid, newest, rotates, authFile, cache, streams)
  BY DEF TokensInv, Issued, Refreshing, Writing
<1> SUFFICES All(valid', newest', rotates', authFile', cache', streams')
  BY DEF TokensInv, Issued, Refreshing, Writing
<1>2. ASSUME NEW s \in Streams, Ensure(s) PROVE All(valid', newest', rotates', authFile', cache', streams')
  <2>1. /\ Moves(s) /\ streams'[s].tokens = KnownTokens(s) /\ cache' = [cache EXCEPT ![Manager[s]] = KnownTokens(s)]
        /\ UNCHANGED <<rotates, newest, valid, authFile>> /\ streams'[s].pc \in {"refreshing", "posting"}
    BY <1>2, EnsureMoves
  <2>2. Is(KnownTokens(s), newest, rotates) /\ KnownTokens(s).access \in Nat BY KnownIsIssued DEF Issued
  <2>3. /\ Manager[s] \in Managers /\ cache'[Manager[s]] = KnownTokens(s)
        /\ \A m \in Managers \ {Manager[s]} : cache'[m] = cache[m]
        /\ \A t \in Streams : Manager[t] \in Managers
    BY <2>1, AuthTyped
  <2>4. Hand(streams', cache', newest, rotates, s) BY <2>1, <2>2, <2>3
  <2>5. ASSUME NEW t \in Streams \ {s} PROVE Hand(streams', cache', newest, rotates, t)
    <3>1. streams'[t] = streams[t] /\ Hand(streams, cache, newest, rotates, t) BY <1>1, <2>1 DEF Moves
    <3>2. CASE Manager[t] # Manager[s] BY <2>3, <3>1, <3>2
    <3>3. CASE Manager[t] = Manager[s]
      <4>1. CASE cache[Manager[s]] # NoTokens
        <5>1. cache'[Manager[t]] = cache[Manager[t]] BY <2>3, <3>3, <4>1 DEF KnownTokens
        <5> QED BY <3>1, <5>1
      <4>2. CASE cache[Manager[s]] = NoTokens
        <5>1. streams[t].pc \notin {"refreshing", "writing"}
          <6>1. Manager[s] \notin held BY <1>2, EnsureMoves
          <6> QED BY <3>3, <6>1 DEF MutexInv, Refreshing
        <5>2. streams[t].tokens.access <= 0 \/ ~rotates BY <3>1, <3>3, <4>2, <5>1 DEF NoTokens
        <5>3. streams[t].tokens.access \in Nat BY AuthTyped DEF Pairs
        <5>4. streams[t].tokens.access <= cache'[Manager[t]].access \/ ~rotates
          BY <2>2, <2>3, <3>3, <5>2, <5>3
        <5> QED BY <3>1, <5>1, <5>4
      <4> QED BY <4>1, <4>2
    <3> QED BY <3>2, <3>3
  <2> QED BY <1>1, <2>1, <2>2, <2>3, <2>4, <2>5
<1>3. ASSUME NEW s \in Streams, Refresh(s) PROVE All(valid', newest', rotates', authFile', cache', streams')
  <2>1. /\ Moves(s) /\ streams[s].pc = "refreshing" /\ streams[s].tokens.refresh = valid
        /\ streams'[s].pc = "writing"
        /\ streams'[s].tokens.access = newest + 1
        /\ streams'[s].tokens.refresh = (IF rotates THEN newest + 1 ELSE streams[s].tokens.refresh)
        /\ newest' = newest + 1 /\ valid' = (IF rotates THEN newest + 1 ELSE valid)
        /\ UNCHANGED <<rotates, authFile, cache>>
    BY <1>3, RefreshMoves
  <2>2. newest \in Nat BY AuthTyped
  <2>3. \A t : Is(t, newest, rotates) => Is(t, newest', rotates) BY <2>1, <2>2
  <2>4. Is(streams'[s].tokens, newest', rotates) BY <1>1, <2>1, <2>2
  <2>5. Hand(streams', cache', newest', rotates, s) BY <2>1, <2>4
  <2>6. \A t \in Streams \ {s} : Hand(streams', cache', newest', rotates, t) BY <1>1, <2>1, <2>3 DEF Moves
  <2> QED BY <1>1, <2>1, <2>3, <2>5, <2>6
<1>4. ASSUME NEW s \in Streams, RefreshRefused(s) \/ Post(s)
      PROVE  All(valid', newest', rotates', authFile', cache', streams')
  <2>1. /\ Moves(s) /\ streams[s].pc # "writing" /\ streams'[s].pc \in {"refused", "done"}
        /\ streams'[s].tokens = streams[s].tokens
        /\ UNCHANGED <<rotates, newest, valid, authFile, cache>>
    BY <1>4, PostMoves, EndMoves DEF RefreshRefused
  <2> QED BY <1>1, <2>1 DEF Moves
<1>5. ASSUME NEW s \in Streams, Write(s), authFile' = streams[s].tokens,
             cache' = [cache EXCEPT ![Manager[s]] = streams[s].tokens], Go(s, "posting")
      PROVE  All(valid', newest', rotates', authFile', cache', streams')
  <2> DEFINE k == streams[s].tokens
  <2>1. /\ Moves(s) /\ streams[s].pc = "writing" /\ streams'[s].pc = "posting" /\ streams'[s].tokens = k
        /\ UNCHANGED <<rotates, newest, valid>>
    BY <1>5, GoMoves DEF Write
  <2>2. Is(k, newest, rotates) /\ (rotates => k.access = newest) /\ newest \in Nat /\ k.access \in Nat
    BY <1>1, <2>1, AuthTyped DEF WriterInv, Writing, Pairs
  <2>3. /\ cache'[Manager[s]] = k /\ \A m \in Managers \ {Manager[s]} : cache'[m] = cache[m]
        /\ \A t \in Streams : Manager[t] \in Managers
    BY <1>5, AuthTyped
  <2> HIDE DEF k
  <2>4. Hand(streams', cache', newest, rotates, s) BY <2>1, <2>2, <2>3
  <2>5. ASSUME NEW t \in Streams \ {s} PROVE Hand(streams', cache', newest, rotates, t)
    <3>1. streams'[t] = streams[t] /\ Hand(streams, cache, newest, rotates, t) BY <1>1, <2>1 DEF Moves
    <3>2. CASE Manager[t] # Manager[s] BY <2>3, <3>1, <3>2
    <3>3. CASE Manager[t] = Manager[s]
      <4>1. streams[t].pc \notin {"refreshing", "writing"} BY <2>1, <3>3 DEF MutexInv, Refreshing
      <4>2. streams[t].tokens.access <= newest
        <5>1. streams[t].tokens = NoTokens => streams[t].tokens.access <= newest BY <2>2 DEF NoTokens
        <5> QED BY <3>1, <5>1
      <4> QED BY <2>2, <2>3, <3>1, <3>3, <4>1, <4>2
    <3> QED BY <3>2, <3>3
  <2>6. authFile' = k BY <1>5 DEF k
  <2> QED BY <1>1, <2>1, <2>2, <2>3, <2>4, <2>5, <2>6
<1>6. CASE UNCHANGED <<rotates, newest, valid, authFile, cache, streams>> BY <1>1, <1>6
<1> QED BY NothingFails, <1>2, <1>3, <1>4, <1>5, <1>6

LEMMA WriterStep ==
  ASSUME AuthTypeOK, MutexInv, TokensInv, WriterInv, [AuthNext]_authVars, faults' = 0
  PROVE  WriterInv'
<1> DEFINE Only(k, v, r, d, c, s) ==
             k[s].pc = "writing" =>
               /\ k[s].tokens.refresh = v
               /\ r => /\ d.refresh # v /\ \A m \in Managers : c[m].refresh # v
                       /\ \A t \in Streams : k[t].pc = "writing" => t = s
<1>1. \A s \in Streams : Only(streams, valid, rotates, authFile, cache, s) BY DEF WriterInv, Writing
<1> SUFFICES ASSUME NEW e \in Streams PROVE Only(streams', valid', rotates', authFile', cache', e)
  BY DEF WriterInv, Writing
<1>2. ASSUME NEW s \in Streams, Ensure(s) PROVE Only(streams', valid', rotates', authFile', cache', e)
  <2>1. /\ Moves(s) /\ cache' = [cache EXCEPT ![Manager[s]] = KnownTokens(s)]
        /\ UNCHANGED <<rotates, valid, authFile>> /\ streams'[s].pc \in {"refreshing", "posting"}
        /\ Manager[s] \in Managers
    BY <1>2, EnsureMoves, AuthTyped
  <2>2. \A m \in Managers : cache'[m] = authFile \/ cache'[m] = cache[m] BY <2>1, AuthTyped DEF KnownTokens
  <2> QED BY <1>1, <2>1, <2>2 DEF Moves
<1>3. ASSUME NEW s \in Streams, Refresh(s) PROVE Only(streams', valid', rotates', authFile', cache', e)
  <2>1. /\ Moves(s) /\ streams[s].pc = "refreshing" /\ streams[s].tokens.refresh = valid
        /\ streams'[s].tokens.refresh = (IF rotates THEN newest + 1 ELSE streams[s].tokens.refresh)
        /\ valid' = (IF rotates THEN newest + 1 ELSE valid)
        /\ UNCHANGED <<rotates, authFile, cache>>
    BY <1>3, RefreshMoves
  <2>2. streams[s].tokens = cache[Manager[s]] /\ Manager[s] \in Managers BY <2>1, AuthTyped DEF TokensInv
  <2>3. CASE rotates
    <3>1. \A t \in Streams : streams[t].pc # "writing" BY <1>1, <2>1, <2>2, <2>3
    <3>2. newest \in Nat BY AuthTyped
    <3>3. authFile.refresh # newest + 1 BY <2>3, <3>2 DEF TokensInv, Issued
    <3>4. \A m \in Managers : cache[m].refresh # newest + 1
      <4> SUFFICES ASSUME NEW m \in Managers PROVE cache[m].refresh # newest + 1 OBVIOUS
      <4>1. CASE cache[m] = NoTokens BY <3>2, <4>1 DEF NoTokens
      <4>2. CASE Issued(cache[m]) BY <2>3, <3>2, <4>2 DEF Issued
      <4> QED BY <4>1, <4>2 DEF TokensInv
    <3> QED BY <2>1, <2>3, <3>1, <3>3, <3>4 DEF Moves
  <2>4. CASE ~rotates BY <1>1, <2>1, <2>4 DEF Moves
  <2> QED BY <2>3, <2>4
<1>4. ASSUME NEW s \in Streams, RefreshRefused(s) \/ Post(s)
      PROVE  Only(streams', valid', rotates', authFile', cache', e)
  <2>1. /\ Moves(s) /\ streams'[s].pc \in {"refused", "done"} /\ UNCHANGED <<rotates, valid, authFile, cache>>
    BY <1>4, PostMoves, EndMoves DEF RefreshRefused
  <2> QED BY <1>1, <2>1 DEF Moves
<1>5. ASSUME NEW s \in Streams, Write(s), Go(s, "posting")
      PROVE  Only(streams', valid', rotates', authFile', cache', e)
  <2>1. /\ Moves(s) /\ streams[s].pc = "writing" /\ streams'[s].pc = "posting" /\ UNCHANGED <<rotates, valid>>
    BY <1>5, GoMoves DEF Write
  <2> QED BY <1>1, <2>1 DEF Moves
<1>6. CASE UNCHANGED <<rotates, valid, authFile, cache, streams>> BY <1>1, <1>6
<1> QED BY NothingFails, <1>2, <1>3, <1>4, <1>5, <1>6

\* The newest pair a stream has had stays in its hands or a newer one comes.
LEMMA OvertakenStays ==
  ASSUME AuthTypeOK, TokensInv, rotates, [AuthNext]_authVars, faults' = 0, NEW m, Overtaken(m)
  PROVE  \E t \in Streams : Manager[t] # m /\ streams'[t].tokens.access > 1
<1>1. PICK t \in Streams : Manager[t] # m /\ streams[t].tokens.access > 1 BY DEF Overtaken
<1>2. ASSUME NEW s \in Streams, Ensure(s) PROVE streams'[t].tokens.access > 1
  <2>1. Moves(s) /\ streams'[s].tokens = KnownTokens(s) /\ streams[s].pc \in {"idle", "refused"}
    BY <1>2, EnsureMoves
  <2>2. CASE t = s
    <3>1. streams[s].tokens.access <= cache[Manager[s]].access BY <2>1 DEF TokensInv, Writing
    <3>2. /\ streams[s].tokens.access \in Nat /\ cache[Manager[s]].access \in Nat BY AuthTyped DEF Pairs
    <3>3. cache[Manager[s]].access > 1 BY <1>1, <2>2, <3>1, <3>2
    <3>4. cache[Manager[s]] # NoTokens BY <3>3 DEF NoTokens
    <3> QED BY <2>1, <2>2, <3>3, <3>4 DEF KnownTokens
  <2>3. CASE t # s BY <1>1, <2>1, <2>3 DEF Moves
  <2> QED BY <2>2, <2>3
<1>3. ASSUME NEW s \in Streams, Refresh(s) PROVE streams'[t].tokens.access > 1
  <2>1. /\ Moves(s) /\ streams[s].pc = "refreshing" /\ streams'[s].tokens.access = newest + 1 /\ newest \in Nat
    BY <1>3, RefreshMoves, AuthTyped
  <2>2. newest + 1 > 1 BY <2>1 DEF TokensInv, Refreshing, Issued
  <2> QED BY <1>1, <2>1, <2>2 DEF Moves
<1>4. ASSUME NEW s \in Streams, RefreshRefused(s) \/ Post(s) \/ Go(s, "posting")
      PROVE  streams'[t].tokens.access > 1
  <2>1. Moves(s) /\ streams'[s].tokens = streams[s].tokens BY <1>4, PostMoves, EndMoves, GoMoves DEF RefreshRefused
  <2> QED BY <1>1, <2>1 DEF Moves
<1>5. UNCHANGED streams => streams'[t].tokens.access > 1 BY <1>1
<1>6. streams'[t].tokens.access > 1
  <2>1. \/ \E s \in Streams : Ensure(s)
        \/ \E s \in Streams : Refresh(s)
        \/ \E s \in Streams : RefreshRefused(s) \/ Post(s) \/ Go(s, "posting")
        \/ UNCHANGED streams
    BY NothingFails
  <2> QED BY <2>1, <1>2, <1>3, <1>4, <1>5
<1> QED BY <1>1, <1>6

LEMMA BehindStep ==
  ASSUME AuthTypeOK, MutexInv, TokensInv, WriterInv, BehindInv, LoginIsKept, [AuthNext]_authVars, faults' = 0
  PROVE  BehindInv'
<1> DEFINE Over(k, m) == \E t \in Streams : Manager[t] # m /\ k[t].tokens.access > 1
           Behind(k, v, c, m) ==
             c[m] # NoTokens /\ c[m].refresh # v => Over(k, m) \/ \E s \in Streams : k[s].pc = "writing" /\ Manager[s] = m
<1>1. faults = 0 BY NothingFails
<1>2. /\ \A m \in Managers : Behind(streams, valid, cache, m)
      /\ \A s \in Streams : streams[s].out = "permanent" => rotates
  BY DEF BehindInv, Overtaken, Writing
<1>3. rotates => \A m \in Managers : Over(streams, m) => Over(streams', m) BY OvertakenStays DEF Overtaken
<1>4. rotates' = rotates
  BY NothingFails DEF Ensure, Refresh, RefreshRefused, Write, Post
<1>5. ASSUME rotates, NEW m \in Managers PROVE Behind(streams', valid', cache', m)
  <2>1. ASSUME NEW s \in Streams, Ensure(s) PROVE Behind(streams', valid', cache', m)
    <3>1. /\ Moves(s) /\ cache' = [cache EXCEPT ![Manager[s]] = KnownTokens(s)] /\ valid' = valid
          /\ streams[s].pc \in {"idle", "refused"} /\ Manager[s] \notin held
          /\ Manager[s] \in Managers /\ cache \in [Managers -> Pairs]
      BY <2>1, EnsureMoves, AuthTyped
    <3>2. \A t \in Streams : streams[t].pc = "writing" => streams'[t].pc = "writing" BY <3>1 DEF Moves
    <3>3. CASE cache'[m] = cache[m] BY <1>2, <1>3, <1>5, <3>1, <3>2, <3>3
    <3>4. CASE cache'[m] # cache[m]
      <4>1. m = Manager[s] /\ cache'[m] = authFile BY <3>1, <3>4 DEF KnownTokens
      <4>2. CASE authFile.refresh = valid BY <3>1, <4>1, <4>2
      <4>3. CASE authFile.refresh # valid
        <5>1. PICK w \in Streams : streams[w].pc = "writing" /\ streams[w].tokens.refresh = valid
          BY <1>1, <4>3 DEF LoginIsKept
        <5>2. Manager[w] # m BY <3>1, <4>1, <5>1 DEF MutexInv, Refreshing
        <5>3. /\ streams[w].tokens.access = newest /\ Issued(authFile) /\ newest \in Nat /\ valid = newest
          BY <1>5, <5>1, AuthTyped DEF TokensInv, Refreshing, Issued
        <5>4. newest > 1 BY <1>5, <4>3, <5>3 DEF Issued
        <5>5. Over(streams, m) BY <5>2, <5>3, <5>4
        <5> QED BY <1>3, <1>5, <5>5
      <4> QED BY <4>2, <4>3
    <3> QED BY <3>3, <3>4
  <2>2. ASSUME NEW s \in Streams, Refresh(s) PROVE Behind(streams', valid', cache', m)
    <3>1. /\ streams'[s].pc = "writing" /\ streams'[s].tokens.access = newest + 1
          /\ streams[s].pc = "refreshing" /\ newest \in Nat
      BY <2>2, RefreshMoves, AuthTyped
    <3>2. newest + 1 > 1 BY <3>1 DEF TokensInv, Refreshing, Issued
    <3> QED BY <3>1, <3>2
  <2>3. ASSUME NEW s \in Streams, RefreshRefused(s) \/ Post(s) PROVE Behind(streams', valid', cache', m)
    <3>1. Moves(s) /\ streams[s].pc # "writing" /\ valid' = valid /\ cache' = cache
      BY <2>3, PostMoves, EndMoves DEF RefreshRefused
    <3>2. \A t \in Streams : streams[t].pc = "writing" => streams'[t].pc = "writing" BY <3>1 DEF Moves
    <3> QED BY <1>2, <1>3, <1>5, <3>1, <3>2
  <2>4. ASSUME NEW s \in Streams, Write(s), cache' = [cache EXCEPT ![Manager[s]] = streams[s].tokens], Go(s, "posting")
        PROVE  Behind(streams', valid', cache', m)
    <3>1. /\ Moves(s) /\ streams[s].pc = "writing" /\ valid' = valid
          /\ Manager[s] \in Managers /\ cache \in [Managers -> Pairs]
      BY <2>4, GoMoves, AuthTyped DEF Write
    <3>2. CASE m = Manager[s]
      <4>1. cache'[m] = streams[s].tokens BY <2>4, <3>1, <3>2
      <4> QED BY <3>1, <4>1 DEF WriterInv, Writing
    <3>3. CASE m # Manager[s]
      <4>1. cache'[m] = cache[m] BY <2>4, <3>1, <3>3
      <4>2. \A t \in Streams : streams[t].pc = "writing" => Manager[t] # m
        BY <1>5, <3>1, <3>3 DEF WriterInv, Writing
      <4> QED BY <1>2, <1>3, <1>5, <3>1, <4>1, <4>2
    <3> QED BY <3>2, <3>3
  <2>5. CASE UNCHANGED <<valid, cache, streams>> BY <1>2, <2>5
  <2> QED BY NothingFails, <2>1, <2>2, <2>3, <2>4, <2>5
<1>6. ASSUME ~rotates, NEW m \in Managers PROVE Behind(streams', valid', cache', m)
  <2>1. TokensInv' BY TokensStep
  <2> QED BY <1>4, <1>6, <2>1 DEF TokensInv, Issued
<1>7. \A s \in Streams : streams'[s].out = "permanent" => rotates
  <2>1. ASSUME NEW s \in Streams, RefreshRefused(s) PROVE rotates
    BY <2>1 DEF RefreshRefused, TokensInv, Refreshing, Issued
  <2>2. ASSUME NEW s \in Streams, Ensure(s) \/ Refresh(s) \/ Go(s, "posting") \/ Post(s)
        PROVE  \A t \in Streams : streams'[t].out = "permanent" => rotates
    <3>1. Moves(s) /\ (streams'[s].out = streams[s].out \/ streams'[s].out \in {"ok", "none", "unauthorized"})
      BY <2>2, EnsureMoves, RefreshMoves, GoMoves, PostMoves
    <3> QED BY <1>2, <3>1 DEF Moves
  <2> QED BY NothingFails, <1>2, <2>1, <2>2
<1> QED BY <1>4, <1>5, <1>6, <1>7 DEF BehindInv, Overtaken, Writing

LEMMA LoginStep ==
  ASSUME AuthInv, [AuthNext]_authVars
  PROVE  LoginIsKept'
<1> SUFFICES ASSUME faults' = 0
             PROVE  /\ \/ authFile'.refresh = valid'
                       \/ \E s \in Streams : streams'[s].pc = "writing" /\ streams'[s].tokens.refresh = valid'
                    /\ \A s \in Streams : streams'[s].out = "permanent" =>
                         \E t \in Streams : Manager[t] # Manager[s] /\ streams'[t].tokens.access > 1
  BY DEF LoginIsKept
<1>1. AuthTypeOK /\ faults = 0 BY NothingFails DEF AuthInv
<1>2. MutexInv /\ TokensInv /\ WriterInv /\ BehindInv /\ LoginIsKept BY <1>1 DEF AuthInv
<1>3. BehindInv' /\ WriterInv' BY <1>1, <1>2, BehindStep, WriterStep
<1>4. \/ authFile'.refresh = valid'
      \/ \E s \in Streams : streams'[s].pc = "writing"
  <2>1. authFile.refresh = valid \/ \E s \in Streams : streams[s].pc = "writing" BY <1>1, <1>2 DEF LoginIsKept
  <2>2. ASSUME NEW s \in Streams, Refresh(s) PROVE streams'[s].pc = "writing" BY <1>1, <2>2, RefreshMoves
  <2>3. ASSUME NEW s \in Streams, Write(s), authFile' = streams[s].tokens PROVE authFile'.refresh = valid'
    BY <1>2, <2>3 DEF Write, WriterInv, Writing
  <2>4. ASSUME NEW s \in Streams, Ensure(s) \/ RefreshRefused(s) \/ Post(s)
        PROVE  /\ UNCHANGED <<authFile, valid>>
               /\ \A t \in Streams : streams[t].pc = "writing" => streams'[t].pc = "writing"
    <3>1. Moves(s) /\ streams[s].pc # "writing" /\ UNCHANGED <<authFile, valid>>
      BY <1>1, <2>4, EnsureMoves, EndMoves, PostMoves DEF RefreshRefused
    <3> QED BY <3>1 DEF Moves
  <2>5. \/ \E s \in Streams : Refresh(s)
        \/ \E s \in Streams : Write(s) /\ authFile' = streams[s].tokens
        \/ \E s \in Streams : Ensure(s) \/ RefreshRefused(s) \/ Post(s)
        \/ UNCHANGED <<authFile, valid, streams>>
    BY <1>1, NothingFails
  <2> QED BY <2>1, <2>2, <2>3, <2>4, <2>5
<1>5. ASSUME NEW s \in Streams, streams'[s].out = "permanent"
      PROVE  \E t \in Streams : Manager[t] # Manager[s] /\ streams'[t].tokens.access > 1
  <2>1. rotates
    <3>1. rotates' BY <1>3, <1>5 DEF BehindInv
    <3> QED BY <1>1, <3>1, NothingFails DEF Ensure, Refresh, RefreshRefused, Write, Post
  <2>2. CASE streams[s].out = "permanent"
    <3>1. Overtaken(Manager[s]) BY <1>1, <1>2, <2>2 DEF LoginIsKept, Overtaken
    <3> QED BY <1>1, <1>2, <2>1, <3>1, OvertakenStays
  <2>3. CASE streams[s].out # "permanent"
    <3>1. RefreshRefused(s)
      <4>1. ASSUME NEW u \in Streams, Ensure(u) \/ Refresh(u) \/ Go(u, "posting") \/ Post(u) PROVE FALSE
        <5>1. Moves(u) /\ (streams'[u].out = streams[u].out \/ streams'[u].out \in {"ok", "none", "unauthorized"})
          BY <1>1, <4>1, EnsureMoves, RefreshMoves, GoMoves, PostMoves
        <5> QED BY <1>5, <2>3, <5>1 DEF Moves
      <4>2. ASSUME NEW u \in Streams, RefreshRefused(u) PROVE u = s
        <5>1. Moves(u) BY <1>1, <4>2, EndMoves DEF RefreshRefused
        <5> QED BY <1>5, <2>3, <5>1 DEF Moves
      <4>3. ~UNCHANGED streams BY <1>5, <2>3
      <4>4. \/ \E u \in Streams : Ensure(u) \/ Refresh(u) \/ Go(u, "posting") \/ Post(u)
            \/ \E u \in Streams : RefreshRefused(u)
            \/ UNCHANGED streams
        BY <1>1, NothingFails
      <4> QED BY <4>1, <4>2, <4>3, <4>4
    <3>2. streams[s].pc = "refreshing" /\ streams[s].tokens.refresh # valid BY <3>1 DEF RefreshRefused
    <3>3. /\ streams[s].tokens = cache[Manager[s]] /\ Manager[s] \in Managers
          /\ Issued(cache[Manager[s]])
      BY <1>1, <1>2, <3>2, AuthTyped DEF TokensInv, Refreshing
    <3>4. cache[Manager[s]] # NoTokens BY <1>1, <3>3, AuthTyped DEF Issued, NoTokens
    <3>5. ~\E w \in Streams : Writing(w) /\ Manager[w] = Manager[s]
      BY <1>2, <3>2 DEF MutexInv, Refreshing, Writing
    <3>6. Overtaken(Manager[s]) BY <1>2, <3>2, <3>3, <3>4, <3>5 DEF BehindInv
    <3> QED BY <1>1, <1>2, <2>1, <3>6, OvertakenStays
  <2> QED BY <2>2, <2>3
<1> QED BY <1>3, <1>4, <1>5 DEF WriterInv, Writing

LEMMA AuthStarts == AuthInit => AuthInv
<1> SUFFICES ASSUME AuthInit PROVE AuthInv OBVIOUS
<1>1. /\ rotates \in BOOLEAN /\ newest = 1 /\ valid = 1 /\ old = {} /\ revoked = {} /\ held = {} /\ faults = 0
      /\ authFile = [access |-> 1, refresh |-> 1]
      /\ \A m \in Managers : cache[m] = NoTokens
      /\ \A s \in Streams : streams[s].pc = "idle" /\ streams[s].tokens = NoTokens /\ streams[s].out = "none"
  BY DEF AuthInit, Idle
<1>2. NoTokens \in Pairs /\ authFile \in Pairs /\ NoTokens.access = 0 BY <1>1 DEF NoTokens, Pairs
<1>3. Idle \in StreamRecords BY <1>2 DEF Idle, StreamRecords
<1>4. cache \in [Managers -> Pairs] /\ streams \in [Streams -> StreamRecords]
  BY <1>2, <1>3 DEF AuthInit
<1>5. AuthTypeOK BY <1>1, <1>2, <1>4 DEF AuthTypeOK, StreamRecords, Pairs
<1>6. MutexInv /\ WriterInv /\ BehindInv BY <1>1 DEF MutexInv, WriterInv, BehindInv, Refreshing, Writing
<1>7. TokensInv
  <2>1. \A s \in Streams : Manager[s] \in Managers BY DEF Managers
  <2>2. \A s \in Streams : streams[s].tokens.access = 0 /\ cache[Manager[s]].access = 0 BY <1>1, <1>2, <2>1
  <2>3. 0 <= 0 OBVIOUS
  <2> QED BY <1>1, <2>2, <2>3 DEF TokensInv, Issued, Refreshing
<1>8. LoginIsKept BY <1>1 DEF LoginIsKept
<1> QED BY <1>5, <1>6, <1>7, <1>8 DEF AuthInv

\* The mutexes, the tokens in hand, in the caches and in auth.json, and the token the
\* server takes agree (Manager.EnsureFresh, refreshLocked, writeLocked, mergeRefresh).
THEOREM AuthInductive == AuthSpec => []AuthInv
<1>1. AuthInv /\ [AuthNext]_authVars => AuthInv'
  <2> SUFFICES ASSUME AuthInv, [AuthNext]_authVars PROVE AuthInv' OBVIOUS
  <2>1. AuthTypeOK' BY AuthTypeStep DEF AuthInv
  <2>2. LoginIsKept' BY LoginStep
  <2>3. ASSUME faults' = 0 PROVE (MutexInv /\ TokensInv /\ WriterInv /\ BehindInv)'
    <3>1. AuthTypeOK /\ faults = 0 BY <2>3, NothingFails DEF AuthInv
    <3>2. MutexInv /\ TokensInv /\ WriterInv /\ BehindInv /\ LoginIsKept BY <3>1 DEF AuthInv
    <3> QED BY <2>3, <3>1, <3>2, MutexStep, TokensStep, WriterStep, BehindStep
  <2> QED BY <2>1, <2>2, <2>3 DEF AuthInv
<1> QED BY AuthStarts, <1>1, PTL DEF AuthSpec

\* For any number of streams and processes, and whether the server rotates refresh
\* tokens or leaves them out: unless an answer, a write or a process is lost, the
\* token it takes is in auth.json or about to be written there, and a process is told
\* to log in again only if another one has refreshed (Manager.EnsureFresh).
THEOREM LoginStaysKept == AuthSpec => []LoginIsKept
<1>1. AuthInv => LoginIsKept BY DEF AuthInv
<1> QED BY AuthInductive, <1>1, PTL
=============================================================================
