-------------------------- MODULE Providers_proofs --------------------------
(***************************************************************************)
(* Proofs about the way to a provider and what stands before and behind    *)
(* it: FailoverStream, for any providers and any buffer; McpCalls, for any *)
(* settings, answers and results; ProviderStream, for any frames; History, *)
(* for any transcripts, budgets and summaries; and Conversion, for any     *)
(* conversation.                                                           *)
(***************************************************************************)
EXTENDS FailoverStream, McpCalls, ProviderStream, History, Conversion, FiniteSetTheorems, SequenceTheorems,
  WellFoundedInduction, TLAPS

-----------------------------------------------------------------------------
(* FailoverStream. *)

Events == [from : 1 .. Providers, event : Nat]
Delivered  == received \o out

LEMMA FailoverTyped ==
  ASSUME FailoverTypeOK
  PROVE  /\ Script \in [refuses : BOOLEAN, error : BOOLEAN, events : Nat, closes : BOOLEAN]
         /\ received \in Seq(Events) /\ out \in Seq(Events) /\ attempts \in Seq(1 .. Providers)
         /\ Delivered \in Seq(Events) /\ Len(Delivered) \in Nat /\ Len(attempts) \in Nat
         /\ DOMAIN attempts = 1 .. Len(attempts)
         /\ Providers \in Nat /\ trying \in 1 .. Providers /\ trying \in Nat /\ taken \in Nat
<1>1. received \in Seq(Events) /\ out \in Seq(Events) /\ attempts \in Seq(1 .. Providers)
  BY DEF FailoverTypeOK, Events
<1>2. Delivered \in Seq(Events) BY <1>1, ConcatProperties DEF Delivered
<1>3. Script \in [refuses : BOOLEAN, error : BOOLEAN, events : Nat, closes : BOOLEAN]
  BY FailoverAssumption DEF FailoverTypeOK, Script
<1> QED BY <1>1, <1>2, <1>3, LenProperties, FailoverAssumption DEF FailoverTypeOK

\* What the consumer takes it had been sent.
LEMMA TakenWasSent ==
  ASSUME NEW S, NEW r \in Seq(S), NEW o \in Seq(S), o # <<>>
  PROVE  Append(r, Head(o)) \o Tail(o) = r \o o
<1>1. /\ Head(o) \in S /\ Tail(o) \in Seq(S) /\ Len(Tail(o)) = Len(o) - 1
      /\ \A i \in 1 .. Len(Tail(o)) : Tail(o)[i] = o[i + 1]
      /\ Head(o) = o[1]
  BY HeadTailProperties
<1> DEFINE h == Head(o)
           t == Tail(o)
           a == Append(r, h)
<1>2. /\ a \in Seq(S) /\ Len(a) = Len(r) + 1 /\ a[Len(r) + 1] = h
      /\ \A i \in 1 .. Len(r) : a[i] = r[i]
  BY <1>1, AppendProperties
<1>3. Len(r) \in Nat /\ Len(o) \in Nat /\ Len(o) # 0 /\ Len(a) \in Nat /\ Len(t) \in Nat
  BY <1>1, <1>2, LenProperties, EmptySeq
<1>4. /\ a \o t \in Seq(S) /\ r \o o \in Seq(S)
      /\ Len(a \o t) = Len(a) + Len(t) /\ Len(r \o o) = Len(r) + Len(o)
      /\ \A i \in 1 .. Len(a) + Len(t) : (a \o t)[i] = IF i <= Len(a) THEN a[i] ELSE t[i - Len(a)]
      /\ \A i \in 1 .. Len(r) + Len(o) : (r \o o)[i] = IF i <= Len(r) THEN r[i] ELSE o[i - Len(r)]
  BY <1>1, <1>2, ConcatProperties
<1> HIDE DEF a, t
<1>5. Len(a \o t) = Len(r \o o) BY <1>1, <1>2, <1>3, <1>4 DEF t
<1>6. ASSUME NEW i \in 1 .. Len(a \o t) PROVE (a \o t)[i] = (r \o o)[i]
  <2>1. CASE i <= Len(r) BY <1>2, <1>3, <1>4, <1>5, <2>1
  <2>2. CASE i = Len(r) + 1 BY <1>1, <1>2, <1>3, <1>4, <1>5, <2>2
  <2>3. CASE i > Len(r) + 1
    <3>1. i - Len(a) \in 1 .. Len(t) /\ i - Len(a) + 1 = i - Len(r) BY <1>1, <1>2, <1>3, <1>4, <2>3 DEF t
    <3>2. t[i - Len(a)] = o[i - Len(r)] BY <1>1, <3>1 DEF t
    <3> QED BY <1>2, <1>3, <1>4, <1>5, <2>3, <3>2
  <2>4. i <= Len(r) \/ i = Len(r) + 1 \/ i > Len(r) + 1
    <3>1. i \in Int /\ Len(r) \in Int BY <1>2, <1>3, <1>4
    <3> QED BY <3>1
  <2> QED BY <2>1, <2>2, <2>3, <2>4
<1> QED BY <1>4, <1>5, <1>6, SeqEqual DEF a, t

\* What is sent comes last.
LEMMA SentComesLast ==
  ASSUME NEW S, NEW r \in Seq(S), NEW o \in Seq(S), NEW x \in S
  PROVE  r \o Append(o, x) = Append(r \o o, x)
<1>1. Append(o, x) = o \o <<x>> /\ <<x>> \in Seq(S) BY AppendIsConcat
<1>2. r \o o \in Seq(S) BY ConcatProperties
<1>3. Append(r \o o, x) = (r \o o) \o <<x>> BY <1>2, AppendIsConcat
<1> QED BY <1>1, <1>3, ConcatAssociative

\* OneProviderSpeaks, of what the consumer will have heard.
Speaks(heard) ==
  /\ \A n \in 1 .. Len(heard) : heard[n] = [from |-> trying, event |-> n] /\ ~Failed(scripts[trying])
  /\ phase = "closed" => Len(heard) = Script.events
GivenUp ==
  /\ \A i \in 1 .. Providers : i < trying \/ phase = "failed" => Failed(scripts[i]) /\ attempts[i] = i
  /\ phase = "failed" => Len(attempts) = Providers
LEMMA Speaking == OneProviderSpeaks <=> Speaks(Delivered) /\ GivenUp
BY DEF OneProviderSpeaks, Speaks, GivenUp, Delivered

\* A provider that gave nothing is given up (Stream fails, the stream is empty, or
\* its first event is an error).
LEMMA GiveUpStep ==
  ASSUME FailoverInv, phase \in {"trying", "draining"}, Failed(Script), GiveUp
  PROVE  FailoverInv'
<1>1. FailoverTypeOK /\ PhaseInv /\ AttemptsInv BY DEF FailoverInv
<1>2. /\ attempts' = Append(attempts, trying) /\ taken' = 0
      /\ scripts' = scripts /\ out' = out /\ received' = received /\ reading' = reading
      /\ \/ trying = Providers /\ phase' = "failed" /\ trying' = trying
         \/ trying # Providers /\ phase' = "trying" /\ trying' = trying + 1
  BY DEF GiveUp
<1>3. /\ attempts' \in Seq(1 .. Providers) /\ Len(attempts') = Len(attempts) + 1
      /\ \A i \in 1 .. Len(attempts) : attempts'[i] = attempts[i]
      /\ attempts'[Len(attempts) + 1] = trying
  BY <1>1, <1>2, FailoverTyped, AppendProperties
<1>4. Len(attempts) = trying - 1 BY <1>1 DEF AttemptsInv
<1>5. trying' \in 1 .. Providers BY <1>1, <1>2, FailoverTyped
<1>6. FailoverTypeOK' BY <1>1, <1>2, <1>3, <1>5 DEF FailoverTypeOK
<1>7. Script'.events \in Nat BY <1>6, FailoverTyped, FailoverAssumption DEF FailoverTypeOK, Script
<1>8. Len(received \o out) = 0 BY <1>1 DEF PhaseInv
<1>9. PhaseInv' BY <1>2, <1>7, <1>8 DEF PhaseInv
<1>10. \A i \in 1 .. trying : attempts'[i] = i /\ Failed(scripts[i])
  <2> SUFFICES ASSUME NEW i \in 1 .. trying PROVE attempts'[i] = i /\ Failed(scripts[i]) OBVIOUS
  <2>1. CASE i = trying BY <1>3, <1>4, <2>1, FailoverTyped, <1>1 DEF Script
  <2>2. CASE i # trying
    <3>1. i \in 1 .. Len(attempts) /\ i \in DOMAIN attempts BY <1>1, <1>4, <2>2, FailoverTyped
    <3> QED BY <1>1, <1>3, <3>1 DEF AttemptsInv
  <2> QED BY <2>1, <2>2
<1>11. Len(attempts') = trying /\ DOMAIN attempts' = 1 .. trying
  BY <1>1, <1>3, <1>4, FailoverTyped, LenProperties
<1>12. AttemptsInv' BY <1>1, <1>2, <1>10, <1>11, FailoverTyped DEF AttemptsInv
<1>13. OneProviderSpeaks'
  <2>1. GivenUp' BY <1>1, <1>2, <1>10, <1>11, FailoverTyped DEF GivenUp
  <2>2. Speaks(Delivered)' BY <1>2, <1>8 DEF Speaks, Delivered
  <2> QED BY <2>1, <2>2 DEF OneProviderSpeaks, Speaks, GivenUp, Delivered
<1> QED BY <1>6, <1>9, <1>12, <1>13 DEF FailoverInv

\* An event of the provider that is committed to is the next one.
LEMMA NextIsSent ==
  ASSUME FailoverInv, Len(Delivered) = taken, ~Failed(Script), taken < Script.events,
         out' = Append(out, [from |-> trying, event |-> taken']), taken' = taken + 1, phase' = "forwarding",
         phase # "failed", UNCHANGED <<scripts, trying, received, reading, attempts>>
  PROVE  FailoverInv'
<1> DEFINE x == [from |-> trying, event |-> taken']
<1>1. FailoverTypeOK /\ PhaseInv /\ AttemptsInv /\ OneProviderSpeaks BY DEF FailoverInv
<1>2. x \in Events /\ taken' \in Nat BY <1>1, FailoverTyped DEF Events
<1>3. Delivered' = Append(Delivered, x) BY <1>1, <1>2, FailoverTyped, SentComesLast DEF Delivered
<1>4. out' \in Seq(Events) BY <1>1, <1>2, FailoverTyped, AppendProperties
<1>5. /\ Len(Delivered') = taken' /\ Delivered'[taken'] = x
      /\ \A n \in 1 .. Len(Delivered) : Delivered'[n] = Delivered[n]
  BY <1>1, <1>2, <1>3, FailoverTyped, AppendProperties
<1>6. FailoverTypeOK' BY <1>1, <1>2, <1>4 DEF FailoverTypeOK, Events
<1>7. PhaseInv' BY <1>1, <1>2, <1>5, FailoverTyped DEF PhaseInv, Delivered, Failed, Script
<1>8. AttemptsInv' BY <1>1 DEF AttemptsInv
<1>9. OneProviderSpeaks'
  <2>1. GivenUp' BY <1>1, Speaking DEF GivenUp
  <2>2. \A n \in 1 .. Len(Delivered) : Delivered[n] = [from |-> trying, event |-> n] BY <1>1, Speaking DEF Speaks
  <2>3. \A n \in 1 .. Len(Delivered') : n \in 1 .. Len(Delivered) \/ n = taken' BY <1>1, <1>5, FailoverTyped
  <2>4. Speaks(Delivered)' BY <1>5, <2>2, <2>3 DEF Speaks, Script
  <2> QED BY <2>1, <2>4 DEF OneProviderSpeaks, Speaks, GivenUp, Delivered
<1> QED BY <1>6, <1>7, <1>8, <1>9 DEF FailoverInv

LEMMA FailoverStep ==
  ASSUME FailoverInv, [FailoverNext]_failoverVars
  PROVE  FailoverInv'
<1>1. FailoverTypeOK /\ PhaseInv /\ AttemptsInv /\ OneProviderSpeaks BY DEF FailoverInv
<1>2. CASE NoFirst
  <2>1. Failed(Script) BY <1>1, <1>2 DEF NoFirst, PhaseInv, Exhausted, Failed
  <2> QED BY <1>2, <2>1, GiveUpStep DEF NoFirst
<1>3. CASE First
  <2>1. /\ phase = "trying" /\ ~Script.refuses /\ Script.events > 0 /\ taken = 0 /\ Len(Delivered) = 0
    BY <1>1, <1>3 DEF First, PhaseInv, Delivered
  <2>2. CASE Script.error
    <3>1. /\ phase' = "draining" /\ taken' = 1
          /\ UNCHANGED <<scripts, trying, out, received, reading, attempts>>
      BY <1>3, <2>2 DEF First
    <3>2. FailoverTypeOK' BY <1>1, <3>1 DEF FailoverTypeOK
    <3>3. PhaseInv' BY <1>1, <2>1, <2>2, <3>1, FailoverTyped DEF PhaseInv, Failed, Script, Delivered
    <3>4. AttemptsInv' BY <1>1, <2>1, <3>1 DEF AttemptsInv
    <3>5. OneProviderSpeaks' BY <1>1, <2>1, <3>1 DEF OneProviderSpeaks, Delivered
    <3> QED BY <3>2, <3>3, <3>4, <3>5 DEF FailoverInv
  <2>3. CASE ~Script.error
    <3> DEFINE x == [from |-> trying, event |-> taken']
    <3>1. /\ phase' = "forwarding" /\ taken' = taken + 1 /\ out' = <<x>>
          /\ UNCHANGED <<scripts, trying, received, reading, attempts>>
      BY <1>3, <2>1, <2>3 DEF First
    <3>2. x \in Events BY <1>1, <2>1, <3>1, FailoverTyped DEF Events
    <3>3. out = <<>>
      <4>1. Delivered = <<>> BY <1>1, <2>1, FailoverTyped, EmptySeq
      <4> QED BY <1>1, <4>1, FailoverTyped, ConcatEqualIffEmpty DEF Delivered
    <3>4. out' = Append(out, x)
      <4>1. Append(<<>>, x) = <<>> \o <<x>> BY <1>1, <3>2, <3>3, FailoverTyped, AppendIsConcat
      <4>2. <<x>> \in Seq(Events) BY <3>2
      <4> QED BY <3>1, <3>3, <4>1, <4>2, ConcatEmptySeq
    <3>5. Len(Delivered) = taken /\ ~Failed(Script) /\ taken < Script.events
      BY <1>1, <2>1, <2>3, FailoverTyped DEF Failed
    <3> QED BY <2>1, <3>1, <3>4, <3>5, NextIsSent
  <2> QED BY <2>2, <2>3
<1>4. CASE Drain
  <2>1. phase = "draining" /\ Failed(Script) BY <1>1, <1>4 DEF Drain, PhaseInv
  <2>2. CASE Exhausted BY <1>4, <2>1, <2>2, GiveUpStep DEF Drain
  <2>3. CASE ~Exhausted
    <3>1. /\ taken < Script.events /\ taken' = taken + 1
          /\ UNCHANGED <<scripts, trying, phase, out, received, reading, attempts>>
      BY <1>4, <2>3 DEF Drain
    <3>2. FailoverTypeOK' BY <1>1, <3>1 DEF FailoverTypeOK
    <3>3. PhaseInv' BY <1>1, <2>1, <3>1, FailoverTyped DEF PhaseInv, Failed, Script
    <3>4. AttemptsInv' BY <1>1, <3>1 DEF AttemptsInv
    <3>5. OneProviderSpeaks' BY <1>1, <2>1, <3>1 DEF OneProviderSpeaks
    <3> QED BY <3>2, <3>3, <3>4, <3>5 DEF FailoverInv
  <2> QED BY <2>2, <2>3
<1>5. CASE Forward
  <2>1. Len(Delivered) = taken /\ ~Failed(Script) BY <1>1, <1>5 DEF Forward, PhaseInv, Delivered
  <2> QED BY <1>5, <2>1, NextIsSent DEF Forward
<1>6. CASE Close
  <2>1. /\ phase = "forwarding" /\ phase' = "closed" /\ taken = Script.events /\ Exhausted
        /\ UNCHANGED <<scripts, trying, taken, out, received, reading, attempts>>
    BY <1>6 DEF Close, Exhausted
  <2>2. FailoverTypeOK' BY <1>1, <2>1 DEF FailoverTypeOK
  <2>3. PhaseInv' BY <1>1, <2>1 DEF PhaseInv, Failed, Script, Exhausted
  <2>4. AttemptsInv' BY <1>1, <2>1 DEF AttemptsInv
  <2>5. OneProviderSpeaks'
    <3>1. Len(Delivered) = taken BY <1>1, <2>1 DEF PhaseInv, Delivered
    <3> QED BY <1>1, <2>1, <3>1 DEF OneProviderSpeaks, Script, Delivered
  <2> QED BY <2>2, <2>3, <2>4, <2>5 DEF FailoverInv
<1>7. CASE Consume
  <2>1. /\ out # <<>> /\ received' = Append(received, Head(out)) /\ out' = Tail(out)
        /\ UNCHANGED <<scripts, trying, phase, taken, reading, attempts>>
    BY <1>7 DEF Consume
  <2>2. Delivered' = Delivered BY <1>1, <2>1, FailoverTyped, TakenWasSent DEF Delivered
  <2>3. received' \in Seq(Events) /\ out' \in Seq(Events)
    BY <1>1, <2>1, FailoverTyped, HeadTailProperties, AppendProperties
  <2>4. FailoverTypeOK' BY <1>1, <2>1, <2>3 DEF FailoverTypeOK, Events
  <2>5. PhaseInv' BY <1>1, <2>1, <2>2 DEF PhaseInv, Failed, Script, Exhausted, Delivered
  <2>6. AttemptsInv' BY <1>1, <2>1 DEF AttemptsInv
  <2>7. OneProviderSpeaks' BY <1>1, <2>1, <2>2 DEF OneProviderSpeaks, Script, Delivered
  <2> QED BY <2>4, <2>5, <2>6, <2>7 DEF FailoverInv
<1>8. CASE StopReading \/ UNCHANGED failoverVars
  <2>1. reading' \in BOOLEAN /\ UNCHANGED <<scripts, trying, phase, taken, out, received, attempts>>
    BY <1>1, <1>8 DEF StopReading, failoverVars, FailoverTypeOK
  <2>2. FailoverTypeOK' BY <1>1, <2>1 DEF FailoverTypeOK
  <2>3. PhaseInv' BY <1>1, <2>1 DEF PhaseInv, Script, Exhausted
  <2>4. AttemptsInv' /\ OneProviderSpeaks' BY <1>1, <2>1 DEF AttemptsInv, OneProviderSpeaks, Script
  <2> QED BY <2>2, <2>3, <2>4 DEF FailoverInv
<1> QED BY <1>2, <1>3, <1>4, <1>5, <1>6, <1>7, <1>8 DEF FailoverNext

\* What is passed on, what was read and which providers were given up agree
\* (failoverProvider.Stream).
THEOREM FailoverInductive == FailoverSpec => []FailoverInv
<1>1. FailoverInit => FailoverInv
  <2> SUFFICES ASSUME FailoverInit PROVE FailoverInv OBVIOUS
  <2>1. <<>> \in Seq(Events) /\ <<>> \in Seq(1 .. Providers) /\ 1 \in 1 .. Providers
    BY FailoverAssumption
  <2>2. FailoverTypeOK BY <2>1 DEF FailoverInit, FailoverTypeOK, Events
  <2>3. Delivered = <<>> /\ Len(Delivered) = 0 BY <2>1, ConcatEmptySeq, EmptySeq DEF FailoverInit, Delivered
  <2>4. PhaseInv BY <2>2, <2>3, FailoverTyped DEF FailoverInit, PhaseInv, Delivered
  <2>5. AttemptsInv BY DEF FailoverInit, AttemptsInv
  <2>6. OneProviderSpeaks BY <2>2, <2>3, FailoverTyped DEF FailoverInit, OneProviderSpeaks, Delivered
  <2> QED BY <2>2, <2>4, <2>5, <2>6 DEF FailoverInv
<1> QED BY <1>1, FailoverStep, PTL DEF FailoverSpec

\* For any number of providers, whatever they do, and any buffer: the consumer gets
\* the events of one provider, none twice and none left out, that one had accepted the
\* request, and those before it are in the error only if they failed (WithFailover).
THEOREM OneProviderIsHeard == FailoverSpec => []OneProviderSpeaks
<1>1. FailoverInv => OneProviderSpeaks BY DEF FailoverInv
<1> QED BY FailoverInductive, <1>1, PTL

-----------------------------------------------------------------------------
(* Sequences that are computed step by step: FlattenSeq and Select. *)

\* A set of numbers has a least element.
LEMMA LeastIsThere ==
  ASSUME NEW T \in SUBSET Nat, T # {}
  PROVE  \E x \in T : \A y \in T : x <= y
<1>1. PICK x \in T : \A y \in T : ~(<<y, x>> \in OpToRel(<, Nat))
  BY WFMin, NatLessThanWellFounded
<1>2. \A y \in T : ~(y < x) BY <1>1 DEF OpToRel
<1>3. \A y \in T : x <= y BY <1>2
<1> QED BY <1>3

\* Induction up to n, with the set of the numbers that are good.
LEMMA UpTo ==
  ASSUME NEW n \in Nat, NEW Good, 0 \in Good, \A k \in 1 .. n : k - 1 \in Good => k \in Good
  PROVE  \A k \in 0 .. n : k \in Good
<1> DEFINE Wrong == {k \in 0 .. n : k \notin Good}
<1>1. SUFFICES ASSUME Wrong # {} PROVE FALSE OBVIOUS
<1>2. Wrong \in SUBSET Nat OBVIOUS
<1>3. PICK x \in Wrong : \A y \in Wrong : x <= y
  <2> HIDE DEF Wrong
  <2> QED BY <1>1, <1>2, LeastIsThere
<1>4. x \in 1 .. n /\ x \notin Good OBVIOUS
<1>5. x - 1 \in 0 .. n /\ x - 1 \in Good BY <1>3, <1>4
<1> QED BY <1>4, <1>5

Steps(n, T) == [1 .. n -> [T -> T]]
Computes(h, n, T, base, G) ==
  h \in [0 .. n -> T] /\ h[0] = base /\ \A i \in 1 .. n : h[i] = G[i][h[i - 1]]

\* What is computed step by step exists.
LEMMA Iterates ==
  ASSUME NEW n \in Nat, NEW T, NEW base \in T, NEW G \in Steps(n, T)
  PROVE  \E h : Computes(h, n, T, base, G)
<1> USE DEF Steps
<1> DEFINE P(k) == \E h \in [0 .. k -> T] : h[0] = base /\ \A i \in 1 .. k : h[i] = G[i][h[i - 1]]
           Good == {k \in 0 .. n : P(k)}
<1>1. P(0)
  <2> DEFINE h == [i \in 0 .. 0 |-> base]
  <2>1. h \in [0 .. 0 -> T] /\ h[0] = base OBVIOUS
  <2>2. \A i \in 1 .. 0 : h[i] = G[i][h[i - 1]] OBVIOUS
  <2> QED BY <2>1, <2>2
<1>2. ASSUME NEW k \in 1 .. n, P(k - 1) PROVE P(k)
  <2>1. PICK h \in [0 .. k - 1 -> T] : h[0] = base /\ \A i \in 1 .. k - 1 : h[i] = G[i][h[i - 1]] BY <1>2
  <2> DEFINE g == [i \in 0 .. k |-> IF i = k THEN G[k][h[k - 1]] ELSE h[i]]
  <2>2. h[k - 1] \in T OBVIOUS
  <2>3. G[k][h[k - 1]] \in T BY <2>2
  <2>4. g \in [0 .. k -> T] BY <2>3
  <2>5. g[0] = base BY <2>1
  <2>6. ASSUME NEW i \in 1 .. k PROVE g[i] = G[i][g[i - 1]]
    <3>1. CASE i = k BY <3>1
    <3>2. CASE i # k BY <3>2, <2>1
    <3> QED BY <3>1, <3>2
  <2> QED BY <2>4, <2>5, <2>6
<1>3. \A k \in 1 .. n : k - 1 \in Good => k \in Good
  <2>1. \A k \in 1 .. n : P(k - 1) => P(k) BY <1>2
  <2> HIDE DEF P
  <2> QED BY <2>1
<1>4. 0 \in Good BY <1>1
<1> HIDE DEF P
<1>5. n \in Good
  <2> HIDE DEF Good
  <2> DEFINE all == \A k \in 0 .. n : k \in Good
  <2>1. all BY <1>3, <1>4, UpTo
  <2>2. n \in 0 .. n OBVIOUS
  <2> QED BY <2>1, <2>2
<1> QED BY <1>5 DEF P, Computes

\* The first k of the sequences f[1], f[2], ... in one.
Flat(f, k) == FlattenSeq([i \in 1 .. k |-> f[i]])
Flattening(h, n, f, S) ==
  /\ h \in [0 .. n -> Seq(S)] /\ h[0] = <<>> /\ \A i \in 1 .. n : h[i] = h[i - 1] \o f[i]
  /\ \A k \in 0 .. n : Flat(f, k) = h[k]

\* A concatenation is computed from the front.
LEMMA Flattens ==
  ASSUME NEW S, NEW n \in Nat, NEW f \in [1 .. n -> Seq(S)] PROVE \E h : Flattening(h, n, f, S)
<1> DEFINE G == [i \in 1 .. n |-> [x \in Seq(S) |-> x \o f[i]]]
<1>1. G \in [1 .. n -> [Seq(S) -> Seq(S)]] BY ConcatProperties
<1>2. <<>> \in Seq(S) OBVIOUS
<1>3. PICK h \in [0 .. n -> Seq(S)] : h[0] = <<>> /\ \A i \in 1 .. n : h[i] = G[i][h[i - 1]]
  <2> DEFINE T == Seq(S)
             base == <<>>
  <2>1. base \in T /\ G \in Steps(n, T) BY <1>1, <1>2 DEF Steps
  <2> HIDE DEF G, T, base
  <2>2. \E h : Computes(h, n, T, base, G) BY <2>1, Iterates
  <2> QED BY <2>2 DEF T, base, Computes
<1>4. \A i \in 1 .. n : h[i - 1] \in Seq(S) OBVIOUS
<1>5. \A i \in 1 .. n : h[i] = h[i - 1] \o f[i] BY <1>3, <1>4
<1>6. ASSUME NEW k \in 0 .. n PROVE Flat(f, k) = h[k]
  <2> DEFINE ss == [i \in 1 .. k |-> f[i]]
             fl == CHOOSE g : g = [i \in 1 .. Len(ss) |-> IF i = 1 THEN ss[i] ELSE g[i - 1] \o ss[i]]
  <2>1. ss \in Seq(Seq(S)) /\ Len(ss) = k /\ \A i \in 1 .. k : ss[i] = f[i]
    <3>1. \A i \in 1 .. k : f[i] \in Seq(S) OBVIOUS
    <3>2. k \in Nat OBVIOUS
    <3> QED BY <3>1, <3>2, IsASeq
  <2>2. CASE k = 0
    <3>1. ss = <<>> BY <2>1, <2>2
    <3> HIDE DEF ss
    <3>2. FlattenSeq(ss) = <<>> BY <3>1 DEF FlattenSeq
    <3> QED BY <2>2, <3>2, <1>3 DEF ss, Flat
  <2>3. CASE k # 0
    <3> HIDE DEF ss
    <3>1. FlattenSeq(ss) = fl[k] BY <2>1, <2>3 DEF FlattenSeq
    <3> DEFINE r == [i \in 1 .. k |-> h[i]]
    <3>2. r = [i \in 1 .. k |-> IF i = 1 THEN ss[i] ELSE r[i - 1] \o ss[i]]
      <4>1. ASSUME NEW i \in 1 .. k PROVE h[i] = IF i = 1 THEN ss[i] ELSE r[i - 1] \o ss[i]
        <5>0. i \in 1 .. n /\ ss[i] = f[i] /\ f[i] \in Seq(S) BY <2>1
        <5>1. h[i] = h[i - 1] \o ss[i] /\ ss[i] \in Seq(S) BY <1>5, <5>0
        <5>2. CASE i = 1
          <6>1. h[i - 1] = <<>> BY <5>2, <1>3
          <6>2. <<>> \o ss[i] = ss[i] BY <5>1, ConcatEmptySeq
          <6> QED BY <5>1, <5>2, <6>1, <6>2
        <5>3. CASE i # 1
          <6>1. i - 1 \in 1 .. k BY <5>3
          <6>2. r[i - 1] = h[i - 1] BY <6>1
          <6> QED BY <5>1, <5>3, <6>2
        <5> QED BY <5>2, <5>3
      <4> QED BY <4>1
    <3>3. fl = [i \in 1 .. k |-> IF i = 1 THEN ss[i] ELSE fl[i - 1] \o ss[i]]
      <4> HIDE DEF r
      <4> QED BY <2>1, <3>2
    <3> HIDE DEF fl
    <3> DEFINE Good == {i \in 0 .. k : i = 0 \/ fl[i] = h[i]}
    <3>4. \A i \in 1 .. k : i - 1 \in Good => i \in Good
      <4>1. ASSUME NEW i \in 1 .. k, i - 1 \in Good PROVE fl[i] = h[i]
        <5>1. fl[i] = IF i = 1 THEN ss[i] ELSE fl[i - 1] \o ss[i] BY <3>3
        <5>2. i \in 1 .. n /\ ss[i] = f[i] /\ f[i] \in Seq(S) BY <2>1
        <5>3. h[i] = h[i - 1] \o ss[i] BY <1>5, <5>2
        <5>4. CASE i = 1
          <6>1. fl[i] = ss[i] BY <5>1, <5>4
          <6>2. h[0] = <<>> BY <1>3
          <6>3. h[i - 1] = <<>>
            <7>1. i - 1 = 0 BY <5>4
            <7> QED BY <6>2, <7>1, Zenon
          <6>4. h[i] = <<>> \o ss[i] BY <5>3, <6>3, Zenon
          <6> QED BY <5>2, <6>1, <6>4, ConcatEmptySeq
        <5>5. CASE i # 1
          <6>1. fl[i] = fl[i - 1] \o ss[i] BY <5>1, <5>5
          <6>2. fl[i - 1] = h[i - 1] BY <4>1, <5>5
          <6> QED BY <5>3, <6>1, <6>2
        <5> QED BY <5>4, <5>5
      <4> QED BY <4>1
    <3>5. 0 \in Good /\ k \in Nat OBVIOUS
    <3>6. k \in Good
      <4> HIDE DEF Good
      <4>1. \A i \in 0 .. k : i \in Good BY <3>4, <3>5, UpTo
      <4> QED BY <3>5, <4>1
    <3> QED BY <3>1, <3>6, <2>3 DEF ss, Flat
  <2> QED BY <2>2, <2>3
<1> QED BY <1>3, <1>5, <1>6 DEF Flattening

Selecting(h, s, P, S) ==
  /\ h \in [0 .. Len(s) -> Seq(S)] /\ h[0] = <<>>
  /\ \A i \in 1 .. Len(s) : h[i] = IF i \in P THEN Append(h[i - 1], s[i]) ELSE h[i - 1]
  /\ Select(s, P) = h[Len(s)]

\* Select is computed from the front.
LEMMA Selects == ASSUME NEW S, NEW s \in Seq(S), NEW P PROVE \E h : Selecting(h, s, P, S)
<1> DEFINE n == Len(s)
           G == [i \in 1 .. n |-> [x \in Seq(S) |-> IF i \in P THEN Append(x, s[i]) ELSE x]]
<1>1. n \in Nat /\ \A i \in 1 .. n : s[i] \in S OBVIOUS
<1> HIDE DEF n
<1>2. G \in [1 .. n -> [Seq(S) -> Seq(S)]] BY <1>1, AppendProperties
<1>3. PICK h \in [0 .. n -> Seq(S)] : h[0] = <<>> /\ \A i \in 1 .. n : h[i] = G[i][h[i - 1]]
  <2> DEFINE T == Seq(S)
             base == <<>>
  <2>1. base \in T /\ G \in Steps(n, T) BY <1>2 DEF Steps
  <2> HIDE DEF G, T, base
  <2>2. \E h : Computes(h, n, T, base, G) BY <1>1, <2>1, Iterates
  <2> QED BY <2>2 DEF T, base, Computes
<1>4. \A i \in 1 .. n : h[i - 1] \in Seq(S) BY <1>1
<1>5. \A i \in 1 .. n : h[i] = IF i \in P THEN Append(h[i - 1], s[i]) ELSE h[i - 1] BY <1>3, <1>4
<1> DEFINE up == CHOOSE g : g = [k \in 0 .. n |->
                   IF k = 0 THEN <<>> ELSE IF k \in P THEN Append(g[k - 1], s[k]) ELSE g[k - 1]]
<1>6. Select(s, P) = up[n] BY DEF Select, n
<1>7. up = [k \in 0 .. n |-> IF k = 0 THEN <<>> ELSE IF k \in P THEN Append(up[k - 1], s[k]) ELSE up[k - 1]]
  <2>1. h = [k \in 0 .. n |-> IF k = 0 THEN <<>> ELSE IF k \in P THEN Append(h[k - 1], s[k]) ELSE h[k - 1]]
    <3>1. h = [k \in 0 .. n |-> h[k]] OBVIOUS
    <3>2. \A k \in 0 .. n : h[k] = IF k = 0 THEN <<>> ELSE IF k \in P THEN Append(h[k - 1], s[k]) ELSE h[k - 1]
      <4>1. h[0] = <<>> BY <1>3
      <4>2. \A k \in 0 .. n : k = 0 \/ k \in 1 .. n BY <1>1
      <4> QED BY <1>5, <4>1, <4>2
    <3> QED BY <3>1, <3>2
  <2> QED BY <2>1
<1> HIDE DEF up
<1> DEFINE Good == {i \in 0 .. n : up[i] = h[i]}
<1>8. 0 \in Good BY <1>1, <1>3, <1>7
<1>9. \A i \in 1 .. n : i - 1 \in Good => i \in Good
  <2>1. ASSUME NEW i \in 1 .. n, i - 1 \in Good PROVE up[i] = h[i]
    <3>0. i \in 0 .. n /\ i # 0 BY <1>1
    <3>1. up[i] = IF i = 0 THEN <<>> ELSE IF i \in P THEN Append(up[i - 1], s[i]) ELSE up[i - 1] BY <1>7, <3>0, Zenon
    <3>2. h[i] = IF i \in P THEN Append(h[i - 1], s[i]) ELSE h[i - 1] BY <1>5
    <3> QED BY <2>1, <3>0, <3>1, <3>2
  <2> QED BY <1>1, <2>1
<1>10. n \in Good
  <2> HIDE DEF Good
  <2>1. \A i \in 0 .. n : i \in Good BY <1>1, <1>8, <1>9, UpTo
  <2> QED BY <1>1, <2>1
<1> QED BY <1>3, <1>5, <1>6, <1>10 DEF n, Selecting

\* Select keeps what it is told to, and nothing else.
LEMMA SelectKeeps ==
  ASSUME NEW S, NEW s \in Seq(S), NEW P
  PROVE  /\ Select(s, P) \in Seq(S)
         /\ \A k \in 1 .. Len(s) : k \in P => \E j \in 1 .. Len(Select(s, P)) : Select(s, P)[j] = s[k]
         /\ \A j \in 1 .. Len(Select(s, P)) : \E k \in 1 .. Len(s) : k \in P /\ Select(s, P)[j] = s[k]
<1> DEFINE n == Len(s)
<1>1. n \in Nat OBVIOUS
<1> HIDE DEF n
<1>0. PICK h : Selecting(h, s, P, S) BY Selects
<1>2. /\ h \in [0 .. n -> Seq(S)]
      /\ h[0] = <<>> /\ \A i \in 1 .. n : h[i] = IF i \in P THEN Append(h[i - 1], s[i]) ELSE h[i - 1]
      /\ Select(s, P) = h[n]
  BY <1>0 DEF n, Selecting
<1> DEFINE Has(m) == \A k \in 1 .. m : k \in P => \E j \in 1 .. Len(h[m]) : h[m][j] = s[k]
           From(m) == \A j \in 1 .. Len(h[m]) : \E k \in 1 .. m : k \in P /\ h[m][j] = s[k]
           Good == {m \in 0 .. n : Has(m) /\ From(m)}
<1>3. 0 \in Good BY <1>1, <1>2
<1>4. \A m \in 1 .. n : m - 1 \in Good => m \in Good
  <2> SUFFICES ASSUME NEW m \in 1 .. n, m - 1 \in Good PROVE m \in Good OBVIOUS
  <2> SUFFICES Has(m) /\ From(m)
    <3>1. m \in 0 .. n BY <1>1
    <3> HIDE DEF Has, From
    <3> QED BY <3>1
  <2> DEFINE a == h[m - 1]
  <2>1. a \in Seq(S) /\ s[m] \in S
    <3> HIDE DEF Good
    <3>1. m - 1 \in 0 .. n BY <1>1
    <3>2. a \in Seq(S) BY <1>2, <3>1
    <3>3. m \in 1 .. Len(s) BY DEF n
    <3> QED BY <3>2, <3>3
  <2>2. Has(m - 1) /\ From(m - 1) OBVIOUS
  <2>3. h[m] = IF m \in P THEN Append(a, s[m]) ELSE a BY <1>1, <1>2
  <2>4. CASE m \in P
    <3>1. /\ Len(h[m]) = Len(a) + 1 /\ Len(a) \in Nat
          /\ \A j \in 1 .. Len(a) : h[m][j] = a[j]
          /\ h[m][Len(a) + 1] = s[m]
      <4>1. h[m] = Append(a, s[m]) BY <2>3, <2>4
      <4> HIDE DEF a
      <4> QED BY <2>1, <4>1, AppendProperties
    <3>2. ASSUME NEW k \in 1 .. m, k \in P PROVE \E j \in 1 .. Len(h[m]) : h[m][j] = s[k]
      <4>1. CASE k = m
        <5>1. Len(a) + 1 \in 1 .. Len(h[m]) BY <3>1
        <5> QED BY <3>1, <4>1, <5>1
      <4>2. CASE k # m
        <5>1. k \in 1 .. m - 1 BY <4>2
        <5>2. PICK j \in 1 .. Len(a) : a[j] = s[k] BY <2>2, <3>2, <5>1
        <5>3. j \in 1 .. Len(h[m]) BY <3>1
        <5> QED BY <3>1, <5>2, <5>3
      <4> QED BY <4>1, <4>2
    <3>3. ASSUME NEW j \in 1 .. Len(h[m]) PROVE \E k \in 1 .. m : k \in P /\ h[m][j] = s[k]
      <4>1. CASE j = Len(a) + 1
        <5>1. m \in 1 .. m OBVIOUS
        <5> QED BY <2>4, <3>1, <4>1, <5>1
      <4>2. CASE j # Len(a) + 1
        <5>1. j \in 1 .. Len(a) BY <3>1, <4>2
        <5>2. PICK k \in 1 .. m - 1 : k \in P /\ a[j] = s[k] BY <2>2, <5>1
        <5>3. k \in 1 .. m OBVIOUS
        <5> QED BY <3>1, <5>1, <5>2, <5>3
      <4> QED BY <4>1, <4>2
    <3> QED BY <3>2, <3>3
  <2>5. CASE m \notin P
    <3>1. h[m] = a BY <2>3, <2>5
    <3>2. \A k \in 1 .. m : k \in P => k \in 1 .. m - 1 BY <2>5
    <3>3. \A k \in 1 .. m - 1 : k \in 1 .. m OBVIOUS
    <3> QED BY <2>2, <3>1, <3>2, <3>3
  <2> QED BY <2>4, <2>5
<1>5. n \in Good
  <2> HIDE DEF Good
  <2>1. \A m \in 0 .. n : m \in Good BY <1>1, <1>3, <1>4, UpTo
  <2> QED BY <1>1, <2>1
<1>6. h[n] \in Seq(S) BY <1>1, <1>2
<1> QED BY <1>2, <1>5, <1>6 DEF n

-----------------------------------------------------------------------------
\* A concatenation with one sequence more.
LEMMA FlatMore ==
  ASSUME NEW S, NEW n \in Nat, NEW f \in [1 .. n -> Seq(S)], NEW k \in 1 .. n
  PROVE  Flat(f, k) = Flat(f, k - 1) \o f[k] /\ Flat(f, k) \in Seq(S) /\ Flat(f, k - 1) \in Seq(S)
<1>1. PICK h : Flattening(h, n, f, S) BY Flattens
<1>2. k \in 0 .. n /\ k - 1 \in 0 .. n OBVIOUS
<1>3. h[k] = h[k - 1] \o f[k] BY <1>1 DEF Flattening
<1>4. h[k] \in Seq(S) /\ h[k - 1] \in Seq(S) BY <1>1, <1>2 DEF Flattening
<1>5. Flat(f, k) = h[k] /\ Flat(f, k - 1) = h[k - 1] BY <1>1, <1>2 DEF Flattening
<1> QED BY <1>3, <1>4, <1>5

LEMMA FlatNone == ASSUME NEW f PROVE Flat(f, 0) = <<>>
<1> DEFINE ss == [i \in 1 .. 0 |-> f[i]]
<1>1. ss = <<>> OBVIOUS
<1> HIDE DEF ss
<1>2. FlattenSeq(ss) = <<>> BY <1>1 DEF FlattenSeq
<1> QED BY <1>2 DEF ss, Flat

\* Of nothing but empty sequences.
LEMMA FlatEmpties ==
  ASSUME NEW T, NEW n \in Nat, NEW f \in [1 .. n -> Seq(T)], \A i \in 1 .. n : f[i] = <<>>
  PROVE  FlattenSeq(f) = <<>>
<1> DEFINE Good == {k \in 0 .. n : Flat(f, k) = <<>>}
<1>2. 0 \in Good BY FlatNone
<1>3. \A k \in 1 .. n : k - 1 \in Good => k \in Good
  <2> SUFFICES ASSUME NEW k \in 1 .. n, k - 1 \in Good PROVE Flat(f, k) = <<>> OBVIOUS
  <2>1. Flat(f, k) = Flat(f, k - 1) \o f[k] /\ Flat(f, k) \in Seq(T) /\ Flat(f, k - 1) \in Seq(T) BY FlatMore
  <2>2. Flat(f, k - 1) = <<>> /\ f[k] = <<>> OBVIOUS
  <2> QED BY <2>1, <2>2
<1>4. n \in Good
  <2> HIDE DEF Good
  <2>1. \A k \in 0 .. n : k \in Good BY <1>2, <1>3, UpTo
  <2> QED BY <2>1
<1>5. [i \in 1 .. n |-> f[i]] = f OBVIOUS
<1> QED BY <1>4, <1>5 DEF Flat

-----------------------------------------------------------------------------
(* McpCalls. *)

Entries == [server : Nat, item : Nat]

LEMMA OnTyped ==
  ASSUME NEW s \in Nat, NEW items \in Seq(Nat)
  PROVE  On(s, items) \in Seq(Entries) /\ Len(On(s, items)) = Len(items)
<1>1. \A k \in 1 .. Len(items) : [server |-> s, item |-> items[k]] \in Entries BY DEF Entries
<1>2. Len(items) \in Nat OBVIOUS
<1> QED BY <1>1, <1>2, IsASeq DEF On

LEMMA OnConcat ==
  ASSUME NEW s \in Nat, NEW a \in Seq(Nat), NEW b \in Seq(Nat)
  PROVE  On(s, a \o b) = On(s, a) \o On(s, b)
<1> DEFINE l == On(s, a \o b)
           r == On(s, a) \o On(s, b)
<1>1. a \o b \in Seq(Nat) /\ Len(a \o b) = Len(a) + Len(b) /\ Len(a) \in Nat /\ Len(b) \in Nat BY ConcatProperties
<1>2. l \in Seq(Entries) /\ Len(l) = Len(a) + Len(b) BY <1>1, OnTyped
<1>3. On(s, a) \in Seq(Entries) /\ On(s, b) \in Seq(Entries) /\ Len(On(s, a)) = Len(a) /\ Len(On(s, b)) = Len(b)
  BY OnTyped
<1>4. r \in Seq(Entries) /\ Len(r) = Len(a) + Len(b)
  <2> DEFINE x == On(s, a)
             y == On(s, b)
  <2>1. x \in Seq(Entries) /\ y \in Seq(Entries) /\ Len(x) = Len(a) /\ Len(y) = Len(b) BY <1>3
  <2> HIDE DEF x, y
  <2>2. x \o y \in Seq(Entries) /\ Len(x \o y) = Len(x) + Len(y) BY <2>1, ConcatProperties
  <2> QED BY <2>1, <2>2 DEF x, y
<1>5. ASSUME NEW k \in 1 .. Len(a) + Len(b) PROVE l[k] = r[k]
  <2>1. l[k] = [server |-> s, item |-> (a \o b)[k]] BY <1>1 DEF On
  <2>2. CASE k <= Len(a)
    <3>1. k \in 1 .. Len(a) BY <1>1, <2>2
    <3>2. (a \o b)[k] = a[k] BY <3>1, ConcatProperties
    <3>3. r[k] = On(s, a)[k] BY <1>3, <3>1, ConcatProperties
    <3>4. On(s, a)[k] = [server |-> s, item |-> a[k]] BY <3>1 DEF On
    <3> QED BY <2>1, <3>2, <3>3, <3>4
  <2>3. CASE ~(k <= Len(a))
    <3>1. k - Len(a) \in 1 .. Len(b) BY <1>1, <2>3
    <3>2. (a \o b)[k] = b[k - Len(a)] BY <1>1, <2>3, ConcatProperties
    <3>3. r[k] = On(s, b)[k - Len(a)] BY <1>1, <1>3, <2>3, ConcatProperties
    <3>4. On(s, b)[k - Len(a)] = [server |-> s, item |-> b[k - Len(a)]] BY <3>1 DEF On
    <3> QED BY <2>1, <3>2, <3>3, <3>4
  <2> QED BY <2>2, <2>3
<1> HIDE DEF l, r
<1>6. l = r BY <1>1, <1>2, <1>4, <1>5, SeqEqual
<1> QED BY <1>6 DEF l, r

LEMMA ServerTyped ==
  ASSUME servers \in Settings
  PROVE  /\ Len(servers) \in Nat
         /\ \A s \in 1 .. Len(servers) :
              /\ servers[s].pages \in Seq(Seq(Nat)) /\ servers[s].pages # <<>>
              /\ servers[s].loops \in BOOLEAN /\ servers[s].enabled \in BOOLEAN
              /\ Len(servers[s].pages) \in Nat \ {0}
              /\ \A k \in 1 .. Len(servers[s].pages) : servers[s].pages[k] \in Seq(Nat)
<1> DEFINE R == [enabled : BOOLEAN, valid : BOOLEAN, http : BOOLEAN, has : SUBSET STRING,
                 pages : Seq(Seq(Nat)) \ {<<>>}, loops : BOOLEAN]
<1>1. servers \in Seq(R) BY CallsAssumption
<1>2. Len(servers) \in Nat /\ \A s \in 1 .. Len(servers) : servers[s] \in R
  <2> HIDE DEF R
  <2> QED BY <1>1
<1>3. ASSUME NEW s \in 1 .. Len(servers)
      PROVE  /\ servers[s].pages \in Seq(Seq(Nat)) /\ servers[s].pages # <<>>
             /\ servers[s].loops \in BOOLEAN /\ servers[s].enabled \in BOOLEAN
             /\ Len(servers[s].pages) \in Nat \ {0}
             /\ \A k \in 1 .. Len(servers[s].pages) : servers[s].pages[k] \in Seq(Nat)
  <2>1. servers[s] \in R BY <1>2
  <2>2. servers[s].pages \in Seq(Seq(Nat)) \ {<<>>} /\ servers[s].loops \in BOOLEAN /\ servers[s].enabled \in BOOLEAN BY <2>1
  <2> DEFINE p == servers[s].pages
  <2>3. p \in Seq(Seq(Nat)) /\ p # <<>> BY <2>2
  <2> HIDE DEF p
  <2>4. Len(p) \in Nat \ {0} /\ \A k \in 1 .. Len(p) : p[k] \in Seq(Nat) BY <2>3
  <2> QED BY <2>2, <2>4 DEF p
<1> QED BY <1>2, <1>3

\* The pages of a server up to one of them.
LEMMA PagesMore ==
  ASSUME servers \in Settings, NEW s \in 1 .. Len(servers), NEW k \in 1 .. Len(servers[s].pages)
  PROVE  LET pages == servers[s].pages
             upTo(j) == FlattenSeq(SubSeq(pages, 1, j))
         IN  /\ upTo(k) = upTo(k - 1) \o pages[k] /\ upTo(k) \in Seq(Nat) /\ upTo(k - 1) \in Seq(Nat)
             /\ upTo(0) = <<>> /\ upTo(Len(pages)) = FlattenSeq(pages)
<1> DEFINE pages == servers[s].pages
           n == Len(pages)
<1>1. pages \in Seq(Seq(Nat)) /\ n \in Nat /\ k \in 1 .. n BY ServerTyped
<1> HIDE DEF pages
<1>2. n \in Nat /\ pages \in [1 .. n -> Seq(Nat)] BY <1>1
<1>3. ASSUME NEW j \in 0 .. n PROVE SubSeq(pages, 1, j) = [i \in 1 .. j |-> pages[i]]
  BY <1>1 DEF SubSeq
<1>4. SubSeq(pages, 1, n) = pages BY <1>1, SubSeqFull
<1>5. k \in 0 .. n /\ k - 1 \in 0 .. n /\ 0 \in 0 .. n BY <1>1
<1>6. FlattenSeq(SubSeq(pages, 1, 0)) = <<>>
  <2>1. SubSeq(pages, 1, 0) = [i \in 1 .. 0 |-> pages[i]] BY <1>3, <1>5
  <2> QED BY <2>1, FlatNone DEF Flat
<1>7. Flat(pages, k) = Flat(pages, k - 1) \o pages[k] /\ Flat(pages, k) \in Seq(Nat) /\ Flat(pages, k - 1) \in Seq(Nat)
  BY <1>1, <1>2, FlatMore
<1>8. /\ SubSeq(pages, 1, k) = [i \in 1 .. k |-> pages[i]]
      /\ SubSeq(pages, 1, k - 1) = [i \in 1 .. k - 1 |-> pages[i]]
  BY <1>3, <1>5
<1>9. /\ FlattenSeq(SubSeq(pages, 1, k)) = FlattenSeq(SubSeq(pages, 1, k - 1)) \o pages[k]
      /\ FlattenSeq(SubSeq(pages, 1, k)) \in Seq(Nat)
      /\ FlattenSeq(SubSeq(pages, 1, k - 1)) \in Seq(Nat)
  BY <1>7, <1>8 DEF Flat
<1> QED BY <1>4, <1>6, <1>9 DEF pages

LEMMA OfferedTyped ==
  ASSUME servers \in Settings, NEW s \in 1 .. Len(servers) PROVE Offered(s) \in Seq(Entries)
<1> DEFINE pages == servers[s].pages
<1>1. Len(pages) \in 1 .. Len(pages) BY ServerTyped
<1>2. FlattenSeq(SubSeq(pages, 1, Len(pages))) \in Seq(Nat) /\ FlattenSeq(SubSeq(pages, 1, Len(pages))) = FlattenSeq(pages)
  BY <1>1, PagesMore
<1>3. s \in Nat BY ServerTyped
<1>4. FlattenSeq(pages) \in Seq(Nat) BY <1>2
<1> QED BY <1>3, <1>4, OnTyped DEF Offered

Wanted == [s \in 1 .. Len(servers) |-> IF s \in Enabled /\ Offers(s) THEN Offered(s) ELSE <<>>]

LEMMA WholeMore ==
  ASSUME servers \in Settings, NEW k \in 1 .. Len(servers)
  PROVE  /\ WholeOf(k) = WholeOf(k - 1) \o (IF k \in Enabled /\ Offers(k) THEN Offered(k) ELSE <<>>)
         /\ WholeOf(k) \in Seq(Entries) /\ WholeOf(k - 1) \in Seq(Entries)
<1> DEFINE n == Len(servers)
<1>1. n \in Nat BY ServerTyped
<1>2. Wanted \in [1 .. n -> Seq(Entries)]
  <2>1. \A s \in 1 .. n : (IF s \in Enabled /\ Offers(s) THEN Offered(s) ELSE <<>>) \in Seq(Entries) BY OfferedTyped
  <2> QED BY <2>1 DEF Wanted
<1>3. WholeOf(k) = Flat(Wanted, k)
  <2>1. [s \in 1 .. k |-> IF s \in Enabled /\ Offers(s) THEN Offered(s) ELSE <<>>] = [s \in 1 .. k |-> Wanted[s]]
    BY <1>1 DEF Wanted
  <2> QED BY <2>1 DEF WholeOf, Flat
<1>4. WholeOf(k - 1) = Flat(Wanted, k - 1)
  <2>1. [s \in 1 .. k - 1 |-> IF s \in Enabled /\ Offers(s) THEN Offered(s) ELSE <<>>] = [s \in 1 .. k - 1 |-> Wanted[s]]
    BY <1>1 DEF Wanted
  <2> QED BY <2>1 DEF WholeOf, Flat
<1>5. /\ Flat(Wanted, k) = Flat(Wanted, k - 1) \o Wanted[k]
      /\ Flat(Wanted, k) \in Seq(Entries) /\ Flat(Wanted, k - 1) \in Seq(Entries)
  <2> HIDE DEF Entries
  <2> QED BY <1>1, <1>2, FlatMore
<1>6. Wanted[k] = IF k \in Enabled /\ Offers(k) THEN Offered(k) ELSE <<>> BY DEF Wanted
<1> QED BY <1>3, <1>4, <1>5, <1>6

LEMMA WholeNone == WholeOf(0) = <<>>
<1> DEFINE f == [s \in 1 .. 0 |-> IF s \in Enabled /\ Offers(s) THEN Offered(s) ELSE <<>>]
<1>1. f = <<>> OBVIOUS
<1> HIDE DEF f
<1>2. FlattenSeq(f) = <<>> BY <1>1 DEF FlattenSeq
<1> QED BY <1>2 DEF f, WholeOf

LEMMA WholeEmpty == ASSUME servers \in Settings, Enabled = {} PROVE WholeOf(Len(servers)) = <<>>
<1> DEFINE f == [s \in 1 .. Len(servers) |-> IF s \in Enabled /\ Offers(s) THEN Offered(s) ELSE <<>>]
<1>1. f \in [1 .. Len(servers) -> Seq(Entries)] /\ \A s \in 1 .. Len(servers) : f[s] = <<>> OBVIOUS
<1>2. Len(servers) \in Nat BY ServerTyped
<1> HIDE DEF f
<1>3. FlattenSeq(f) = <<>> BY <1>1, <1>2, FlatEmpties
<1> QED BY <1>3 DEF f, WholeOf

\* A step that asks nobody, and leaves the catalog as it is.
LEMMA CallsStutter == ASSUME CallsInv, UNCHANGED callVars PROVE CallsInv'
<1>1. UNCHANGED <<servers, cmd, step, position, page, requests, catalog, running, exit, shown>> BY DEF callVars
<1>2. Enabled' = Enabled /\ One' = One /\ Asked' = Asked /\ Feature' = Feature BY <1>1 DEF Enabled, One, Asked, Offers, Feature
<1>3. Started' = Started BY <1>1 DEF Started, On
<1>4. \A n : WholeOf(n)' = WholeOf(n) BY <1>1 DEF WholeOf, Enabled, Offers, Feature, Offered, On
<1>5. CallsTypeOK' BY <1>1, <1>2 DEF CallsInv, CallsTypeOK
<1>6. ManagerOK' BY <1>1, <1>2 DEF CallsInv, ManagerOK
<1>7. ListedInv'
  <2>1. WholeOf(position - 1)' = WholeOf(position - 1) BY <1>1, <1>4
  <2> QED BY <1>1, <1>2, <1>3, <2>1 DEF CallsInv, ListedInv
<1>8. CatalogIsWhole'
  <2>1. WholeOf(Len(servers))' = WholeOf(Len(servers)) BY <1>1, <1>4
  <2>2. \A s : Offers(s)' = Offers(s) BY <1>1 DEF Offers, Feature
  <2> QED BY <1>1, <1>2, <2>1, <2>2 DEF CallsInv, CallsAreSound, CatalogIsWhole
<1>9. ResultsAreTold' BY <1>1 DEF CallsInv, CallsAreSound, ResultsAreTold
<1> QED BY <1>5, <1>6, <1>7, <1>8, <1>9 DEF CallsInv, CallsAreSound

LEMMA CallsStart == ASSUME CallsInit PROVE CallsInv
<1>1. /\ servers \in Settings /\ cmd = NoCommand /\ step = "idle" /\ position = 1 /\ page = 1
      /\ catalog = <<>> /\ running = {} /\ exit = 2 /\ shown = NoCall
  BY DEF CallsInit
<1>2. CallsTypeOK
  <2>1. Len(servers) \in Nat BY <1>1, ServerTyped
  <2>2. 1 \in 1 .. (IF Asked THEN Len(servers[position].pages) ELSE 1)
    <3>1. CASE Asked
      <4>1. position \in 1 .. Len(servers) BY <3>1 DEF Asked, Enabled
      <4> QED BY <1>1, <3>1, <4>1, ServerTyped
    <3> QED BY <3>1
  <2> QED BY <1>1, <2>1, <2>2 DEF CallsTypeOK
<1>3. ManagerOK /\ ListedInv BY <1>1 DEF ManagerOK, ListedInv, NoCommand
<1>4. CallsAreSound BY <1>1 DEF CallsAreSound, CatalogIsWhole, ResultsAreTold, NoCall
<1> QED BY <1>2, <1>3, <1>4 DEF CallsInv

\* What a server that is asked has to list.
LEMMA AskedPages ==
  ASSUME servers \in Settings, Asked
  PROVE  position \in 1 .. Len(servers) /\ Len(servers[position].pages) \in Nat \ {0}
<1>1. position \in 1 .. Len(servers) BY DEF Asked, Enabled
<1> QED BY <1>1, ServerTyped

\* The position and the page a command starts with are in range, whatever it asks for.
LEMMA FirstPage ==
  ASSUME servers \in Settings, UNCHANGED servers, position' = 1, page' = 1
  PROVE  /\ position' \in 1 .. Len(servers') + 1
         /\ page' \in 1 .. (IF Asked' THEN Len(servers'[position'].pages) ELSE 1)
<1>1. Len(servers) \in Nat BY ServerTyped
<1>2. CASE Asked'
  <2>1. 1 \in 1 .. Len(servers) BY <1>2 DEF Asked, Enabled
  <2>2. Len(servers[1].pages) \in Nat \ {0} BY <2>1, ServerTyped
  <2> QED BY <1>1, <1>2, <2>2
<1> QED BY <1>1, <1>2

LEMMA BeginStep == ASSUME CallsInv, NEW kind, NEW name, Begin(kind, name) PROVE CallsInv'
<1>1. /\ step = "idle" /\ step' = "configs" /\ cmd' = [kind |-> kind, name |-> name, host |-> FALSE]
      /\ UNCHANGED <<servers, position, page, requests, catalog, running, exit, shown>>
  BY DEF Begin
<1>2. position = 1 /\ page = 1 /\ catalog = <<>> /\ running = {} /\ servers \in Settings
  BY <1>1 DEF CallsInv, ListedInv, ManagerOK, CallsTypeOK
<1>3. CallsTypeOK' BY <1>1, <1>2, FirstPage DEF CallsTypeOK
<1>4. ManagerOK' /\ ListedInv' BY <1>1, <1>2 DEF ManagerOK, ListedInv
<1>5. CallsAreSound'
  <2>1. ResultsAreTold' BY <1>1 DEF CallsInv, CallsAreSound, ResultsAreTold
  <2> QED BY <1>1, <2>1 DEF CallsAreSound, CatalogIsWhole
<1> QED BY <1>3, <1>4, <1>5 DEF CallsInv

LEMMA HostAsksStep == ASSUME CallsInv, NEW kind, NEW name, HostAsks(kind, name) PROVE CallsInv'
<1>1. /\ step = "idle" /\ step' = (IF Enabled = {} THEN "none" ELSE "ask") /\ running' = Enabled
      /\ cmd' = [kind |-> kind, name |-> name, host |-> TRUE]
      /\ UNCHANGED <<servers, position, page, requests, catalog, exit, shown>>
  BY DEF HostAsks
<1>2. position = 1 /\ page = 1 /\ catalog = <<>> /\ servers \in Settings
  BY <1>1 DEF CallsInv, ListedInv, CallsTypeOK
<1>3. CallsTypeOK' BY <1>1, <1>2, FirstPage DEF CallsTypeOK
<1>4. Enabled' = Enabled /\ cmd'.host BY <1>1 DEF Enabled
<1>5. ManagerOK' BY <1>1, <1>4 DEF ManagerOK
<1>6. WholeOf(position - 1)' = <<>>
  <2>1. WholeOf(0)' = <<>>
    <3> DEFINE f == [s \in 1 .. 0 |-> IF s \in Enabled' /\ Offers(s)' THEN Offered(s)' ELSE <<>>]
    <3>1. f = <<>> OBVIOUS
    <3> HIDE DEF f
    <3>2. FlattenSeq(f) = <<>> BY <3>1 DEF FlattenSeq
    <3> QED BY <3>2 DEF f, WholeOf
  <2>2. position' - 1 = 0 BY <1>1, <1>2
  <2> QED BY <2>1, <2>2
<1>7. Started' = <<>> BY <1>1, <1>2 DEF Started
<1>8. ListedInv' BY <1>1, <1>2, <1>6, <1>7 DEF ListedInv
<1>9. CallsAreSound'
  <2>1. ResultsAreTold' BY <1>1 DEF CallsInv, CallsAreSound, ResultsAreTold
  <2> QED BY <1>1, <2>1 DEF CallsAreSound, CatalogIsWhole
<1> QED BY <1>3, <1>5, <1>8, <1>9 DEF CallsInv

\* What the end of a command has to show.
LEMMA LeaveStep ==
  ASSUME CallsInv, NEW code, LeaveCall(code), UNCHANGED <<servers, cmd, position, page, shown>>,
         catalog' \in Seq(Entries), cmd.host => running = Enabled,
         code = 0 /\ cmd.kind \in {"resources", "prompts"} =>
           catalog' = WholeOf(Len(servers)) /\ \A k \in 1 .. Len(catalog') : catalog'[k].item # 0,
         code = 0 /\ One => cmd.name \in Enabled /\ Offers(cmd.name)
  PROVE  CallsInv'
<1>1. step' = "done" /\ exit' = code /\ running' = (IF cmd.host THEN running ELSE {}) BY DEF LeaveCall
<1>2. Enabled' = Enabled /\ One' = One /\ Asked' = Asked BY DEF Enabled, One, Asked, Offers, Feature
<1>3. WholeOf(Len(servers))' = WholeOf(Len(servers)) BY DEF WholeOf, Enabled, Offers, Feature, Offered, On
<1>4. Offers(cmd.name)' = Offers(cmd.name) BY DEF Offers, Feature
<1>5. CallsTypeOK' BY <1>2 DEF CallsInv, CallsTypeOK, Entries
<1>6. ManagerOK' /\ ListedInv' BY <1>1 DEF ManagerOK, ListedInv
<1>7. CatalogIsWhole' BY <1>1, <1>2, <1>3, <1>4 DEF CatalogIsWhole
<1>8. ResultsAreTold' BY DEF CallsInv, CallsAreSound, ResultsAreTold
<1> QED BY <1>5, <1>6, <1>7, <1>8 DEF CallsInv, CallsAreSound

LEMMA ConfigsStep == ASSUME CallsInv, Configs PROVE CallsInv'
<1>1. step = "configs" /\ UNCHANGED <<servers, cmd, position, page, requests, catalog, shown>> BY DEF Configs
<1>2. /\ ~cmd.host /\ running = {} /\ position = 1 /\ page = 1 /\ catalog = <<>>
      /\ servers \in Settings /\ catalog \in Seq(Entries)
  BY <1>1 DEF CallsInv, ManagerOK, ListedInv, CallsTypeOK, Entries
<1>3. CASE LeaveCall(1)
  <2> DEFINE code == 1
  <2>1. LeaveCall(code) /\ code # 0 BY <1>3
  <2> HIDE DEF code
  <2> QED BY <1>1, <1>2, <2>1, LeaveStep
<1>4. CASE Enabled = {} /\ ~One /\ LeaveCall(0)
  <2>1. WholeOf(Len(servers)) = <<>> BY <1>2, <1>4, WholeEmpty
  <2> DEFINE code == 0
  <2>2. LeaveCall(code) BY <1>4
  <2>3. catalog' = WholeOf(Len(servers)) /\ \A k \in 1 .. Len(catalog') : catalog'[k].item # 0 BY <1>1, <1>2, <2>1
  <2> HIDE DEF code
  <2> QED BY <1>1, <1>2, <1>4, <2>2, <2>3, LeaveStep
<1>5. CASE step' = "connect" /\ UNCHANGED <<running, exit>>
  <2>1. CallsTypeOK' BY <1>1, <1>2, FirstPage DEF CallsInv, CallsTypeOK
  <2>2. ManagerOK' /\ ListedInv' BY <1>1, <1>2, <1>5 DEF ManagerOK, ListedInv
  <2>3. ResultsAreTold' BY <1>1 DEF CallsInv, CallsAreSound, ResultsAreTold
  <2>4. CatalogIsWhole' BY <1>5 DEF CatalogIsWhole
  <2> QED BY <2>1, <2>2, <2>3, <2>4 DEF CallsInv, CallsAreSound
<1> QED BY <1>3, <1>4, <1>5 DEF Configs

LEMMA ConnectStep == ASSUME CallsInv, Connect PROVE CallsInv'
<1>1. step = "connect" /\ UNCHANGED <<servers, cmd, position, page, requests, catalog, shown>> BY DEF Connect
<1>2. /\ ~cmd.host /\ running = {} /\ position = 1 /\ page = 1 /\ catalog = <<>>
      /\ servers \in Settings /\ catalog \in Seq(Entries)
  BY <1>1 DEF CallsInv, ManagerOK, ListedInv, CallsTypeOK, Entries
<1>3. ASSUME NEW code, LeaveCall(code), code = 0 => cmd.kind = "tools" PROVE CallsInv'
  <2>1. ~(code = 0 /\ cmd.kind \in {"resources", "prompts"}) /\ ~(code = 0 /\ One) BY <1>3 DEF One
  <2> QED BY <1>1, <1>2, <1>3, <2>1, LeaveStep
<1>4. CASE step' = "ask" /\ running' = Enabled /\ UNCHANGED exit
  <2>1. CallsTypeOK' BY <1>1, <1>2, FirstPage DEF CallsInv, CallsTypeOK
  <2>2. Enabled' = Enabled BY <1>1 DEF Enabled
  <2>3. ManagerOK' BY <1>4, <2>2 DEF ManagerOK
  <2>4. WholeOf(position - 1)' = <<>>
    <3>1. WholeOf(position - 1)' = WholeOf(0)
      <4>1. position' - 1 = 0 BY <1>1, <1>2
      <4>2. WholeOf(0)' = WholeOf(0) BY <1>1 DEF WholeOf, Enabled, Offers, Feature, Offered, On
      <4> QED BY <4>1, <4>2
    <3> QED BY <3>1, WholeNone
  <2>5. Started' = <<>> BY <1>1, <1>2 DEF Started
  <2>6. ListedInv' BY <1>1, <1>2, <1>4, <2>4, <2>5 DEF ListedInv
  <2>7. ResultsAreTold' BY <1>1 DEF CallsInv, CallsAreSound, ResultsAreTold
  <2>8. CatalogIsWhole' BY <1>4 DEF CatalogIsWhole
  <2> QED BY <2>1, <2>3, <2>6, <2>7, <2>8 DEF CallsInv, CallsAreSound
<1>5. 1 # 0 OBVIOUS
<1> QED BY <1>3, <1>4, <1>5 DEF Connect

LEMMA HostHasNoneStep == ASSUME CallsInv, HostHasNone PROVE CallsInv'
<1>1. /\ step = "none" /\ LeaveCall(IF One THEN 1 ELSE 0)
      /\ UNCHANGED <<servers, cmd, position, page, requests, catalog, shown>>
  BY DEF HostHasNone
<1>2. cmd.host /\ Enabled = {} /\ running = Enabled /\ catalog = <<>> /\ servers \in Settings /\ catalog \in Seq(Entries)
  BY <1>1 DEF CallsInv, ManagerOK, ListedInv, CallsTypeOK, Entries
<1>3. WholeOf(Len(servers)) = <<>> BY <1>2, WholeEmpty
<1> DEFINE code == IF One THEN 1 ELSE 0
<1>4. LeaveCall(code) /\ ~(code = 0 /\ One) BY <1>1
<1>5. catalog' = WholeOf(Len(servers)) /\ \A k \in 1 .. Len(catalog') : catalog'[k].item # 0 BY <1>1, <1>2, <1>3
<1> HIDE DEF code
<1> QED BY <1>1, <1>2, <1>4, <1>5, LeaveStep

LEMMA RefusedStep ==
  ASSUME CallsInv, step = "ask", Refused, UNCHANGED <<servers, cmd, shown>> PROVE CallsInv'
<1>1. LeaveCall(1) /\ UNCHANGED <<position, page, requests, catalog>> BY DEF Refused
<1>2. running = Enabled /\ catalog \in Seq(Entries) BY DEF CallsInv, ManagerOK, CallsTypeOK, Entries
<1> DEFINE code == 1
<1>3. LeaveCall(code) /\ code # 0 BY <1>1
<1> HIDE DEF code
<1> QED BY <1>1, <1>2, <1>3, LeaveStep

LEMMA ReadsStep == ASSUME CallsInv, NEW full, Reads(full) PROVE CallsInv'
<1>1. step = "ask" /\ One /\ UNCHANGED <<servers, cmd, shown>> BY DEF Reads
<1>2. CASE Refused BY <1>1, <1>2, RefusedStep
<1>3. CASE /\ cmd.name \in Enabled /\ Offers(cmd.name)
           /\ catalog' = On(cmd.name, servers[cmd.name].pages[1]) /\ LeaveCall(0)
           /\ UNCHANGED <<position, page, requests>>
  <2>1. running = Enabled /\ servers \in Settings BY <1>1 DEF CallsInv, ManagerOK, CallsTypeOK
  <2>2. cmd.name \in 1 .. Len(servers) BY <1>3 DEF Enabled
  <2>3. servers[cmd.name].pages[1] \in Seq(Nat) /\ cmd.name \in Nat
    <3>1. Len(servers[cmd.name].pages) \in Nat \ {0} /\ Len(servers) \in Nat BY <2>1, <2>2, ServerTyped
    <3>2. 1 \in 1 .. Len(servers[cmd.name].pages) BY <3>1
    <3> QED BY <2>1, <2>2, <3>1, <3>2, ServerTyped
  <2>4. catalog' \in Seq(Entries) BY <1>3, <2>3, OnTyped
  <2>5. cmd.kind \notin {"resources", "prompts"} BY <1>1 DEF One
  <2> DEFINE code == 0
  <2>6. LeaveCall(code) BY <1>3
  <2> HIDE DEF code
  <2> QED BY <1>1, <1>3, <2>1, <2>4, <2>5, <2>6, LeaveStep
<1> QED BY <1>2, <1>3 DEF Reads

\* The next server, with all that the former ones list.
LEMMA NextServer ==
  ASSUME CallsInv, step = "ask", ~One, position \in 1 .. Len(servers),
         UNCHANGED <<servers, cmd, step, running, exit, shown>>, position' = position + 1, page' = 1,
         catalog' \in Seq(Entries), \A k \in 1 .. Len(catalog') : catalog'[k].item # 0,
         catalog' = WholeOf(position)
  PROVE  CallsInv'
<1>1. servers \in Settings /\ Len(servers) \in Nat BY ServerTyped DEF CallsInv, CallsTypeOK
<1>2. Enabled' = Enabled /\ One' = One BY DEF Enabled, One
<1>3. CallsTypeOK'
  <2>1. position' \in 1 .. Len(servers') + 1 BY <1>1
  <2>2. page' \in 1 .. (IF Asked' THEN Len(servers'[position'].pages) ELSE 1)
    <3>1. CASE Asked'
      <4>1. position' \in 1 .. Len(servers) BY <3>1 DEF Asked, Enabled
      <4>2. Len(servers[position'].pages) \in Nat \ {0} BY <1>1, <4>1, ServerTyped
      <4> QED BY <3>1, <4>2
    <3> QED BY <3>1
  <2> QED BY <1>1, <2>1, <2>2 DEF CallsTypeOK, Entries
<1>4. ManagerOK' BY <1>2 DEF CallsInv, ManagerOK
<1>5. ListedInv'
  <2>1. WholeOf(position - 1)' = WholeOf(position)
    <3>1. position' - 1 = position BY <1>1
    <3>2. WholeOf(position)' = WholeOf(position') BY DEF WholeOf, Enabled, Offers, Feature, Offered, On
    <3>3. \A n : WholeOf(n)' = WholeOf(n) BY DEF WholeOf, Enabled, Offers, Feature, Offered, On
    <3> QED BY <3>1, <3>3
  <2>2. Started' = <<>> BY DEF Started
  <2>3. catalog' = WholeOf(position - 1)' \o Started'
    <3>1. WholeOf(position) \in Seq(Entries) OBVIOUS
    <3> DEFINE w == WholeOf(position)
    <3> HIDE DEF w
    <3>2. w \o <<>> = w BY <3>1, ConcatEmptySeq DEF w
    <3> QED BY <2>1, <2>2, <3>2 DEF w
  <2> QED BY <1>2, <2>3 DEF ListedInv
<1>6. CallsAreSound' BY DEF CallsInv, CallsAreSound, CatalogIsWhole, ResultsAreTold
<1> QED BY <1>3, <1>4, <1>5, <1>6 DEF CallsInv

LEMMA SkipsStep == ASSUME CallsInv, Skips PROVE CallsInv'
<1>1. step = "ask" /\ ~One /\ UNCHANGED <<servers, cmd, catalog, shown>> BY DEF Skips
<1>2. /\ servers \in Settings /\ Len(servers) \in Nat /\ position \in 1 .. Len(servers) + 1
      /\ catalog \in Seq(Entries) /\ running = Enabled
  BY <1>1, ServerTyped DEF CallsInv, CallsTypeOK, ManagerOK, Entries
<1>3. \A k \in 1 .. Len(catalog) : catalog[k].item # 0 BY <1>1 DEF CallsInv, ListedInv
<1>4. ASSUME ~Asked PROVE page = 1 /\ catalog = WholeOf(position - 1) \o <<>>
  <2>1. page = 1 BY <1>4 DEF CallsInv, CallsTypeOK
  <2>2. Started = <<>> BY <2>1 DEF Started
  <2> QED BY <1>1, <1>4, <2>1, <2>2 DEF CallsInv, ListedInv
<1>5. CASE position > Len(servers) /\ LeaveCall(0) /\ UNCHANGED <<position, page, requests>>
  <2>1. ~Asked BY <1>2, <1>5 DEF Asked, Enabled
  <2>2. catalog = WholeOf(Len(servers)) \o <<>>
    <3>1. position - 1 = Len(servers) BY <1>2, <1>5
    <3> QED BY <1>4, <2>1, <3>1
  <2>3. WholeOf(Len(servers)) \in Seq(Entries)
    <3>1. CASE Len(servers) = 0
      <4>1. WholeOf(Len(servers)) = <<>> BY <3>1, WholeNone
      <4> QED BY <4>1
    <3>2. CASE Len(servers) # 0
      <4>1. Len(servers) \in 1 .. Len(servers) BY <1>2, <3>2
      <4> QED BY <1>2, <4>1, WholeMore
    <3> QED BY <3>1, <3>2
  <2>4. catalog' = WholeOf(Len(servers))
    <3> DEFINE w == WholeOf(Len(servers))
    <3>1. w \in Seq(Entries) BY <2>3
    <3> HIDE DEF w
    <3>2. w \o <<>> = w BY <3>1, ConcatEmptySeq
    <3> QED BY <1>1, <2>2, <3>2 DEF w
  <2> DEFINE code == 0
  <2>5. LeaveCall(code) BY <1>5
  <2> HIDE DEF code
  <2> QED BY <1>1, <1>2, <1>3, <1>5, <2>4, <2>5, LeaveStep
<1>6. CASE /\ ~(position > Len(servers)) /\ (position \notin Enabled \/ ~Offers(position))
           /\ position' = position + 1 /\ page' = 1 /\ UNCHANGED <<step, running, exit>>
  <2>1. position \in 1 .. Len(servers) /\ ~Asked BY <1>2, <1>6 DEF Asked
  <2>2. WholeOf(position) = WholeOf(position - 1) \o <<>> /\ WholeOf(position) \in Seq(Entries)
    BY <1>2, <2>1, WholeMore DEF Asked
  <2>3. catalog' = WholeOf(position) BY <1>1, <1>4, <2>1, <2>2
  <2> QED BY <1>1, <1>2, <1>3, <1>6, <2>1, <2>3, NextServer
<1> QED BY <1>5, <1>6 DEF Skips

LEMMA ListsPageStep == ASSUME CallsInv, NEW full, ListsPage(full) PROVE CallsInv'
<1> DEFINE s == servers[position]
           items == s.pages[page]
           last == page = Len(s.pages) /\ ~s.loops
<1>1. step = "ask" /\ ~One /\ Asked /\ UNCHANGED <<servers, cmd, shown>> BY DEF ListsPage, Asked
<1>2. /\ servers \in Settings /\ Len(servers) \in Nat /\ position \in 1 .. Len(servers) /\ position \in Nat
      /\ catalog \in Seq(Entries) /\ page \in 1 .. Len(s.pages) /\ Len(s.pages) \in Nat \ {0}
  BY <1>1, ServerTyped, AskedPages DEF CallsInv, CallsTypeOK, Entries
<1>3. items \in Seq(Nat) /\ s.loops \in BOOLEAN BY <1>2, ServerTyped
<1>4. CASE Refused BY <1>1, <1>4, RefusedStep
<1>5. CASE /\ Sound(items) /\ catalog' = Gathered(catalog, On(position, items), last)
           /\ IF last THEN position' = position + 1 /\ page' = 1 /\ requests' = 0
              ELSE /\ page' = (IF page = Len(s.pages) THEN page ELSE page + 1)
                   /\ requests' = requests + 1 /\ UNCHANGED position
           /\ UNCHANGED <<step, running, exit>>
  <2> DEFINE new == On(position, items)
             upTo(j) == FlattenSeq(SubSeq(s.pages, 1, j))
  <2>1. catalog' = catalog \o new BY <1>5 DEF Gathered
  <2>2. new \in Seq(Entries) /\ Len(new) = Len(items) /\ Len(items) \in Nat BY <1>2, <1>3, OnTyped
  <2>3. \A k \in 1 .. Len(new) : new[k].item # 0
    <3>1. \A k \in 1 .. Len(items) : new[k] = [server |-> position, item |-> items[k]] BY DEF On
    <3>2. \A k \in 1 .. Len(items) : items[k] # 0 BY <1>5 DEF Sound
    <3> HIDE DEF new, items
    <3>3. ASSUME NEW k \in 1 .. Len(items) PROVE new[k].item = items[k]
      <4> DEFINE entry == [server |-> position, item |-> items[k]]
      <4>1. new[k] = entry BY <3>1
      <4>2. entry.item = items[k] OBVIOUS
      <4> HIDE DEF entry
      <4> QED BY <4>1, <4>2
    <3> QED BY <2>2, <3>2, <3>3
  <2>4. \A k \in 1 .. Len(catalog) : catalog[k].item # 0 BY <1>1 DEF CallsInv, ListedInv
  <2>5. catalog' \in Seq(Entries) /\ \A k \in 1 .. Len(catalog') : catalog'[k].item # 0
    <3> HIDE DEF new
    <3>1. /\ catalog \o new \in Seq(Entries) /\ Len(catalog \o new) = Len(catalog) + Len(new)
          /\ \A k \in 1 .. Len(catalog) + Len(new) :
               (catalog \o new)[k] = IF k <= Len(catalog) THEN catalog[k] ELSE new[k - Len(catalog)]
      <4>1. catalog \in Seq(Entries) /\ new \in Seq(Entries) BY <1>2, <2>2
      <4> QED BY <4>1, ConcatProperties, Zenon
    <3>2. Len(catalog) \in Nat /\ Len(new) \in Nat BY <1>2, <2>2
    <3>3. ASSUME NEW k \in 1 .. Len(catalog) + Len(new) PROVE (catalog \o new)[k].item # 0
      <4>1. CASE k <= Len(catalog)
        <5>1. k \in 1 .. Len(catalog) /\ (catalog \o new)[k] = catalog[k] BY <3>1, <3>2, <4>1
        <5> QED BY <2>4, <5>1
      <4>2. CASE ~(k <= Len(catalog))
        <5>1. k - Len(catalog) \in 1 .. Len(new) /\ (catalog \o new)[k] = new[k - Len(catalog)] BY <3>1, <3>2, <4>2
        <5> QED BY <2>3, <5>1
      <4> QED BY <4>1, <4>2
    <3> QED BY <2>1, <3>1, <3>3
  <2>6. /\ upTo(page) = upTo(page - 1) \o items /\ upTo(page) \in Seq(Nat) /\ upTo(page - 1) \in Seq(Nat)
        /\ upTo(0) = <<>> /\ upTo(Len(s.pages)) = FlattenSeq(s.pages)
    BY <1>2, PagesMore
  <2>7. ASSUME ~s.loops PROVE catalog' = WholeOf(position - 1) \o On(position, upTo(page))
    <3>1. catalog = WholeOf(position - 1) \o Started BY <1>1, <2>7 DEF CallsInv, ListedInv
    <3>2. Started = On(position, upTo(page - 1))
      <4>1. CASE page = 1
        <5>1. page - 1 = 0 BY <4>1
        <5>2. upTo(page - 1) = <<>> BY <2>6, <5>1
        <5>3. On(position, <<>>) = <<>> BY DEF On
        <5> QED BY <4>1, <5>2, <5>3 DEF Started
      <4>2. CASE page # 1 BY <4>2 DEF Started
      <4> QED BY <4>1, <4>2
    <3>3. On(position, upTo(page)) = On(position, upTo(page - 1)) \o new
      <4> DEFINE a == upTo(page - 1)
                 b == items
      <4>1. a \in Seq(Nat) /\ b \in Seq(Nat) /\ upTo(page) = a \o b BY <1>3, <2>6
      <4> HIDE DEF a, b
      <4>2. On(position, a \o b) = On(position, a) \o On(position, b) BY <1>2, <4>1, OnConcat
      <4> QED BY <4>1, <4>2 DEF a, b
    <3>4. WholeOf(position - 1) \in Seq(Entries) BY <1>2, WholeMore
    <3>5. On(position, upTo(page - 1)) \in Seq(Entries) BY <1>2, <2>6, OnTyped
    <3> DEFINE w == WholeOf(position - 1)
               o == On(position, upTo(page - 1))
    <3>6. catalog' = (w \o o) \o new /\ w \in Seq(Entries) /\ o \in Seq(Entries) /\ new \in Seq(Entries)
      BY <2>1, <2>2, <3>1, <3>2, <3>4, <3>5
    <3>7. On(position, upTo(page)) = o \o new BY <3>3
    <3> HIDE DEF w, o, new, upTo
    <3>8. (w \o o) \o new = w \o (o \o new) BY <3>6, ConcatAssociative
    <3> QED BY <3>6, <3>7, <3>8 DEF w
  <2>8. CASE last
    <3>1. position' = position + 1 /\ page' = 1 /\ ~s.loops /\ page = Len(s.pages) BY <1>5, <2>8
    <3>2. catalog' = WholeOf(position - 1) \o Offered(position) BY <2>6, <2>7, <3>1 DEF Offered
    <3>3. WholeOf(position) = WholeOf(position - 1) \o Offered(position) BY <1>1, <1>2, WholeMore DEF Asked
    <3> QED BY <1>1, <1>2, <1>5, <2>5, <3>1, <3>2, <3>3, NextServer
  <2>9. CASE ~last
    <3>1. page' = (IF page = Len(s.pages) THEN page ELSE page + 1) /\ UNCHANGED position BY <1>5, <2>9
    <3>2. page' \in 1 .. Len(s.pages) /\ (~s.loops => page' = page + 1) BY <1>2, <1>3, <2>9, <3>1
    <3>3. Enabled' = Enabled /\ One' = One /\ Asked' = Asked /\ Offers(position)' = Offers(position)
      BY <1>1, <3>1 DEF Enabled, One, Asked, Offers, Feature
    <3>4. CallsTypeOK' BY <1>1, <1>2, <2>5, <3>1, <3>2, <3>3 DEF CallsTypeOK, Entries
    <3>5. ManagerOK' BY <1>5, <1>1, <3>3 DEF CallsInv, ManagerOK
    <3>6. WholeOf(position - 1)' = WholeOf(position - 1)
      BY <1>1, <3>1 DEF WholeOf, Enabled, Offers, Feature, Offered, On
    <3>7. ASSUME ~s.loops PROVE catalog' = WholeOf(position - 1)' \o Started'
      <4>1. page' # 1 /\ page' - 1 = page
        <5>1. page \in Nat /\ page >= 1 BY <1>2, AskedPages
        <5>2. page' = page + 1 BY <3>2, <3>7
        <5> QED BY <5>1, <5>2
      <4>2. Started' = On(position, upTo(page)) BY <1>1, <3>1, <4>1 DEF Started, On
      <4> QED BY <2>7, <3>6, <3>7, <4>2
    <3>8. ListedInv' BY <1>1, <1>5, <2>5, <3>1, <3>3, <3>7 DEF ListedInv
    <3>9. CallsAreSound' BY <1>1, <1>5 DEF CallsInv, CallsAreSound, CatalogIsWhole, ResultsAreTold
    <3> QED BY <3>4, <3>5, <3>8, <3>9 DEF CallsInv
  <2> QED BY <2>8, <2>9
<1> QED BY <1>4, <1>5 DEF ListsPage

-----------------------------------------------------------------------------
\* What mapResult tells of a result.
LEMMA ToldIsAll ==
  ASSUME NEW result \in Results
  PROVE  /\ ToContent(result) = <<>> => result.parts = <<>> /\ ~result.structured
         /\ \A k \in 1 .. Len(result.parts) :
              result.parts[k][1] = "text" => Contains(ToContent(result), result.parts[k])
<1> DEFINE parts == result.parts
           T == {k \in DOMAIN parts : parts[k][1] = "text"}
           O == {k \in DOMAIN parts : parts[k][1] # "text"}
           P == Seq(STRING)
<1>1. parts \in Seq(P) /\ DOMAIN parts = 1 .. Len(parts) /\ result.structured \in BOOLEAN
  BY CallsAssumption
<1>2. Texts(result) = Select(parts, T) /\ Others(result) = Select(parts, O) BY DEF Texts, Others
<1> HIDE DEF P, parts
<1>3. \A k \in 1 .. Len(parts) : k \in T => \E j \in 1 .. Len(Select(parts, T)) : Select(parts, T)[j] = parts[k]
  <2> HIDE DEF T
  <2>1. parts \in Seq(P) BY <1>1
  <2> QED BY <2>1, SelectKeeps
<1>4. \A k \in 1 .. Len(parts) : k \in O => \E j \in 1 .. Len(Select(parts, O)) : Select(parts, O)[j] = parts[k]
  <2> HIDE DEF O
  <2>1. parts \in Seq(P) BY <1>1
  <2> QED BY <2>1, SelectKeeps
<1>9. \A k \in 1 .. Len(parts) : (k \in T <=> parts[k][1] = "text") /\ (k \in O <=> parts[k][1] # "text") BY <1>1
<1>10. Len(<<>>) = 0 OBVIOUS
<1>5. Texts(result) = <<>> => \A k \in 1 .. Len(parts) : parts[k][1] # "text"
  <2> DEFINE s == Select(parts, T)
  <2>1. \A k \in 1 .. Len(parts) : k \in T => \E j \in 1 .. Len(s) : TRUE BY <1>3
  <2>2. s = <<>> => \A k \in 1 .. Len(parts) : k \notin T
    <3> HIDE DEF s
    <3> QED BY <2>1, <1>10
  <2> HIDE DEF T
  <2> QED BY <1>2, <1>9, <2>2
<1>6. Others(result) = <<>> => \A k \in 1 .. Len(parts) : parts[k][1] = "text"
  <2> DEFINE s == Select(parts, O)
  <2>1. \A k \in 1 .. Len(parts) : k \in O => \E j \in 1 .. Len(s) : TRUE BY <1>4
  <2>2. s = <<>> => \A k \in 1 .. Len(parts) : k \notin O
    <3> HIDE DEF s
    <3> QED BY <2>1, <1>10
  <2> HIDE DEF O
  <2> QED BY <1>2, <1>9, <2>2
<1>7. ASSUME ToContent(result) = <<>> PROVE parts = <<>> /\ ~result.structured
  <2>1. Texts(result) = <<>> /\ Fallback(result) = <<>> BY <1>7 DEF ToContent
  <2>2. ~result.structured /\ Others(result) = <<>>
    <3>1. ~result.structured BY <2>1 DEF Fallback
    <3> DEFINE all == <<"json">> \o Others(result)
    <3>2. <<all>> # <<>> OBVIOUS
    <3> HIDE DEF all
    <3>3. Others(result) # <<>> => Fallback(result) = <<all>> BY <3>1 DEF Fallback, all
    <3> QED BY <2>1, <3>1, <3>2, <3>3
  <2>3. \A k \in 1 .. Len(parts) : FALSE BY <1>5, <1>6, <2>1, <2>2
  <2> QED BY <1>1, <2>2, <2>3
<1>8. ASSUME NEW k \in 1 .. Len(parts), parts[k][1] = "text" PROVE Contains(ToContent(result), parts[k])
  <2>1. ToContent(result) = Select(parts, T) BY <1>2, <1>5, <1>8 DEF ToContent
  <2>2. k \in T BY <1>1, <1>8
  <2> HIDE DEF T
  <2> QED BY <1>3, <2>1, <2>2 DEF Contains
<1> QED BY <1>7, <1>8 DEF parts

LEMMA ResultStep ==
  ASSUME CallsInv, CallFails \/ \E r \in Results : CallReturns(r) \/ ReadReturns(r) PROVE CallsInv'
<1>1. UNCHANGED <<servers, cmd, step, position, page, requests, catalog, running, exit>> /\ step = "idle"
  BY DEF CallFails, CallReturns, ReadReturns
<1>2. ResultsAreTold'
  <2>1. CASE CallFails
    <3>1. shown' = [got |-> <<>>, content |-> <<<<"error">>>>, error |-> TRUE] BY <2>1 DEF CallFails
    <3>2. shown'.got = <<>> /\ shown'.error /\ shown'.content # <<>> BY <3>1
    <3> QED BY <3>2 DEF ResultsAreTold
  <2>2. ASSUME NEW result \in Results, CallReturns(result) PROVE ResultsAreTold'
    <3>1. shown' = [got |-> <<result>>, content |-> ToContent(result), error |-> result.isError]
      BY <2>2 DEF CallReturns
    <3>2. shown'.got # <<>> /\ shown'.got[1] = result /\ shown'.content = ToContent(result) /\ shown'.error = result.isError
      BY <3>1
    <3> QED BY <3>2, ToldIsAll DEF ResultsAreTold
  <2>3. ASSUME NEW result \in Results, ReadReturns(result) PROVE ResultsAreTold'
    <3> DEFINE parts == result.parts
               got == [result EXCEPT !.structured = FALSE, !.isError = FALSE]
    <3>1. shown' = [got |-> <<got>>, content |-> ReadContent(parts), error |-> FALSE] BY <2>3 DEF ReadReturns
    <3>2. parts \in Seq(Seq(STRING)) BY CallsAssumption
    <3>3. got.parts = parts /\ ~got.structured /\ ~got.isError BY CallsAssumption
    <3> HIDE DEF parts, got
    <3>4. shown'.got # <<>> /\ shown'.got[1] = got /\ shown'.content = ReadContent(parts) /\ ~shown'.error BY <3>1
    <3>5. /\ \E P : ReadContent(parts) \in Seq(P)
          /\ Len(ReadContent(parts)) = Len(parts)
          /\ \A k \in 1 .. Len(parts) : parts[k][1] = "text" => ReadContent(parts)[k] = parts[k]
      <4> DEFINE F(k) == IF parts[k][1] = "text" THEN parts[k] ELSE <<"blob">> \o parts[k]
                 P == {F(k) : k \in 1 .. Len(parts)}
      <4>2. \A k \in 1 .. Len(parts) : F(k) \in P OBVIOUS
      <4>3. ReadContent(parts) = [k \in 1 .. Len(parts) |-> F(k)] BY DEF ReadContent
      <4>4. \A k \in 1 .. Len(parts) : parts[k][1] = "text" => F(k) = parts[k] OBVIOUS
      <4>5. Len(parts) \in Nat BY <3>2
      <4> HIDE DEF F, P
      <4>6. ReadContent(parts) \in Seq(P) /\ Len(ReadContent(parts)) = Len(parts) BY <4>2, <4>3, <4>5, IsASeq
      <4> QED BY <4>3, <4>4, <4>6
    <3>6. Len(<<>>) = 0 OBVIOUS
    <3>7. ReadContent(parts) = <<>> => parts = <<>> BY <3>2, <3>5, <3>6
    <3>8. \A k \in 1 .. Len(parts) : parts[k][1] = "text" => Contains(ReadContent(parts), parts[k])
      BY <3>5 DEF Contains
    <3> DEFINE s == shown'
    <3>9. s.got # <<>> /\ s.got[1] = got /\ s.content = ReadContent(parts) /\ s.error = FALSE BY <3>4
    <3>10. got.isError = FALSE /\ got.structured = FALSE BY <3>3
    <3> HIDE DEF s
    <3>11. s.error = s.got[1].isError BY <3>9, <3>10
    <3>12. s.content = <<>> => s.got[1].parts = <<>> /\ ~s.got[1].structured BY <3>3, <3>7, <3>9
    <3>13. \A k \in 1 .. Len(s.got[1].parts) : s.got[1].parts[k][1] = "text" => Contains(s.content, s.got[1].parts[k])
      BY <3>3, <3>8, <3>9
    <3> QED BY <3>9, <3>11, <3>12, <3>13 DEF ResultsAreTold, s
  <2> QED BY <2>1, <2>2, <2>3
<1>3. Enabled' = Enabled /\ One' = One /\ Asked' = Asked BY <1>1 DEF Enabled, One, Asked, Offers, Feature
<1>4. CallsTypeOK' /\ ManagerOK' /\ ListedInv' BY <1>1, <1>3 DEF CallsInv, CallsTypeOK, ManagerOK, ListedInv
<1>5. CatalogIsWhole' BY <1>1 DEF CatalogIsWhole
<1> QED BY <1>2, <1>4, <1>5 DEF CallsInv, CallsAreSound

\* What is listed so far is all of the servers before the one that is asked, for any
\* settings, answers and results (listResources, listPrompts, Manager.Resources).
THEOREM CallsInductive == CallsSpec => []CallsInv
<1>1. CallsInv /\ [CallsNext]_callVars => CallsInv'
  <2> SUFFICES ASSUME CallsInv, [CallsNext]_callVars PROVE CallsInv' OBVIOUS
  <2>1. CASE \/ \E k \in {"resources", "prompts"} : HostAsks(k, 0)
             \/ \E k \in {"read", "prompt"}, n \in Named : HostAsks(k, n)
    BY <2>1, HostAsksStep
  <2>2. CASE RunTools \/ RunResources \/ RunPrompts \/ RunRead \/ RunPrompt
    BY <2>2, BeginStep DEF RunTools, RunResources, RunPrompts, RunRead, RunPrompt
  <2>3. CASE HostHasNone \/ Configs \/ Connect \/ Skips BY <2>3, HostHasNoneStep, ConfigsStep, ConnectStep, SkipsStep
  <2>4. CASE \E w \in Wires : ListsPage(w) \/ Reads(w) BY <2>4, ListsPageStep, ReadsStep
  <2>5. CASE AskFails BY <2>5, RefusedStep DEF AskFails
  <2>6. CASE CallFails \/ \E r \in Results : CallReturns(r) \/ ReadReturns(r) BY <2>6, ResultStep
  <2>7. CASE UNCHANGED callVars BY <2>7, CallsStutter
  <2> QED BY <2>1, <2>2, <2>3, <2>4, <2>5, <2>6, <2>7 DEF CallsNext
<1> QED BY CallsStart, <1>1, PTL DEF CallsSpec

\* A command that ends well printed all that the enabled servers hold, page by page and
\* server by server, whatever answers failed on the way; it leaves no server behind; and
\* the model is told all of the text of a result, or of the rest (Manager.Resources,
\* listPrompts, Manager.Close, remoteTool.mapResult).
THEOREM CallsStaySound == CallsSpec => []CallsAreSound
<1>1. CallsInv => CallsAreSound BY DEF CallsInv
<1> QED BY CallsInductive, <1>1, PTL

-----------------------------------------------------------------------------
(* Sequences that are made piece by piece. *)

\* Induction over the length of a sequence, with the set of the sequences that are good.
LEMMA SeqInduction ==
  ASSUME NEW S, NEW Good, <<>> \in Good, \A s \in Seq(S), x \in S : s \in Good => Append(s, x) \in Good
  PROVE  \A s \in Seq(S) : s \in Good
<1> SUFFICES ASSUME NEW s \in Seq(S) PROVE s \in Good OBVIOUS
<1> DEFINE n == Len(s)
           Fit == {k \in 0 .. n : SubSeq(s, 1, k) \in Good}
<1>1. n \in Nat OBVIOUS
<1>2. 0 \in Fit
  <2>1. SubSeq(s, 1, 0) = <<>> OBVIOUS
  <2>2. SubSeq(s, 1, 0) \in Good BY <2>1, Zenon
  <2> QED BY <1>1, <2>2
<1>3. ASSUME NEW k \in 1 .. n, k - 1 \in Fit PROVE SubSeq(s, 1, k) \in Good
  <2> DEFINE a == SubSeq(s, 1, k - 1)
  <2>1. a \in Seq(S) /\ s[k] \in S OBVIOUS
  <2>2. SubSeq(s, 1, k) = Append(a, s[k])
    <3>1. /\ Len(SubSeq(s, 1, k)) = k /\ Len(Append(a, s[k])) = k /\ Len(a) = k - 1
          /\ SubSeq(s, 1, k) \in Seq(S) /\ Append(a, s[k]) \in Seq(S)
      OBVIOUS
    <3>2. \A i \in 1 .. k : SubSeq(s, 1, k)[i] = Append(a, s[k])[i] OBVIOUS
    <3> QED BY <3>1, <3>2, SeqEqual
  <2>3. a \in Good BY <1>3
  <2> HIDE DEF a
  <2> QED BY <2>1, <2>2, <2>3
<1>4. \A k \in 1 .. n : k - 1 \in Fit => k \in Fit BY <1>1, <1>3
<1>5. n \in Fit
  <2> HIDE DEF Fit, n
  <2>1. \A k \in 0 .. n : k \in Fit BY <1>1, <1>2, <1>4, UpTo
  <2> QED BY <1>1, <2>1
<1>6. SubSeq(s, 1, n) = s
  <2>1. SubSeq(s, 1, n) \in Seq(S) /\ Len(SubSeq(s, 1, n)) = n /\ \A i \in 1 .. n : SubSeq(s, 1, n)[i] = s[i] OBVIOUS
  <2> QED BY <2>1, SeqEqual
<1> QED BY <1>5, <1>6

\* What F makes of the elements of a sequence, in one.
Through(s, F) == FlattenSeq([i \in 1 .. Len(s) |-> F[s[i]]])

LEMMA ThroughNone == ASSUME NEW F PROVE Through(<<>>, F) = <<>>
<1> DEFINE f == [i \in 1 .. 0 |-> F[(<<>>)[i]]]
<1>1. f = <<>> /\ Len(<<>>) = 0 OBVIOUS
<1>2. FlattenSeq(<<>>) = <<>> BY DEF FlattenSeq
<1> QED BY <1>1, <1>2 DEF Through

LEMMA ThroughMore ==
  ASSUME NEW S, NEW T, NEW F \in [S -> Seq(T)], NEW s \in Seq(S), NEW x \in S
  PROVE  /\ Through(Append(s, x), F) = Through(s, F) \o F[x]
         /\ Through(s, F) \in Seq(T) /\ Through(Append(s, x), F) \in Seq(T)
<1> DEFINE n == Len(s) + 1
           a == Append(s, x)
           f == [i \in 1 .. n |-> F[a[i]]]
<1>1. n \in Nat /\ n \in 1 .. n /\ n - 1 = Len(s) OBVIOUS
<1>2. a \in Seq(S) /\ Len(a) = n /\ a[n] = x /\ \A i \in 1 .. n - 1 : a[i] = s[i] OBVIOUS
<1>3. \A i \in 1 .. n : a[i] \in S BY <1>2
<1> HIDE DEF a, n
<1>4. f \in [1 .. n -> Seq(T)] BY <1>3
<1>5. f[n] = F[x] BY <1>1, <1>2
<1>6. [i \in 1 .. n - 1 |-> f[i]] = [i \in 1 .. Len(s) |-> F[s[i]]]
  <2>1. \A i \in 1 .. n - 1 : f[i] = F[s[i]] BY <1>1, <1>2
  <2> QED BY <1>1, <2>1
<1>7. [i \in 1 .. n |-> f[i]] = f OBVIOUS
<1>8. Flat(f, n) = Through(a, F) BY <1>2, <1>7 DEF Flat, Through
<1>9. Flat(f, n - 1) = Through(s, F) BY <1>6 DEF Flat, Through
<1>10. Flat(f, n) = Flat(f, n - 1) \o f[n] /\ Flat(f, n) \in Seq(T) /\ Flat(f, n - 1) \in Seq(T)
  <2> HIDE DEF f
  <2> QED BY <1>1, <1>4, FlatMore
<1> QED BY <1>5, <1>8, <1>9, <1>10 DEF a

LEMMA ThroughTyped ==
  ASSUME NEW S, NEW T, NEW F \in [S -> Seq(T)], NEW s \in Seq(S) PROVE Through(s, F) \in Seq(T)
<1>1. CASE s = <<>>
  <2>1. Through(s, F) = <<>> BY <1>1, ThroughNone, Zenon
  <2> QED BY <2>1
<1>2. CASE s # <<>>
  <2>1. Len(s) \in 1 .. Len(s) /\ s[Len(s)] \in S BY <1>2, EmptySeq
  <2> DEFINE x == s[Len(s)]
  <2>2. /\ Through(Append(s, x), F) = Through(s, F) \o F[x]
        /\ Through(s, F) \in Seq(T) /\ Through(Append(s, x), F) \in Seq(T)
    <3>1. x \in S BY <2>1
    <3> HIDE DEF x
    <3> QED BY <3>1, ThroughMore
  <2> QED BY <2>2
<1> QED BY <1>1, <1>2

Associative(p, q, r) == (p \o q) \o r = p \o (q \o r)
LEMMA Associates ==
  ASSUME NEW S, NEW p \in Seq(S), NEW q \in Seq(S), NEW r \in Seq(S)
  PROVE  Associative(p, q, r)
<1>1. p \o q \in Seq(S) /\ q \o r \in Seq(S) OBVIOUS
<1> DEFINE x == (p \o q) \o r
           y == p \o (q \o r)
<1>2. /\ x \in Seq(S) /\ Len(x) = Len(p) + Len(q) + Len(r)
      /\ y \in Seq(S) /\ Len(y) = Len(p) + Len(q) + Len(r)
  BY <1>1
<1>3. ASSUME NEW i \in 1 .. Len(p) + Len(q) + Len(r) PROVE x[i] = y[i] BY <1>1
<1>4. x = y
  <2> HIDE DEF x, y
  <2> QED BY <1>2, <1>3, SeqEqual
<1> QED BY <1>4 DEF Associative

\* Of a concatenation.
LEMMA ThroughBoth ==
  ASSUME NEW S, NEW T, NEW F \in [S -> Seq(T)], NEW a \in Seq(S), NEW b \in Seq(S)
  PROVE  /\ Through(a \o b, F) = Through(a, F) \o Through(b, F)
         /\ Through(a, F) \in Seq(T) /\ Through(b, F) \in Seq(T) /\ Through(a \o b, F) \in Seq(T)
<1> DEFINE Good == {c \in Seq(S) : Through(a \o c, F) = Through(a, F) \o Through(c, F)}
<1>1. <<>> \in Good
  <2>1. a \o <<>> = a /\ <<>> \in Seq(S) BY ConcatEmptySeq
  <2>2. Through(a, F) \o <<>> = Through(a, F) BY ThroughTyped, ConcatEmptySeq
  <2> QED BY <2>1, <2>2, ThroughNone
<1>2. ASSUME NEW c \in Seq(S), NEW x \in S, c \in Good PROVE Append(c, x) \in Good
  <2>1. a \o Append(c, x) = Append(a \o c, x) /\ a \o c \in Seq(S) /\ Append(c, x) \in Seq(S)
    OBVIOUS
  <2> DEFINE p == Through(a, F)
             q == Through(c, F)
             r == F[x]
  <2>2. /\ Through(Append(a \o c, x), F) = Through(a \o c, F) \o F[x]
        /\ Through(a \o c, F) \in Seq(T) /\ Through(Append(a \o c, x), F) \in Seq(T)
    <3> DEFINE ac == a \o c
    <3>1. ac \in Seq(S) BY <2>1
    <3> HIDE DEF ac
    <3>2. /\ Through(Append(ac, x), F) = Through(ac, F) \o F[x]
          /\ Through(ac, F) \in Seq(T) /\ Through(Append(ac, x), F) \in Seq(T)
      BY <3>1, ThroughMore
    <3> QED BY <3>2 DEF ac
  <2>3. /\ Through(Append(c, x), F) = Through(c, F) \o F[x]
        /\ Through(c, F) \in Seq(T) /\ Through(Append(c, x), F) \in Seq(T)
    BY ThroughMore
  <2>4. Through(a \o c, F) = p \o q BY <1>2
  <2>5. p \in Seq(T) /\ q \in Seq(T) /\ r \in Seq(T) BY ThroughTyped
  <2> HIDE DEF p, q, r
  <2>6. (p \o q) \o r = p \o (q \o r)
    <3>1. Associative(p, q, r) BY <2>5, Associates, Zenon
    <3> QED BY <3>1 DEF Associative
  <2> QED BY <2>1, <2>2, <2>3, <2>4, <2>6 DEF p, q, r
<1>3. \A c \in Seq(S) : c \in Good
  <2> HIDE DEF Good
  <2> QED BY <1>1, <1>2, SeqInduction
<1>4. a \o b \in Seq(S) OBVIOUS
<1>5. \A c \in Seq(S) : Through(c, F) \in Seq(T) BY ThroughTyped
<1> QED BY <1>3, <1>4, <1>5

\* Two functions in a row, H, of sequences of S by way of T to U.
Composes(H, F, G, S, T, U) ==
  /\ F \in [S -> Seq(T)] /\ G \in [T -> Seq(U)] /\ H \in [S -> Seq(U)]
  /\ \A x \in S : H[x] = Through(F[x], G)
LEMMA ThroughTwice ==
  ASSUME NEW S, NEW T, NEW U, NEW F, NEW G, NEW H, Composes(H, F, G, S, T, U), NEW s \in Seq(S)
  PROVE  Through(Through(s, F), G) = Through(s, H)
<1>0. /\ F \in [S -> Seq(T)] /\ G \in [T -> Seq(U)] /\ H \in [S -> Seq(U)]
      /\ \A x \in S : H[x] = Through(F[x], G)
  BY DEF Composes
<1> DEFINE Good == {c \in Seq(S) : Through(Through(c, F), G) = Through(c, H)}
<1>1. <<>> \in Good BY ThroughNone
<1>2. ASSUME NEW c \in Seq(S), NEW x \in S, c \in Good PROVE Append(c, x) \in Good
  <2> DEFINE p == Through(c, F)
  <2>1. /\ Through(Append(c, x), F) = Through(c, F) \o F[x]
        /\ Through(c, F) \in Seq(T) /\ Through(Append(c, x), F) \in Seq(T)
    BY <1>0, ThroughMore
  <2>2. p \in Seq(T) /\ F[x] \in Seq(T) BY <1>0, ThroughTyped
  <2> HIDE DEF p
  <2> DEFINE q == F[x]
  <2>a. q \in Seq(T) BY <2>2
  <2> HIDE DEF q
  <2>3. /\ Through(p \o q, G) = Through(p, G) \o Through(q, G)
        /\ Through(p, G) \in Seq(U) /\ Through(q, G) \in Seq(U) /\ Through(p \o q, G) \in Seq(U)
    BY <1>0, <2>2, <2>a, ThroughBoth
  <2>4. /\ Through(Append(c, x), H) = Through(c, H) \o H[x]
        /\ Through(c, H) \in Seq(U) /\ Through(Append(c, x), H) \in Seq(U)
    BY <1>0, ThroughMore
  <2>5. Through(p, G) = Through(c, H) BY <1>2 DEF p
  <2>6. Append(c, x) \in Seq(S) BY AppendProperties
  <2> QED BY <1>0, <2>1, <2>3, <2>4, <2>5, <2>6 DEF p, q
<1>3. \A c \in Seq(S) : c \in Good
  <2> HIDE DEF Good
  <2> QED BY <1>1, <1>2, SeqInduction
<1> QED BY <1>3

\* Select goes on as it began.
LEMMA SelectNone == ASSUME NEW P PROVE Select(<<>>, P) = <<>>
<1>1. <<>> \in Seq({}) /\ Len(<<>>) = 0 OBVIOUS
<1>2. PICK h : Selecting(h, <<>>, P, {}) BY <1>1, Selects
<1> QED BY <1>1, <1>2 DEF Selecting

LEMMA SelectMore ==
  ASSUME NEW S, NEW s \in Seq(S), NEW x \in S, NEW P, NEW Q, \A k \in 1 .. Len(s) : k \in P <=> k \in Q
  PROVE  Select(Append(s, x), P) = IF Len(s) + 1 \in P THEN Append(Select(s, Q), x) ELSE Select(s, Q)
<1> DEFINE n == Len(s)
           a == Append(s, x)
<1>1. n \in Nat /\ a \in Seq(S) /\ Len(a) = n + 1 /\ a[n + 1] = x /\ \A i \in 1 .. n : a[i] = s[i] OBVIOUS
<1>2. PICK h : Selecting(h, s, Q, S) BY Selects
<1> HIDE DEF a
<1>3. PICK g : Selecting(g, a, P, S) BY <1>1, Selects
<1> HIDE DEF n
<1>4. h[0] = <<>> /\ Select(s, Q) = h[n] /\ \A i \in 1 .. n : h[i] = IF i \in Q THEN Append(h[i - 1], s[i]) ELSE h[i - 1]
  BY <1>2 DEF Selecting, n
<1>5. g[0] = <<>> /\ Select(a, P) = g[n + 1]
      /\ \A i \in 1 .. n + 1 : g[i] = IF i \in P THEN Append(g[i - 1], a[i]) ELSE g[i - 1]
  BY <1>1, <1>3 DEF Selecting
<1> DEFINE Good == {i \in 0 .. n : g[i] = h[i]}
<1>6. 0 \in Good BY <1>1, <1>4, <1>5
<1>7. ASSUME NEW i \in 1 .. n, i - 1 \in Good PROVE i \in Good
  <2>1. g[i - 1] = h[i - 1] /\ a[i] = s[i] /\ (i \in P <=> i \in Q) /\ i \in 1 .. n + 1 /\ i \in 0 .. n BY <1>1, <1>7 DEF n
  <2>2. g[i] = IF i \in P THEN Append(g[i - 1], a[i]) ELSE g[i - 1] BY <1>5, <2>1
  <2>3. h[i] = IF i \in Q THEN Append(h[i - 1], s[i]) ELSE h[i - 1] BY <1>4
  <2>4. g[i] = h[i] BY <2>1, <2>2, <2>3
  <2> QED BY <2>1, <2>4
<1>8. n \in Good
  <2> HIDE DEF Good
  <2>1. \A i \in 0 .. n : i \in Good BY <1>1, <1>6, <1>7, UpTo
  <2> QED BY <1>1, <2>1
<1>9. g[n] = h[n] BY <1>8
<1>10. n + 1 \in 1 .. n + 1 /\ (n + 1) - 1 = n BY <1>1
<1>11. g[n + 1] = IF n + 1 \in P THEN Append(g[(n + 1) - 1], a[n + 1]) ELSE g[(n + 1) - 1] BY <1>5, <1>10
<1>12. g[n + 1] = IF n + 1 \in P THEN Append(g[n], x) ELSE g[n] BY <1>1, <1>10, <1>11
<1> QED BY <1>4, <1>5, <1>9, <1>12 DEF a, n

\* The elements that are in Q.
Picks(S, Q) == [x \in S |-> IF x \in Q THEN <<x>> ELSE <<>>]
LEMMA SelectThrough ==
  ASSUME NEW S, NEW Q, NEW s \in Seq(S)
  PROVE  Select(s, {k \in DOMAIN s : s[k] \in Q}) = Through(s, Picks(S, Q))
<1> DEFINE F == Picks(S, Q)
           At(c) == {k \in DOMAIN c : c[k] \in Q}
           Good == {c \in Seq(S) : Select(c, At(c)) = Through(c, F)}
<1>0. F \in [S -> Seq(S)] BY DEF Picks
<1>1. <<>> \in Good
  <2>1. Select(<<>>, At(<<>>)) = <<>> BY SelectNone
  <2> QED BY <2>1, ThroughNone
<1>2. ASSUME NEW c \in Seq(S), NEW x \in S, c \in Good PROVE Append(c, x) \in Good
  <2> DEFINE a == Append(c, x)
             n == Len(c)
  <2>1. a \in Seq(S) /\ Len(a) = n + 1 /\ n \in Nat /\ a[n + 1] = x /\ DOMAIN a = 1 .. n + 1 /\ DOMAIN c = 1 .. n
        /\ \A k \in 1 .. n : a[k] = c[k]
    OBVIOUS
  <2> HIDE DEF a
  <2>2. \A k \in 1 .. n : k \in At(a) <=> k \in At(c) BY <2>1
  <2>3. n + 1 \in At(a) <=> x \in Q BY <2>1
  <2> DEFINE P1 == At(a)
             P2 == At(c)
  <2>4. \A k \in 1 .. Len(c) : k \in P1 <=> k \in P2 BY <2>2
  <2>5. n + 1 \in P1 <=> x \in Q BY <2>3
  <2> HIDE DEF At
  <2>6. Select(a, P1) = IF n + 1 \in P1 THEN Append(Select(c, P2), x) ELSE Select(c, P2)
    <3> HIDE DEF P1, P2
    <3> QED BY <2>4, SelectMore DEF a
  <2>7. Select(c, P2) = Through(c, F) BY <1>2
  <2>8. /\ Through(a, F) = Through(c, F) \o F[x]
        /\ Through(c, F) \in Seq(S) /\ Through(a, F) \in Seq(S)
    <3> HIDE DEF F
    <3> QED BY <1>0, ThroughMore DEF a
  <2> DEFINE t == Through(c, F)
  <2>9. F[x] = IF x \in Q THEN <<x>> ELSE <<>> BY DEF Picks
  <2>10. Through(a, F) = t \o F[x] /\ t \in Seq(S) /\ Select(c, P2) = t BY <2>7, <2>8
  <2> HIDE DEF t, F, P1, P2
  <2>11. t \o <<x>> = Append(t, x) /\ t \o <<>> = t BY <2>10, ConcatEmptySeq
  <2>12. Select(a, P1) = Through(a, F) BY <2>5, <2>6, <2>9, <2>10, <2>11
  <2> QED BY <2>1, <2>12 DEF a, P1
<1>3. \A c \in Seq(S) : c \in Good
  <2> HIDE DEF Good
  <2> QED BY <1>1, <1>2, SeqInduction
<1> QED BY <1>3

\* What the front of a sequence is.
LEMMA FrontIs ==
  ASSUME NEW S, NEW s \in Seq(S), s # <<>>
  PROVE  /\ SubSeq(s, 1, Len(s) - 1) \in Seq(S) /\ Len(SubSeq(s, 1, Len(s) - 1)) = Len(s) - 1
         /\ \A k \in 1 .. Len(s) - 1 : SubSeq(s, 1, Len(s) - 1)[k] = s[k]
<1> DEFINE n == Len(s)
           a == SubSeq(s, 1, n - 1)
<1>1. n \in Nat /\ n \in 1 .. n BY EmptySeq
<1>2. a \in Seq(S) /\ Len(a) = n - 1 /\ \A i \in 1 .. n - 1 : a[i] = s[i]
  <2>1. \A i \in 1 .. n - 1 : s[i] \in S OBVIOUS
  <2> HIDE DEF n
  <2> DEFINE m == n - 1
  <2>2. m \in Int /\ 1 \in Int /\ \A i \in 1 .. m : s[i] \in S BY <1>1, <2>1
  <2>3. m >= 0 /\ m - 1 + 1 = m /\ \A i \in 1 .. m : 1 + i - 1 = i BY <1>1
  <2> HIDE DEF m
  <2>4. /\ SubSeq(s, 1, m) \in Seq(S) /\ Len(SubSeq(s, 1, m)) = (IF 1 <= m THEN m - 1 + 1 ELSE 0)
        /\ \A i \in 1 .. m - 1 + 1 : SubSeq(s, 1, m)[i] = s[1 + i - 1]
    BY <2>2, SubSeqProperties
  <2>5. SubSeq(s, 1, m) \in Seq(S) /\ Len(SubSeq(s, 1, m)) = m /\ \A i \in 1 .. m : SubSeq(s, 1, m)[i] = s[i]
    BY <2>2, <2>3, <2>4
  <2> QED BY <2>5 DEF m
<1> QED BY <1>2

\* The front of a sequence and its last element.
LEMMA FrontAndLast ==
  ASSUME NEW S, NEW s \in Seq(S), s # <<>>
  PROVE  /\ Len(s) \in 1 .. Len(s) /\ SubSeq(s, 1, Len(s) - 1) \in Seq(S) /\ s[Len(s)] \in S
         /\ s = Append(SubSeq(s, 1, Len(s) - 1), s[Len(s)])
<1> DEFINE n == Len(s)
           a == SubSeq(s, 1, n - 1)
           e == s[n]
<1>1. n \in Nat /\ n \in 1 .. n /\ e \in S BY EmptySeq
<1>2. a \in Seq(S) /\ Len(a) = n - 1 /\ \A i \in 1 .. n - 1 : a[i] = s[i] BY FrontIs
<1> HIDE DEF a
<1>3. /\ Append(a, e) \in Seq(S) /\ Len(Append(a, e)) = n /\ Append(a, e)[n] = e
      /\ \A i \in 1 .. n - 1 : Append(a, e)[i] = a[i]
  <2> HIDE DEF e
  <2>1. /\ Append(a, e) \in Seq(S) /\ Append(a, e) # <<>> /\ Len(Append(a, e)) = Len(a) + 1
        /\ \A i \in 1 .. Len(a) : Append(a, e)[i] = a[i]
        /\ Append(a, e)[Len(a) + 1] = e
    BY <1>1, <1>2, AppendProperties
  <2>2. Len(a) + 1 = n BY <1>1, <1>2
  <2> QED BY <1>2, <2>1, <2>2
<1>4. \A i \in 1 .. n : Append(a, e)[i] = s[i]
  <2> TAKE i \in 1 .. n
  <2>1. CASE i = n BY <1>3, <2>1
  <2>2. CASE i # n
    <3>1. i \in 1 .. n - 1 BY <1>1, <2>2
    <3> QED BY <1>2, <1>3, <3>1
  <2> QED BY <2>1, <2>2
<1>5. s = Append(a, e)
  <2> HIDE DEF e
  <2> QED BY <1>3, <1>4, SeqEqual
<1> QED BY <1>1, <1>2, <1>5 DEF a

\* All but the first of a concatenation.
Rest(s) == SubSeq(s, 2, Len(s))
LEMMA RestTyped ==
  ASSUME NEW S, NEW s \in Seq(S), Len(s) > 0
  PROVE  Rest(s) \in Seq(S) /\ Len(Rest(s)) = Len(s) - 1 /\ \A i \in 1 .. Len(s) - 1 : Rest(s)[i] = s[i + 1]
<1> DEFINE l == Len(s)
<1>1. l \in Nat /\ l > 0 /\ \A i \in 2 .. l : s[i] \in S OBVIOUS
<1> HIDE DEF l
<1>2. 2 \in Int /\ l \in Int BY <1>1
<1>3. /\ SubSeq(s, 2, l) \in Seq(S) /\ Len(SubSeq(s, 2, l)) = (IF 2 <= l THEN l - 2 + 1 ELSE 0)
      /\ \A i \in 1 .. l - 2 + 1 : SubSeq(s, 2, l)[i] = s[2 + i - 1]
  BY <1>1, <1>2, SubSeqProperties
<1>4. (IF 2 <= l THEN l - 2 + 1 ELSE 0) = l - 1 /\ l - 2 + 1 = l - 1 BY <1>1
<1>5. \A i \in 1 .. l - 1 : 2 + i - 1 = i + 1 BY <1>1
<1> QED BY <1>3, <1>4, <1>5 DEF Rest, l

LEMMA RestBoth ==
  ASSUME NEW S, NEW s \in Seq(S), NEW t \in Seq(S), Len(s) > 0
  PROVE  Rest(s \o t) = Rest(s) \o t /\ Rest(s) \in Seq(S)
<1> DEFINE c == s \o t
           r == Rest(s)
           l == Len(s)
           m == Len(t)
<1>1. l \in Nat /\ m \in Nat /\ l > 0 OBVIOUS
<1>2. /\ c \in Seq(S) /\ Len(c) = l + m
      /\ \A i \in 1 .. l + m : c[i] = IF i <= l THEN s[i] ELSE t[i - l]
  BY ConcatProperties
<1>3. r \in Seq(S) /\ Len(r) = l - 1 /\ \A i \in 1 .. l - 1 : r[i] = s[i + 1] BY RestTyped
<1> HIDE DEF c
<1>4. Rest(c) \in Seq(S) /\ Len(Rest(c)) = l + m - 1 /\ \A i \in 1 .. l + m - 1 : Rest(c)[i] = c[i + 1]
  <2>1. Len(c) > 0 BY <1>1, <1>2
  <2>2. Rest(c) \in Seq(S) /\ Len(Rest(c)) = Len(c) - 1 /\ \A i \in 1 .. Len(c) - 1 : Rest(c)[i] = c[i + 1]
    BY <1>2, <2>1, RestTyped
  <2> DEFINE k == Len(c) - 1
             n == l + m - 1
  <2>3. k = n BY <1>1, <1>2
  <2>4. Rest(c) \in Seq(S) /\ Len(Rest(c)) = k /\ \A i \in 1 .. k : Rest(c)[i] = c[i + 1] BY <2>2
  <2> HIDE DEF k, n
  <2>5. Rest(c) \in Seq(S) /\ Len(Rest(c)) = n /\ \A i \in 1 .. n : Rest(c)[i] = c[i + 1] BY <2>3, <2>4
  <2> QED BY <2>5 DEF n
<1> HIDE DEF r
<1>5. /\ r \o t \in Seq(S) /\ Len(r \o t) = l - 1 + m
      /\ \A i \in 1 .. l - 1 + m : (r \o t)[i] = IF i <= l - 1 THEN r[i] ELSE t[i - (l - 1)]
  <2>1. /\ r \o t \in Seq(S) /\ Len(r \o t) = Len(r) + Len(t)
        /\ \A i \in 1 .. Len(r) + Len(t) : (r \o t)[i] = IF i <= Len(r) THEN r[i] ELSE t[i - Len(r)]
    BY <1>3, ConcatProperties
  <2> QED BY <1>3, <2>1
<1> HIDE DEF l, m
<1>6. \A i \in 1 .. l + m - 1 : Rest(c)[i] = (r \o t)[i]
  <2> TAKE i \in 1 .. l + m - 1
  <2>1. i + 1 \in 1 .. l + m /\ i \in 1 .. l - 1 + m BY <1>1
  <2>2. CASE i <= l - 1
    <3>1. i + 1 <= l /\ i \in 1 .. l - 1 BY <1>1, <2>2
    <3> QED BY <1>2, <1>3, <1>4, <1>5, <2>1, <2>2, <3>1
  <2>3. CASE ~(i <= l - 1)
    <3>1. ~(i + 1 <= l) /\ i + 1 - l = i - (l - 1) BY <1>1, <2>3
    <3>2. Rest(c)[i] = c[i + 1] BY <1>4
    <3> DEFINE k == i + 1
    <3>3. c[k] = t[k - l]
      <4>1. k \in 1 .. l + m /\ ~(k <= l) BY <2>1, <3>1
      <4> HIDE DEF k
      <4> QED BY <1>2, <4>1
    <3>4. (r \o t)[i] = t[i - (l - 1)] BY <1>5, <2>1, <2>3
    <3> DEFINE a == i - (l - 1)
               b == k - l
    <3>5. a = b BY <1>1
    <3>6. t[b] = t[a] BY <3>5, Zenon
    <3>7. Rest(c)[i] = t[b] BY <3>2, <3>3, Zenon
    <3>8. (r \o t)[i] = t[a] BY <3>4, Zenon
    <3> HIDE DEF a, b
    <3> QED BY <3>6, <3>7, <3>8
  <2> QED BY <2>2, <2>3
<1>7. l + m - 1 = l - 1 + m BY <1>1
<1> QED BY <1>3, <1>4, <1>5, <1>6, <1>7, SeqEqual DEF c, r

-----------------------------------------------------------------------------
(* ProviderStream. *)

CallSet == {e \in StreamEvents : e.type = "call"}
TextSet == {e \in StreamEvents : e.type # "call"}
DeltasOf(types) == [e \in StreamEvents |-> IF e.type \in types THEN e.deltas ELSE <<>>]
TextTypes == SUBSET {"text", "thinking"}

\* An event that carries deltas is a part.
LEMMA EventKinds ==
  ASSUME NEW e \in StreamEvents
  PROVE  /\ e.type \in {"text", "thinking", "call"} => e \in StreamParts /\ e.deltas \in Seq(Nat)
         /\ e.type \in {"text", "thinking", "call", "start", "error", "done"}
         /\ e.type = "done" => e.content \in Seq(StreamParts)
BY DEF StreamEvents, StreamParts

LEMMA PartsAreEvents ==
  /\ StreamParts \subseteq StreamEvents /\ Seq(StreamParts) \subseteq Seq(StreamEvents)
  /\ \A p \in StreamParts : p.type \in {"text", "thinking", "call"} /\ p.deltas \in Seq(Nat)
<1>1. StreamParts \subseteq StreamEvents BY DEF StreamEvents
<1>2. \A p \in StreamParts : p.type \in {"text", "thinking", "call"} /\ p.deltas \in Seq(Nat) BY DEF StreamParts
<1> HIDE DEF StreamParts, StreamEvents
<1> QED BY <1>1, <1>2, SeqMonotonic

LEMMA DeltasTyped == ASSUME NEW types \in TextTypes PROVE DeltasOf(types) \in [StreamEvents -> Seq(Nat)]
<1>1. ASSUME NEW e \in StreamEvents PROVE (IF e.type \in types THEN e.deltas ELSE <<>>) \in Seq(Nat)
  <2>1. e.type \in types => e.deltas \in Seq(Nat) BY EventKinds DEF TextTypes
  <2> QED BY <2>1
<1> QED BY <1>1 DEF DeltasOf

LEMMA DeltasThrough ==
  ASSUME NEW types \in TextTypes, NEW p \in Seq(StreamEvents)
  PROVE  Deltas(p, types) = Through(p, DeltasOf(types)) /\ Deltas(p, types) \in Seq(Nat)
<1> DEFINE F == DeltasOf(types)
           f == [i \in 1 .. Len(p) |-> IF p[i].type \in types THEN p[i].deltas ELSE <<>>]
           g == [i \in 1 .. Len(p) |-> F[p[i]]]
<1>1. \A i \in 1 .. Len(p) : F[p[i]] = IF p[i].type \in types THEN p[i].deltas ELSE <<>>
  <2>1. \A i \in 1 .. Len(p) : p[i] \in StreamEvents OBVIOUS
  <2> QED BY <2>1 DEF DeltasOf
<1>2. f = g BY <1>1
<1>3. Deltas(p, types) = FlattenSeq(f) BY DEF Deltas
<1>4. Through(p, F) = FlattenSeq(g) BY DEF Through
<1>5. Deltas(p, types) = Through(p, F) BY <1>2, <1>3, <1>4, Zenon
<1>6. Through(p, F) \in Seq(Nat)
  <2>1. F \in [StreamEvents -> Seq(Nat)] BY DeltasTyped
  <2> HIDE DEF F
  <2> QED BY <2>1, ThroughTyped
<1> QED BY <1>5, <1>6

LEMMA DeltasMore ==
  ASSUME NEW types \in TextTypes, NEW p \in Seq(StreamEvents), NEW e \in StreamEvents
  PROVE  Deltas(Append(p, e), types) = IF e.type \in types THEN Deltas(p, types) \o e.deltas ELSE Deltas(p, types)
<1> DEFINE F == DeltasOf(types)
           q == Append(p, e)
<1>1. F \in [StreamEvents -> Seq(Nat)] BY DeltasTyped
<1>2. F[e] = IF e.type \in types THEN e.deltas ELSE <<>> BY DEF DeltasOf
<1>3. q \in Seq(StreamEvents) OBVIOUS
<1> HIDE DEF F
<1>4. /\ Through(Append(p, e), F) = Through(p, F) \o F[e]
      /\ Through(p, F) \in Seq(Nat) /\ Through(Append(p, e), F) \in Seq(Nat)
  BY <1>1, ThroughMore
<1> HIDE DEF q
<1>5. Deltas(q, types) = Through(q, F) /\ Deltas(p, types) = Through(p, F) /\ Deltas(p, types) \in Seq(Nat)
  BY <1>3, DeltasThrough DEF F
<1> DEFINE d == Deltas(p, types)
<1>6. d \o <<>> = d
  <2>1. d \in Seq(Nat) BY <1>5
  <2> HIDE DEF d
  <2> QED BY <2>1, ConcatEmptySeq
<1> QED BY <1>2, <1>4, <1>5, <1>6 DEF q

LEMMA DeltasNone == \A types : Deltas(<<>>, types) = <<>>
<1> TAKE types
<1>1. [i \in 1 .. Len(<<>>) |-> IF (<<>>)[i].type \in types THEN (<<>>)[i].deltas ELSE <<>>] = <<>> OBVIOUS
<1>2. FlattenSeq(<<>>) = <<>> BY DEF FlattenSeq
<1> QED BY <1>1, <1>2 DEF Deltas

LEMMA DeltasBoth ==
  ASSUME NEW types \in TextTypes, NEW p \in Seq(StreamEvents), NEW q \in Seq(StreamEvents)
  PROVE  Deltas(p \o q, types) = Deltas(p, types) \o Deltas(q, types)
<1> DEFINE F == DeltasOf(types)
           r == p \o q
<1>1. F \in [StreamEvents -> Seq(Nat)] BY DeltasTyped
<1>2. r \in Seq(StreamEvents) OBVIOUS
<1> HIDE DEF F
<1>3. /\ Through(p \o q, F) = Through(p, F) \o Through(q, F)
      /\ Through(p, F) \in Seq(Nat) /\ Through(q, F) \in Seq(Nat) /\ Through(p \o q, F) \in Seq(Nat)
  BY <1>1, ThroughBoth
<1> HIDE DEF r
<1>4. Deltas(r, types) = Through(r, F) /\ Deltas(p, types) = Through(p, F) /\ Deltas(q, types) = Through(q, F)
  BY <1>2, DeltasThrough DEF F
<1> QED BY <1>3, <1>4 DEF r

\* Calls and texts.
LEMMA CallsThrough ==
  ASSUME NEW p \in Seq(StreamEvents)
  PROVE  /\ CallsOf(p) = Through(p, Picks(StreamEvents, CallSet))
         /\ TextOf(p) = Through(p, Picks(StreamEvents, TextSet))
<1>1. \A k \in DOMAIN p : (p[k] \in CallSet <=> p[k].type = "call") /\ (p[k] \in TextSet <=> p[k].type # "call")
  <2>1. \A k \in DOMAIN p : p[k] \in StreamEvents OBVIOUS
  <2> QED BY <2>1 DEF CallSet, TextSet
<1>2. /\ {k \in DOMAIN p : p[k].type = "call"} = {k \in DOMAIN p : p[k] \in CallSet}
      /\ {k \in DOMAIN p : p[k].type # "call"} = {k \in DOMAIN p : p[k] \in TextSet}
  BY <1>1
<1>3. Select(p, {k \in DOMAIN p : p[k] \in CallSet}) = Through(p, Picks(StreamEvents, CallSet)) BY SelectThrough
<1>4. Select(p, {k \in DOMAIN p : p[k] \in TextSet}) = Through(p, Picks(StreamEvents, TextSet)) BY SelectThrough
<1> QED BY <1>2, <1>3, <1>4 DEF CallsOf, TextOf

LEMMA PicksTyped == ASSUME NEW S, NEW Q PROVE Picks(S, Q) \in [S -> Seq(S)]
BY DEF Picks

\* What one more element adds to a selection.
LEMMA PicksMore ==
  ASSUME NEW S, NEW Q, NEW p \in Seq(S), NEW e \in S
  PROVE  /\ Through(Append(p, e), Picks(S, Q)) = IF e \in Q THEN Append(Through(p, Picks(S, Q)), e) ELSE Through(p, Picks(S, Q))
         /\ Through(p, Picks(S, Q)) \in Seq(S)
<1> DEFINE F == Picks(S, Q)
           t == Through(p, F)
<1>1. F \in [S -> Seq(S)] BY PicksTyped
<1>2. F[e] = IF e \in Q THEN <<e>> ELSE <<>> BY DEF Picks
<1> HIDE DEF F
<1>3. /\ Through(Append(p, e), F) = Through(p, F) \o F[e]
      /\ Through(p, F) \in Seq(S) /\ Through(Append(p, e), F) \in Seq(S)
  BY <1>1, ThroughMore
<1>4. t \o <<e>> = Append(t, e) /\ t \o <<>> = t
  <2>1. t \in Seq(S) BY <1>3
  <2> HIDE DEF t
  <2> QED BY <2>1, ConcatEmptySeq
<1> QED BY <1>2, <1>3, <1>4 DEF F

LEMMA CallsNone == CallsOf(<<>>) = <<>> /\ TextOf(<<>>) = <<>>
BY SelectNone DEF CallsOf, TextOf

LEMMA CallsMore ==
  ASSUME NEW p \in Seq(StreamEvents), NEW e \in StreamEvents
  PROVE  /\ CallsOf(Append(p, e)) = IF e.type = "call" THEN Append(CallsOf(p), e) ELSE CallsOf(p)
         /\ TextOf(Append(p, e)) = IF e.type # "call" THEN Append(TextOf(p), e) ELSE TextOf(p)
         /\ CallsOf(p) \in Seq(StreamEvents) /\ TextOf(p) \in Seq(StreamEvents)
<1> DEFINE q == Append(p, e)
           S == StreamEvents
<1>1. q \in Seq(S) OBVIOUS
<1>2. (e \in CallSet <=> e.type = "call") /\ (e \in TextSet <=> e.type # "call") BY DEF CallSet, TextSet
<1> HIDE DEF S
<1>3. /\ Through(Append(p, e), Picks(S, CallSet)) = IF e \in CallSet THEN Append(Through(p, Picks(S, CallSet)), e) ELSE Through(p, Picks(S, CallSet))
      /\ Through(p, Picks(S, CallSet)) \in Seq(S)
  BY PicksMore DEF S
<1>4. /\ Through(Append(p, e), Picks(S, TextSet)) = IF e \in TextSet THEN Append(Through(p, Picks(S, TextSet)), e) ELSE Through(p, Picks(S, TextSet))
      /\ Through(p, Picks(S, TextSet)) \in Seq(S)
  BY PicksMore DEF S
<1> HIDE DEF q
<1>5. CallsOf(q) = Through(q, Picks(S, CallSet)) /\ TextOf(q) = Through(q, Picks(S, TextSet)) BY <1>1, CallsThrough DEF S
<1>6. CallsOf(p) = Through(p, Picks(S, CallSet)) /\ TextOf(p) = Through(p, Picks(S, TextSet)) BY CallsThrough DEF S
<1> QED BY <1>2, <1>3, <1>4, <1>5, <1>6 DEF q, S

LEMMA CallsBoth ==
  ASSUME NEW p \in Seq(StreamEvents), NEW q \in Seq(StreamEvents)
  PROVE  CallsOf(p \o q) = CallsOf(p) \o CallsOf(q)
<1> DEFINE F == Picks(StreamEvents, CallSet)
           r == p \o q
           S == StreamEvents
<1>1. F \in [S -> Seq(S)] BY PicksTyped
<1>2. r \in Seq(S) OBVIOUS
<1>3. \A c \in Seq(S) : CallsOf(c) = Through(c, F) BY CallsThrough
<1> HIDE DEF F, S
<1>4. /\ Through(p \o q, F) = Through(p, F) \o Through(q, F)
      /\ Through(p, F) \in Seq(S) /\ Through(q, F) \in Seq(S) /\ Through(p \o q, F) \in Seq(S)
  BY <1>1, ThroughBoth DEF S
<1> QED BY <1>2, <1>3, <1>4 DEF S, r

\* Of nothing but calls.
LEMMA OnlyCalls ==
  ASSUME NEW p \in Seq(CallSet)
  PROVE  /\ p \in Seq(StreamEvents) /\ CallsOf(p) = p /\ TextOf(p) = <<>>
         /\ \A types \in TextTypes : Deltas(p, types) = <<>>
<1> DEFINE Good == {c \in Seq(CallSet) : /\ c \in Seq(StreamEvents) /\ CallsOf(c) = c /\ TextOf(c) = <<>>
                                         /\ \A types \in TextTypes : Deltas(c, types) = <<>>}
<1>1. <<>> \in Good BY CallsNone, DeltasNone
<1>2. ASSUME NEW c \in Seq(CallSet), NEW e \in CallSet, c \in Good PROVE Append(c, e) \in Good
  <2>1. e \in StreamEvents /\ e.type = "call" BY DEF CallSet
  <2>2. c \in Seq(StreamEvents) /\ CallsOf(c) = c /\ TextOf(c) = <<>> /\ \A types \in TextTypes : Deltas(c, types) = <<>>
    BY <1>2
  <2>3. Append(c, e) \in Seq(StreamEvents) /\ Append(c, e) \in Seq(CallSet) BY <2>1, <2>2, AppendProperties
  <2>4. CallsOf(Append(c, e)) = Append(c, e) /\ TextOf(Append(c, e)) = <<>> BY <2>1, <2>2, CallsMore
  <2>5. \A types \in TextTypes : Deltas(Append(c, e), types) = <<>>
    <3> TAKE types \in TextTypes
    <3>1. e.type \notin types BY <2>1 DEF TextTypes
    <3> QED BY <2>1, <2>2, <3>1, DeltasMore
  <2> QED BY <2>3, <2>4, <2>5
<1>3. \A c \in Seq(CallSet) : c \in Good
  <2> HIDE DEF Good
  <2> QED BY <1>1, <1>2, SeqInduction
<1> QED BY <1>3

\* The texts, then the calls of some parts.
LEMMA TextThenCalls ==
  ASSUME NEW p \in Seq(StreamParts)
  PROVE  /\ TextOf(p) \in Seq(StreamParts) /\ CallsOf(p) \in Seq(StreamParts)
         /\ CallsOf(TextOf(p) \o CallsOf(p)) = CallsOf(p)
         /\ \A types \in TextTypes : Deltas(TextOf(p) \o CallsOf(p), types) = Deltas(p, types)
<1> DEFINE Fit(c) == /\ TextOf(c) \in Seq(StreamParts) /\ CallsOf(c) \in Seq(StreamParts) /\ CallsOf(c) \in Seq(CallSet)
                     /\ CallsOf(TextOf(c)) = <<>>
                     /\ \A types \in TextTypes : Deltas(TextOf(c), types) = Deltas(c, types)
           Good == {c \in Seq(StreamParts) : Fit(c)}
<1>1. <<>> \in Good
  <2>1. CallsOf(<<>>) = <<>> /\ TextOf(<<>>) = <<>> BY CallsNone
  <2>2. CallsOf(TextOf(<<>>)) = <<>> /\ \A types \in TextTypes : Deltas(TextOf(<<>>), types) = Deltas(<<>>, types)
    BY <2>1, Zenon
  <2>3. \A S : <<>> \in Seq(S) OBVIOUS
  <2>4. /\ TextOf(<<>>) \in Seq(StreamParts) /\ CallsOf(<<>>) \in Seq(StreamParts) /\ CallsOf(<<>>) \in Seq(CallSet)
    BY <2>1, <2>3, Zenon
  <2>5. Fit(<<>>) BY <2>2, <2>4, Zenon
  <2> HIDE DEF Fit
  <2> QED BY <2>3, <2>5
<1>2. ASSUME NEW c \in Seq(StreamParts), NEW e \in StreamParts, c \in Good PROVE Append(c, e) \in Good
  <2>1. e \in StreamEvents /\ c \in Seq(StreamEvents) BY PartsAreEvents
  <2>2. Fit(c) BY <1>2
  <2>3. TextOf(c) \in Seq(StreamEvents) BY <2>2, PartsAreEvents
  <2>4. /\ CallsOf(Append(c, e)) = IF e.type = "call" THEN Append(CallsOf(c), e) ELSE CallsOf(c)
        /\ TextOf(Append(c, e)) = IF e.type # "call" THEN Append(TextOf(c), e) ELSE TextOf(c)
    BY <2>1, CallsMore
  <2>5. CASE e.type = "call"
    <3>1. TextOf(Append(c, e)) = TextOf(c) /\ CallsOf(Append(c, e)) = Append(CallsOf(c), e) BY <2>4, <2>5
    <3>2. e \in CallSet BY <2>1, <2>5 DEF CallSet
    <3>3. Append(CallsOf(c), e) \in Seq(StreamParts) /\ Append(CallsOf(c), e) \in Seq(CallSet) BY <2>2, <3>2, AppendProperties
    <3>4. \A types \in TextTypes : Deltas(TextOf(c), types) = Deltas(Append(c, e), types)
      <4> TAKE types \in TextTypes
      <4>1. e.type \notin types BY <2>5 DEF TextTypes
      <4> QED BY <2>1, <2>2, <4>1, DeltasMore
    <3> HIDE DEF Good
    <3>5. Fit(Append(c, e)) BY <2>2, <3>1, <3>3, <3>4
    <3>6. Append(c, e) \in Seq(StreamParts) BY AppendProperties
    <3> QED BY <3>5, <3>6 DEF Good
  <2>6. CASE e.type # "call"
    <3>1. TextOf(Append(c, e)) = Append(TextOf(c), e) /\ CallsOf(Append(c, e)) = CallsOf(c) BY <2>4, <2>6
    <3>2. Append(TextOf(c), e) \in Seq(StreamParts) BY <2>2, AppendProperties
    <3>3. CallsOf(Append(TextOf(c), e)) = <<>> BY <2>1, <2>2, <2>3, <2>6, CallsMore
    <3>4. \A types \in TextTypes : Deltas(Append(TextOf(c), e), types) = Deltas(Append(c, e), types)
      <4> TAKE types \in TextTypes
      <4>1. Deltas(TextOf(c), types) = Deltas(c, types) BY <2>2
      <4>2. Deltas(Append(TextOf(c), e), types) = IF e.type \in types THEN Deltas(TextOf(c), types) \o e.deltas ELSE Deltas(TextOf(c), types)
        BY <2>1, <2>3, DeltasMore
      <4>3. Deltas(Append(c, e), types) = IF e.type \in types THEN Deltas(c, types) \o e.deltas ELSE Deltas(c, types)
        BY <2>1, DeltasMore
      <4> QED BY <4>1, <4>2, <4>3
    <3> HIDE DEF Good
    <3>5. Fit(Append(c, e)) BY <2>2, <3>1, <3>2, <3>3, <3>4
    <3>6. Append(c, e) \in Seq(StreamParts) BY AppendProperties
    <3> QED BY <3>5, <3>6 DEF Good
  <2> QED BY <2>5, <2>6
<1>3. \A c \in Seq(StreamParts) : c \in Good
  <2> HIDE DEF Good
  <2> QED BY <1>1, <1>2, SeqInduction
<1>4. Fit(p) BY <1>3
<1> HIDE DEF Good
<1> DEFINE t == TextOf(p)
           c == CallsOf(p)
<1>5. t \in Seq(StreamEvents) /\ c \in Seq(StreamEvents) /\ c \in Seq(CallSet) BY <1>4, PartsAreEvents
<1>6. CallsOf(t) = <<>> /\ \A types \in TextTypes : Deltas(t, types) = Deltas(p, types) BY <1>4
<1>a. \A types \in TextTypes : Deltas(p, types) \in Seq(Nat) BY PartsAreEvents, DeltasThrough
<1> HIDE DEF t, c
<1>7. CallsOf(c) = c /\ \A types \in TextTypes : Deltas(c, types) = <<>> BY <1>5, OnlyCalls
<1>8. CallsOf(t \o c) = c
  <2>1. CallsOf(t \o c) = CallsOf(t) \o CallsOf(c) BY <1>5, CallsBoth, Zenon
  <2>2. <<>> \o c = c BY <1>5, ConcatEmptySeq, Zenon
  <2> QED BY <1>6, <1>7, <2>1, <2>2
<1>9. ASSUME NEW types \in TextTypes PROVE Deltas(t \o c, types) = Deltas(p, types)
  <2>1. Deltas(t \o c, types) = Deltas(t, types) \o Deltas(c, types) BY <1>5, DeltasBoth
  <2> DEFINE d == Deltas(p, types)
  <2>2. d \o <<>> = d
    <3>1. d \in Seq(Nat) BY <1>a
    <3> HIDE DEF d
    <3> QED BY <3>1, ConcatEmptySeq
  <2> QED BY <1>6, <1>7, <2>1, <2>2
<1> QED BY <1>4, <1>8, <1>9 DEF t, c

\* A part of a type goes on, or a new one begins.
LEMMA CoalescedGrows ==
  ASSUME NEW type \in {"text", "thinking"}, content \in Seq(StreamParts), Arriving \in Nat
  PROVE  /\ Coalesced(type) \in Seq(StreamParts) /\ CallsOf(Coalesced(type)) = CallsOf(content)
         /\ \A types \in TextTypes :
              Deltas(Coalesced(type), types) = IF type \in types THEN Deltas(content, types) \o <<Arriving>> ELSE Deltas(content, types)
<1>1. Event(type) \in StreamParts /\ Event(type).type = type /\ Event(type).deltas = <<Arriving>>
  <2>1. <<Arriving>> \in Seq(Nat) OBVIOUS
  <2> HIDE DEF Arriving
  <2> QED BY <2>1 DEF Event, StreamParts
<1>2. content \in Seq(StreamEvents) /\ Event(type) \in StreamEvents BY <1>1, PartsAreEvents
<1>3. CASE content # <<>> /\ content[Len(content)].type = type
  <2> DEFINE n == Len(content)
             front == SubSeq(content, 1, n - 1)
             last == content[n]
             more == [type |-> type, deltas |-> Append(last.deltas, Arriving)]
  <2>1. n \in 1 .. n /\ n \in Nat /\ last \in StreamParts BY <1>3, EmptySeq
  <2>2. last.deltas \in Seq(Nat) /\ last.type = type BY <1>3, <2>1, PartsAreEvents
  <2>3. Append(last.deltas, Arriving) \in Seq(Nat) BY <2>2, AppendProperties
  <2>4. more \in StreamParts
    <3> HIDE DEF last
    <3> QED BY <2>3 DEF StreamParts
  <2>5. front \in Seq(StreamParts) /\ content = Append(front, last) BY <1>3, FrontAndLast
  <2>6. Coalesced(type) = Append(front, more)
    <3> DEFINE new == [content EXCEPT ![n].deltas = Append(@, Arriving)]
    <3>1. Coalesced(type) = new BY <1>3 DEF Coalesced
    <3>2. new[n] = [last EXCEPT !.deltas = Append(@, Arriving)] BY <2>1
    <3>3. [last EXCEPT !.deltas = Append(@, Arriving)] = more
      <4>1. last = [type |-> type, deltas |-> last.deltas] BY <2>1, <2>2 DEF StreamParts
      <4> HIDE DEF last
      <4>2. PICK d, e : d = last.deltas /\ e = Append(last.deltas, Arriving) OBVIOUS
      <4>3. last = [type |-> type, deltas |-> d] BY <4>1, <4>2
      <4>4. [last EXCEPT !.deltas = e] = [type |-> type, deltas |-> e] BY <4>3
      <4> QED BY <4>2, <4>4
    <3>4. DOMAIN new = 1 .. n /\ \A i \in 1 .. n - 1 : new[i] = content[i] BY <2>1
    <3>5. new \in Seq(StreamParts) /\ Len(new) = n
      <4>1. \A i \in 1 .. n : new[i] \in StreamParts BY <2>1, <2>4, <3>2, <3>3, <3>4
      <4> HIDE DEF more, last
      <4>2. new = [i \in 1 .. n |-> new[i]] BY <3>4
      <4> HIDE DEF new
      <4> QED BY <2>1, <4>1, <4>2, IsASeq
    <3>6. /\ Append(front, more) \in Seq(StreamParts) /\ Len(Append(front, more)) = n
          /\ Append(front, more)[n] = more /\ \A i \in 1 .. n - 1 : Append(front, more)[i] = content[i]
      <4>1. Len(front) = n - 1 /\ \A i \in 1 .. n - 1 : front[i] = content[i]
        BY <1>3, FrontIs
      <4> HIDE DEF front, more
      <4> QED BY <2>1, <2>4, <2>5, <4>1
    <3> HIDE DEF new, front, more
    <3>7. ASSUME NEW i \in 1 .. n PROVE new[i] = Append(front, more)[i]
      <4>1. CASE i = n BY <3>2, <3>3, <3>6, <4>1
      <4>2. CASE i \in 1 .. n - 1 BY <3>4, <3>6, <4>2
      <4>3. i = n \/ i \in 1 .. n - 1 BY <2>1
      <4> QED BY <4>1, <4>2, <4>3
    <3> QED BY <3>1, <3>5, <3>6, <3>7, SeqEqual
  <2>7. more.type = type /\ more.deltas = Append(last.deltas, Arriving) OBVIOUS
  <2> HIDE DEF front, last, more
  <2>8. front \in Seq(StreamEvents) /\ last \in StreamEvents /\ more \in StreamEvents BY <2>1, <2>4, <2>5, PartsAreEvents
  <2>9. CallsOf(Append(front, more)) = CallsOf(front) /\ CallsOf(content) = CallsOf(front)
    <3>1. type # "call" OBVIOUS
    <3> QED BY <2>2, <2>5, <2>7, <2>8, <3>1, CallsMore
  <2>10. ASSUME NEW types \in TextTypes
         PROVE  Deltas(Append(front, more), types) = IF type \in types THEN Deltas(content, types) \o <<Arriving>> ELSE Deltas(content, types)
    <3>1. Deltas(Append(front, more), types) = IF type \in types THEN Deltas(front, types) \o more.deltas ELSE Deltas(front, types)
      BY <2>7, <2>8, DeltasMore
    <3>2. Deltas(content, types) = IF type \in types THEN Deltas(front, types) \o last.deltas ELSE Deltas(front, types)
      BY <2>2, <2>5, <2>8, DeltasMore
    <3> DEFINE d == Deltas(front, types)
               o == last.deltas
    <3>3. d \in Seq(Nat) /\ o \in Seq(Nat) BY <2>2, <2>8, DeltasThrough
    <3> HIDE DEF d, o
    <3>4. d \o Append(o, Arriving) = (d \o o) \o <<Arriving>>
      <4> HIDE DEF Arriving
      <4> QED BY <3>3
    <3> QED BY <2>7, <3>1, <3>2, <3>4 DEF d, o
  <2>11. Append(front, more) \in Seq(StreamParts) BY <2>4, <2>5, AppendProperties
  <2> QED BY <2>6, <2>9, <2>10, <2>11
<1>4. CASE ~(content # <<>> /\ content[Len(content)].type = type)
  <2>1. Coalesced(type) = Append(content, Event(type)) BY <1>4 DEF Coalesced
  <2> DEFINE e == Event(type)
  <2>2. e \in StreamParts /\ e \in StreamEvents /\ e.type = type /\ e.deltas = <<Arriving>> BY <1>1, <1>2
  <2> HIDE DEF e
  <2>3. Append(content, e) \in Seq(StreamParts) BY <2>2, AppendProperties
  <2>4. CallsOf(Append(content, e)) = CallsOf(content)
    <3>1. type # "call" OBVIOUS
    <3> QED BY <1>2, <2>2, <3>1, CallsMore
  <2>5. \A types \in TextTypes :
          Deltas(Append(content, e), types) = IF type \in types THEN Deltas(content, types) \o <<Arriving>> ELSE Deltas(content, types)
    BY <1>2, <2>2, DeltasMore
  <2> QED BY <2>1, <2>3, <2>4, <2>5 DEF e
<1> QED BY <1>3, <1>4

\* Numbers in their order.
Numbers(max) == [i \in 1 .. max |-> i]
LEMMA InOrderMore ==
  ASSUME NEW n \in Nat, NEW P, NEW Q, \A k \in 1 .. n : k \in P <=> k \in Q
  PROVE  /\ InOrder(P, n + 1) = IF n + 1 \in P THEN Append(InOrder(Q, n), n + 1) ELSE InOrder(Q, n)
         /\ InOrder(P, n) = InOrder(Q, n) /\ InOrder(P, n) \in Seq(1 .. n)
<1> DEFINE s == Numbers(n)
           x == n + 1
           S == 1 .. n + 1
<1>1. s \in Seq(S) /\ Len(s) = n /\ x \in S BY IsASeq DEF Numbers
<1>2. Numbers(n + 1) = Append(s, x)
  <2>1. /\ Numbers(n + 1) \in Seq(S) /\ Len(Numbers(n + 1)) = n + 1 /\ \A i \in 1 .. n + 1 : Numbers(n + 1)[i] = i
    BY IsASeq DEF Numbers
  <2>2. \A i \in 1 .. n : s[i] = i BY DEF Numbers
  <2>3. Append(s, x) \in Seq(S) /\ Len(Append(s, x)) = n + 1
        /\ Append(s, x)[n + 1] = x /\ \A i \in 1 .. n : Append(s, x)[i] = s[i]
    <3> HIDE DEF s, x, S
    <3> QED BY <1>1, AppendProperties
  <2> HIDE DEF s
  <2>4. \A i \in 1 .. n + 1 : Append(s, x)[i] = i BY <2>2, <2>3
  <2> QED BY <2>1, <2>3, <2>4, SeqEqual
<1> HIDE DEF s, S, x
<1>3. Select(Append(s, x), P) = IF Len(s) + 1 \in P THEN Append(Select(s, Q), x) ELSE Select(s, Q)
  BY <1>1, SelectMore
<1>4. Select(Append(s, x), P) = IF Len(s) + 1 \in P THEN Append(Select(s, P), x) ELSE Select(s, P)
  BY <1>1, SelectMore
<1>5. Select(Append(s, x), Q \ {n + 1}) = IF Len(s) + 1 \in Q \ {n + 1} THEN Append(Select(s, P), x) ELSE Select(s, P)
  <2>1. \A k \in 1 .. Len(s) : k \in Q \ {n + 1} <=> k \in P BY <1>1
  <2> QED BY <1>1, <2>1, SelectMore
<1>6. Select(Append(s, x), Q \ {n + 1}) = IF Len(s) + 1 \in Q \ {n + 1} THEN Append(Select(s, Q), x) ELSE Select(s, Q)
  <2>1. \A k \in 1 .. Len(s) : k \in Q \ {n + 1} <=> k \in Q BY <1>1
  <2> QED BY <1>1, <2>1, SelectMore
<1>7. Select(s, P) = Select(s, Q) BY <1>1, <1>5, <1>6
<1>8. Select(s, P) \in Seq(1 .. n)
  <2>1. s \in Seq(1 .. n) BY IsASeq DEF Numbers, s
  <2> DEFINE T == 1 .. n
  <2>2. s \in Seq(T) BY <2>1
  <2> HIDE DEF T
  <2>3. /\ Select(s, P) \in Seq(T)
        /\ \A k \in 1 .. Len(s) : k \in P => \E j \in 1 .. Len(Select(s, P)) : Select(s, P)[j] = s[k]
        /\ \A j \in 1 .. Len(Select(s, P)) : \E k \in 1 .. Len(s) : k \in P /\ Select(s, P)[j] = s[k]
    <3> HIDE DEF s
    <3> QED BY <2>2, SelectKeeps, SMTT(60)
  <2> QED BY <2>3 DEF T
<1> QED BY <1>1, <1>2, <1>3, <1>7, <1>8 DEF InOrder, Numbers, s, x

LEMMA InOrderNone == \A P : InOrder(P, 0) = <<>>
<1>1. [i \in 1 .. 0 |-> i] = <<>> OBVIOUS
<1> QED BY <1>1, SelectNone DEF InOrder

\* To select and to take by number is the same.
LEMMA SelectByNumber ==
  ASSUME NEW n \in Nat, NEW T, NEW f \in [1 .. n -> T], NEW P
  PROVE  /\ Select(f, P) = [k \in 1 .. Len(InOrder(P, n)) |-> f[InOrder(P, n)[k]]]
         /\ f \in Seq(T) /\ Select(f, P) \in Seq(T)
<1> DEFINE F(m) == [i \in 1 .. m |-> f[i]]
           Fit(m) == Select(F(m), P) = [k \in 1 .. Len(InOrder(P, m)) |-> f[InOrder(P, m)[k]]]
           Good == {m \in 0 .. n : Fit(m)}
<1>1. Fit(0)
  <2>1. InOrder(P, 0) = <<>> BY InOrderNone
  <2>2. [k \in 1 .. Len(<<>>) |-> f[(<<>>)[k]]] = <<>> OBVIOUS
  <2>3. F(0) = <<>> OBVIOUS
  <2>4. Select(<<>>, P) = <<>> BY SelectNone
  <2> QED BY <2>1, <2>2, <2>3, <2>4
<1>2. ASSUME NEW m \in 1 .. n, Fit(m - 1) PROVE Fit(m)
  <2> DEFINE l == m - 1
             s == F(l)
             o == InOrder(P, l)
             q == InOrder(P, m)
  <2>1. l \in Nat /\ l + 1 = m OBVIOUS
  <2>2. s \in Seq(T) /\ Len(s) = l /\ f[m] \in T
    <3>1. \A i \in 1 .. l : f[i] \in T OBVIOUS
    <3> QED BY <2>1, <3>1, IsASeq
  <2>3. F(m) = Append(s, f[m])
    <3>1. F(m) \in Seq(T) /\ Len(F(m)) = m /\ \A i \in 1 .. m : F(m)[i] = f[i]
      <4>1. \A i \in 1 .. m : f[i] \in T OBVIOUS
      <4>2. m \in Nat OBVIOUS
      <4> QED BY <4>1, <4>2, IsASeq
    <3>2. \A i \in 1 .. l : s[i] = f[i] OBVIOUS
    <3> HIDE DEF s, l
    <3>3. /\ Append(s, f[m]) \in Seq(T) /\ Len(Append(s, f[m])) = l + 1 /\ Append(s, f[m])[l + 1] = f[m]
          /\ \A i \in 1 .. l : Append(s, f[m])[i] = s[i]
      BY <2>2, AppendProperties
    <3>4. \A i \in 1 .. m : Append(s, f[m])[i] = f[i]
      <4> TAKE i \in 1 .. m
      <4>1. CASE i = m BY <2>1, <3>3, <4>1
      <4>2. CASE i # m
        <5>1. i \in 1 .. l BY <2>1, <4>2
        <5> QED BY <3>2, <3>3, <5>1
      <4> QED BY <4>1, <4>2
    <3> QED BY <2>1, <3>1, <3>3, <3>4, SeqEqual
  <2>4. q = (IF m \in P THEN Append(o, m) ELSE o) /\ o \in Seq(1 .. l)
    <3> HIDE DEF l
    <3>1. /\ InOrder(P, l + 1) = IF l + 1 \in P THEN Append(InOrder(P, l), l + 1) ELSE InOrder(P, l)
          /\ InOrder(P, l) = InOrder(P, l) /\ InOrder(P, l) \in Seq(1 .. l)
      BY <2>1, InOrderMore
    <3> QED BY <2>1, <3>1
  <2>5. Select(s, P) = [k \in 1 .. Len(o) |-> f[o[k]]] BY <1>2
  <2> DEFINE sel == Select(s, P)
  <2>6. Select(F(m), P) = IF m \in P THEN Append(sel, f[m]) ELSE sel
    <3> DEFINE x == f[m]
    <3> HIDE DEF s, l, x
    <3>1. Select(Append(s, x), P) = IF Len(s) + 1 \in P THEN Append(Select(s, P), x) ELSE Select(s, P)
      BY <2>2, SelectMore DEF x
    <3> QED BY <2>1, <2>2, <2>3, <3>1 DEF x
  <2>7. CASE m \notin P BY <2>4, <2>5, <2>6, <2>7
  <2>8. CASE m \in P
    <3>1. q = Append(o, m) BY <2>4, <2>8
    <3> DEFINE g == [k \in 1 .. Len(q) |-> f[q[k]]]
    <3>2. Len(o) \in Nat /\ Len(q) = Len(o) + 1 /\ q[Len(o) + 1] = m /\ \A k \in 1 .. Len(o) : q[k] = o[k] /\ o[k] \in 1 .. l
      <4> HIDE DEF o, q
      <4> QED BY <2>4, <3>1
    <3> HIDE DEF o, q
    <3>3. \A k \in 1 .. Len(q) : f[q[k]] \in T
      <4> TAKE k \in 1 .. Len(q)
      <4>1. k \in 1 .. Len(o) \/ k = Len(o) + 1 BY <3>2
      <4>2. q[k] \in 1 .. n BY <3>2, <4>1
      <4> QED BY <4>2
    <3>4. g \in Seq(T) /\ Len(g) = Len(o) + 1 /\ \A k \in 1 .. Len(o) + 1 : g[k] = f[q[k]]
      <4>1. Len(q) \in Nat BY <3>2
      <4> QED BY <3>2, <3>3, <4>1, IsASeq
    <3>5. sel \in Seq(T) /\ Len(sel) = Len(o) /\ \A k \in 1 .. Len(o) : sel[k] = f[o[k]]
      <4>1. \A k \in 1 .. Len(o) : f[o[k]] \in T
        <5> TAKE k \in 1 .. Len(o)
        <5>1. o[k] \in 1 .. n BY <3>2
        <5> QED BY <5>1
      <4> HIDE DEF s
      <4> QED BY <2>5, <3>2, <4>1, IsASeq
    <3> HIDE DEF sel, g
    <3>6. /\ Append(sel, f[m]) \in Seq(T) /\ Len(Append(sel, f[m])) = Len(o) + 1 /\ Append(sel, f[m])[Len(o) + 1] = f[m]
          /\ \A k \in 1 .. Len(o) : Append(sel, f[m])[k] = sel[k]
      <4> DEFINE x == f[m]
      <4>1. x \in T OBVIOUS
      <4> HIDE DEF x
      <4>2. /\ Append(sel, x) \in Seq(T) /\ Len(Append(sel, x)) = Len(sel) + 1 /\ Append(sel, x)[Len(sel) + 1] = x
            /\ \A k \in 1 .. Len(sel) : Append(sel, x)[k] = sel[k]
        BY <3>5, <4>1, AppendProperties
      <4> QED BY <3>5, <4>2 DEF x
    <3>7. \A k \in 1 .. Len(o) + 1 : Append(sel, f[m])[k] = g[k]
      <4> TAKE k \in 1 .. Len(o) + 1
      <4>1. CASE k = Len(o) + 1 BY <3>2, <3>4, <3>6, <4>1
      <4>2. CASE k # Len(o) + 1
        <5>1. k \in 1 .. Len(o) BY <3>2, <4>2
        <5> QED BY <3>2, <3>4, <3>5, <3>6, <5>1
      <4> QED BY <4>1, <4>2
    <3>8. Append(sel, f[m]) = g BY <3>2, <3>4, <3>6, <3>7, SeqEqual
    <3> QED BY <2>6, <2>8, <3>8 DEF g, q
  <2> QED BY <2>7, <2>8
<1>3. \A m \in 1 .. n : m - 1 \in Good => m \in Good
  <2>1. \A m \in 1 .. n : Fit(m - 1) => Fit(m) BY <1>2
  <2> HIDE DEF Fit
  <2> QED BY <2>1
<1> HIDE DEF Fit
<1>4. n \in Good
  <2>1. 0 \in Good BY <1>1
  <2> HIDE DEF Good
  <2>2. \A m \in 0 .. n : m \in Good BY <1>3, <2>1, UpTo
  <2> QED BY <2>2
<1>5. F(n) = f OBVIOUS
<1>6. f \in Seq(T)
  <2>1. f = [i \in 1 .. n |-> f[i]] /\ \A i \in 1 .. n : f[i] \in T OBVIOUS
  <2> QED BY <2>1, IsASeq
<1>7. Select(f, P) \in Seq(T) BY <1>6, SelectKeeps
<1> QED BY <1>4, <1>5, <1>6, <1>7 DEF Fit

\* The consumer is told one event more.
HasType(events, type) == \E n \in 1 .. Len(events) : events[n].type = type

LEMMA ToldMore ==
  ASSUME NEW e \in StreamEvents, sent \in Seq(StreamEvents), Len(sent) > 0, sent' = Append(sent, e)
  PROVE  /\ Told' = Append(Told, e) /\ Told \in Seq(StreamEvents) /\ sent' \in Seq(StreamEvents) /\ Len(sent') > 0
         /\ \A type : HasType(sent', type) <=> HasType(sent, type) \/ e.type = type
<1> DEFINE l == Len(sent)
           S == StreamEvents
<1>1. l \in Nat /\ l > 0 /\ \A i \in 1 .. l : sent[i] \in S OBVIOUS
<1>2. sent' \in Seq(S) /\ Len(sent') = l + 1 /\ sent'[l + 1] = e /\ \A i \in 1 .. l : sent'[i] = sent[i]
  BY AppendProperties
<1>3. sent' = sent \o <<e>> /\ <<e>> \in Seq(S) OBVIOUS
<1> HIDE DEF l, S
<1>4. Rest(sent \o <<e>>) = Rest(sent) \o <<e>> /\ Rest(sent) \in Seq(S)
  <2> DEFINE o == <<e>>
  <2>1. o \in Seq(S) BY <1>3
  <2> HIDE DEF o
  <2>2. Rest(sent \o o) = Rest(sent) \o o /\ Rest(sent) \in Seq(S) BY <2>1, RestBoth DEF S
  <2> QED BY <2>2 DEF o
<1>5. Rest(sent) \o <<e>> = Append(Rest(sent), e)
  <2> DEFINE q == Rest(sent)
  <2>1. q \in Seq(S) /\ e \in S BY <1>4 DEF S
  <2> HIDE DEF q
  <2> QED BY <2>1
<1>6. Told = Rest(sent) /\ Told' = Rest(sent') BY DEF Told, Rest
<1>7. Told' = Append(Told, e) /\ Told \in Seq(S) BY <1>3, <1>4, <1>5, <1>6
<1>8. ASSUME NEW type PROVE HasType(sent', type) <=> HasType(sent, type) \/ e.type = type
  <2>1. \A i \in 1 .. l : i \in 1 .. l + 1 BY <1>1
  <2>2. \A i \in 1 .. l + 1 : i = l + 1 \/ i \in 1 .. l BY <1>1
  <2>3. l + 1 \in 1 .. l + 1 BY <1>1
  <2> QED BY <1>2, <2>1, <2>2, <2>3 DEF HasType, l
<1> QED BY <1>1, <1>2, <1>7, <1>8 DEF S

\* One frame more on the wire.
LEMMA WireMore ==
  ASSUME NEW f \in Kinds, wire \in Seq(Kinds), wire' = Append(wire, f), UNCHANGED provider
  PROVE  /\ wire' \in Seq(Kinds)' /\ Arriving \in Nat
         /\ \A i \in Indices :
              /\ Fragments(i)' = IF f.type = "fragment" /\ f.index = i THEN Append(Fragments(i), Arriving) ELSE Fragments(i)
              /\ Fragments(i) \in Seq(Nat)
         /\ \A type : HasType(wire', type) <=> HasType(wire, type) \/ f.type = type
<1> DEFINE n == Len(wire)
<1>1. Kinds' = Kinds BY DEF Kinds, Indices, Reasons
<1>2. /\ n \in Nat /\ wire' \in Seq(Kinds) /\ Len(wire') = n + 1 /\ wire'[n + 1] = f /\ \A i \in 1 .. n : wire'[i] = wire[i]
  BY AppendProperties
<1> HIDE DEF n
<1>3. ASSUME NEW i \in Indices
      PROVE  /\ Fragments(i)' = IF f.type = "fragment" /\ f.index = i THEN Append(Fragments(i), Arriving) ELSE Fragments(i)
             /\ Fragments(i) \in Seq(Nat)
  <2> DEFINE Q == {k \in 1 .. n : wire[k].type = "fragment" /\ wire[k].index = i}
             P == {k \in 1 .. n + 1 : wire'[k].type = "fragment" /\ wire'[k].index = i}
  <2>1. \A k \in 1 .. n : k \in P <=> k \in Q BY <1>2
  <2>2. n + 1 \in P <=> f.type = "fragment" /\ f.index = i BY <1>2
  <2>3. Fragments(i)' = InOrder(P, n + 1) BY <1>2 DEF Fragments, InOrder, Select
  <2>4. Fragments(i) = InOrder(Q, n) BY DEF Fragments, n
  <2> HIDE DEF P, Q
  <2>5. /\ InOrder(P, n + 1) = IF n + 1 \in P THEN Append(InOrder(Q, n), n + 1) ELSE InOrder(Q, n)
        /\ InOrder(P, n) = InOrder(Q, n) /\ InOrder(P, n) \in Seq(1 .. n)
    BY <1>2, <2>1, InOrderMore
  <2>6. 1 .. n \subseteq Nat OBVIOUS
  <2>7. Fragments(i) \in Seq(Nat) BY <2>4, <2>5, <2>6, SeqMonotonic
  <2> QED BY <2>2, <2>3, <2>4, <2>5, <2>7 DEF Arriving, n
<1>4. ASSUME NEW type PROVE HasType(wire', type) <=> HasType(wire, type) \/ f.type = type
  <2>1. \A i \in 1 .. n : i \in 1 .. n + 1 BY <1>2
  <2>2. \A i \in 1 .. n + 1 : i = n + 1 \/ i \in 1 .. n BY <1>2
  <2>3. n + 1 \in 1 .. n + 1 BY <1>2
  <2> QED BY <1>2, <2>1, <2>2, <2>3 DEF HasType, n
<1>5. Arriving \in Nat BY <1>2 DEF Arriving, n
<1> QED BY <1>1, <1>2, <1>3, <1>4, <1>5

\* The last reason to finish.
ReportedIn(w, stop) ==
  \/ stop = "stop" /\ \A n \in 1 .. Len(w) : w[n].type # "finish"
  \/ \E n \in 1 .. Len(w) : /\ w[n].type = "finish" /\ w[n].reason = stop
                              /\ \A k \in n + 1 .. Len(w) : w[k].type # "finish"

LEMMA ReportedMore ==
  ASSUME NEW S, NEW w \in Seq(S), NEW f \in S, NEW stop
  PROVE  /\ f.type # "finish" /\ ReportedIn(w, stop) => ReportedIn(Append(w, f), stop)
         /\ f.type = "finish" => ReportedIn(Append(w, f), f.reason)
<1> DEFINE n == Len(w)
           v == Append(w, f)
<1>1. n \in Nat /\ Len(v) = n + 1 /\ v[n + 1] = f /\ \A i \in 1 .. n : v[i] = w[i] BY AppendProperties
<1> HIDE DEF v
<1>2. /\ \A i \in 1 .. n + 1 : i = n + 1 \/ i \in 1 .. n
      /\ \A i \in 1 .. n : i \in 1 .. n + 1 /\ \A k \in i + 1 .. n + 1 : k = n + 1 \/ k \in i + 1 .. n
      /\ n + 1 \in 1 .. n + 1 /\ \A k \in (n + 1) + 1 .. n + 1 : FALSE
  BY <1>1
<1>3. \A i \in 1 .. n : \A k \in i + 1 .. n : k \in 1 .. n BY <1>1
<1>4. ASSUME f.type # "finish", ReportedIn(w, stop) PROVE ReportedIn(v, stop)
  <2>1. CASE stop = "stop" /\ \A i \in 1 .. n : w[i].type # "finish"
    <3>1. \A i \in 1 .. Len(v) : v[i].type # "finish" BY <1>1, <1>2, <1>4, <2>1
    <3> QED BY <2>1, <3>1 DEF ReportedIn
  <2>2. CASE \E i \in 1 .. n : w[i].type = "finish" /\ w[i].reason = stop /\ \A k \in i + 1 .. n : w[k].type # "finish"
    <3>1. PICK i \in 1 .. n : w[i].type = "finish" /\ w[i].reason = stop /\ \A k \in i + 1 .. n : w[k].type # "finish"
      BY <2>2
    <3>2. i \in 1 .. Len(v) /\ v[i].type = "finish" /\ v[i].reason = stop BY <1>1, <1>2, <3>1
    <3>3. \A k \in i + 1 .. Len(v) : v[k].type # "finish" BY <1>1, <1>2, <1>3, <1>4, <3>1
    <3> QED BY <3>2, <3>3 DEF ReportedIn
  <2> QED BY <1>4, <2>1, <2>2 DEF ReportedIn
<1>5. ASSUME f.type = "finish" PROVE ReportedIn(v, f.reason)
  <2>1. n + 1 \in 1 .. Len(v) /\ \A k \in (n + 1) + 1 .. Len(v) : v[k].type # "finish" BY <1>1, <1>2
  <2> QED BY <1>1, <1>5, <2>1 DEF ReportedIn
<1> QED BY <1>4, <1>5 DEF v

\* What has no done keeps the promise.
LEMMA NoDone ==
  ASSUME sent' \in Seq(StreamEvents), Len(sent') > 0, ~HasType(sent', "done")
  PROVE  DoneIsTheReply'
<1> DEFINE l == Len(sent')
<1>1. l \in Nat /\ l \in 1 .. l OBVIOUS
<1>2. \A n \in 1 .. l : sent'[n].type # "done" BY DEF HasType
<1>3. sent'[l].type # "done" /\ \A n \in 1 .. l - 1 : sent'[n].type # "done" BY <1>1, <1>2
<1> QED BY <1>3 DEF DoneIsTheReply

LEMMA FollowedTypes == FollowedInv => /\ ~HasType(sent, "done")
                                      /\ HasType(sent, "error") => provider = "codex" /\ "failed" \in seen
                                      /\ "completed" \in seen => HasType(wire, "completed")
                                      /\ ReportedIn(wire, finish)
BY DEF FollowedInv, HasType, Reported, ReportedIn

LEMMA FollowedAgain ==
  ASSUME ~HasType(sent', "done"), HasType(sent', "error") => provider' = "codex" /\ "failed" \in seen',
         \A types \in {{"text"}, {"thinking"}, {"text", "thinking"}} : Deltas(content', types) = Deltas(Told', types),
         CallsOf(content') = CallsOf(Told'), provider' = "openai" => CallsOf(content') = <<>>,
         \A i \in Indices : pending'[i].deltas = Fragments(i)' /\ (pending'[i].named => pending'[i].deltas # <<>>),
         "completed" \in seen' => HasType(wire', "completed"), ReportedIn(wire', finish')
  PROVE  FollowedInv'
<1>1. CallsOf(content)' = CallsOf(content') /\ CallsOf(Told)' = CallsOf(Told') BY DEF CallsOf, Select
<1>2. \A types : Deltas(content, types)' = Deltas(content', types) /\ Deltas(Told, types)' = Deltas(Told', types)
  BY DEF Deltas
<1>3. Reported(finish)' BY DEF Reported, ReportedIn, HasType
<1> QED BY <1>1, <1>2, <1>3 DEF FollowedInv, HasType, Indices

LEMMA KindsOf ==
  ASSUME NEW f \in Kinds, provider \in {"openai", "gemini", "codex"}
  PROVE  /\ f.type = "fragment" => f.index \in Indices /\ f.named \in BOOLEAN
         /\ f.type = "call" => provider # "openai"
         /\ f.type \in {"completed", "failed"} => provider = "codex"
         /\ f.type = "finish" => f.reason \in Stops
BY DEF Kinds, Reasons, Stops

LEMMA FrameStep ==
  ASSUME StreamInv, NEW f \in Kinds, Frame(f) PROVE StreamInv'
<1>1. /\ open /\ wire' = Append(wire, f) /\ UNCHANGED <<provider, cancelled>> BY DEF Frame
<1>2. StreamTypeOK /\ FollowedInv BY <1>1 DEF StreamInv
<1>3. /\ wire' \in Seq(Kinds)' /\ Arriving \in Nat
      /\ \A i \in Indices :
           /\ Fragments(i)' = IF f.type = "fragment" /\ f.index = i THEN Append(Fragments(i), Arriving) ELSE Fragments(i)
           /\ Fragments(i) \in Seq(Nat)
      /\ \A type : HasType(wire', type) <=> HasType(wire, type) \/ f.type = type
  BY <1>1, <1>2, WireMore DEF StreamTypeOK
<1>4. /\ ~HasType(sent, "done") /\ (HasType(sent, "error") => provider = "codex" /\ "failed" \in seen)
      /\ ("completed" \in seen => HasType(wire, "completed")) /\ ReportedIn(wire, finish)
  BY <1>2, FollowedTypes
<1>a. /\ f.type # "finish" => ReportedIn(wire', finish)
      /\ f.type = "finish" => ReportedIn(wire', f.reason)
  BY <1>1, <1>2, <1>4, ReportedMore DEF StreamTypeOK
<1>5. /\ sent \in Seq(StreamEvents) /\ Len(sent) > 0 /\ content \in Seq(StreamParts) /\ content \in Seq(StreamEvents)
      /\ pending \in [Indices -> [named : BOOLEAN, deltas : Seq(Nat)]] /\ provider \in {"openai", "gemini", "codex"}
      /\ seen \subseteq {"completed", "failed"} /\ finish \in Stops /\ {cancelled, open} \subseteq BOOLEAN
  BY <1>2, PartsAreEvents DEF StreamTypeOK
<1>6. /\ f.type = "fragment" => f.index \in Indices /\ f.named \in BOOLEAN
      /\ f.type = "call" => provider # "openai"
      /\ f.type \in {"completed", "failed"} => provider = "codex"
      /\ f.type = "finish" => f.reason \in Stops
  BY <1>5, KindsOf
<1>7. /\ \A types \in {{"text"}, {"thinking"}, {"text", "thinking"}} :
           types \in TextTypes /\ Deltas(content, types) = Deltas(Told, types)
      /\ CallsOf(content) = CallsOf(Told) /\ (provider = "openai" => CallsOf(content) = <<>>)
      /\ \A i \in Indices : /\ pending[i].deltas = Fragments(i)
                            /\ pending[i].named => pending[i].deltas # <<>>
  BY <1>2 DEF FollowedInv, TextTypes
<1>8. \A e \in StreamEvents : sent' = Append(sent, e) =>
        /\ Told' = Append(Told, e) /\ Told \in Seq(StreamEvents) /\ sent' \in Seq(StreamEvents) /\ Len(sent') > 0
        /\ \A type : HasType(sent', type) <=> HasType(sent, type) \/ e.type = type
  BY <1>5, ToldMore
<1>9. CASE Delta(f)
  <2> DEFINE e == Event(f.type)
  <2>1. f.type \in {"text", "thinking"} /\ content' = Coalesced(f.type) /\ sent' = Append(sent, e) /\ UNCHANGED <<pending, seen, finish, open>>
    BY <1>9 DEF Delta
  <2>2. e \in StreamEvents /\ e.type = f.type /\ e.deltas = <<Arriving>>
    <3>1. <<Arriving>> \in Seq(Nat) BY <1>3
    <3> HIDE DEF Arriving
    <3> QED BY <2>1, <3>1 DEF Event, StreamEvents, StreamParts
  <2> HIDE DEF e
  <2>3. /\ Told' = Append(Told, e) /\ Told \in Seq(StreamEvents) /\ sent' \in Seq(StreamEvents) /\ Len(sent') > 0
        /\ \A type : HasType(sent', type) <=> HasType(sent, type) \/ e.type = type
    BY <1>8, <2>1, <2>2
  <2>4. /\ content' \in Seq(StreamParts) /\ CallsOf(content') = CallsOf(content)
        /\ \A types \in TextTypes :
             Deltas(content', types) = IF f.type \in types THEN Deltas(content, types) \o <<Arriving>> ELSE Deltas(content, types)
    BY <1>3, <1>5, <2>1, CoalescedGrows
  <2>5. CallsOf(Told') = CallsOf(Told)
    <3>1. e.type # "call" BY <2>1, <2>2
    <3> QED BY <2>2, <2>3, <3>1, CallsMore
  <2>6. \A types \in TextTypes :
          Deltas(Told', types) = IF f.type \in types THEN Deltas(Told, types) \o <<Arriving>> ELSE Deltas(Told, types)
    BY <2>2, <2>3, DeltasMore
  <2>7. FollowedInv'
    <3>1. ~HasType(sent', "done") /\ (HasType(sent', "error") => HasType(sent, "error")) BY <1>4, <2>1, <2>2, <2>3
    <3>2. \A types \in {{"text"}, {"thinking"}, {"text", "thinking"}} : Deltas(content', types) = Deltas(Told', types)
      BY <1>7, <2>4, <2>6
    <3>3. \A i \in Indices : Fragments(i)' = Fragments(i) BY <1>3, <2>1
    <3>4. "completed" \in seen' => HasType(wire', "completed") BY <1>3, <1>4, <2>1
    <3>9. /\ CallsOf(content') = CallsOf(Told') /\ (provider' = "openai" => CallsOf(content') = <<>>)
          /\ \A i \in Indices : pending'[i].deltas = Fragments(i)' /\ (pending'[i].named => pending'[i].deltas # <<>>)
      BY <1>1, <1>4, <1>7, <2>1, <2>4, <2>5, <3>1, <3>2, <3>3, <3>4
    <3>10. HasType(sent', "error") => provider' = "codex" /\ "failed" \in seen' BY <1>1, <1>4, <1>7, <2>1, <2>4, <2>5, <3>1, <3>2, <3>3, <3>4
    <3>11. ReportedIn(wire', finish') BY <1>a, <2>1
    <3> QED BY <1>1, <1>4, <1>7, <2>1, <2>4, <2>5, <3>1, <3>2, <3>3, <3>4, <3>9, <3>10, <3>11, FollowedAgain
  <2>8. DoneIsTheReply'
    <3>1. ~HasType(sent', "done") BY <1>4, <2>1, <2>2, <2>3
    <3> QED BY <2>3, <3>1, NoDone
  <2> QED BY <1>1, <1>3, <1>5, <2>1, <2>3, <2>4, <2>7, <2>8 DEF StreamInv, StreamTypeOK
<1>10. CASE Fragment(f)
  <2>1. /\ f.type = "fragment" /\ UNCHANGED <<content, seen, finish, sent, open>>
        /\ pending' = [pending EXCEPT ![f.index] = [named |-> @.named \/ f.named, deltas |-> Append(@.deltas, Arriving)]]
    BY <1>10 DEF Fragment
  <2>2. \A i \in Indices : pending[i].named \in BOOLEAN /\ pending[i].deltas \in Seq(Nat) BY <1>5
  <2>3. f.index \in Indices /\ f.named \in BOOLEAN BY <1>6, <2>1
  <2> DEFINE k == f.index
             new == [named |-> pending[k].named \/ f.named, deltas |-> Append(pending[k].deltas, Arriving)]
  <2>4. pending' = [pending EXCEPT ![k] = new] BY <2>1
  <2>5. new \in [named : BOOLEAN, deltas : Seq(Nat)] /\ new.deltas = Append(pending[k].deltas, Arriving) /\ new.deltas # <<>>
    <3>1. /\ Append(pending[k].deltas, Arriving) \in Seq(Nat) /\ Append(pending[k].deltas, Arriving) # <<>>
      <4> DEFINE d == pending[k].deltas
      <4>1. d \in Seq(Nat) BY <2>2, <2>3
      <4> HIDE DEF d, Arriving
      <4>2. Append(d, Arriving) \in Seq(Nat) /\ Append(d, Arriving) # <<>> BY <1>3, <4>1
      <4> QED BY <4>2 DEF d
    <3>2. pending[k].named \/ f.named \in BOOLEAN BY <2>2, <2>3
    <3> QED BY <3>1, <3>2
  <2> HIDE DEF new, k
  <2>6. pending' \in [Indices -> [named : BOOLEAN, deltas : Seq(Nat)]] BY <1>5, <2>4, <2>5
  <2>7. \A i \in Indices : pending'[i].deltas = Fragments(i)' /\ (pending'[i].named => pending'[i].deltas # <<>>)
    <3> TAKE i \in Indices
    <3>1. CASE i = k
      <4>1. pending'[i] = new BY <1>5, <2>4, <3>1
      <4>2. Fragments(i)' = Append(Fragments(i), Arriving) BY <1>3, <2>1, <3>1 DEF k
      <4> QED BY <1>7, <2>5, <3>1, <4>1, <4>2
    <3>2. CASE i # k
      <4>1. pending'[i] = pending[i] BY <1>5, <2>4, <3>2
      <4>2. Fragments(i)' = Fragments(i) BY <1>3, <2>1, <3>2 DEF k
      <4> QED BY <1>7, <4>1, <4>2
    <3> QED BY <3>1, <3>2
  <2>8. FollowedInv'
    <3>1. Told' = Told BY <2>1 DEF Told
    <3>2. "completed" \in seen' => HasType(wire', "completed") BY <1>3, <1>4, <2>1
    <3>9. /\ CallsOf(content') = CallsOf(Told') /\ (provider' = "openai" => CallsOf(content') = <<>>)
          /\ \A i \in Indices : pending'[i].deltas = Fragments(i)' /\ (pending'[i].named => pending'[i].deltas # <<>>)
      BY <1>1, <1>4, <1>7, <2>1, <2>7, <3>1, <3>2
    <3>10. HasType(sent', "error") => provider' = "codex" /\ "failed" \in seen' BY <1>1, <1>4, <1>7, <2>1, <2>7, <3>1, <3>2
    <3>11. ReportedIn(wire', finish') BY <1>a, <2>1
    <3> QED BY <1>1, <1>4, <1>7, <2>1, <2>7, <3>1, <3>2, <3>9, <3>10, <3>11, FollowedAgain
  <2>9. DoneIsTheReply' BY <1>4, <1>5, <2>1, NoDone
  <2> QED BY <1>1, <1>3, <1>5, <2>1, <2>6, <2>8, <2>9 DEF StreamInv, StreamTypeOK
<1>11. CASE WholeCall(f)
  <2> DEFINE e == Event("call")
  <2>1. f.type = "call" /\ content' = Append(content, e) /\ sent' = Append(sent, e) /\ UNCHANGED <<pending, seen, finish, open>>
    BY <1>11 DEF WholeCall
  <2>2. e \in StreamEvents /\ e \in StreamParts /\ e.type = "call"
    <3>1. <<Arriving>> \in Seq(Nat) BY <1>3
    <3> HIDE DEF Arriving
    <3> QED BY <3>1 DEF Event, StreamEvents, StreamParts
  <2> HIDE DEF e
  <2>3. /\ Told' = Append(Told, e) /\ Told \in Seq(StreamEvents) /\ sent' \in Seq(StreamEvents) /\ Len(sent') > 0
        /\ \A type : HasType(sent', type) <=> HasType(sent, type) \/ e.type = type
    BY <1>8, <2>1, <2>2
  <2>4. content' \in Seq(StreamParts) BY <1>5, <2>1, <2>2, AppendProperties
  <2>5. CallsOf(content') = CallsOf(Told')
    <3>1. CallsOf(Append(content, e)) = Append(CallsOf(content), e) BY <1>5, <2>2, CallsMore
    <3>2. CallsOf(Append(Told, e)) = Append(CallsOf(Told), e) BY <2>2, <2>3, CallsMore
    <3> QED BY <1>7, <2>1, <2>3, <3>1, <3>2
  <2>6. \A types \in {{"text"}, {"thinking"}, {"text", "thinking"}} : Deltas(content', types) = Deltas(Told', types)
    <3> TAKE types \in {{"text"}, {"thinking"}, {"text", "thinking"}}
    <3>1. e.type \notin types BY <2>2
    <3>2. types \in TextTypes BY <1>7
    <3> QED BY <1>5, <1>7, <2>1, <2>2, <2>3, <3>1, <3>2, DeltasMore
  <2>7. FollowedInv'
    <3>1. ~HasType(sent', "done") /\ (HasType(sent', "error") => HasType(sent, "error")) BY <1>4, <2>1, <2>2, <2>3
    <3>3. \A i \in Indices : Fragments(i)' = Fragments(i) BY <1>3, <2>1
    <3>4. "completed" \in seen' => HasType(wire', "completed") BY <1>3, <1>4, <2>1
    <3>5. provider # "openai" BY <1>6, <2>1
    <3>9. /\ CallsOf(content') = CallsOf(Told') /\ (provider' = "openai" => CallsOf(content') = <<>>)
          /\ \A i \in Indices : pending'[i].deltas = Fragments(i)' /\ (pending'[i].named => pending'[i].deltas # <<>>)
      BY <1>1, <1>4, <1>7, <2>1, <2>5, <2>6, <3>1, <3>3, <3>4, <3>5
    <3>10. HasType(sent', "error") => provider' = "codex" /\ "failed" \in seen' BY <1>1, <1>4, <1>7, <2>1, <2>5, <2>6, <3>1, <3>3, <3>4, <3>5
    <3>11. ReportedIn(wire', finish') BY <1>a, <2>1
    <3> QED BY <1>1, <1>4, <1>7, <2>1, <2>5, <2>6, <3>1, <3>3, <3>4, <3>5, <3>9, <3>10, <3>11, FollowedAgain
  <2>8. DoneIsTheReply'
    <3>1. ~HasType(sent', "done") BY <1>4, <2>1, <2>2, <2>3
    <3> QED BY <2>3, <3>1, NoDone
  <2> QED BY <1>1, <1>3, <1>5, <2>1, <2>3, <2>4, <2>7, <2>8 DEF StreamInv, StreamTypeOK
<1>12. CASE Bad(f)
  <2> DEFINE e == [type |-> "error"]
  <2>1. sent' = Append(sent, e) /\ open' = FALSE /\ UNCHANGED <<content, pending, seen, finish>> BY <1>12 DEF Bad
  <2>2. e \in StreamEvents /\ e.type = "error" BY DEF StreamEvents
  <2> HIDE DEF e
  <2>3. sent' \in Seq(StreamEvents) /\ Len(sent') > 0 /\ ~HasType(sent', "done") BY <1>4, <1>8, <2>1, <2>2
  <2>4. DoneIsTheReply' BY <2>3, NoDone
  <2> QED BY <1>1, <1>3, <1>5, <2>1, <2>3, <2>4 DEF StreamInv, StreamTypeOK
<1>13. CASE Response(f)
  <2>1. /\ f.type \in {"completed", "failed"} /\ seen' = seen \cup {f.type} /\ UNCHANGED <<content, pending, finish, open>>
        /\ sent' = IF f.type = "failed" THEN Append(sent, [type |-> "error"]) ELSE sent
    BY <1>13 DEF Response
  <2>2. provider = "codex" BY <1>6, <2>1
  <2>3. /\ sent' \in Seq(StreamEvents) /\ Len(sent') > 0 /\ ~HasType(sent', "done")
        /\ (HasType(sent', "error") => "failed" \in seen')
        /\ CallsOf(Told') = CallsOf(Told) /\ \A types \in TextTypes : Deltas(Told', types) = Deltas(Told, types)
    <3>1. CASE f.type = "failed"
      <4> DEFINE e == [type |-> "error"]
      <4>1. e \in StreamEvents /\ e.type = "error" BY DEF StreamEvents
      <4>2. sent' = Append(sent, e) BY <2>1, <3>1
      <4> HIDE DEF e
      <4>3. /\ Told' = Append(Told, e) /\ Told \in Seq(StreamEvents) /\ sent' \in Seq(StreamEvents) /\ Len(sent') > 0
            /\ \A type : HasType(sent', type) <=> HasType(sent, type) \/ e.type = type
        BY <1>8, <4>1, <4>2
      <4>4. CallsOf(Told') = CallsOf(Told) BY <4>1, <4>3, CallsMore
      <4>5. ASSUME NEW types \in TextTypes PROVE Deltas(Told', types) = Deltas(Told, types)
        <5>1. e.type \notin types BY <4>1 DEF TextTypes
        <5> QED BY <4>1, <4>3, <5>1, DeltasMore
      <4> QED BY <1>4, <2>1, <3>1, <4>1, <4>3, <4>4, <4>5
    <3>2. CASE f.type # "failed"
      <4>1. sent' = sent /\ Told' = Told BY <2>1, <3>2 DEF Told
      <4> QED BY <1>4, <1>5, <2>1, <4>1
    <3> QED BY <3>1, <3>2
  <2>4. FollowedInv'
    <3>1. \A types \in {{"text"}, {"thinking"}, {"text", "thinking"}} : Deltas(content', types) = Deltas(Told', types)
      BY <1>7, <2>1, <2>3
    <3>3. \A i \in Indices : Fragments(i)' = Fragments(i) BY <1>3, <2>1
    <3>4. "completed" \in seen' => HasType(wire', "completed") BY <1>3, <1>4, <2>1
    <3>9. /\ CallsOf(content') = CallsOf(Told') /\ (provider' = "openai" => CallsOf(content') = <<>>)
          /\ \A i \in Indices : pending'[i].deltas = Fragments(i)' /\ (pending'[i].named => pending'[i].deltas # <<>>)
      BY <1>1, <1>7, <2>1, <2>2, <2>3, <3>1, <3>3, <3>4
    <3>10. HasType(sent', "error") => provider' = "codex" /\ "failed" \in seen' BY <1>1, <1>7, <2>1, <2>2, <2>3, <3>1, <3>3, <3>4
    <3>11. ReportedIn(wire', finish') BY <1>a, <2>1
    <3> QED BY <1>1, <1>7, <2>1, <2>2, <2>3, <3>1, <3>3, <3>4, <3>9, <3>10, <3>11, FollowedAgain
  <2>5. DoneIsTheReply' BY <2>3, NoDone
  <2> QED BY <1>1, <1>3, <1>5, <2>1, <2>3, <2>4, <2>5 DEF StreamInv, StreamTypeOK
<1>14. CASE Finish(f)
  <2>1. f.type = "finish" /\ finish' = f.reason /\ UNCHANGED <<content, pending, seen, sent, open>> BY <1>14 DEF Finish
  <2>2. finish' \in Stops /\ ReportedIn(wire', finish') BY <1>a, <1>6, <2>1
  <2>3. FollowedInv'
    <3>1. Told' = Told BY <2>1 DEF Told
    <3>2. "completed" \in seen' => HasType(wire', "completed") BY <1>3, <1>4, <2>1
    <3>3. \A i \in Indices : Fragments(i)' = Fragments(i) BY <1>3, <2>1
    <3>4. /\ CallsOf(content') = CallsOf(Told') /\ (provider' = "openai" => CallsOf(content') = <<>>)
          /\ \A i \in Indices : pending'[i].deltas = Fragments(i)' /\ (pending'[i].named => pending'[i].deltas # <<>>)
          /\ \A types \in {{"text"}, {"thinking"}, {"text", "thinking"}} : Deltas(content', types) = Deltas(Told', types)
      BY <1>1, <1>7, <2>1, <3>1, <3>3
    <3>5. ~HasType(sent', "done") /\ (HasType(sent', "error") => provider' = "codex" /\ "failed" \in seen')
      BY <1>1, <1>4, <2>1
    <3> QED BY <2>2, <3>2, <3>4, <3>5, FollowedAgain
  <2>4. DoneIsTheReply' BY <1>4, <1>5, <2>1, NoDone
  <2> QED BY <1>1, <1>3, <1>5, <2>1, <2>2, <2>3, <2>4 DEF StreamInv, StreamTypeOK
<1> QED BY <1>9, <1>10, <1>11, <1>12, <1>13, <1>14 DEF Frame

-----------------------------------------------------------------------------
\* The end of a stream: calls, then the message.
LEMMA FragmentsStay == ASSUME UNCHANGED wire PROVE \A i : Fragments(i)' = Fragments(i)
BY DEF Fragments, InOrder, Select

LEMMA Finishes ==
  ASSUME StreamTypeOK, FollowedInv, NEW calls \in Seq(CallSet), NEW done \in StreamEvents,
         sent' = Append(sent \o calls, done), ~HasType(sent, "error"), UNCHANGED <<provider, wire>>,
         done.type = "done", CallsOf(done.content) = CallsOf(content) \o calls,
         done.stop = (IF CallsOf(done.content) = <<>> THEN finish ELSE "tool_use"),
         \A types \in TextTypes : Deltas(done.content, types) = Deltas(content, types),
         provider = "openai" =>
           [n \in 1 .. Len(calls) |-> calls[n].deltas] =
             Select([i \in Indices |-> Fragments(i)], {i \in Indices : Fragments(i) # <<>>}),
         provider = "codex" => "completed" \in seen
  PROVE  DoneIsTheReply' /\ sent' \in Seq(StreamEvents) /\ Len(sent') > 0
<1> DEFINE S == StreamEvents
           p == sent \o calls
           l == Len(p)
           before == SubSeq(sent', 2, Len(sent') - 1)
<1>1. sent \in Seq(S) /\ Len(sent) > 0 /\ calls \in Seq(S) BY OnlyCalls DEF StreamTypeOK
<1>2. /\ p \in Seq(S) /\ Len(p) = Len(sent) + Len(calls)
      /\ \A i \in 1 .. Len(sent) + Len(calls) : p[i] = IF i <= Len(sent) THEN sent[i] ELSE calls[i - Len(sent)]
  BY <1>1, ConcatProperties
<1>3. Len(sent) \in Nat /\ Len(calls) \in Nat BY <1>1
<1>4. Rest(p) = Told \o calls /\ Told \in Seq(S)
  <2> HIDE DEF S
  <2>1. Rest(sent \o calls) = Rest(sent) \o calls /\ Rest(sent) \in Seq(S) BY <1>1, RestBoth
  <2> QED BY <2>1 DEF Told, Rest
<1>5. \A i \in 1 .. l : p[i].type # "done" /\ p[i].type # "error"
  <2> TAKE i \in 1 .. l
  <2>1. CASE i <= Len(sent)
    <3>1. i \in 1 .. Len(sent) /\ p[i] = sent[i] BY <1>2, <1>3, <2>1
    <3>2. ~HasType(sent, "done") BY FollowedTypes
    <3> QED BY <3>1, <3>2 DEF HasType
  <2>2. CASE ~(i <= Len(sent))
    <3>1. i - Len(sent) \in 1 .. Len(calls) /\ p[i] = calls[i - Len(sent)] BY <1>2, <1>3, <2>2
    <3>2. \A k \in 1 .. Len(calls) : calls[k].type = "call"
      <4>1. \A k \in 1 .. Len(calls) : calls[k] \in CallSet OBVIOUS
      <4> QED BY <4>1 DEF CallSet
    <3> QED BY <3>1, <3>2
  <2> QED BY <2>1, <2>2
<1>6. l \in Nat /\ l > 0 /\ p \in Seq(S) BY <1>1, <1>2, <1>3
<1> HIDE DEF p, l
<1>7. /\ sent' \in Seq(S) /\ Len(sent') = l + 1 /\ sent'[l + 1] = done /\ \A i \in 1 .. l : sent'[i] = p[i]
  BY <1>6, AppendProperties DEF p, l
<1>8. before = Told \o calls
  <2>1. before = SubSeq(sent', 2, l) BY <1>6, <1>7
  <2>2. \A i \in 2 .. l : sent'[i] = p[i] /\ p[i] \in S /\ sent'[i] \in S
    <3>1. \A i \in 2 .. l : i \in 1 .. l OBVIOUS
    <3>2. \A i \in 1 .. l : p[i] \in S BY <1>6 DEF l
    <3> QED BY <1>7, <3>1, <3>2
  <2>3. SubSeq(sent', 2, l) = SubSeq(p, 2, l)
    <3> DEFINE a == SubSeq(sent', 2, l)
               b == SubSeq(p, 2, l)
               t == sent'
    <3>a. 2 \in Int /\ l \in Int BY <1>6
    <3>b. \A i \in 2 .. l : t[i] \in S BY <2>2
    <3>c. \A i \in 2 .. l : p[i] \in S BY <2>2
    <3> HIDE DEF t
    <3>1. /\ SubSeq(t, 2, l) \in Seq(S) /\ Len(SubSeq(t, 2, l)) = (IF 2 <= l THEN l - 2 + 1 ELSE 0)
          /\ \A i \in 1 .. l - 2 + 1 : SubSeq(t, 2, l)[i] = t[2 + i - 1]
      BY <3>a, <3>b, SubSeqProperties
    <3>2. /\ SubSeq(p, 2, l) \in Seq(S) /\ Len(SubSeq(p, 2, l)) = (IF 2 <= l THEN l - 2 + 1 ELSE 0)
          /\ \A i \in 1 .. l - 2 + 1 : SubSeq(p, 2, l)[i] = p[2 + i - 1]
      BY <3>a, <3>c, SubSeqProperties
    <3>3. (IF 2 <= l THEN l - 2 + 1 ELSE 0) = l - 2 + 1 BY <1>6
    <3>4. \A i \in 1 .. l - 2 + 1 : 2 + i - 1 \in 2 .. l BY <1>6
    <3>5. \A i \in 2 .. l : t[i] = p[i] BY <2>2 DEF t
    <3>6. SubSeq(t, 2, l) = SubSeq(p, 2, l) BY <3>1, <3>2, <3>3, <3>4, <3>5, SeqEqual
    <3> QED BY <3>6 DEF t
  <2>4. SubSeq(p, 2, l) = Rest(p) BY DEF Rest, l
  <2> QED BY <1>4, <2>1, <2>3, <2>4
<1> HIDE DEF before
<1>9. CallsOf(calls) = calls /\ \A types \in TextTypes : Deltas(calls, types) = <<>> BY OnlyCalls
<1>10. CallsOf(before) = CallsOf(content) \o calls
  <2>1. CallsOf(Told \o calls) = CallsOf(Told) \o CallsOf(calls) BY <1>1, <1>4, CallsBoth
  <2>2. CallsOf(content) = CallsOf(Told) BY DEF FollowedInv
  <2> QED BY <1>8, <1>9, <2>1, <2>2
<1>11. ASSUME NEW types \in {{"text"}, {"thinking"}, {"text", "thinking"}}
       PROVE  Deltas(done.content, types) = Deltas(before, types)
  <2>1. types \in TextTypes BY DEF TextTypes
  <2>2. Deltas(before, types) = Deltas(Told, types) \o Deltas(calls, types) BY <1>1, <1>4, <1>8, <2>1, DeltasBoth
  <2> DEFINE d == Deltas(Told, types)
  <2>3. d \o <<>> = d
    <3>1. d \in Seq(Nat) BY <1>4, <2>1, DeltasThrough
    <3> HIDE DEF d
    <3> QED BY <3>1, ConcatEmptySeq
  <2>4. Deltas(content, types) = d BY DEF FollowedInv
  <2> QED BY <1>9, <2>1, <2>2, <2>3, <2>4
<1>12. provider = "openai" => CallsOf(done.content) = calls
  <2>1. provider = "openai" => CallsOf(content) = <<>> BY DEF FollowedInv
  <2> QED BY <2>1, ConcatEmptySeq
<1>13. provider = "codex" => HasType(wire, "completed") BY FollowedTypes
<1>14. /\ Len(sent') - 1 = l /\ sent'[Len(sent')] = done BY <1>6, <1>7
<1>15. \A n \in 1 .. l : sent'[n].type # "done" /\ sent'[n].type # "error" BY <1>5, <1>7
<1>16. \A n \in 1 .. l + 1 : sent'[n].type # "error"
  <2>1. \A n \in 1 .. l + 1 : n = l + 1 \/ n \in 1 .. l BY <1>6
  <2> QED BY <1>7, <1>15, <2>1
<1>17. ASSUME provider = "openai"
       PROVE  [n \in 1 .. Len(CallsOf(done.content)) |-> CallsOf(done.content)[n].deltas] =
                Select([i \in Indices |-> Fragments(i)], {i \in Indices : Fragments(i) # <<>>})
  <2>1. CallsOf(done.content) = calls BY <1>12, <1>17
  <2> DEFINE c == CallsOf(done.content)
  <2>2. c = calls BY <2>1
  <2> HIDE DEF c
  <2>3. [n \in 1 .. Len(c) |-> c[n].deltas] =
          Select([i \in Indices |-> Fragments(i)], {i \in Indices : Fragments(i) # <<>>})
    BY <1>17, <2>2
  <2> QED BY <2>3 DEF c
<1> DEFINE stillSelected ==
             [n \in 1 .. Len(CallsOf(done.content)) |-> CallsOf(done.content)[n].deltas] =
               Select([i \in Indices |-> Fragments(i)'], {i \in Indices : Fragments(i)' # <<>>})
<1>18. provider = "openai" => stillSelected
  <2>1. \A i \in Indices : Fragments(i)' = Fragments(i) BY FragmentsStay
  <2>2. [i \in Indices |-> Fragments(i)'] = [i \in Indices |-> Fragments(i)]
        /\ {i \in Indices : Fragments(i)' # <<>>} = {i \in Indices : Fragments(i) # <<>>}
    BY <2>1
  <2> QED BY <1>17, <2>2
<1> HIDE DEF stillSelected
<1>19. DoneIsTheReply'
  <2> DEFINE e == sent'[Len(sent')]
             b == SubSeq(sent', 2, Len(sent') - 1)
  <2>1. e = done /\ b = before BY <1>14 DEF before
  <2> DEFINE Reply ==
        /\ \A n \in 1 .. Len(sent') - 1 : sent'[n].type # "done"
        /\ e.type = "done" =>
           /\ \A n \in 1 .. Len(sent') : sent'[n].type # "error"
           /\ \A t \in {"text", "thinking"} : Deltas(e.content, {t}) = Deltas(b, {t})
           /\ CallsOf(e.content) = CallsOf(b)
           /\ provider' # "codex" => Deltas(e.content, {"text", "thinking"}) = Deltas(b, {"text", "thinking"})
           /\ provider' = "openai" =>
                [n \in 1 .. Len(CallsOf(e.content)) |-> CallsOf(e.content)[n].deltas] =
                  Select([i \in Indices |-> Fragments(i)'], {i \in Indices : Fragments(i)' # <<>>})
           /\ provider' = "codex" => \E n \in 1 .. Len(wire') : wire'[n].type = "completed"
           /\ IF CallsOf(b) # <<>> THEN e.stop = "tool_use" ELSE ReportedIn(wire', e.stop)
  <2>2. DoneIsTheReply' = Reply
    <3> DEFINE Fr(i) == Fragments(i)'
    <3> HIDE DEF e, b
    <3> QED BY DEF DoneIsTheReply, Reported, ReportedIn, e, b, Deltas, CallsOf, Select, Indices
  <2>3. IF CallsOf(b) # <<>> THEN e.stop = "tool_use" ELSE ReportedIn(wire, e.stop)
    <3>1. CallsOf(b) = CallsOf(done.content) BY <1>10, <2>1
    <3>2. ReportedIn(wire, finish) BY FollowedTypes
    <3> QED BY <2>1, <3>1, <3>2
  <2>4. CallsOf(e.content) = CallsOf(b) BY <1>10, <2>1
  <2>5. /\ \A n \in 1 .. Len(sent') - 1 : sent'[n].type # "done"
        /\ \A n \in 1 .. Len(sent') : sent'[n].type # "error"
    BY <1>7, <1>14, <1>15, <1>16
  <2>6. /\ \A t \in {"text", "thinking"} : Deltas(e.content, {t}) = Deltas(b, {t})
        /\ Deltas(e.content, {"text", "thinking"}) = Deltas(b, {"text", "thinking"})
    BY <1>11, <2>1
  <2>7. provider = "openai" =>
          [n \in 1 .. Len(CallsOf(e.content)) |-> CallsOf(e.content)[n].deltas] =
            Select([i \in Indices |-> Fragments(i)'], {i \in Indices : Fragments(i)' # <<>>})
    BY <1>18, <2>1 DEF stillSelected
  <2> HIDE DEF e, b
  <2>8. provider = "codex" => \E n \in 1 .. Len(wire) : wire[n].type = "completed" BY <1>13 DEF HasType
  <2> QED BY <2>2, <2>3, <2>4, <2>5, <2>6, <2>7, <2>8
<1> QED BY <1>6, <1>7, <1>19

\* The calls that finalize makes of the fragments.
LEMMA FinalizedCalls ==
  ASSUME StreamTypeOK, FollowedInv
  PROVE  /\ Finalized \in Seq(CallSet) /\ Finalized \in Seq(StreamParts) /\ Finalized \in Seq(StreamEvents)
         /\ Len(Finalized) = Len(Begun) /\ Len(Begun) \in Nat
         /\ [n \in 1 .. Len(Finalized) |-> Finalized[n].deltas] =
              Select([i \in Indices |-> Fragments(i)], {i \in Indices : Fragments(i) # <<>>})
<1> DEFINE P == {i \in Indices : pending[i] # NotBegun}
           max == MaxIndex
           f == [i \in Indices |-> Fragments(i)]
<1>1. max \in Nat BY StreamAssumption
<1>2. /\ pending \in [Indices -> [named : BOOLEAN, deltas : Seq(Nat)]]
      /\ \A i \in Indices : pending[i].deltas = Fragments(i) /\ (pending[i].named => pending[i].deltas # <<>>)
  BY DEF StreamTypeOK, FollowedInv
<1>3. Begun = InOrder(P, max) BY DEF Begun
<1>4. Begun \in Seq(Indices)
  <2> HIDE DEF max, P
  <2>1. /\ InOrder(P, max + 1) = IF max + 1 \in P THEN Append(InOrder(P, max), max + 1) ELSE InOrder(P, max)
        /\ InOrder(P, max) = InOrder(P, max) /\ InOrder(P, max) \in Seq(1 .. max)
    BY <1>1, InOrderMore
  <2> QED BY <1>3, <2>1 DEF Indices, max
<1>5. \A i \in Indices : pending[i] # NotBegun <=> Fragments(i) # <<>>
  <2> TAKE i \in Indices
  <2>1. pending[i] \in [named : BOOLEAN, deltas : Seq(Nat)] BY <1>2
  <2>2. pending[i] = [named |-> pending[i].named, deltas |-> pending[i].deltas] BY <2>1
  <2>3. pending[i].named \in BOOLEAN BY <2>1
  <2> QED BY <1>2, <2>2, <2>3 DEF NotBegun
<1>6. P = {i \in Indices : Fragments(i) # <<>>} BY <1>5
<1>7. \A n \in 1 .. Len(Begun) : Begun[n] \in Indices /\ pending[Begun[n]].deltas = Fragments(Begun[n])
                                 /\ pending[Begun[n]].deltas \in Seq(Nat)
  BY <1>2, <1>4
<1>8. Len(Begun) \in Nat BY <1>4
<1>9. Finalized \in Seq(StreamParts) /\ Len(Finalized) = Len(Begun)
      /\ \A n \in 1 .. Len(Begun) : Finalized[n] = [type |-> "call", deltas |-> pending[Begun[n]].deltas]
  <2>1. \A n \in 1 .. Len(Begun) : [type |-> "call", deltas |-> pending[Begun[n]].deltas] \in StreamParts
    BY <1>7 DEF StreamParts
  <2> QED BY <1>8, <2>1, IsASeq DEF Finalized
<1>10. Finalized \in Seq(CallSet)
  <2>1. \A n \in 1 .. Len(Finalized) : Finalized[n] \in CallSet
    <3> TAKE n \in 1 .. Len(Finalized)
    <3>1. Finalized[n] \in StreamParts BY <1>9
    <3>2. Finalized[n].type = "call"
      <4> DEFINE d == pending[Begun[n]].deltas
                 e == [type |-> "call", deltas |-> d]
      <4>1. n \in 1 .. Len(Begun) BY <1>9
      <4>2. Finalized[n] = e BY <1>9, <4>1
      <4> HIDE DEF d
      <4>3. e.type = "call" OBVIOUS
      <4> HIDE DEF e
      <4> QED BY <4>2, <4>3
    <3> QED BY <3>1, <3>2, PartsAreEvents DEF CallSet
  <2>2. Finalized = [n \in 1 .. Len(Finalized) |-> Finalized[n]] BY <1>9
  <2>3. Len(Finalized) \in Nat BY <1>8, <1>9
  <2> QED BY <2>1, <2>2, <2>3, IsASeq
<1>11. [n \in 1 .. Len(Finalized) |-> Finalized[n].deltas] = [n \in 1 .. Len(Begun) |-> f[Begun[n]]]
  <2>1. ASSUME NEW n \in 1 .. Len(Begun) PROVE Finalized[n].deltas = f[Begun[n]]
    <3> DEFINE b == Begun[n]
               d == pending[b].deltas
               e == [type |-> "call", deltas |-> d]
    <3>1. Finalized[n] = e /\ b \in Indices /\ d = Fragments(b) BY <1>7, <1>9
    <3>2. f[b] = Fragments(b) BY <3>1
    <3> HIDE DEF f, b
    <3>3. e.deltas = d OBVIOUS
    <3> HIDE DEF d, e
    <3> QED BY <3>1, <3>2, <3>3 DEF b
  <2> HIDE DEF f
  <2> QED BY <1>9, <2>1
<1>12. f \in [1 .. max -> Seq(Nat)] BY <1>2 DEF Indices
<1>13. Select(f, P) = [n \in 1 .. Len(Begun) |-> f[Begun[n]]]
  <2> HIDE DEF f, P, max
  <2>1. /\ Select(f, P) = [k \in 1 .. Len(InOrder(P, max)) |-> f[InOrder(P, max)[k]]]
        /\ f \in Seq(Seq(Nat)) /\ Select(f, P) \in Seq(Seq(Nat))
    BY <1>1, <1>12, SelectByNumber
  <2> QED BY <1>3, <2>1
<1> QED BY <1>6, <1>8, <1>9, <1>10, <1>11, <1>13, PartsAreEvents

\* A stream that ends without a message.
LEMMA EndsWithout ==
  ASSUME StreamTypeOK, FollowedInv, NEW events \in Seq(StreamEvents), ~HasType(events, "done"), Ends(events)
  PROVE  StreamInv'
<1>1. sent \in Seq(StreamEvents) /\ Len(sent) > 0 BY DEF StreamTypeOK
<1>2. sent' = sent \o events /\ open' = FALSE /\ UNCHANGED <<provider, wire, content, pending, seen, finish, cancelled>> BY DEF Ends
<1>3. /\ sent' \in Seq(StreamEvents) /\ Len(sent') = Len(sent) + Len(events) /\ Len(sent) \in Nat /\ Len(events) \in Nat
      /\ \A i \in 1 .. Len(sent) + Len(events) : sent'[i] = IF i <= Len(sent) THEN sent[i] ELSE events[i - Len(sent)]
  BY <1>1, <1>2, ConcatProperties
<1>4. ~HasType(sent', "done")
  <2>1. ASSUME NEW i \in 1 .. Len(sent') PROVE sent'[i].type # "done"
    <3>1. CASE i <= Len(sent)
      <4>1. i \in 1 .. Len(sent) /\ sent'[i] = sent[i] BY <1>3, <3>1
      <4>2. ~HasType(sent, "done") BY FollowedTypes
      <4> QED BY <4>1, <4>2 DEF HasType
    <3>2. CASE ~(i <= Len(sent))
      <4>1. i - Len(sent) \in 1 .. Len(events) /\ sent'[i] = events[i - Len(sent)] BY <1>3, <3>2
      <4> QED BY <4>1 DEF HasType
    <3> QED BY <3>1, <3>2
  <2> QED BY <2>1 DEF HasType
<1>5. Len(sent') > 0 BY <1>1, <1>3
<1>6. DoneIsTheReply' BY <1>3, <1>4, <1>5, NoDone
<1>7. Kinds' = Kinds BY <1>2 DEF Kinds, Indices, Reasons
<1> QED BY <1>2, <1>3, <1>5, <1>6, <1>7 DEF StreamInv, StreamTypeOK, Indices

\* A stream that ends with one.
LEMMA EndsWith ==
  ASSUME StreamTypeOK, FollowedInv, NEW calls \in Seq(CallSet), NEW parts \in Seq(StreamParts),
         Ends(calls \o <<DoneWith(parts)>>), ~HasType(sent, "error"),
         CallsOf(parts) = CallsOf(content) \o calls,
         \A types \in TextTypes : Deltas(parts, types) = Deltas(content, types),
         provider = "openai" =>
           [n \in 1 .. Len(calls) |-> calls[n].deltas] =
             Select([i \in Indices |-> Fragments(i)], {i \in Indices : Fragments(i) # <<>>}),
         provider = "codex" => "completed" \in seen
  PROVE  StreamInv'
<1> DEFINE done == DoneWith(parts)
<1>1. sent' = sent \o (calls \o <<done>>) /\ open' = FALSE /\ UNCHANGED <<provider, wire, content, pending, seen, finish, cancelled>>
  BY DEF Ends
<1>2. /\ done.type = "done" /\ done.content = parts /\ done \in StreamEvents
      /\ done.stop = (IF CallsOf(done.content) = <<>> THEN finish ELSE "tool_use")
  BY DEF DoneWith, StreamEvents, StreamTypeOK, Stops
<1>3. sent' = Append(sent \o calls, done)
  <2>1. sent \in Seq(StreamEvents) /\ calls \in Seq(StreamEvents) BY OnlyCalls DEF StreamTypeOK
  <2> HIDE DEF done
  <2> QED BY <1>1, <1>2, <2>1
<1> HIDE DEF done
<1>4. DoneIsTheReply' /\ sent' \in Seq(StreamEvents) /\ Len(sent') > 0 BY <1>1, <1>2, <1>3, Finishes
<1>5. Kinds' = Kinds BY <1>1 DEF Kinds, Indices, Reasons
<1> QED BY <1>1, <1>4, <1>5 DEF StreamInv, StreamTypeOK, Indices

LEMMA ErrorOnly == <<[type |-> "error"]>> \in Seq(StreamEvents) /\ ~HasType(<<[type |-> "error"]>>, "done")
<1> DEFINE e == [type |-> "error"]
<1>1. e \in StreamEvents /\ e.type # "done" BY DEF StreamEvents
<1> HIDE DEF e
<1>2. <<e>> \in Seq(StreamEvents) /\ Len(<<e>>) = 1 /\ <<e>>[1] = e BY <1>1
<1> QED BY <1>1, <1>2 DEF HasType, e

\* The first events of an openai stream's end hold no message.
LEMMA FrontWithout ==
  ASSUME NEW calls \in Seq(CallSet), NEW n \in 0 .. Len(calls)
  PROVE  SubSeq(calls, 1, n) \in Seq(StreamEvents) /\ ~HasType(SubSeq(calls, 1, n), "done") /\ SubSeq(calls, 1, n) \in Seq(CallSet)
<1> DEFINE s == SubSeq(calls, 1, n)
<1>1. s \in Seq(CallSet)
  <2>1. \A i \in 1 .. n : calls[i] \in CallSet OBVIOUS
  <2> QED BY <2>1, SubSeqProperties
<1> HIDE DEF s
<1>2. s \in Seq(StreamEvents) BY <1>1, OnlyCalls
<1>3. \A i \in 1 .. Len(s) : s[i].type = "call"
  <2>1. \A i \in 1 .. Len(s) : s[i] \in CallSet BY <1>1
  <2> QED BY <2>1 DEF CallSet
<1> QED BY <1>1, <1>2, <1>3 DEF HasType, s

\* A kind of event in a concatenation, and in one event.
LEMMA HasTypeBoth ==
  ASSUME NEW p \in Seq(StreamEvents), NEW q \in Seq(StreamEvents), NEW type, ~HasType(p, type), ~HasType(q, type)
  PROVE  ~HasType(p \o q, type) /\ p \o q \in Seq(StreamEvents)
<1>1. /\ p \o q \in Seq(StreamEvents) /\ Len(p \o q) = Len(p) + Len(q) /\ Len(p) \in Nat /\ Len(q) \in Nat
      /\ \A i \in 1 .. Len(p) + Len(q) : (p \o q)[i] = IF i <= Len(p) THEN p[i] ELSE q[i - Len(p)]
  BY ConcatProperties
<1>2. ASSUME NEW i \in 1 .. Len(p \o q) PROVE (p \o q)[i].type # type
  <2>1. CASE i <= Len(p)
    <3>1. i \in 1 .. Len(p) /\ (p \o q)[i] = p[i] BY <1>1, <2>1
    <3> QED BY <3>1 DEF HasType
  <2>2. CASE ~(i <= Len(p))
    <3>1. i - Len(p) \in 1 .. Len(q) /\ (p \o q)[i] = q[i - Len(p)] BY <1>1, <2>2
    <3> QED BY <3>1 DEF HasType
  <2> QED BY <2>1, <2>2
<1> QED BY <1>1, <1>2 DEF HasType

\* The end of a stream whose calls were sent as they came.
LEMMA EndsPlainly ==
  ASSUME StreamTypeOK, FollowedInv, NEW parts \in Seq(StreamParts), Ends(<<DoneWith(parts)>>),
         ~HasType(sent, "error"), CallsOf(parts) = CallsOf(content),
         \A types \in TextTypes : Deltas(parts, types) = Deltas(content, types),
         provider # "openai", provider = "codex" => "completed" \in seen
  PROVE  StreamInv'
<1> DEFINE calls == <<>>
<1>1. calls \in Seq(CallSet) OBVIOUS
<1>2. DoneWith(parts) \in StreamEvents BY DEF DoneWith, StreamEvents, StreamTypeOK, Stops
<1>3. calls \o <<DoneWith(parts)>> = <<DoneWith(parts)>>
  <2> DEFINE d == DoneWith(parts)
  <2> HIDE DEF d
  <2> QED BY <1>2, ConcatEmptySeq DEF d
<1>4. CallsOf(content) \o calls = CallsOf(content)
  <2>1. content \in Seq(StreamEvents) BY PartsAreEvents DEF StreamTypeOK
  <2>2. CallsOf(content) \in Seq(StreamEvents) BY <2>1, TextThenCalls, PartsAreEvents DEF StreamTypeOK
  <2> QED BY <2>2, ConcatEmptySeq
<1>5. Ends(calls \o <<DoneWith(parts)>>) BY <1>3
<1> HIDE DEF calls
<1> QED BY <1>1, <1>4, <1>5, EndsWith

\* The least nameless call: the events before it are calls.
LEMMA LeastNameless ==
  ASSUME StreamTypeOK, FollowedInv, Nameless # {}
  PROVE  (CHOOSE n \in Nameless : \A k \in Nameless : n <= k) \in 1 .. Len(Begun) /\ Len(Begun) \in Nat
<1>1. Len(Begun) \in Nat BY FinalizedCalls
<1>2. Nameless \subseteq Nat /\ Nameless \subseteq 1 .. Len(Begun) BY <1>1 DEF Nameless
<1>3. \E n \in Nameless : \A k \in Nameless : n <= k BY <1>2, LeastIsThere
<1> QED BY <1>1, <1>2, <1>3

\* What Chat Completions sends when it runs to its end, and what it may have sent when it
\* is cancelled before.
LEMMA ChatEnds ==
  ASSUME StreamTypeOK, FollowedInv, provider = "openai", Nameless = {},
         Ends(Finalized \o <<DoneWith(content \o Finalized)>>)
  PROVE  StreamInv'
<1> DEFINE calls == Finalized
           parts == content \o Finalized
<1>1. /\ calls \in Seq(CallSet) /\ calls \in Seq(StreamParts) /\ calls \in Seq(StreamEvents)
      /\ [n \in 1 .. Len(calls) |-> calls[n].deltas] =
              Select([i \in Indices |-> Fragments(i)], {i \in Indices : Fragments(i) # <<>>})
  BY FinalizedCalls
<1>2. content \in Seq(StreamParts) /\ content \in Seq(StreamEvents) BY PartsAreEvents DEF StreamTypeOK
<1> HIDE DEF calls
<1>3. content \o calls \in Seq(StreamParts) BY <1>1, <1>2, ConcatProperties
<1>4. CallsOf(content \o calls) = CallsOf(content) \o calls BY <1>1, <1>2, CallsBoth, OnlyCalls
<1>5. ASSUME NEW types \in TextTypes PROVE Deltas(content \o calls, types) = Deltas(content, types)
  <2>1. Deltas(content \o calls, types) = Deltas(content, types) \o Deltas(calls, types) BY <1>1, <1>2, DeltasBoth
  <2>2. Deltas(calls, types) = <<>> BY <1>1, OnlyCalls
  <2> DEFINE d == Deltas(content, types)
  <2>3. d \in Seq(Nat) BY <1>2, DeltasThrough
  <2>4. d \o <<>> = d
    <3> HIDE DEF d
    <3> QED BY <2>3, ConcatEmptySeq
  <2> QED BY <2>1, <2>2, <2>4
<1>6. ~HasType(sent, "error") BY FollowedTypes
<1>7. parts = content \o calls BY DEF calls
<1> HIDE DEF parts
<1>8. Ends(calls \o <<DoneWith(parts)>>) BY <1>7 DEF calls, parts
<1> QED BY <1>1, <1>3, <1>4, <1>5, <1>6, <1>7, <1>8, EndsWith

LEMMA ChatFails ==
  ASSUME StreamTypeOK, FollowedInv, Nameless # {},
         NEW events, events = SubSeq(Finalized, 1, (CHOOSE n \in Nameless : \A k \in Nameless : n <= k) - 1) \o <<[type |-> "error"]>>
  PROVE  ~HasType(events, "done") /\ events \in Seq(StreamEvents)
<1> DEFINE k == (CHOOSE n \in Nameless : \A m \in Nameless : n <= m) - 1
           calls == Finalized
           front == SubSeq(calls, 1, k)
           error == <<[type |-> "error"]>>
<1>1. k \in 0 .. Len(calls) BY LeastNameless, FinalizedCalls
<1>2. calls \in Seq(CallSet) BY FinalizedCalls
<1> HIDE DEF k, calls
<1>3. front \in Seq(StreamEvents) /\ ~HasType(front, "done") BY <1>1, <1>2, FrontWithout
<1>4. error \in Seq(StreamEvents) /\ ~HasType(error, "done") BY ErrorOnly
<1> HIDE DEF front, error
<1>5. ~HasType(front \o error, "done") /\ front \o error \in Seq(StreamEvents) BY <1>3, <1>4, HasTypeBoth
<1>6. events = front \o error BY DEF front, error, k, calls
<1> QED BY <1>5, <1>6

\* The first events of some.
LEMMA Prefix ==
  ASSUME NEW p \in Seq(StreamEvents), NEW n \in 0 .. Len(p)
  PROVE  /\ SubSeq(p, 1, n) \in Seq(StreamEvents) /\ Len(SubSeq(p, 1, n)) = n
         /\ \A i \in 1 .. n : SubSeq(p, 1, n)[i] = p[i]
<1>1. \A i \in 1 .. n : p[i] \in StreamEvents OBVIOUS
<1>2. /\ SubSeq(p, 1, n) \in Seq(StreamEvents) /\ Len(SubSeq(p, 1, n)) = (IF 1 <= n THEN n - 1 + 1 ELSE 0)
      /\ \A i \in 1 .. n - 1 + 1 : SubSeq(p, 1, n)[i] = p[1 + i - 1]
  BY <1>1, SubSeqProperties
<1>3. n \in Nat /\ (IF 1 <= n THEN n - 1 + 1 ELSE 0) = n /\ n - 1 + 1 = n /\ \A i \in 1 .. n : 1 + i - 1 = i OBVIOUS
<1> DEFINE s == SubSeq(p, 1, n)
<1> HIDE DEF s
<1> QED BY <1>2, <1>3 DEF s

LEMMA PrefixWithout ==
  ASSUME NEW p \in Seq(StreamEvents), NEW n \in 0 .. Len(p), NEW type, \A i \in 1 .. n : p[i].type # type
  PROVE  SubSeq(p, 1, n) \in Seq(StreamEvents) /\ ~HasType(SubSeq(p, 1, n), type)
<1> DEFINE s == SubSeq(p, 1, n)
<1>1. s \in Seq(StreamEvents) /\ Len(s) = n /\ \A i \in 1 .. n : s[i] = p[i] BY Prefix
<1> HIDE DEF s
<1> QED BY <1>1 DEF HasType, s

\* Chat Completions, cancelled at any of its last events.
LEMMA ChatCancels ==
  ASSUME StreamTypeOK, FollowedInv, provider = "openai", NEW n \in 0 .. Len(Closing), Ends(SubSeq(Closing, 1, n))
  PROVE  StreamInv'
<1>1. CASE Nameless = {}
  <2> DEFINE calls == Finalized
             done == DoneWith(content \o Finalized)
             c == Append(calls, done)
  <2>1. calls \in Seq(CallSet) /\ calls \in Seq(StreamEvents) /\ content \in Seq(StreamParts) /\ calls \in Seq(StreamParts)
    BY FinalizedCalls DEF StreamTypeOK
  <2>2. done \in StreamEvents
    <3>1. content \o Finalized \in Seq(StreamParts) BY <2>1, ConcatProperties
    <3> QED BY <3>1 DEF DoneWith, StreamEvents, StreamTypeOK, Stops
  <2>3. Closing = Finalized \o <<DoneWith(content \o Finalized)>> BY <1>1 DEF Closing
  <2> HIDE DEF calls, done
  <2>4. Closing = c BY <2>1, <2>2, <2>3 DEF calls, done
  <2>5. /\ c \in Seq(StreamEvents) /\ Len(c) = Len(calls) + 1 /\ Len(calls) \in Nat
        /\ \A i \in 1 .. Len(calls) : c[i] = calls[i]
    BY <2>1, <2>2, AppendProperties
  <2> HIDE DEF c
  <2>6. CASE n = Len(c)
    <3>1. SubSeq(c, 1, Len(c)) \in Seq(StreamEvents) /\ Len(SubSeq(c, 1, Len(c))) = Len(c)
          /\ \A i \in 1 .. Len(c) : SubSeq(c, 1, Len(c))[i] = c[i]
      <4> DEFINE k == Len(c)
      <4>1. k \in 0 .. Len(c) BY <2>5
      <4> HIDE DEF k
      <4>2. SubSeq(c, 1, k) \in Seq(StreamEvents) /\ Len(SubSeq(c, 1, k)) = k /\ \A i \in 1 .. k : SubSeq(c, 1, k)[i] = c[i]
        BY <2>5, <4>1, Prefix
      <4> QED BY <4>2 DEF k
    <3> DEFINE s == SubSeq(c, 1, Len(c))
    <3>2. s = c
      <4>1. s \in Seq(StreamEvents) /\ Len(s) = Len(c) /\ \A i \in 1 .. Len(c) : s[i] = c[i] BY <3>1
      <4> HIDE DEF s
      <4> QED BY <2>5, <4>1, SeqEqual
    <3>3. Ends(c) BY <2>4, <2>6, <3>2
    <3>4. Ends(Finalized \o <<DoneWith(content \o Finalized)>>) BY <2>3, <2>4, <3>3
    <3> QED BY <1>1, <3>4, ChatEnds
  <2>7. CASE n # Len(c)
    <3>1. n \in 0 .. Len(calls) /\ n \in 0 .. Len(c) BY <2>4, <2>5, <2>7
    <3>2. \A i \in 1 .. n : c[i].type # "done"
      <4> TAKE i \in 1 .. n
      <4>1. i \in 1 .. Len(calls) BY <2>5, <3>1
      <4>2. c[i] = calls[i] /\ calls[i] \in CallSet BY <2>1, <2>5, <4>1
      <4> QED BY <4>2 DEF CallSet
    <3>3. SubSeq(c, 1, n) \in Seq(StreamEvents) /\ ~HasType(SubSeq(c, 1, n), "done") BY <2>5, <3>1, <3>2, PrefixWithout
    <3>4. Ends(SubSeq(c, 1, n)) BY <2>4
    <3> QED BY <3>3, <3>4, EndsWithout
  <2> QED BY <2>6, <2>7
<1>2. CASE Nameless # {}
  <2> DEFINE c == Closing
  <2>1. c = SubSeq(Finalized, 1, (CHOOSE i \in Nameless : \A k \in Nameless : i <= k) - 1) \o <<[type |-> "error"]>>
    BY <1>2 DEF Closing
  <2>2. ~HasType(c, "done") /\ c \in Seq(StreamEvents) BY <1>2, <2>1, ChatFails
  <2>3. Ends(SubSeq(c, 1, n)) /\ n \in 0 .. Len(c) OBVIOUS
  <2> HIDE DEF c
  <2>4. \A i \in 1 .. n : c[i].type # "done"
    <3>1. \A i \in 1 .. n : i \in 1 .. Len(c) BY <2>2, <2>3
    <3> QED BY <2>2, <3>1 DEF HasType
  <2>5. SubSeq(c, 1, n) \in Seq(StreamEvents) /\ ~HasType(SubSeq(c, 1, n), "done") BY <2>2, <2>3, <2>4, PrefixWithout
  <2> QED BY <2>3, <2>5, EndsWithout
<1> QED BY <1>1, <1>2

\* Nothing more is told.
LEMMA NothingMore == <<>> \in Seq(StreamEvents) /\ ~HasType(<<>>, "done")
BY DEF HasType

\* The steps that end a stream.
LEMMA EndingStep ==
  ASSUME StreamInv, EndOfStream \/ ReadFails \/ Cancels
  PROVE  StreamInv'
<1>1. open /\ StreamTypeOK /\ FollowedInv BY DEF StreamInv, EndOfStream, ReadFails, Cancels
<1>2. provider \in {"openai", "gemini", "codex"} /\ content \in Seq(StreamParts) BY <1>1 DEF StreamTypeOK
<1>3. HasType(sent, "error") => provider = "codex" /\ "failed" \in seen BY <1>1, FollowedTypes
<1>4. CASE EndOfStream
  <2>1. Ends(Closing) BY <1>4 DEF EndOfStream
  <2>2. CASE provider = "gemini"
    <3>1. Ends(<<DoneWith(content)>>) BY <2>1, <2>2 DEF Closing
    <3> QED BY <1>1, <1>2, <1>3, <2>2, <3>1, EndsPlainly
  <2>3. CASE provider = "openai" /\ Nameless = {}
    <3>1. Ends(Finalized \o <<DoneWith(content \o Finalized)>>) BY <2>1, <2>3 DEF Closing
    <3> QED BY <1>1, <2>3, <3>1, ChatEnds
  <2>4. CASE provider = "openai" /\ Nameless # {}
    <3>1. Closing = SubSeq(Finalized, 1, (CHOOSE n \in Nameless : \A k \in Nameless : n <= k) - 1) \o <<[type |-> "error"]>>
      BY <2>4 DEF Closing
    <3>2. ~HasType(Closing, "done") /\ Closing \in Seq(StreamEvents) BY <1>1, <2>4, <3>1, ChatFails
    <3> QED BY <1>1, <2>1, <3>2, EndsWithout
  <2>5. CASE provider = "codex" /\ "failed" \in seen
    <3>1. Ends(<<>>) BY <2>1, <2>5 DEF Closing
    <3> QED BY <1>1, <3>1, NothingMore, EndsWithout
  <2>6. CASE provider = "codex" /\ "failed" \notin seen /\ "completed" \in seen
    <3>0. seen = {"completed"} BY <1>1, <2>6 DEF StreamTypeOK
    <3>1. Ends(<<DoneWith(TextOf(content) \o CallsOf(content))>>) BY <2>1, <2>6, <3>0 DEF Closing
    <3> DEFINE parts == TextOf(content) \o CallsOf(content)
    <3>2. /\ TextOf(content) \in Seq(StreamParts) /\ CallsOf(content) \in Seq(StreamParts)
          /\ CallsOf(parts) = CallsOf(content)
          /\ \A types \in TextTypes : Deltas(parts, types) = Deltas(content, types)
      BY <1>2, TextThenCalls
    <3>3. parts \in Seq(StreamParts) BY <3>2, ConcatProperties
    <3>4. Ends(<<DoneWith(parts)>>) BY <3>1
    <3> HIDE DEF parts
    <3> QED BY <1>1, <1>3, <2>6, <3>2, <3>3, <3>4, EndsPlainly
  <2>7. CASE provider = "codex" /\ "failed" \notin seen /\ "completed" \notin seen
    <3>0. seen # {"completed"} BY <2>7
    <3>1. Ends(<<[type |-> "error"]>>) BY <2>1, <2>7, <3>0 DEF Closing
    <3> QED BY <1>1, <3>1, ErrorOnly, EndsWithout
  <2> QED BY <1>2, <2>2, <2>3, <2>4, <2>5, <2>6, <2>7
<1>5. CASE ReadFails
  <2>1. Ends(<<[type |-> "error"]>>) BY <1>5 DEF ReadFails
  <2> QED BY <1>1, <2>1, ErrorOnly, EndsWithout
<1>6. CASE Cancels
  <2>1. PICK n \in 0 .. Len(Closing) : Ends(IF provider = "openai" THEN SubSeq(Closing, 1, n) ELSE <<>>)
    BY <1>6 DEF Cancels
  <2>2. CASE provider = "openai"
    <3>1. Ends(SubSeq(Closing, 1, n)) BY <2>1, <2>2
    <3> QED BY <1>1, <2>2, <3>1, ChatCancels
  <2>3. CASE provider # "openai"
    <3>1. Ends(<<>>) BY <2>1, <2>3
    <3> QED BY <1>1, <3>1, NothingMore, EndsWithout
  <2> QED BY <2>2, <2>3
<1> QED BY <1>4, <1>5, <1>6

\* The start.
LEMMA StreamStarts == StreamInit => StreamInv
<1> SUFFICES ASSUME StreamInit PROVE StreamInv OBVIOUS
<1> DEFINE start == [type |-> "start"]
<1>1. start \in StreamEvents /\ start.type = "start" BY DEF StreamEvents
<1>2. sent = <<start>> /\ wire = <<>> /\ content = <<>> /\ seen = {} /\ finish = "stop" /\ cancelled = FALSE /\ open = TRUE
      /\ provider \in {"openai", "gemini", "codex"}
  BY DEF StreamInit
<1> HIDE DEF start
<1>3. sent \in Seq(StreamEvents) /\ Len(sent) = 1 /\ sent[1] = start BY <1>1, <1>2
<1>4. Told = <<>> BY <1>3 DEF Told
<1>5. \A i \in Indices : pending[i] = NotBegun BY DEF StreamInit
<1>6. NotBegun \in [named : BOOLEAN, deltas : Seq(Nat)] /\ ~NotBegun.named /\ NotBegun.deltas = <<>> BY DEF NotBegun
<1>7. pending \in [Indices -> [named : BOOLEAN, deltas : Seq(Nat)]]
  <2>1. pending = [i \in Indices |-> NotBegun] BY DEF StreamInit
  <2> QED BY <1>6, <2>1
<1>8. StreamTypeOK
  <2>1. wire \in Seq(Kinds) /\ content \in Seq(StreamParts) BY <1>2
  <2>2. seen \subseteq {"completed", "failed"} /\ finish \in Stops /\ {cancelled, open} \subseteq BOOLEAN
    BY <1>2 DEF Stops
  <2>3. sent \in Seq(StreamEvents) /\ Len(sent) > 0 BY <1>3
  <2> QED BY <1>2, <1>7, <2>1, <2>2, <2>3, Zenon DEF StreamTypeOK
<1>9. \A i \in Indices : Fragments(i) = <<>>
  <2> TAKE i \in Indices
  <2>1. Len(wire) = 0 BY <1>2
  <2> QED BY <2>1, InOrderNone DEF Fragments
<1>10. FollowedInv
  <2>1. \A n \in 1 .. Len(sent) : sent[n].type # "done" /\ sent[n].type # "error" BY <1>1, <1>3
  <2>2. \A types \in {{"text"}, {"thinking"}, {"text", "thinking"}} : Deltas(content, types) = Deltas(Told, types)
    BY <1>2, <1>4
  <2>3. CallsOf(content) = <<>> /\ CallsOf(Told) = <<>> BY <1>2, <1>4, CallsNone
  <2>4. \A i \in Indices : pending[i].deltas = Fragments(i) /\ (pending[i].named => pending[i].deltas # <<>>)
    BY <1>5, <1>6, <1>9
  <2>5. Reported(finish)
    <3>1. finish = "stop" /\ \A n \in 1 .. Len(wire) : wire[n].type # "finish" BY <1>2
    <3> QED BY <3>1 DEF Reported
  <2> QED BY <1>2, <2>1, <2>2, <2>3, <2>4, <2>5 DEF FollowedInv
<1>11. DoneIsTheReply
  <2>1. sent[Len(sent)].type # "done" BY <1>1, <1>3
  <2>2. \A n \in 1 .. Len(sent) - 1 : sent[n].type # "done" BY <1>3
  <2> QED BY <2>1, <2>2 DEF DoneIsTheReply
<1> QED BY <1>8, <1>10, <1>11 DEF StreamInv

\* A step that leaves the stream as it is, or only ends its context.
LEMMA StreamStays ==
  ASSUME StreamInv, UNCHANGED <<provider, wire, content, pending, seen, finish, sent, open>>, cancelled' \in BOOLEAN
  PROVE  StreamInv'
<1>1. /\ provider' = provider /\ wire' = wire /\ content' = content /\ pending' = pending
      /\ seen' = seen /\ finish' = finish /\ sent' = sent /\ open' = open
  OBVIOUS
<1>2. \A i : Fragments(i)' = Fragments(i) BY <1>1, FragmentsStay
<1>3. \A parts : CallsOf(parts)' = CallsOf(parts) /\ \A types : Deltas(parts, types)' = Deltas(parts, types)
  BY DEF CallsOf, Deltas, Select
<1>4. StreamTypeOK'
  <2>1. Kinds' = Kinds BY <1>1 DEF Kinds, Indices, Reasons
  <2> QED BY <1>1, <2>1 DEF StreamInv, StreamTypeOK, Indices
<1>5. DoneIsTheReply'
  <2> DEFINE In(numbers, max) == Select([i \in 1 .. max |-> i], numbers)
             Of(w, i) == In({n \in 1 .. Len(w) : w[n].type = "fragment" /\ w[n].index = i}, Len(w))
             Reply(s, w, p) ==
               /\ \A n \in 1 .. Len(s) - 1 : s[n].type # "done"
               /\ s[Len(s)].type = "done" =>
                    /\ \A n \in 1 .. Len(s) : s[n].type # "error"
                    /\ \A t \in {"text", "thinking"} : Deltas(s[Len(s)].content, {t}) = Deltas(SubSeq(s, 2, Len(s) - 1), {t})
                    /\ CallsOf(s[Len(s)].content) = CallsOf(SubSeq(s, 2, Len(s) - 1))
                    /\ p # "codex" => Deltas(s[Len(s)].content, {"text", "thinking"}) = Deltas(SubSeq(s, 2, Len(s) - 1), {"text", "thinking"})
                    /\ p = "openai" =>
                         [n \in 1 .. Len(CallsOf(s[Len(s)].content)) |-> CallsOf(s[Len(s)].content)[n].deltas] =
                           Select([i \in Indices |-> Of(w, i)], {i \in Indices : Of(w, i) # <<>>})
                    /\ p = "codex" => \E n \in 1 .. Len(w) : w[n].type = "completed"
                    /\ IF CallsOf(SubSeq(s, 2, Len(s) - 1)) # <<>> THEN s[Len(s)].stop = "tool_use"
                       ELSE ReportedIn(w, s[Len(s)].stop)
  <2>1. DoneIsTheReply <=> Reply(sent, wire, provider) BY DEF DoneIsTheReply, Fragments, InOrder, Reported, ReportedIn, HasType
  <2>2. DoneIsTheReply' <=> Reply(sent', wire', provider')
    BY DEF DoneIsTheReply, Fragments, InOrder, Reported, ReportedIn, CallsOf, Deltas, FlattenSeq, Select, Indices
  <2> HIDE DEF Reply, Of, In
  <2> QED BY <1>1, <2>1, <2>2 DEF StreamInv
<1>6. open' => FollowedInv'
  <2> SUFFICES ASSUME open PROVE FollowedInv' BY <1>1
  <2>1. Told' = Told BY <1>1 DEF Told
  <2>2. FollowedInv BY DEF StreamInv
  <2>3. /\ ~HasType(sent', "done") /\ (HasType(sent', "error") => provider' = "codex" /\ "failed" \in seen')
        /\ ("completed" \in seen' => HasType(wire', "completed")) /\ ReportedIn(wire', finish')
    BY <1>1, <2>2, FollowedTypes
  <2>4. /\ \A types \in {{"text"}, {"thinking"}, {"text", "thinking"}} : Deltas(content', types) = Deltas(Told', types)
        /\ CallsOf(content') = CallsOf(Told') /\ (provider' = "openai" => CallsOf(content') = <<>>)
        /\ \A i \in Indices : pending'[i].deltas = Fragments(i)' /\ (pending'[i].named => pending'[i].deltas # <<>>)
    BY <1>1, <1>2, <2>1, <2>2 DEF FollowedInv
  <2> QED BY <2>3, <2>4, FollowedAgain
<1> QED BY <1>4, <1>5, <1>6 DEF StreamInv

LEMMA StreamSteps == StreamInv /\ [StreamNext]_streamVars => StreamInv'
<1> SUFFICES ASSUME StreamInv, [StreamNext]_streamVars PROVE StreamInv' OBVIOUS
<1>1. ASSUME NEW f \in Kinds, Frame(f) PROVE StreamInv' BY <1>1, FrameStep
<1>2. CASE EndOfStream \/ ReadFails \/ Cancels BY <1>2, EndingStep
<1>3. CASE Cancel BY <1>3, StreamStays DEF Cancel
<1>4. CASE UNCHANGED streamVars BY <1>4, StreamStays DEF streamVars, StreamInv, StreamTypeOK
<1> QED BY <1>1, <1>2, <1>3, <1>4 DEF StreamNext

\* What is known of a stream at any point, of any number of frames and indices.
THEOREM StreamInductive == StreamSpec => []StreamInv
<1>1. StreamInit => StreamInv BY StreamStarts
<1>2. StreamInv /\ [StreamNext]_streamVars => StreamInv' BY StreamSteps
<1> QED BY <1>1, <1>2, PTL DEF StreamSpec

\* The final message of a stream is the stream.
THEOREM DoneStaysTheReply == StreamSpec => []DoneIsTheReply
<1>1. StreamInv => DoneIsTheReply BY DEF StreamInv
<1> QED BY <1>1, StreamInductive, PTL

-----------------------------------------------------------------------------
(* History: what a compaction leaves. *)

\* The words of messages are summed from the front.
Sums(h, m) ==
  /\ h \in [0 .. Len(m) -> Nat] /\ h[0] = 0
  /\ \A i \in 1 .. Len(m) : h[i] = h[i - 1] + m[i].words
  /\ Words(m) = h[Len(m)]

LEMMA MessageTyped ==
  ASSUME NEW x \in Messages
  PROVE  /\ x.role \in {"user", "assistant", "tool"} /\ x.words \in Nat /\ x.words > 0 /\ x.ledger \in SUBSET Touches
         /\ x.calls \in Seq([id : Pool, touch : Touches]) /\ x.of \in Pool \cup {NoId}
<1>1. x.role \in {"user", "assistant", "tool"} BY DEF Messages
<1>2. x.words \in Nat \ {0} BY DEF Messages
<1>3. x.ledger \in SUBSET Touches BY DEF Messages
<1>4. x.calls \in Seq([id : Pool, touch : Touches]) BY DEF Messages
<1>5. x.of \in Pool \cup {NoId} BY DEF Messages
<1> QED BY <1>1, <1>2, <1>3, <1>4, <1>5

LEMMA WordsSum == ASSUME NEW m \in Seq(Messages) PROVE \E h : Sums(h, m)
<1> DEFINE n == Len(m)
           G == [i \in 1 .. n |-> [x \in Nat |-> x + m[i].words]]
<1>1. n \in Nat /\ \A i \in 1 .. n : m[i].words \in Nat
  <2>1. \A i \in 1 .. n : m[i] \in Messages OBVIOUS
  <2> QED BY <2>1, MessageTyped
<1> HIDE DEF n
<1>2. G \in Steps(n, Nat)
  <2>1. \A i \in 1 .. n, x \in Nat : x + m[i].words \in Nat BY <1>1
  <2> QED BY <2>1 DEF Steps
<1>3. PICK h : Computes(h, n, Nat, 0, G)
  <2> DEFINE zero == 0
  <2>1. zero \in Nat OBVIOUS
  <2> HIDE DEF G, zero
  <2>2. \E h : Computes(h, n, Nat, zero, G) BY <1>1, <1>2, <2>1, Iterates
  <2> QED BY <2>2 DEF zero
<1>4. h \in [0 .. n -> Nat] /\ h[0] = 0 /\ \A i \in 1 .. n : h[i] = G[i][h[i - 1]] BY <1>3 DEF Computes
<1>5. \A i \in 1 .. n : h[i - 1] \in Nat BY <1>1, <1>4
<1>6. \A i \in 1 .. n : h[i] = h[i - 1] + m[i].words BY <1>4, <1>5
<1> DEFINE up == CHOOSE g : g = [k \in 0 .. n |-> IF k = 0 THEN 0 ELSE g[k - 1] + m[k].words]
<1>7. Words(m) = up[n] BY DEF Words, n
<1>8. up = [k \in 0 .. n |-> IF k = 0 THEN 0 ELSE up[k - 1] + m[k].words]
  <2>1. h = [k \in 0 .. n |-> IF k = 0 THEN 0 ELSE h[k - 1] + m[k].words]
    <3>1. h = [k \in 0 .. n |-> h[k]] BY <1>4
    <3>2. \A k \in 0 .. n : h[k] = IF k = 0 THEN 0 ELSE h[k - 1] + m[k].words
      <4>1. \A k \in 0 .. n : k = 0 \/ k \in 1 .. n BY <1>1
      <4> QED BY <1>4, <1>6, <4>1
    <3> QED BY <3>1, <3>2
  <2> QED BY <2>1
<1> HIDE DEF up
<1> DEFINE Good == {i \in 0 .. n : up[i] = h[i]}
<1>9. 0 \in Good BY <1>1, <1>4, <1>8
<1>10. \A i \in 1 .. n : i - 1 \in Good => i \in Good
  <2>1. ASSUME NEW i \in 1 .. n, i - 1 \in Good PROVE up[i] = h[i]
    <3>0. i \in 0 .. n /\ i # 0 BY <1>1
    <3>1. up[i] = IF i = 0 THEN 0 ELSE up[i - 1] + m[i].words BY <1>8, <3>0, Zenon
    <3>2. h[i] = h[i - 1] + m[i].words BY <1>6
    <3> QED BY <2>1, <3>0, <3>1, <3>2
  <2> QED BY <1>1, <2>1
<1>11. n \in Good
  <2> HIDE DEF Good
  <2>1. \A i \in 0 .. n : i \in Good BY <1>1, <1>9, <1>10, UpTo
  <2> QED BY <1>1, <2>1
<1> QED BY <1>4, <1>6, <1>7, <1>11 DEF n, Sums

LEMMA WordsNone == Words(<<>>) = 0
<1>1. <<>> \in Seq(Messages) /\ Len(<<>>) = 0 OBVIOUS
<1>2. PICK h : Sums(h, <<>>) BY <1>1, WordsSum
<1> QED BY <1>1, <1>2 DEF Sums

LEMMA WordsMore ==
  ASSUME NEW m \in Seq(Messages), NEW x \in Messages
  PROVE  Words(Append(m, x)) = Words(m) + x.words /\ Words(m) \in Nat
<1> DEFINE n == Len(m)
           a == Append(m, x)
<1>1. n \in Nat /\ a \in Seq(Messages) /\ Len(a) = n + 1 /\ a[n + 1] = x /\ \A i \in 1 .. n : a[i] = m[i] OBVIOUS
<1>2. PICK h : Sums(h, m) BY WordsSum
<1> HIDE DEF a
<1>3. PICK g : Sums(g, a) BY <1>1, WordsSum
<1> HIDE DEF n
<1>4. h \in [0 .. n -> Nat] /\ h[0] = 0 /\ Words(m) = h[n] /\ \A i \in 1 .. n : h[i] = h[i - 1] + m[i].words
  BY <1>2 DEF Sums, n
<1>5. g[0] = 0 /\ Words(a) = g[n + 1] /\ \A i \in 1 .. n + 1 : g[i] = g[i - 1] + a[i].words BY <1>1, <1>3 DEF Sums
<1> DEFINE Good == {i \in 0 .. n : g[i] = h[i]}
<1>6. 0 \in Good BY <1>1, <1>4, <1>5
<1>7. ASSUME NEW i \in 1 .. n, i - 1 \in Good PROVE i \in Good
  <2>1. g[i - 1] = h[i - 1] /\ a[i] = m[i] /\ i \in 1 .. n + 1 /\ i \in 0 .. n BY <1>1, <1>7
  <2>2. g[i] = h[i] BY <1>4, <1>5, <2>1
  <2> QED BY <2>1, <2>2
<1>8. n \in Good
  <2> HIDE DEF Good
  <2>1. \A i \in 0 .. n : i \in Good BY <1>1, <1>6, <1>7, UpTo
  <2> QED BY <1>1, <2>1
<1>9. g[n] = h[n] BY <1>8
<1>10. n + 1 \in 1 .. n + 1 /\ (n + 1) - 1 = n BY <1>1
<1>11. g[n + 1] = g[(n + 1) - 1] + a[n + 1].words BY <1>5, <1>10
<1>12. g[n + 1] = g[n] + x.words BY <1>1, <1>10, <1>11
<1>13. h[n] \in Nat BY <1>1, <1>4
<1> QED BY <1>4, <1>5, <1>9, <1>12, <1>13 DEF a

\* Words of two parts; a part has at least a word per message.
LEMMA WordsBoth ==
  ASSUME NEW m \in Seq(Messages), NEW s \in Seq(Messages)
  PROVE  /\ Words(m \o s) = Words(m) + Words(s) /\ Words(m) \in Nat /\ Words(s) \in Nat /\ Words(s) >= Len(s)
         /\ m \o s \in Seq(Messages)
<1> DEFINE Fit(c) == Words(m \o c) = Words(m) + Words(c) /\ Words(m) \in Nat /\ Words(c) \in Nat /\ Words(c) >= Len(c)
           Good == {c \in Seq(Messages) : Fit(c)}
<1>1. <<>> \in Good
  <2>1. m \o <<>> = m BY ConcatEmptySeq
  <2>2. \E x : x \in Messages \/ Messages = {} OBVIOUS
  <2>3. Words(m) \in Nat
    <3>1. PICK h : Sums(h, m) BY WordsSum
    <3> QED BY <3>1 DEF Sums
  <2>4. Words(<<>>) = 0 /\ Len(<<>>) = 0 /\ <<>> \in Seq(Messages) BY WordsNone
  <2> HIDE DEF Fit
  <2>5. Fit(<<>>) BY <2>1, <2>3, <2>4 DEF Fit
  <2> QED BY <2>4, <2>5
<1>2. ASSUME NEW c \in Seq(Messages), NEW x \in Messages, c \in Good PROVE Append(c, x) \in Good
  <2>1. Fit(c) BY <1>2
  <2>2. m \o Append(c, x) = Append(m \o c, x) /\ m \o c \in Seq(Messages) OBVIOUS
  <2> DEFINE mc == m \o c
  <2>3. mc \in Seq(Messages) /\ m \o Append(c, x) = Append(mc, x) BY <2>2
  <2> HIDE DEF mc
  <2>4. Words(Append(mc, x)) = Words(mc) + x.words /\ Words(mc) \in Nat BY <2>3, WordsMore
  <2>5. Words(Append(c, x)) = Words(c) + x.words /\ Words(c) \in Nat BY WordsMore
  <2>6. x.words \in Nat /\ x.words > 0 BY MessageTyped
  <2>7. Append(c, x) \in Seq(Messages) /\ Len(Append(c, x)) = Len(c) + 1 /\ Len(c) \in Nat OBVIOUS
  <2>8. Words(m \o Append(c, x)) = Words(m) + Words(Append(c, x)) BY <2>1, <2>3, <2>4, <2>5, <2>6 DEF mc
  <2>9. Fit(Append(c, x)) BY <2>1, <2>5, <2>6, <2>7, <2>8
  <2> HIDE DEF Fit
  <2> QED BY <2>7, <2>9
<1>3. \A c \in Seq(Messages) : c \in Good
  <2> HIDE DEF Good
  <2> QED BY <1>1, <1>2, SeqInduction
<1> QED BY <1>3, ConcatProperties

\* A message that thinks nothing is one at any model.
LEMMA MessageOf ==
  ASSUME NEW r \in {"user", "assistant", "tool"}, NEW c \in Seq([id : Pool, touch : Touches]), NEW o \in Pool \cup {NoId},
         NEW s \in BOOLEAN, NEW t \in BOOLEAN, NEW w \in Nat \ {0}, NEW l \in SUBSET Touches, model \in Models
  PROVE  Message(r, c, o, s, t, w, l) \in Messages
BY DEF Message, Messages

LEMMA MarkerTyped ==
  ASSUME NEW w \in Nat \ {0}, NEW l \in SUBSET Touches, model \in Models
  PROVE  /\ Marker(w, l) \in Messages /\ Marker(w, l).ledger = l /\ Marker(w, l).role = "assistant"
         /\ Marker(w, l).words = w /\ Marker(w, l).calls = <<>> /\ Marker(w, l).says
<1>1. <<>> \in Seq([id : Pool, touch : Touches]) OBVIOUS
<1>2. Marker(w, l) \in Messages BY <1>1, MessageOf DEF Marker
<1> QED BY <1>2 DEF Marker, Message

\* The ledger of two parts is that of one and that of the other.
LEMMA LedgerOf == ASSUME NEW m, NEW t PROVE t \in Ledger(m) <=> \E k \in DOMAIN m : t \in TouchedBy(m[k])
BY DEF Ledger, ToSet

LEMMA LedgerBoth ==
  ASSUME NEW m \in Seq(Messages), NEW s \in Seq(Messages)
  PROVE  Ledger(m \o s) = Ledger(m) \cup Ledger(s)
<1> DEFINE b == m \o s
<1>1. /\ Len(m) \in Nat /\ Len(s) \in Nat /\ DOMAIN m = 1 .. Len(m) /\ DOMAIN s = 1 .. Len(s)
      /\ DOMAIN b = 1 .. Len(m) + Len(s)
      /\ \A k \in 1 .. Len(m) : b[k] = m[k]
      /\ \A k \in 1 .. Len(s) : b[Len(m) + k] = s[k]
  OBVIOUS
<1> HIDE DEF b
<1>2. \A k \in 1 .. Len(m) + Len(s) : k \in 1 .. Len(m) \/ \E i \in 1 .. Len(s) : k = Len(m) + i
  <2>1. ASSUME NEW k \in 1 .. Len(m) + Len(s), k \notin 1 .. Len(m)
        PROVE  k - Len(m) \in 1 .. Len(s) /\ k = Len(m) + (k - Len(m))
    BY <1>1, <2>1
  <2> QED BY <2>1
<1>3. \A k \in 1 .. Len(m) : k \in 1 .. Len(m) + Len(s) BY <1>1
<1>4. \A k \in 1 .. Len(s) : Len(m) + k \in 1 .. Len(m) + Len(s) BY <1>1
<1>5. ASSUME NEW t PROVE t \in Ledger(b) <=> t \in Ledger(m) \/ t \in Ledger(s)
  <2>1. t \in Ledger(b) <=> \E k \in 1 .. Len(m) + Len(s) : t \in TouchedBy(b[k]) BY <1>1, LedgerOf
  <2>2. t \in Ledger(m) <=> \E k \in 1 .. Len(m) : t \in TouchedBy(m[k]) BY <1>1, LedgerOf
  <2>3. t \in Ledger(s) <=> \E k \in 1 .. Len(s) : t \in TouchedBy(s[k]) BY <1>1, LedgerOf
  <2>4. ASSUME t \in Ledger(b) PROVE t \in Ledger(m) \/ t \in Ledger(s)
    <3>1. PICK k \in 1 .. Len(m) + Len(s) : t \in TouchedBy(b[k]) BY <2>1, <2>4
    <3>2. CASE k \in 1 .. Len(m) BY <1>1, <2>2, <3>1, <3>2
    <3>3. CASE \E i \in 1 .. Len(s) : k = Len(m) + i BY <1>1, <2>3, <3>1, <3>3
    <3> QED BY <1>2, <3>2, <3>3
  <2>5. ASSUME t \in Ledger(m) PROVE t \in Ledger(b) BY <1>1, <1>3, <2>1, <2>2, <2>5
  <2>6. ASSUME t \in Ledger(s) PROVE t \in Ledger(b) BY <1>1, <1>4, <2>1, <2>3, <2>6
  <2> QED BY <2>4, <2>5, <2>6
<1> QED BY <1>5 DEF b

LEMMA LedgerTyped ==
  ASSUME NEW m \in Seq(Messages)
  PROVE  Ledger(m) \in SUBSET Touches /\ Cardinality(Ledger(m)) \in Nat
<1>1. ASSUME NEW k \in DOMAIN m PROVE TouchedBy(m[k]) \in SUBSET Touches
  <2>1. m[k] \in Messages BY <1>1
  <2>2. m[k].ledger \in SUBSET Touches /\ m[k].calls \in Seq([id : Pool, touch : Touches]) BY <2>1, MessageTyped
  <2> DEFINE c == m[k].calls
             C == [id : Pool, touch : Touches]
  <2>3. \A i \in DOMAIN m[k].calls : m[k].calls[i] \in [id : Pool, touch : Touches]
    <3>1. c \in Seq(C) BY <2>2
    <3> HIDE DEF c, C
    <3>2. \A i \in DOMAIN c : c[i] \in C BY <3>1
    <3> QED BY <3>2 DEF c, C
  <2>4. \A i \in DOMAIN m[k].calls : m[k].calls[i].touch \in Touches BY <2>3
  <2> QED BY <2>2, <2>4 DEF TouchedBy
<1>2. Ledger(m) \in SUBSET Touches BY <1>1, LedgerOf
<1>3. IsFiniteSet(Ledger(m)) BY <1>2, FS_Subset, HistoryAssumption
<1> QED BY <1>2, <1>3, FS_CardinalityType

LEMMA LedgerOne == ASSUME NEW x, x.calls = <<>> PROVE Ledger(<<x>>) = x.ledger
<1>1. DOMAIN <<x>> = {1} /\ <<x>>[1] = x OBVIOUS
<1>2. TouchedBy(x) = x.ledger BY DEF TouchedBy
<1> DEFINE s == <<x>>
<1>3. DOMAIN s = {1} /\ s[1] = x BY <1>1
<1> HIDE DEF s
<1>4. ASSUME NEW t PROVE t \in Ledger(s) <=> t \in x.ledger BY <1>2, <1>3, LedgerOf
<1> QED BY <1>4 DEF s

\* A set of numbers up to n has a greatest element.
LEMMA GreatestIsThere ==
  ASSUME NEW n \in Nat, NEW T \in SUBSET (0 .. n), T # {}
  PROVE  \E x \in T : \A y \in T : y <= x
<1> DEFINE D == {n - x : x \in T}
<1>0. \A x \in T : x \in Nat /\ n - x \in Nat OBVIOUS
<1>1. D \in SUBSET Nat /\ D # {} BY <1>0
<1>2. PICK d \in D : \A e \in D : d <= e
  <2> HIDE DEF D
  <2> QED BY <1>1, LeastIsThere
<1>3. PICK x \in T : d = n - x BY <1>2
<1>4. \A y \in T : n - x <= n - y BY <1>2, <1>3
<1>5. x \in 0 .. n /\ \A y \in T : y \in 0 .. n OBVIOUS
<1>6. \A y \in T : y <= x BY <1>4, <1>5
<1> QED BY <1>6

\* The older part stops short of the end, and the tail starts with no result.
LEMMA SplitIsSafe ==
  ASSUME NEW m \in Seq(Messages), NEW b \in Nat, Len(m) > KeepRecent \/ b # 0, ~(Split(m, b) <= 0)
  PROVE  Split(m, b) \in 1 .. Len(m) - 1 /\ m[Split(m, b) + 1].role # "tool"
<1> DEFINE n == Len(m)
           at == IF b > 0 THEN SplitByTokenBudget(m, b) ELSE n - KeepRecent
           safe == {0} \cup {s \in 1 .. at : m[s + 1].role # "tool"}
<1>1. n \in Nat /\ KeepRecent \in Nat /\ KeepRecent > 0 BY HistoryAssumption
<1>2. SplitByTokenBudget(m, b) = 0 \/ SplitByTokenBudget(m, b) \in 1 .. n - 1
  <2> DEFINE tail == CHOOSE g : g = [j \in 1 .. n + 1 |-> IF j > n THEN 0 ELSE g[j + 1] + Tokens(<<m[j]>>)]
             over == {j \in 1 .. n - 1 : tail[j] > b}
  <2>1. SplitByTokenBudget(m, b) = IF over = {} THEN 0 ELSE CHOOSE j \in over : \A k \in over : k <= j
    BY DEF SplitByTokenBudget
  <2>2. over \in SUBSET (0 .. n) /\ over \in SUBSET (1 .. n - 1) BY <1>1
  <2> HIDE DEF over
  <2>3. CASE over # {}
    <3>1. \E j \in over : \A k \in over : k <= j BY <1>1, <2>2, <2>3, GreatestIsThere
    <3>2. (CHOOSE j \in over : \A k \in over : k <= j) \in over BY <3>1
    <3> QED BY <2>1, <2>2, <2>3, <3>2
  <2> QED BY <2>1, <2>3
<1>3. at = 0 \/ at \in 1 .. n - 1 BY <1>1, <1>2
<1>4. Split(m, b) = CHOOSE s \in safe : \A r \in safe : r <= s BY DEF Split, SafeSplitPoint
<1> HIDE DEF at
<1>5. safe \in SUBSET (0 .. n) /\ safe # {} BY <1>1, <1>3
<1>6. \A s \in safe : ~(s <= 0) => s \in 1 .. n - 1 /\ m[s + 1].role # "tool" BY <1>1, <1>3
<1> HIDE DEF safe, n
<1>7. \E s \in safe : \A r \in safe : r <= s BY <1>1, <1>5, GreatestIsThere
<1>8. Split(m, b) \in safe BY <1>4, <1>7
<1> QED BY <1>6, <1>8 DEF n

\* A smaller estimate has fewer words.
LEMMA FewerTokens ==
  ASSUME NEW a \in Seq(Messages), NEW b \in Seq(Messages), ~(Tokens(a) >= Tokens(b))
  PROVE  Words(a) < Words(b)
<1>1. Words(a) \in Nat /\ Words(b) \in Nat BY WordsBoth
<1>2. ~((3 * Words(a) + 3) \div 4 >= (3 * Words(b) + 3) \div 4) BY DEF Tokens
<1> HIDE DEF Words
<1> QED BY <1>1, <1>2

\* The front of a sequence and the rest of it.
LEMMA CutInTwo ==
  ASSUME NEW S, NEW m \in Seq(S), NEW k \in 0 .. Len(m)
  PROVE  /\ m = SubSeq(m, 1, k) \o SubSeq(m, k + 1, Len(m))
         /\ SubSeq(m, 1, k) \in Seq(S) /\ SubSeq(m, k + 1, Len(m)) \in Seq(S)
         /\ Len(SubSeq(m, 1, k)) = k /\ Len(SubSeq(m, k + 1, Len(m))) = Len(m) - k
         /\ \A i \in 1 .. Len(m) - k : SubSeq(m, k + 1, Len(m))[i] = m[k + i]
<1> DEFINE n == Len(m)
           a == SubSeq(m, 1, k)
           z == SubSeq(m, k + 1, n)
<1>1. n \in Nat /\ k \in Nat /\ k <= n /\ k \in Int /\ n \in Int /\ k + 1 \in Int /\ \A i \in 1 .. n : m[i] \in S OBVIOUS
<1>2. \A i \in 1 .. k : m[i] \in S BY <1>1
<1>3. \A i \in k + 1 .. n : m[i] \in S BY <1>1
<1>4. a \in Seq(S) /\ Len(a) = (IF 1 <= k THEN k - 1 + 1 ELSE 0) /\ \A i \in 1 .. k - 1 + 1 : a[i] = m[1 + i - 1]
  <2> HIDE DEF n
  <2> QED BY <1>1, <1>2, SubSeqProperties
<1>5. z \in Seq(S) /\ Len(z) = (IF k + 1 <= n THEN n - (k + 1) + 1 ELSE 0) /\ \A i \in 1 .. n - (k + 1) + 1 : z[i] = m[k + 1 + i - 1]
  <2> HIDE DEF n
  <2> QED BY <1>1, <1>3, SubSeqProperties
<1>6. Len(a) = k /\ \A i \in 1 .. k : a[i] = m[i] BY <1>1, <1>4
<1>7. Len(z) = n - k /\ \A i \in 1 .. n - k : z[i] = m[k + i] BY <1>1, <1>5
<1>8. m = a \o z
  <2> HIDE DEF a, z
  <2>1. a \o z \in Seq(S) /\ Len(a \o z) = n
    <3>1. a \o z \in Seq(S) /\ Len(a \o z) = Len(a) + Len(z) BY <1>4, <1>5, ConcatProperties
    <3> QED BY <1>1, <1>6, <1>7, <3>1
  <2>2. ASSUME NEW i \in 1 .. n PROVE (a \o z)[i] = m[i]
    <3>1. CASE i <= k BY <1>1, <1>4, <1>5, <1>6, <2>2, <3>1
    <3>2. CASE i > k
      <4>1. (a \o z)[i] = z[i - k]
        <5>1. \A e \in 1 .. Len(a) + Len(z) : (a \o z)[e] = IF e <= Len(a) THEN a[e] ELSE z[e - Len(a)]
          BY <1>4, <1>5, ConcatProperties
        <5>2. i \in 1 .. Len(a) + Len(z) /\ ~(i <= Len(a)) BY <1>1, <1>6, <1>7, <2>2, <3>2
        <5> QED BY <1>6, <5>1, <5>2
      <4>2. i - k \in 1 .. n - k /\ k + (i - k) = i BY <1>1, <2>2, <3>2
      <4> QED BY <1>7, <4>1, <4>2
    <3>3. i <= k \/ i > k BY <1>1, <2>2
    <3> QED BY <3>1, <3>2, <3>3
  <2> QED BY <2>1, <2>2, SeqEqual
<1> QED BY <1>4, <1>5, <1>6, <1>7, <1>8

\* A call is one of some message.
LEMMA CalledIn ==
  ASSUME NEW m, NEW id
  PROVE  id \in AllCalls(m) <=> \E k \in DOMAIN m : \E i \in DOMAIN m[k].calls : m[k].calls[i].id = id
<1>1. ASSUME NEW k \in DOMAIN m, NEW i \in DOMAIN m[k].calls, m[k].calls[i].id = id PROVE id \in AllCalls(m)
  <2>1. i \in DOMAIN CallIds(m[k]) /\ CallIds(m[k])[i] = id BY <1>1 DEF CallIds
  <2>2. id \in ToSet(CallIds(m[k])) /\ m[k] \in ToSet(m) BY <2>1 DEF ToSet
  <2> QED BY <2>2 DEF AllCalls
<1>2. ASSUME id \in AllCalls(m) PROVE \E k \in DOMAIN m : \E i \in DOMAIN m[k].calls : m[k].calls[i].id = id
  <2>1. PICK x \in ToSet(m) : id \in ToSet(CallIds(x)) BY <1>2 DEF AllCalls
  <2>2. PICK k \in DOMAIN m : x = m[k] BY DEF ToSet
  <2>3. PICK i \in DOMAIN CallIds(x) : id = CallIds(x)[i] BY <2>1 DEF ToSet
  <2> QED BY <2>2, <2>3 DEF CallIds
<1> QED BY <1>1, <1>2

\* Two sequences in one, position by position.
LEMMA InOne ==
  ASSUME NEW S, NEW a \in Seq(S), NEW b \in Seq(S)
  PROVE  /\ a \o b \in Seq(S) /\ Len(a \o b) = Len(a) + Len(b) /\ DOMAIN (a \o b) = 1 .. Len(a) + Len(b)
         /\ Len(a) \in Nat /\ Len(b) \in Nat
         /\ \A i \in 1 .. Len(a) : (a \o b)[i] = a[i]
         /\ \A i \in 1 .. Len(b) : (a \o b)[Len(a) + i] = b[i]
         /\ \A i \in 1 .. Len(a) + Len(b) : i \in 1 .. Len(a) \/ (i - Len(a) \in 1 .. Len(b) /\ Len(a) + (i - Len(a)) = i)
<1> DEFINE c == a \o b
           n == Len(a)
           l == Len(b)
<1>1. n \in Nat /\ l \in Nat OBVIOUS
<1>2. c \in Seq(S) /\ Len(c) = n + l /\ \A i \in 1 .. n + l : c[i] = IF i <= n THEN a[i] ELSE b[i - n]
  BY ConcatProperties
<1> HIDE DEF c, n, l
<1>3. DOMAIN c = 1 .. n + l BY <1>2
<1>4. \A i \in 1 .. n : i \in 1 .. n + l /\ i <= n BY <1>1
<1>5. \A i \in 1 .. l : n + i \in 1 .. n + l /\ ~(n + i <= n) /\ (n + i) - n = i BY <1>1
<1>6. \A i \in 1 .. n + l : i \in 1 .. n \/ (i - n \in 1 .. l /\ n + (i - n) = i) BY <1>1
<1>7. \A i \in 1 .. n : c[i] = a[i] BY <1>2, <1>4
<1>8. \A i \in 1 .. l : c[n + i] = b[i] BY <1>2, <1>5
<1> QED BY <1>1, <1>2, <1>3, <1>6, <1>7, <1>8 DEF c, n, l

\* A marker and the messages from d + 1 on.
LEMMA MarkerAndTail ==
  ASSUME NEW m \in Seq(Messages), NEW d \in 0 .. Len(m), NEW x \in Messages, NEW o, o = <<x>> \o SubSeq(m, d + 1, Len(m))
  PROVE  /\ o \in Seq(Messages) /\ DOMAIN o = 1 .. 1 + (Len(m) - d) /\ o[1] = x
         /\ \A i \in 2 .. 1 + (Len(m) - d) : o[i] = m[d - 1 + i] /\ d - 1 + i \in d + 1 .. Len(m)
         /\ \A i \in 2 .. 1 + (Len(m) - d) : d - 1 + i \in DOMAIN m
<1> DEFINE n == Len(m)
           z == SubSeq(m, d + 1, n)
           y == <<x>>
<1>1. n \in Nat /\ d \in 0 .. n /\ DOMAIN m = 1 .. n OBVIOUS
<1>2. z \in Seq(Messages) /\ Len(z) = n - d /\ \A i \in 1 .. n - d : z[i] = m[d + i] BY <1>1, CutInTwo
<1>3. y \in Seq(Messages) /\ Len(y) = 1 /\ y[1] = x OBVIOUS
<1>4. o = y \o z OBVIOUS
<1> HIDE DEF z, y, n
<1>a. y \in Seq(Messages) /\ z \in Seq(Messages) BY <1>2, <1>3
<1>5. /\ y \o z \in Seq(Messages) /\ DOMAIN (y \o z) = 1 .. Len(y) + Len(z)
      /\ \A i \in 1 .. Len(y) : (y \o z)[i] = y[i]
      /\ \A i \in 1 .. Len(z) : (y \o z)[Len(y) + i] = z[i]
  BY <1>a, InOne
<1>6. ASSUME NEW i \in 2 .. 1 + (n - d) PROVE o[i] = m[d - 1 + i] /\ d - 1 + i \in d + 1 .. n
  <2> DEFINE e == i - 1
  <2>1. e \in 1 .. n - d /\ 1 + e = i /\ d + e = d - 1 + i /\ d - 1 + i \in d + 1 .. n BY <1>1
  <2> HIDE DEF e
  <2>2. o[1 + e] = z[e] /\ z[e] = m[d + e] BY <1>2, <1>3, <1>4, <1>5, <2>1
  <2> QED BY <2>1, <2>2
<1>7. \A i \in d + 1 .. n : i \in 1 .. n BY <1>1
<1>8. o \in Seq(Messages) /\ DOMAIN o = 1 .. 1 + (n - d) /\ o[1] = x
  <2>1. 1 \in 1 .. Len(y) BY <1>3
  <2> QED BY <1>2, <1>3, <1>4, <1>5, <2>1
<1>9. \A i \in 2 .. 1 + (n - d) : d - 1 + i \in DOMAIN m
  <2> TAKE i \in 2 .. 1 + (n - d)
  <2>1. d - 1 + i \in d + 1 .. n BY <1>6
  <2> QED BY <1>1, <1>7, <2>1
<1> QED BY <1>6, <1>8, <1>9 DEF n

\* The rounds of what a compaction leaves, which is a marker and a tail.
LEMMA TailKeepsRounds ==
  ASSUME NEW m \in Seq(Messages), NEW d \in 1 .. Len(m), NEW x \in Messages, Rounds(m),
         x.role = "assistant", x.calls = <<>>, x.says
  PROVE  Rounds(<<x>> \o SubSeq(m, d + 1, Len(m)))
<1> DEFINE n == Len(m)
           o == <<x>> \o SubSeq(m, d + 1, n)
<1>1. n \in Nat /\ d \in 1 .. n /\ d \in 0 .. n /\ DOMAIN m = 1 .. n OBVIOUS
<1>2. /\ o \in Seq(Messages) /\ DOMAIN o = 1 .. 1 + (n - d) /\ o[1] = x
      /\ \A i \in 2 .. 1 + (n - d) : o[i] = m[d - 1 + i] /\ d - 1 + i \in d + 1 .. n
      /\ \A i \in 2 .. 1 + (n - d) : d - 1 + i \in DOMAIN m
  BY <1>1, MarkerAndTail
<1>a. Len(o) = 1 + (n - d)
  <2> HIDE DEF o, n
  <2>1. Len(o) \in Nat /\ DOMAIN o = 1 .. Len(o) BY <1>2
  <2> QED BY <1>1, <1>2, <2>1
<1> HIDE DEF o, n
<1>3. \A k \in DOMAIN o : k # 1 => k \in 2 .. 1 + (n - d) BY <1>1, <1>2
<1>4. \A k \in DOMAIN o : (o[k].role = "tool" \/ o[k].calls # <<>> \/ DOMAIN o[k].calls # {}) => k \in 2 .. 1 + (n - d)
  BY <1>2, <1>3
<1>6. CallsAreDistinct(o)
  <2> SUFFICES ASSUME NEW k \in DOMAIN o, NEW i \in DOMAIN o[k].calls, NEW j \in DOMAIN o[k].calls,
                      o[k].calls[i].id = o[k].calls[j].id
               PROVE  i = j
    BY DEF CallsAreDistinct
  <2>1. k \in 2 .. 1 + (n - d) BY <1>4
  <2>2. o[k] = m[d - 1 + k] /\ d - 1 + k \in DOMAIN m BY <1>2, <2>1
  <2> QED BY <2>2 DEF Rounds, CallsAreDistinct
<1>8. \A k \in DOMAIN o : o[k].calls # <<>> => o[k].role = "assistant" BY <1>2, <1>4 DEF Rounds
<1>9. ResultsDiffer(o)
  <2> SUFFICES ASSUME NEW k \in DOMAIN o, NEW l \in k .. Len(o), \A i \in k .. l : o[i].role = "tool", o[k].of = o[l].of
               PROVE  k = l
    BY DEF ResultsDiffer
  <2>0. k \in k .. l BY <1>1, <1>2
  <2>1. k \in 2 .. 1 + (n - d) BY <1>4, <2>0
  <2>2. l \in 2 .. 1 + (n - d) /\ l >= k BY <1>1, <1>a, <2>1
  <2> DEFINE p == d - 1 + k
             q == d - 1 + l
  <2>3. o[k] = m[p] /\ p \in DOMAIN m /\ o[l] = m[q] /\ q \in 1 .. n BY <1>1, <1>2, <2>1, <2>2
  <2>4. q \in p .. n /\ p \in Int BY <1>1, <2>1, <2>2, <2>3
  <2>5. ASSUME NEW i \in p .. q PROVE m[i].role = "tool"
    <3> DEFINE e == i - (d - 1)
    <3>1. e \in k .. l /\ e \in 2 .. 1 + (n - d) /\ d - 1 + e = i BY <1>1, <2>1, <2>2
    <3> HIDE DEF e
    <3> QED BY <1>2, <3>1
  <2> HIDE DEF p, q
  <2>6. p = q BY <2>3, <2>4, <2>5 DEF Rounds, ResultsDiffer, n
  <2> QED BY <1>1, <2>1, <2>2, <2>6 DEF p, q
<1>10. ASSUME NEW k \in DOMAIN o, o[k].role = "tool" PROVE Placed(o, k)
  <2> DEFINE q == d - 1 + k
  <2>1. k \in 2 .. 1 + (n - d) BY <1>4, <1>10
  <2>2. q \in 1 .. n /\ o[k] = m[q] /\ q \in DOMAIN m /\ q \in d + 1 .. n BY <1>1, <1>2, <2>1
  <2>3. Placed(m, q) BY <1>10, <2>2 DEF Rounds
  <2> HIDE DEF q
  <2>4. ASSUME NEW j \in 1 .. n, j <= d, \A i \in j + 1 .. q : m[i].role = "tool" PROVE LeftOver(o, k)
    <3>1. ASSUME NEW r \in 2 .. k PROVE o[r].role = "tool"
      <4>1. r \in 2 .. 1 + (n - d) /\ d - 1 + r \in j + 1 .. q BY <1>1, <2>1, <2>4, <3>1 DEF q
      <4> QED BY <1>2, <2>4, <4>1
    <3> QED BY <1>2, <3>1 DEF LeftOver
  <2>5. CASE LeftOver(m, q)
    <3>1. 1 \in 1 .. n /\ 1 <= d /\ 1 + 1 = 2 BY <1>1
    <3> QED BY <2>4, <2>5, <3>1 DEF LeftOver, Placed
  <2>6. CASE AfterReply(m, q)
    <3>1. PICK j \in 1 .. q - 1 : /\ \E i \in DOMAIN m[j].calls : m[j].calls[i].id = m[q].of
                                  /\ \A i \in j + 1 .. q : m[i].role = "tool"
      BY <2>6 DEF AfterReply
    <3>2. PICK i \in DOMAIN m[j].calls : m[j].calls[i].id = m[q].of BY <3>1
    <3>3. CASE j >= d + 1
      <4> DEFINE p == j - (d - 1)
      <4>1. p \in 1 .. k - 1 /\ p \in 2 .. 1 + (n - d) /\ d - 1 + p = j BY <1>1, <2>1, <2>2, <3>1, <3>3 DEF q
      <4>2. o[p] = m[j] BY <1>2, <4>1
      <4>3. ASSUME NEW r \in p + 1 .. k PROVE o[r].role = "tool"
        <5>1. r \in 2 .. 1 + (n - d) /\ d - 1 + r \in j + 1 .. q BY <1>1, <2>1, <3>1, <4>1, <4>3 DEF q
        <5> QED BY <1>2, <3>1, <5>1
      <4> HIDE DEF p
      <4> QED BY <2>2, <3>2, <4>1, <4>2, <4>3 DEF Placed, AfterReply
    <3>4. CASE ~(j >= d + 1)
      <4>1. j \in 1 .. n /\ j <= d BY <1>1, <2>2, <3>1, <3>4
      <4> QED BY <2>4, <3>1, <4>1 DEF Placed
    <3> QED BY <3>3, <3>4
  <2> QED BY <2>3, <2>5, <2>6 DEF Placed
<1>11. Rounds(o) BY <1>6, <1>8, <1>9, <1>10 DEF Rounds
<1> QED BY <1>11 DEF o, n

\* A result that stands after its reply does so in a longer transcript.
LEMMA AfterReplyBoth ==
  ASSUME NEW m \in Seq(Messages), NEW s \in Seq(Messages)
  PROVE  /\ \A k \in 1 .. Len(m) : AfterReply(m, k) => AfterReply(m \o s, k)
         /\ \A k \in 1 .. Len(s) : AfterReply(s, k) => AfterReply(m \o s, Len(m) + k)
<1> DEFINE n == Len(m)
           o == m \o s
<1>1. n \in Nat /\ Len(s) \in Nat OBVIOUS
<1>2. (\A i \in 1 .. n : o[i] = m[i]) /\ \A i \in 1 .. Len(s) : o[n + i] = s[i] BY InOne
<1> HIDE DEF o, n
<1>3. ASSUME NEW k \in 1 .. n, AfterReply(m, k) PROVE AfterReply(o, k)
  <2>1. PICK j \in 1 .. k - 1 : /\ \E i \in DOMAIN m[j].calls : m[j].calls[i].id = m[k].of
                                /\ \A i \in j + 1 .. k : m[i].role = "tool"
    BY <1>3 DEF AfterReply
  <2>2. j \in 1 .. n /\ \A i \in j + 1 .. k : i \in 1 .. n BY <1>1
  <2>3. o[j] = m[j] /\ o[k] = m[k] /\ \A i \in j + 1 .. k : o[i] = m[i] BY <1>2, <2>2
  <2> QED BY <2>1, <2>3 DEF AfterReply
<1>4. ASSUME NEW k \in 1 .. Len(s), AfterReply(s, k) PROVE AfterReply(o, n + k)
  <2>1. PICK j \in 1 .. k - 1 : /\ \E i \in DOMAIN s[j].calls : s[j].calls[i].id = s[k].of
                                /\ \A i \in j + 1 .. k : s[i].role = "tool"
    BY <1>4 DEF AfterReply
  <2> DEFINE p == n + j
             q == n + k
  <2>2. j \in 1 .. Len(s) /\ p \in 1 .. q - 1 BY <1>1
  <2>3. o[p] = s[j] /\ o[q] = s[k] BY <1>2, <2>2
  <2>4. ASSUME NEW i \in p + 1 .. q PROVE o[i].role = "tool"
    <3> DEFINE e == i - n
    <3>1. e \in j + 1 .. k /\ e \in 1 .. Len(s) /\ i = n + e BY <1>1, <2>4
    <3> HIDE DEF e
    <3>2. o[i] = s[e] BY <1>2, <3>1
    <3> QED BY <2>1, <3>1, <3>2
  <2> HIDE DEF p, q
  <2>5. AfterReply(o, q) BY <2>1, <2>2, <2>3, <2>4 DEF AfterReply
  <2> QED BY <2>5 DEF q
<1> QED BY <1>3, <1>4 DEF o, n

\* What is appended: a reply and its results, or a message that is neither.
Appended(s) ==
  /\ CallsAreDistinct(s) /\ ResultsDiffer(s) /\ Attached(s) /\ Len(s) > 0 /\ s[1].role # "tool"
  /\ \A k \in DOMAIN s : s[k].calls # <<>> => s[k].role = "assistant"

\* The rounds of a transcript and of what is appended.
LEMMA RoundsBoth ==
  ASSUME NEW m \in Seq(Messages), NEW s \in Seq(Messages), Rounds(m), Appended(s)
  PROVE  Rounds(m \o s)
<1> DEFINE n == Len(m)
           w == Len(s)
           o == m \o s
<1>1. n \in Nat /\ w \in Nat /\ DOMAIN m = 1 .. n /\ DOMAIN s = 1 .. w /\ w > 0 BY DEF Appended
<1>2. /\ DOMAIN o = 1 .. n + w /\ Len(o) = n + w
      /\ (\A i \in 1 .. n : o[i] = m[i]) /\ \A i \in 1 .. w : o[n + i] = s[i]
      /\ \A i \in 1 .. n + w : i \in 1 .. n \/ (i - n \in 1 .. w /\ n + (i - n) = i)
  BY InOne
<1>3. /\ \A k \in 1 .. n : AfterReply(m, k) => AfterReply(o, k)
      /\ \A k \in 1 .. w : AfterReply(s, k) => AfterReply(o, n + k)
  BY AfterReplyBoth
<1> HIDE DEF o, n, w
<1>4. \A k \in DOMAIN o : (k \in DOMAIN m /\ o[k] = m[k]) \/ (\E e \in DOMAIN s : k = n + e /\ o[k] = s[e])
  <2>1. ASSUME NEW k \in 1 .. n + w, k - n \in 1 .. w, n + (k - n) = k PROVE \E e \in 1 .. w : k = n + e /\ o[k] = s[e]
    <3> DEFINE e == k - n
    <3>1. e \in 1 .. w /\ k = n + e BY <2>1
    <3> HIDE DEF e
    <3> QED BY <1>2, <3>1
  <2> QED BY <1>1, <1>2, <2>1
<1>5. CallsAreDistinct(o) BY <1>4 DEF Rounds, Appended, CallsAreDistinct
<1>6. \A k \in DOMAIN o : o[k].calls # <<>> => o[k].role = "assistant" BY <1>4 DEF Rounds, Appended
<1>7. o[n + 1].role # "tool" /\ n + 1 \in 1 .. n + w
  <2>1. 1 \in 1 .. w /\ n + 1 \in 1 .. n + w BY <1>1
  <2> QED BY <1>2, <2>1 DEF Appended
<1>8. ResultsDiffer(o)
  <2> SUFFICES ASSUME NEW k \in DOMAIN o, NEW l \in k .. Len(o), \A i \in k .. l : o[i].role = "tool", o[k].of = o[l].of
               PROVE  k = l
    BY DEF ResultsDiffer
  <2>1. k \in 1 .. n + w /\ l \in k .. n + w BY <1>2
  <2>2. ~(n + 1 \in k .. l) BY <1>7
  <2>3. CASE l <= n
    <3>1. k \in 1 .. n /\ l \in k .. n /\ \A i \in k .. l : i \in 1 .. n BY <1>1, <2>1, <2>3
    <3>2. l \in k .. l /\ k \in k .. l BY <2>1
    <3>3. (\A i \in k .. l : m[i].role = "tool") /\ m[k].of = m[l].of BY <1>2, <3>1, <3>2
    <3> QED BY <1>1, <3>1, <3>3 DEF Rounds, ResultsDiffer, n
  <2>4. CASE ~(l <= n)
    <3> DEFINE a == k - n
               b == l - n
    <3>1. a \in 1 .. w /\ b \in a .. w /\ k = n + a /\ l = n + b /\ b \in 1 .. w BY <1>1, <2>1, <2>2, <2>4
    <3>2. ASSUME NEW i \in a .. b PROVE s[i].role = "tool"
      <4>1. i \in 1 .. w /\ n + i \in k .. l BY <1>1, <2>1, <3>1, <3>2
      <4> QED BY <1>2, <4>1
    <3> HIDE DEF a, b
    <3>3. s[a].of = s[b].of BY <1>2, <3>1
    <3>4. a = b BY <1>1, <3>1, <3>2, <3>3 DEF Appended, ResultsDiffer, w
    <3> QED BY <3>1, <3>4
  <2> QED BY <2>3, <2>4
<1>11. ASSUME NEW k \in DOMAIN o, o[k].role = "tool" PROVE Placed(o, k)
  <2>1. CASE k \in DOMAIN m /\ o[k] = m[k]
    <3>1. Placed(m, k) BY <1>11, <2>1 DEF Rounds
    <3>2. CASE AfterReply(m, k) BY <1>1, <1>3, <2>1, <3>2 DEF Placed
    <3>3. CASE LeftOver(m, k)
      <4>1. 1 \in 1 .. n /\ \A i \in 2 .. k : i \in 1 .. n BY <1>1, <2>1
      <4>2. o[1] = m[1] /\ \A i \in 2 .. k : o[i] = m[i] BY <1>2, <4>1
      <4> QED BY <3>3, <4>2 DEF Placed, LeftOver
    <3> QED BY <3>1, <3>2, <3>3 DEF Placed
  <2>2. ASSUME NEW e \in DOMAIN s, k = n + e, o[k] = s[e] PROVE Placed(o, k)
    <3>1. AfterReply(s, e) BY <1>11, <2>2 DEF Appended, Attached
    <3>2. AfterReply(o, k) BY <1>1, <1>3, <2>2, <3>1
    <3> QED BY <3>2 DEF Placed
  <2> QED BY <1>4, <2>1, <2>2
<1>13. Rounds(o) BY <1>5, <1>6, <1>8, <1>11 DEF Rounds
<1> QED BY <1>13 DEF o

\* A summary in place of the older part leaves what the tail has.
LEMMA TailStaysAttached ==
  ASSUME NEW m \in Seq(Messages), NEW d \in 1 .. Len(m) - 1, NEW x \in Messages,
         Attached(m), m[d + 1].role # "tool", x.role # "tool"
  PROVE  Attached(<<x>> \o SubSeq(m, d + 1, Len(m)))
<1> DEFINE n == Len(m)
           o == <<x>> \o SubSeq(m, d + 1, n)
<1>1. n \in Nat /\ d \in 1 .. n - 1 /\ d \in 0 .. n /\ DOMAIN m = 1 .. n OBVIOUS
<1>2. /\ o \in Seq(Messages) /\ DOMAIN o = 1 .. 1 + (n - d) /\ o[1] = x
      /\ \A i \in 2 .. 1 + (n - d) : o[i] = m[d - 1 + i] /\ d - 1 + i \in d + 1 .. n
      /\ \A i \in 2 .. 1 + (n - d) : d - 1 + i \in DOMAIN m
  BY <1>1, MarkerAndTail
<1> HIDE DEF o, n
<1>3. ASSUME NEW k \in DOMAIN o, o[k].role = "tool" PROVE AfterReply(o, k)
  <2>1. k \in 2 .. 1 + (n - d) BY <1>1, <1>2, <1>3
  <2> DEFINE q == d - 1 + k
  <2>2. q \in 1 .. n /\ q \in DOMAIN m /\ o[k] = m[q] BY <1>1, <1>2, <2>1
  <2> HIDE DEF q
  <2>3. PICK j \in 1 .. q - 1 : /\ \E i \in DOMAIN m[j].calls : m[j].calls[i].id = m[q].of
                                /\ \A i \in j + 1 .. q : m[i].role = "tool"
    BY <1>3, <2>2 DEF Attached, AfterReply
  <2>4. ~(d + 1 \in j + 1 .. q) BY <2>3
  <2>5. j \in d + 1 .. q - 1 BY <1>1, <2>1, <2>2, <2>4 DEF q
  <2> DEFINE p == j - (d - 1)
  <2>6. p \in 1 .. k - 1 /\ p \in 2 .. 1 + (n - d) /\ d - 1 + p = j BY <1>1, <2>1, <2>5 DEF q
  <2>7. o[p] = m[j] BY <1>2, <2>6
  <2>8. ASSUME NEW i \in p + 1 .. k PROVE o[i].role = "tool"
    <3>1. i \in 2 .. 1 + (n - d) /\ d - 1 + i \in j + 1 .. q BY <1>1, <2>1, <2>5, <2>6, <2>8 DEF q
    <3>2. o[i] = m[d - 1 + i] BY <1>2, <3>1
    <3> QED BY <2>3, <3>1, <3>2
  <2> HIDE DEF p
  <2> QED BY <2>2, <2>3, <2>6, <2>7, <2>8 DEF AfterReply
<1> QED BY <1>3 DEF Attached, o, n

\* What a summarizing compaction of a transcript m makes of it.
LEMMA SummaryShrinks ==
  ASSUME HistoryTypeOK, Rounds(transcript), NEW b \in Budgets, NEW w \in Summaries,
         Len(Summarized(transcript, b, w)) # Len(transcript)
  PROVE  /\ Summarized(transcript, b, w) \in Seq(Messages)
         /\ Len(Summarized(transcript, b, w)) < Len(transcript)
         /\ Words(Summarized(transcript, b, w)) < Words(transcript)
         /\ Ledger(Summarized(transcript, b, w)) = Ledger(transcript)
         /\ Attached(transcript) => Attached(Summarized(transcript, b, w))
         /\ Rounds(Summarized(transcript, b, w))
<1> DEFINE m == transcript
           d == Split(m, b)
           older == SubSeq(m, 1, d)
           x == SummaryOf(older, w)
           z == SubSeq(m, d + 1, Len(m))
           shorter == Summarized(transcript, b, w)
<1>1. m \in Seq(Messages) /\ Len(m) \in Nat /\ b \in Nat /\ w \in Nat \ {0} /\ KeepRecent \in Nat
  BY HistoryAssumption DEF HistoryTypeOK
<1>2. ~(Len(m) <= KeepRecent /\ b = 0) /\ ~(d <= 0) /\ shorter = Replaced(m, older, x)
  BY DEF Summarized
<1>4. d \in 1 .. Len(m) - 1 /\ m[d + 1].role # "tool"
  <2>1. ~(d <= 0) BY <1>2
  <2>2. Len(m) > KeepRecent \/ b # 0 BY <1>1, <1>2
  <2> HIDE DEF m
  <2> QED BY <1>1, <2>1, <2>2, SplitIsSafe
<1> HIDE DEF d
<1>5. /\ m = older \o z /\ older \in Seq(Messages) /\ z \in Seq(Messages) /\ Len(older) = d /\ Len(z) = Len(m) - d
  <2>1. d \in 0 .. Len(m) BY <1>1, <1>4
  <2> HIDE DEF m
  <2>2. m \in Seq(Messages) BY <1>1
  <2> QED BY <2>1, <2>2, CutInTwo, Zenon
<1>6. shorter = <<x>> \o z /\ ~(Tokens(<<x>>) >= Tokens(older))
  <2>1. ~(Tokens(<<x>>) >= Tokens(older)) BY <1>2 DEF Replaced
  <2>2. shorter = <<x>> \o SubSeq(m, Len(older) + 1, Len(m)) BY <1>2, <2>1 DEF Replaced
  <2> QED BY <1>5, <2>1, <2>2
<1> HIDE DEF m, older, z, shorter
<1>7. x \in Messages /\ x.role = "assistant" /\ x.calls = <<>> /\ x.says /\ x.ledger = Ledger(older)
  <2>1. Ledger(older) \in SUBSET Touches /\ Cardinality(Ledger(older)) \in Nat BY <1>5, LedgerTyped
  <2>2. w + Cardinality(Ledger(older)) \in Nat \ {0} BY <1>1, <2>1
  <2> QED BY <2>1, <2>2, MarkerTyped DEF SummaryOf, HistoryTypeOK
<1> HIDE DEF x
<1>8. <<x>> \in Seq(Messages) /\ Len(<<x>>) = 1 BY <1>7
<1>9. shorter \in Seq(Messages) /\ Len(shorter) = 1 + (Len(m) - d) BY <1>5, <1>6, <1>8
<1>10. Len(shorter) < Len(m) BY <1>1, <1>4, <1>9 DEF shorter, m
<1>11. Words(shorter) < Words(m)
  <2>1. Words(shorter) = Words(<<x>>) + Words(z) /\ Words(<<x>>) \in Nat /\ Words(z) \in Nat BY <1>5, <1>6, <1>8, WordsBoth
  <2>2. Words(m) = Words(older) + Words(z) /\ Words(older) \in Nat BY <1>5, WordsBoth
  <2>3. Words(<<x>>) < Words(older) BY <1>5, <1>6, <1>8, FewerTokens
  <2> QED BY <2>1, <2>2, <2>3
<1>12. Ledger(shorter) = Ledger(m)
  <2>1. Ledger(shorter) = Ledger(<<x>>) \cup Ledger(z) BY <1>5, <1>6, <1>8, LedgerBoth
  <2>2. Ledger(m) = Ledger(older) \cup Ledger(z) BY <1>5, LedgerBoth
  <2> QED BY <1>7, <2>1, <2>2, LedgerOne
<1>13. Attached(m) => Attached(shorter) BY <1>1, <1>4, <1>6, <1>7, TailStaysAttached DEF z
<1>14. Rounds(shorter)
  <2>1. d \in 1 .. Len(m) /\ Rounds(m) BY <1>1, <1>4, <1>7 DEF m
  <2>2. Rounds(<<x>> \o SubSeq(m, d + 1, Len(m))) BY <1>1, <1>7, <2>1, TailKeepsRounds
  <2> QED BY <1>6, <2>2 DEF z
<1> QED BY <1>9, <1>10, <1>11, <1>12, <1>13, <1>14 DEF m, shorter

\* Keeping the n latest messages drops at least two for the note.
LEMMA WindowShrinks ==
  ASSUME HistoryTypeOK, Rounds(transcript), NEW n \in Windows, Len(transcript) > n,
         Len(KeepRecentMessages(transcript, n)) # Len(transcript)
  PROVE  /\ KeepRecentMessages(transcript, n) \in Seq(Messages)
         /\ Len(KeepRecentMessages(transcript, n)) < Len(transcript)
         /\ Rounds(KeepRecentMessages(transcript, n))
<1> DEFINE m == transcript
           d == Len(m) - n
           older == SubSeq(m, 1, d)
           x == Marker(NoteWords, {})
           z == SubSeq(m, d + 1, Len(m))
           shorter == KeepRecentMessages(transcript, n)
<1>1. m \in Seq(Messages) /\ Len(m) \in Nat /\ n \in Nat /\ n > 0 /\ d \in 1 .. Len(m) /\ d \in 0 .. Len(m)
  BY HistoryAssumption DEF HistoryTypeOK
<1>2. shorter = <<x>> \o z BY DEF KeepRecentMessages
<1>3. /\ m = older \o z /\ older \in Seq(Messages) /\ z \in Seq(Messages) /\ Len(older) = d /\ Len(z) = Len(m) - d
  <2> HIDE DEF m, d
  <2> QED BY <1>1, CutInTwo
<1>4. x \in Messages /\ x.role = "assistant" /\ x.calls = <<>> /\ x.says
  <2>1. NoteWords \in Nat \ {0} /\ {} \in SUBSET Touches BY HistoryAssumption
  <2> QED BY <2>1, MarkerTyped DEF HistoryTypeOK
<1>5. Len(m) - d = n BY <1>1
<1> HIDE DEF m, older, z, shorter, x, d
<1>6. <<x>> \in Seq(Messages) /\ Len(<<x>>) = 1 BY <1>4
<1>7. shorter \in Seq(Messages) /\ Len(shorter) = 1 + n
  <2>1. shorter \in Seq(Messages) /\ Len(shorter) = Len(<<x>>) + Len(z) BY <1>2, <1>3, <1>6, ConcatProperties
  <2> QED BY <1>3, <1>5, <1>6, <2>1
<1>8. Len(shorter) < Len(m)
  <2>1. Len(shorter) # Len(m) /\ Len(m) > n BY DEF shorter, m
  <2> QED BY <1>1, <1>5, <1>7, <2>1
<1>9. Rounds(shorter)
  <2>1. Rounds(m) BY DEF m
  <2>2. Rounds(<<x>> \o SubSeq(m, d + 1, Len(m))) BY <1>1, <1>4, <2>1, TailKeepsRounds
  <2> QED BY <1>2, <2>2 DEF z
<1> QED BY <1>7, <1>8, <1>9 DEF m, shorter

\* What is appended leaves a result where it belongs.
LEMMA OthersAttached ==
  ASSUME NEW m \in Seq(Messages), NEW s \in Seq(Messages), Attached(m), Attached(s)
  PROVE  Attached(m \o s)
<1> DEFINE n == Len(m)
           w == Len(s)
           o == m \o s
<1>1. n \in Nat /\ w \in Nat /\ DOMAIN m = 1 .. n /\ DOMAIN s = 1 .. w OBVIOUS
<1>2. /\ DOMAIN o = 1 .. n + w
      /\ (\A i \in 1 .. n : o[i] = m[i]) /\ \A i \in 1 .. w : o[n + i] = s[i]
      /\ \A i \in 1 .. n + w : i \in 1 .. n \/ (i - n \in 1 .. w /\ n + (i - n) = i)
  BY InOne
<1>3. /\ \A k \in 1 .. n : AfterReply(m, k) => AfterReply(o, k)
      /\ \A k \in 1 .. w : AfterReply(s, k) => AfterReply(o, n + k)
  BY AfterReplyBoth
<1> HIDE DEF o, n, w
<1>4. ASSUME NEW k \in 1 .. n + w, o[k].role = "tool" PROVE AfterReply(o, k)
  <2>1. CASE k \in 1 .. n BY <1>1, <1>2, <1>3, <1>4, <2>1 DEF Attached
  <2>2. ASSUME NEW e \in 1 .. w, n + e = k PROVE AfterReply(o, k) BY <1>1, <1>2, <1>3, <1>4, <2>2 DEF Attached
  <2> QED BY <1>2, <2>1, <2>2
<1> QED BY <1>2, <1>4 DEF Attached, o

\* Appending is no compaction.
LEMMA AppendsOnly ==
  ASSUME NEW S, transcript \in Seq(S), NEW s \in Seq(S), transcript' = transcript \o s
  PROVE  ~Compaction
<1> DEFINE m == transcript
           o == m \o s
           n == Len(m)
<1>1. n \in Nat /\ Len(s) \in Nat OBVIOUS
<1>2. o \in Seq(S) /\ Len(o) = n + Len(s) /\ \A i \in 1 .. n + Len(s) : o[i] = IF i <= n THEN m[i] ELSE s[i - n]
  BY ConcatProperties
<1> HIDE DEF o
<1>3. n <= Len(o) /\ \A i \in 1 .. n : o[i] = m[i] BY <1>1, <1>2
<1>4. SubSeq(m, 1, n) = [i \in 1 .. n |-> m[i]] /\ SubSeq(o, 1, n) = [i \in 1 .. n |-> o[i]]
  BY <1>1 DEF SubSeq
<1>5. SubSeq(m, 1, n) = SubSeq(o, 1, n) BY <1>3, <1>4
<1> QED BY <1>3, <1>5 DEF Compaction, IsPrefix, o

\* The results that follow a message end somewhere.
LEMMA RoundEnds ==
  ASSUME NEW S, NEW m \in Seq(S), NEW j \in 1 .. Len(m)
  PROVE  /\ RoundEnd(m, j) \in j .. Len(m)
         /\ \A i \in j + 1 .. RoundEnd(m, j) : m[i].role = "tool"
         /\ RoundEnd(m, j) < Len(m) => m[RoundEnd(m, j) + 1].role # "tool"
<1> DEFINE n == Len(m)
           T == {e \in j .. n : \A i \in j + 1 .. e : m[i].role = "tool"}
           P(e) == (\A i \in j + 1 .. e : m[i].role = "tool") /\ (e < n => m[e + 1].role # "tool")
<1>1. n \in Nat /\ j \in 1 .. n OBVIOUS
<1>2. T \in SUBSET (0 .. n) /\ j \in T BY <1>1
<1> HIDE DEF n
<1>3. PICK e \in T : \A r \in T : r <= e
  <2> HIDE DEF T
  <2> QED BY <1>1, <1>2, GreatestIsThere
<1>4. ASSUME e < n, m[e + 1].role = "tool" PROVE FALSE
  <2>1. e + 1 \in j .. n /\ \A i \in j + 1 .. e + 1 : i \in j + 1 .. e \/ i = e + 1 BY <1>1, <1>3, <1>4
  <2>2. e + 1 \in T BY <1>3, <1>4, <2>1
  <2>3. ~(e + 1 <= e) BY <1>1, <1>3
  <2> QED BY <1>3, <2>2, <2>3
<1>5. \E r \in j .. n : P(r) BY <1>3, <1>4
<1>6. RoundEnd(m, j) = CHOOSE r \in j .. n : P(r) BY DEF RoundEnd, n
<1> HIDE DEF P
<1>7. RoundEnd(m, j) \in j .. n /\ P(RoundEnd(m, j)) BY <1>5, <1>6
<1> QED BY <1>7 DEF P, n

\* Where every result is attached, it is in the round of its reply.
LEMMA PairsAreKept == HistoryInv => SummariesKeepPairs
<1> SUFFICES ASSUME HistoryInv, ~lossy, NEW k \in DOMAIN transcript, transcript[k].role = "tool"
             PROVE  \E j \in 1 .. k - 1 : /\ transcript[k].of \in ToSet(CallIds(transcript[j]))
                                          /\ RoundEnd(transcript, j) >= k
  BY DEF SummariesKeepPairs
<1> DEFINE m == transcript
<1>1. m \in Seq(Messages) /\ Attached(m) BY DEF HistoryInv, HistoryTypeOK
<1>2. PICK j \in 1 .. k - 1 : /\ \E i \in DOMAIN m[j].calls : m[j].calls[i].id = m[k].of
                              /\ \A i \in j + 1 .. k : m[i].role = "tool"
  <2>1. k \in DOMAIN m /\ m[k].role = "tool" OBVIOUS
  <2> HIDE DEF m
  <2> QED BY <1>1, <2>1 DEF Attached, AfterReply
<1>3. Len(m) \in Nat /\ DOMAIN m = 1 .. Len(m) /\ k \in 1 .. Len(m) BY <1>1
<1>4. m[k].of \in ToSet(CallIds(m[j])) BY <1>2 DEF ToSet, CallIds
<1> HIDE DEF m
<1> DEFINE e == RoundEnd(m, j)
<1>5. j \in 1 .. Len(m) BY <1>2, <1>3
<1>6. e \in j .. Len(m) /\ (e < Len(m) => m[e + 1].role # "tool") BY <1>1, <1>5, RoundEnds
<1> HIDE DEF e
<1>7. ASSUME ~(e >= k) PROVE FALSE
  <2>1. e < Len(m) /\ e + 1 \in j + 1 .. k BY <1>2, <1>3, <1>6, <1>7
  <2> QED BY <1>2, <1>6, <2>1
<1>8. m[k].of \in ToSet(CallIds(m[j])) /\ RoundEnd(m, j) >= k BY <1>4, <1>7 DEF e
<1> QED BY <1>2, <1>8 DEF m

\* A step that appends a whole round, or a message that belongs to none.
LEMMA GrowKeepsHistory ==
  ASSUME HistoryInv, NEW s \in Seq(Messages), Appended(s), transcript' = transcript \o s, lossy' = lossy,
         touched' \subseteq touched \cup Ledger(s)
  PROVE  /\ transcript' \in Seq(Messages) /\ Rounds(transcript')
         /\ (lossy' \/ Attached(transcript')) /\ LedgerIsCumulative'
         /\ ~Compaction
<1>1. transcript \in Seq(Messages) BY DEF HistoryInv, HistoryTypeOK
<1>2. transcript' \in Seq(Messages) BY <1>1, ConcatProperties
<1>3. ~Compaction BY <1>1, AppendsOnly
<1>4. Attached(transcript) => Attached(transcript') BY <1>1, OthersAttached DEF Appended
<1>5. lossy' \/ Attached(transcript') BY <1>4 DEF HistoryInv
<1>6. Ledger(transcript') = Ledger(transcript) \cup Ledger(s)
  <2>1. Ledger(transcript \o s) = Ledger(transcript) \cup Ledger(s) BY <1>1, LedgerBoth
  <2> QED BY <2>1
<1>7. LedgerIsCumulative'
  <2>1. LedgerIsCumulative' <=> lossy' \/ touched' \subseteq Ledger(transcript') BY DEF LedgerIsCumulative
  <2>2. lossy \/ touched \subseteq Ledger(transcript) BY DEF HistoryInv, LedgerIsCumulative
  <2> QED BY <1>6, <2>1, <2>2
<1>8. Rounds(transcript')
  <2>1. Rounds(transcript) BY DEF HistoryInv
  <2>2. Rounds(transcript \o s) BY <1>1, <2>1, RoundsBoth
  <2> QED BY <2>2
<1> QED BY <1>2, <1>3, <1>5, <1>7, <1>8

\* A message without calls that is no result.
LEMMA SayKeepsHistory ==
  ASSUME HistoryInv, NEW x \in Messages, x.role # "tool", x.calls = <<>>,
         transcript' = transcript \o <<x>>, UNCHANGED <<model, touched, lossy>>
  PROVE  HistoryInv' /\ ~Compaction
<1> DEFINE s == <<x>>
<1>1. s \in Seq(Messages) /\ DOMAIN s = {1} /\ s[1] = x OBVIOUS
<1>2. transcript' = transcript \o s OBVIOUS
<1> HIDE DEF s
<1>3. \A k \in DOMAIN s : s[k].role # "tool" /\ s[k].calls = <<>> /\ DOMAIN s[k].calls = {} BY <1>1
<1>4. Attached(s) /\ CallsAreDistinct(s) BY <1>3 DEF Attached, CallsAreDistinct
<1>5. ResultsDiffer(s)
  <2> SUFFICES ASSUME NEW k \in DOMAIN s, NEW l \in k .. Len(s), \A i \in k .. l : s[i].role = "tool" PROVE FALSE
    BY DEF ResultsDiffer
  <2>1. k \in k .. l BY <1>1
  <2> QED BY <1>3, <2>1
<1>6. /\ transcript' \in Seq(Messages) /\ Rounds(transcript')
      /\ (lossy' \/ Attached(transcript')) /\ LedgerIsCumulative'
      /\ ~Compaction
  <2>1. Len(s) > 0 /\ s[1].role # "tool"
    <3>1. Len(s) \in Nat /\ 1 \in 1 .. Len(s) BY <1>1
    <3> QED BY <1>1, <3>1
  <2>2. Appended(s) BY <1>3, <1>4, <1>5, <2>1 DEF Appended
  <2> QED BY <1>1, <1>2, <2>2, GrowKeepsHistory
<1>7. HistoryTypeOK' BY <1>6 DEF HistoryInv, HistoryTypeOK
<1> QED BY <1>6, <1>7 DEF HistoryInv

\* A user asks, or the model answers without a call.
LEMMA TalkKeepsHistory == HistoryInv /\ (Ask \/ Answer) => HistoryInv' /\ ~Compaction
<1> SUFFICES ASSUME HistoryInv, Ask \/ Answer PROVE HistoryInv' /\ ~Compaction OBVIOUS
<1>1. model \in Models /\ <<>> \in Seq([id : Pool, touch : Touches]) BY DEF HistoryInv, HistoryTypeOK
<1>2. CASE Ask
  <2> DEFINE x == Message("user", <<>>, NoId, TRUE, FALSE, 1, {})
  <2>0. "user" \in {"user", "assistant", "tool"} /\ NoId \in Pool \cup {NoId} /\ 1 \in Nat \ {0} /\ {} \in SUBSET Touches
        /\ TRUE \in BOOLEAN /\ FALSE \in BOOLEAN
    OBVIOUS
  <2>1. x \in Messages BY <1>1, <2>0, MessageOf, Zenon
  <2>2. x.role = "user" /\ x.calls = <<>> BY DEF Message
  <2>3. transcript' = transcript \o <<x>> /\ UNCHANGED <<model, touched, lossy>> BY <1>2 DEF Ask, Append1
  <2> HIDE DEF x
  <2> QED BY <2>1, <2>2, <2>3, SayKeepsHistory
<1>3. CASE Answer
  <2>1. PICK says \in BOOLEAN, thinks \in BOOLEAN :
          Append1(<<Message("assistant", <<>>, NoId, says, thinks, 1, {})>>) /\ UNCHANGED <<model, touched, lossy>>
    BY <1>3 DEF Answer
  <2> DEFINE x == Message("assistant", <<>>, NoId, says, thinks, 1, {})
  <2>0. "assistant" \in {"user", "assistant", "tool"} /\ NoId \in Pool \cup {NoId} /\ 1 \in Nat \ {0} /\ {} \in SUBSET Touches
    OBVIOUS
  <2>2. x \in Messages BY <1>1, <2>0, MessageOf, Zenon
  <2>3. x.role = "assistant" /\ x.calls = <<>> BY DEF Message
  <2>4. transcript' = transcript \o <<x>> BY <2>1 DEF Append1
  <2> HIDE DEF x
  <2> QED BY <2>1, <2>2, <2>3, <2>4, SayKeepsHistory
<1> QED BY <1>2, <1>3

\* The model calls tools, one or two, and gets the results or is interrupted.
LEMMA WorkKeepsHistory == HistoryInv /\ Work => HistoryInv' /\ ~Compaction
<1> SUFFICES ASSUME HistoryInv, Work PROVE HistoryInv' /\ ~Compaction OBVIOUS
<1> DEFINE C == [id : Pool, touch : Touches]
<1>1. model \in Models /\ touched \subseteq Touches /\ lossy \in BOOLEAN
  BY DEF HistoryInv, HistoryTypeOK
<1>2. PICK n \in 1 .. 2 : \E t \in [1 .. n -> Touches], id \in [1 .. n -> Pool], finished \in BOOLEAN :
        LET calls   == [i \in 1 .. n |-> Call(id[i], t[i])]
            results == [i \in 1 .. n |-> Message("tool", <<>>, id[i], TRUE, FALSE, 1, {})]
        IN  /\ IsInjective(id)
            /\ Append1(<<Message("assistant", calls, NoId, FALSE, FALSE, 2 * n, {})>>
                         \o (IF finished THEN results ELSE <<>>))
            /\ touched' = touched \cup {t[i] : i \in 1 .. n}
  BY DEF Work
<1>3. PICK t \in [1 .. n -> Touches], id \in [1 .. n -> Pool], finished \in BOOLEAN :
        LET calls   == [i \in 1 .. n |-> Call(id[i], t[i])]
            results == [i \in 1 .. n |-> Message("tool", <<>>, id[i], TRUE, FALSE, 1, {})]
        IN  /\ IsInjective(id)
            /\ Append1(<<Message("assistant", calls, NoId, FALSE, FALSE, 2 * n, {})>>
                         \o (IF finished THEN results ELSE <<>>))
            /\ touched' = touched \cup {t[i] : i \in 1 .. n}
  BY <1>2
<1> DEFINE calls   == [i \in 1 .. n |-> Call(id[i], t[i])]
           results == [i \in 1 .. n |-> Message("tool", <<>>, id[i], TRUE, FALSE, 1, {})]
           reply   == Message("assistant", calls, NoId, FALSE, FALSE, 2 * n, {})
           after   == IF finished THEN results ELSE <<>>
           s       == <<reply>> \o after
<1>4. /\ touched' = touched \cup {t[i] : i \in 1 .. n}
      /\ transcript' = transcript \o s /\ \A i, j \in 1 .. n : id[i] = id[j] => i = j
  BY <1>3 DEF Append1, IsInjective
<1>5. UNCHANGED <<model, lossy>> BY DEF Work
<1>6. \A i \in 1 .. n : id[i] \in Pool /\ t[i] \in Touches OBVIOUS
<1>7. n \in Nat /\ 2 * n \in Nat \ {0} OBVIOUS
<1>8. calls \in Seq(C) /\ DOMAIN calls = 1 .. n /\ \A i \in 1 .. n : calls[i] = Call(id[i], t[i])
  <2>1. \A i \in 1 .. n : Call(id[i], t[i]) \in C BY <1>6 DEF Call
  <2>2. calls \in [1 .. n -> C] BY <2>1
  <2>3. calls \in Seq(C) BY <1>7, <2>2
  <2> QED BY <2>3
<1> HIDE DEF calls
<1>9. /\ reply \in Messages /\ reply.calls = calls /\ reply.role = "assistant" /\ reply.ledger = {}
  <2>1. "assistant" \in {"user", "assistant", "tool"} /\ NoId \in Pool \cup {NoId} /\ {} \in SUBSET Touches
        /\ TRUE \in BOOLEAN /\ FALSE \in BOOLEAN
    OBVIOUS
  <2> DEFINE w == 2 * n
  <2>2. w \in Nat \ {0} BY <1>7
  <2> HIDE DEF w
  <2>3. Message("assistant", calls, NoId, FALSE, FALSE, w, {}) \in Messages BY <1>1, <1>8, <2>1, <2>2, MessageOf, Zenon
  <2> QED BY <2>3 DEF Message, w
<1>10. /\ results \in Seq(Messages) /\ Len(results) = n
       /\ \A i \in 1 .. n : results[i].role = "tool" /\ results[i].of = id[i] /\ results[i].calls = <<>>
  <2>1. "tool" \in {"user", "assistant", "tool"} /\ <<>> \in Seq(C) /\ 1 \in Nat \ {0} /\ {} \in SUBSET Touches
        /\ TRUE \in BOOLEAN /\ FALSE \in BOOLEAN
    OBVIOUS
  <2>2. \A i \in 1 .. n : id[i] \in Pool \cup {NoId} BY <1>6
  <2>3. \A i \in 1 .. n : Message("tool", <<>>, id[i], TRUE, FALSE, 1, {}) \in Messages
    BY <1>1, <2>1, <2>2, MessageOf, Zenon
  <2>4. results \in [1 .. n -> Messages] BY <2>3
  <2>5. \A i \in 1 .. n : results[i].role = "tool" /\ results[i].of = id[i] /\ results[i].calls = <<>> BY DEF Message
  <2> HIDE DEF results
  <2>6. results \in Seq(Messages) /\ Len(results) = n BY <1>7, <2>4
  <2> QED BY <2>5, <2>6
<1> HIDE DEF results, reply
<1>11. after \in Seq(Messages) /\ (after = results \/ after = <<>>) BY <1>10
<1> HIDE DEF after
<1>12. /\ s \in Seq(Messages) /\ Len(s) = 1 + Len(after) /\ Len(after) \in 0 .. n /\ s[1] = reply
       /\ \A i \in 1 .. Len(after) : s[i + 1] = after[i] /\ after[i] = results[i]
  <2> DEFINE y == <<reply>>
  <2>1. y \in Seq(Messages) /\ Len(y) = 1 /\ y[1] = reply BY <1>9
  <2> HIDE DEF y
  <2>2. /\ y \o after \in Seq(Messages) /\ Len(y \o after) = Len(y) + Len(after)
        /\ \A i \in 1 .. Len(y) + Len(after) : (y \o after)[i] = IF i <= Len(y) THEN y[i] ELSE after[i - Len(y)]
    <3>1. y \in Seq(Messages) /\ after \in Seq(Messages) BY <1>11, <2>1
    <3> QED BY <3>1, ConcatProperties, Zenon
  <2> DEFINE c == y \o after
             q == Len(after)
  <2>3. q \in Nat /\ q \in 0 .. n /\ \A i \in 1 .. q : after[i] = results[i]
    <3>1. CASE after = results BY <1>7, <1>10, <3>1
    <3>2. CASE after = <<>>
      <4>1. q = 0 BY <3>2
      <4> QED BY <1>7, <4>1
    <3> QED BY <1>11, <3>1, <3>2
  <2>4. \A i \in 1 .. 1 + q : c[i] = IF i <= 1 THEN reply ELSE after[i - 1] BY <2>1, <2>2, <2>3
  <2> HIDE DEF c, q
  <2>5. c[1] = reply BY <2>3, <2>4
  <2>6. \A i \in 1 .. q : i + 1 \in 1 .. 1 + q /\ ~(i + 1 <= 1) /\ (i + 1) - 1 = i BY <2>3
  <2>7. \A i \in 1 .. q : c[i + 1] = after[i] BY <2>4, <2>6
  <2> QED BY <2>1, <2>2, <2>3, <2>5, <2>7 DEF c, q, y
<1> HIDE DEF s
<1>13. Len(after) \in Nat /\ DOMAIN s = 1 .. Len(s) BY <1>11, <1>12
<1>14. \A i \in 2 .. Len(s) : i - 1 \in 1 .. Len(after) /\ i - 1 \in 1 .. n /\ (i - 1) + 1 = i BY <1>7, <1>12, <1>13
<1>15. ASSUME NEW i \in 2 .. Len(s) PROVE s[i].role = "tool" /\ s[i].of = id[i - 1] /\ s[i].calls = <<>>
  <2> DEFINE e == i - 1
  <2>1. e \in 1 .. Len(after) /\ e \in 1 .. n /\ e + 1 = i BY <1>14
  <2> HIDE DEF e
  <2>2. s[e + 1] = after[e] /\ after[e] = results[e] BY <1>12, <2>1
  <2> QED BY <1>10, <2>1, <2>2 DEF e
<1>16. ASSUME NEW k \in 1 .. Len(s), s[k].role = "tool" PROVE AfterReply(s, k)
  <2>1. k # 1 BY <1>9, <1>12, <1>16
  <2>2. k \in 2 .. Len(s) BY <1>13, <2>1
  <2>3. 1 \in 1 .. k - 1 /\ \A i \in 1 + 1 .. k : i \in 2 .. Len(s) BY <1>13, <2>2
  <2>4. \A i \in 1 + 1 .. k : s[i].role = "tool" BY <1>15, <2>3
  <2>5. k - 1 \in DOMAIN s[1].calls BY <1>8, <1>9, <1>12, <1>14, <2>2
  <2>6. s[1].calls[k - 1].id = s[k].of
    <3>1. k - 1 \in 1 .. n BY <1>14, <2>2
    <3>2. calls[k - 1] = Call(id[k - 1], t[k - 1]) BY <1>8, <3>1
    <3>3. s[k].of = id[k - 1] BY <1>15, <2>2
    <3> QED BY <1>9, <1>12, <3>2, <3>3 DEF Call
  <2> QED BY <2>3, <2>4, <2>5, <2>6 DEF AfterReply
<1>17. touched' \subseteq touched \cup Ledger(s)
  <2>1. ASSUME NEW i \in 1 .. n PROVE t[i] \in Ledger(s)
    <3>1. i \in DOMAIN reply.calls /\ reply.calls[i].touch = t[i] BY <1>8, <1>9 DEF Call
    <3>2. t[i] \in TouchedBy(reply) BY <3>1 DEF TouchedBy
    <3>3. 1 \in DOMAIN s /\ s[1] = reply BY <1>12, <1>13
    <3> QED BY <3>2, <3>3, LedgerOf
  <2> QED BY <1>4, <2>1
<1>18. CallsAreDistinct(s)
  <2>1. \A k \in DOMAIN s : k = 1 \/ k \in 2 .. Len(s) BY <1>13
  <2>2. \A k \in DOMAIN s : s[k].calls # <<>> \/ DOMAIN s[k].calls # {} => k = 1 BY <1>15, <2>1
  <2>3. DOMAIN s[1].calls = 1 .. n /\ \A i \in 1 .. n : s[1].calls[i].id = id[i] BY <1>8, <1>9, <1>12 DEF Call
  <2> QED BY <1>4, <2>2, <2>3 DEF CallsAreDistinct
<1>19. Attached(s) BY <1>13, <1>16 DEF Attached
<1>20. s[1].role # "tool" /\ Len(s) > 0 BY <1>9, <1>12, <1>13
<1>21. \A k \in DOMAIN s : s[k].calls # <<>> => s[k].role = "assistant"
  <2>1. \A k \in DOMAIN s : k = 1 \/ k \in 2 .. Len(s) BY <1>13
  <2> QED BY <1>9, <1>12, <1>15, <2>1
<1>22. ResultsDiffer(s)
  <2> SUFFICES ASSUME NEW k \in DOMAIN s, NEW l \in k .. Len(s), \A i \in k .. l : s[i].role = "tool", s[k].of = s[l].of
               PROVE  k = l
    BY DEF ResultsDiffer
  <2>1. k \in 1 .. Len(s) /\ k \in k .. l BY <1>13
  <2>2. k # 1 BY <1>20, <2>1
  <2>3. k \in 2 .. Len(s) /\ l \in 2 .. Len(s) BY <2>1, <2>2
  <2>4. id[k - 1] = id[l - 1] /\ k - 1 \in 1 .. n /\ l - 1 \in 1 .. n BY <1>14, <1>15, <2>3
  <2>5. k - 1 = l - 1 BY <1>4, <2>4
  <2> QED BY <2>3, <2>5
<1>23. /\ transcript' \in Seq(Messages) /\ Rounds(transcript')
       /\ (lossy' \/ Attached(transcript')) /\ LedgerIsCumulative'
       /\ ~Compaction
  <2>1. Appended(s) BY <1>18, <1>19, <1>20, <1>21, <1>22 DEF Appended
  <2> QED BY <1>4, <1>5, <1>12, <1>17, <2>1, GrowKeepsHistory
<1>24. HistoryTypeOK'
  <2>1. touched' \subseteq Touches BY <1>1, <1>4, <1>6
  <2> QED BY <1>1, <1>5, <1>23, <2>1 DEF HistoryTypeOK
<1> QED BY <1>23, <1>24 DEF HistoryInv

\* The user takes another model for the next prompt.
LEMMA SwitchKeepsHistory == HistoryInv /\ SwitchModel => HistoryInv' /\ ~Compaction
<1> SUFFICES ASSUME HistoryInv, SwitchModel PROVE HistoryInv' /\ ~Compaction OBVIOUS
<1>1. transcript \in Seq(Messages) BY DEF HistoryInv, HistoryTypeOK
<1>2. UNCHANGED <<transcript, touched, lossy>> /\ model' \in Models BY DEF SwitchModel
<1>3. Len(transcript) \in Nat BY <1>1
<1>4. ~Compaction BY <1>2, <1>3 DEF Compaction, IsPrefix
<1>5. (Attached(transcript') <=> Attached(transcript)) /\ (Rounds(transcript') <=> Rounds(transcript)) BY <1>2
<1>6. LedgerIsCumulative' <=> LedgerIsCumulative BY <1>2 DEF LedgerIsCumulative
<1> QED BY <1>2, <1>4, <1>5, <1>6 DEF HistoryInv, HistoryTypeOK

\* The compactors.
LEMMA CompactKeepsHistory == HistoryInv /\ (CompactByWindow \/ CompactBySummary) => HistoryInv' /\ CompactionShrinks
<1> SUFFICES ASSUME HistoryInv, CompactByWindow \/ CompactBySummary PROVE HistoryInv' /\ CompactionShrinks OBVIOUS
<1>1. HistoryTypeOK /\ Rounds(transcript) BY DEF HistoryInv
<1>2. CASE CompactByWindow
  <2>1. PICK n \in Windows : Len(transcript) > n /\ Compacts(KeepRecentMessages(transcript, n)) BY <1>2 DEF CompactByWindow
  <2>2. lossy' = TRUE /\ UNCHANGED <<model, touched>> BY <1>2 DEF CompactByWindow
  <2> DEFINE shorter == KeepRecentMessages(transcript, n)
  <2>3. Len(shorter) # Len(transcript) /\ transcript' = shorter BY <2>1 DEF Compacts
  <2>4. shorter \in Seq(Messages) /\ Len(shorter) < Len(transcript) /\ Rounds(shorter)
    BY <1>1, <2>1, <2>3, WindowShrinks
  <2> HIDE DEF shorter
  <2>5. CompactionShrinks BY <1>2, <2>3, <2>4 DEF CompactionShrinks
  <2>6. HistoryTypeOK' BY <1>1, <2>2, <2>3, <2>4 DEF HistoryTypeOK
  <2>7. LedgerIsCumulative' BY <2>2 DEF LedgerIsCumulative
  <2>8. Rounds(transcript') BY <2>3, <2>4
  <2> QED BY <2>2, <2>5, <2>6, <2>7, <2>8 DEF HistoryInv
<1>3. CASE CompactBySummary
  <2>1. PICK b \in Budgets, w \in Summaries : Compacts(Summarized(transcript, b, w)) BY <1>3 DEF CompactBySummary
  <2>2. UNCHANGED <<model, touched, lossy>> BY <1>3 DEF CompactBySummary
  <2> DEFINE shorter == Summarized(transcript, b, w)
  <2>3. Len(shorter) # Len(transcript) /\ transcript' = shorter BY <2>1 DEF Compacts
  <2>4. /\ shorter \in Seq(Messages) /\ Len(shorter) < Len(transcript) /\ Words(shorter) < Words(transcript)
        /\ Ledger(shorter) = Ledger(transcript) /\ (Attached(transcript) => Attached(shorter))
        /\ Rounds(shorter)
    BY <1>1, <2>3, SummaryShrinks
  <2> HIDE DEF shorter
  <2>5. CompactionShrinks BY <2>3, <2>4 DEF CompactionShrinks
  <2>6. HistoryTypeOK' BY <1>1, <2>2, <2>3, <2>4 DEF HistoryTypeOK
  <2>7. Ledger(transcript') = Ledger(transcript) BY <2>3, <2>4
  <2>8. LedgerIsCumulative' <=> lossy' \/ touched' \subseteq Ledger(transcript') BY DEF LedgerIsCumulative
  <2>9. LedgerIsCumulative' BY <2>2, <2>7, <2>8 DEF HistoryInv, LedgerIsCumulative
  <2>10. lossy' \/ Attached(transcript') BY <2>2, <2>3, <2>4 DEF HistoryInv
  <2>11. Rounds(transcript') BY <2>3, <2>4
  <2> QED BY <2>5, <2>6, <2>9, <2>10, <2>11 DEF HistoryInv
<1> QED BY <1>2, <1>3

\* HistoryInv is inductive, though ids are used again: the calls of one reply have ids of
\* their own, results that follow one another are of different calls, each follows its
\* reply or the note that dropped it, and until the window compactor dropped something
\* every result has its reply and the ledger is whole.
THEOREM HistoryInductive == HistorySpec => []HistoryInv
<1>1. HistoryInit => HistoryInv
  <2> SUFFICES ASSUME HistoryInit PROVE HistoryInv OBVIOUS
  <2>1. transcript = <<>> /\ transcript \in Seq(Messages) /\ DOMAIN transcript = {} BY DEF HistoryInit
  <2>2. Attached(transcript) BY <2>1 DEF Attached
  <2>3. Rounds(transcript) BY <2>1 DEF Rounds, CallsAreDistinct, ResultsDiffer
  <2> QED BY <2>1, <2>2, <2>3 DEF HistoryInit, HistoryInv, HistoryTypeOK, LedgerIsCumulative
<1>2. HistoryInv /\ [HistoryNext]_historyVars => HistoryInv'
  <2> SUFFICES ASSUME HistoryInv, [HistoryNext]_historyVars PROVE HistoryInv' OBVIOUS
  <2>1. CASE Ask \/ Answer BY <2>1, TalkKeepsHistory
  <2>2. CASE Work BY <2>2, WorkKeepsHistory
  <2>3. CASE SwitchModel BY <2>3, SwitchKeepsHistory
  <2>4. CASE CompactByWindow \/ CompactBySummary BY <2>4, CompactKeepsHistory
  <2>5. CASE UNCHANGED historyVars
    <3>1. UNCHANGED <<transcript, model, touched, lossy>> BY <2>5 DEF historyVars
    <3>2. LedgerIsCumulative' <=> LedgerIsCumulative BY <3>1 DEF LedgerIsCumulative
    <3> QED BY <3>1, <3>2 DEF HistoryInv, HistoryTypeOK
  <2> QED BY <2>1, <2>2, <2>3, <2>4, <2>5 DEF HistoryNext
<1> QED BY <1>1, <1>2, PTL DEF HistorySpec

\* A compaction splits no round, keeps the ledger of files whole and makes the
\* transcript smaller in messages and, but for the note of the window compactor, in
\* words, whatever the transcript, the budget and the summary (safeSplitPoint,
\* extractFileLedger, the inflation guard).
THEOREM CompactionStaysSafe == HistorySpec => CompactionIsSafe
<1>1. HistoryInv /\ HistoryInv' /\ [HistoryNext]_historyVars => [Compaction => SummariesKeepPairs' /\ LedgerIsCumulative' /\ CompactionShrinks]_historyVars
  <2> SUFFICES ASSUME HistoryInv, HistoryInv', [HistoryNext]_historyVars, Compaction, ~UNCHANGED historyVars
               PROVE  SummariesKeepPairs' /\ LedgerIsCumulative' /\ CompactionShrinks
    OBVIOUS
  <2>1. HistoryInv' => SummariesKeepPairs' BY PairsAreKept, PTL
  <2>2. CompactionShrinks
    BY TalkKeepsHistory, WorkKeepsHistory, SwitchKeepsHistory, CompactKeepsHistory DEF HistoryNext
  <2> QED BY <2>1, <2>2 DEF HistoryInv
<1> QED BY <1>1, HistoryInductive, PTL DEF CompactionIsSafe, HistorySpec

-----------------------------------------------------------------------------
(* History: what goes to the provider. *)

\* What is selected stands at the positions it is told to keep, each once and in order.
Keeps(g, s, P) ==
  /\ DOMAIN g = 1 .. Len(Select(s, P))
  /\ \A i \in DOMAIN g : g[i] \in 1 .. Len(s) /\ g[i] \in P /\ Select(s, P)[i] = s[g[i]]
  /\ \A i, j \in DOMAIN g : g[i] = g[j] => i = j
  /\ \A i, j \in DOMAIN g : i < j => g[i] < g[j]
  /\ \A k \in 1 .. Len(s) : k \in P => \E i \in DOMAIN g : g[i] = k
LEMMA SelectPositions ==
  ASSUME NEW S, NEW s \in Seq(S), NEW P PROVE Select(s, P) \in Seq(S) /\ \E g : Keeps(g, s, P)
<1> DEFINE n == Len(s)
<1>1. n \in Nat /\ \A i \in 1 .. n : s[i] \in S OBVIOUS
<1>0. PICK h : Selecting(h, s, P, S) BY Selects
<1>2. /\ h \in [0 .. n -> Seq(S)] /\ h[0] = <<>>
      /\ \A i \in 1 .. n : h[i] = IF i \in P THEN Append(h[i - 1], s[i]) ELSE h[i - 1]
      /\ Select(s, P) = h[n]
  BY <1>0 DEF Selecting
<1> DEFINE Fit(g, k) == /\ g \in [1 .. Len(h[k]) -> 1 .. k]
                        /\ \A i \in 1 .. Len(h[k]) : g[i] \in P /\ h[k][i] = s[g[i]]
                        /\ \A i, j \in 1 .. Len(h[k]) : g[i] = g[j] => i = j
                        /\ \A i, j \in 1 .. Len(h[k]) : i < j => g[i] < g[j]
                        /\ \A l \in 1 .. k : l \in P => \E i \in 1 .. Len(h[k]) : g[i] = l
           Good == {k \in 0 .. n : \E g : Fit(g, k)}
<1> HIDE DEF n
<1>3. 0 \in Good
  <2>1. Len(h[0]) = 0 BY <1>2
  <2>2. \E g : Fit(g, 0)
    <3>1. Fit([i \in 1 .. 0 |-> i], 0) BY <2>1
    <3> QED BY <3>1
  <2> HIDE DEF Fit
  <2> QED BY <1>1, <2>2
<1>4. ASSUME NEW k \in 1 .. n, k - 1 \in Good PROVE \E g : Fit(g, k)
  <2>1. PICK g : Fit(g, k - 1) BY <1>4
  <2> DEFINE p == h[k - 1]
             l == Len(p)
  <2>2. p \in Seq(S) /\ l \in Nat /\ k \in Nat /\ k - 1 \in Nat /\ s[k] \in S BY <1>1, <1>2
  <2>3. /\ g \in [1 .. l -> 1 .. k - 1]
        /\ \A i \in 1 .. l : g[i] \in P /\ p[i] = s[g[i]]
        /\ \A i, j \in 1 .. l : g[i] = g[j] => i = j
        /\ \A i, j \in 1 .. l : i < j => g[i] < g[j]
        /\ \A q \in 1 .. k - 1 : q \in P => \E i \in 1 .. l : g[i] = q
    BY <2>1
  <2> HIDE DEF p, l
  <2>4. CASE k \notin P
    <3>1. h[k] = p /\ Len(h[k]) = l BY <1>2, <2>4 DEF p, l
    <3>2. g \in [1 .. l -> 1 .. k]
      <4>1. \A i \in 1 .. l : g[i] \in 1 .. k BY <2>2, <2>3
      <4> QED BY <2>3, <4>1
    <3>3. \A q \in 1 .. k : q \in P => q \in 1 .. k - 1 BY <2>2, <2>4
    <3>4. Fit(g, k) BY <2>3, <3>1, <3>2, <3>3
    <3> QED BY <3>4
  <2>5. CASE k \in P
    <3>1. h[k] = Append(p, s[k]) BY <1>2, <2>5 DEF p
    <3> DEFINE a == Append(p, s[k])
    <3>2. Len(a) = l + 1 /\ a[l + 1] = s[k] /\ \A i \in 1 .. l : a[i] = p[i] BY <2>2, AppendProperties DEF l
    <3> HIDE DEF a
    <3> DEFINE f == [i \in 1 .. l + 1 |-> IF i = l + 1 THEN k ELSE g[i]]
    <3>3. f[l + 1] = k /\ \A i \in 1 .. l : f[i] = g[i] /\ g[i] \in 1 .. k - 1 BY <2>2, <2>3
    <3>4. \A i \in 1 .. l + 1 : i = l + 1 \/ i \in 1 .. l BY <2>2
    <3>5. f \in [1 .. l + 1 -> 1 .. k]
      <4>1. ASSUME NEW i \in 1 .. l + 1 PROVE f[i] \in 1 .. k
        <5>1. CASE i = l + 1
          <6> HIDE DEF f
          <6> QED BY <2>2, <3>3, <5>1
        <5>2. CASE i \in 1 .. l
          <6> HIDE DEF f
          <6>1. f[i] \in 1 .. k - 1 BY <3>3, <5>2
          <6> QED BY <2>2, <6>1
        <5> QED BY <3>4, <5>1, <5>2
      <4> QED BY <4>1
    <3> HIDE DEF f
    <3>6. \A i \in 1 .. l + 1 : f[i] \in P /\ a[i] = s[f[i]] BY <2>3, <2>5, <3>2, <3>3, <3>4
    <3>7. \A i, j \in 1 .. l + 1 : f[i] = f[j] => i = j
      <4>1. \A i \in 1 .. l : f[i] # k BY <2>2, <3>3
      <4> QED BY <2>3, <3>3, <3>4, <4>1
    <3>10. \A i, j \in 1 .. l + 1 : i < j => f[i] < f[j]
      <4> SUFFICES ASSUME NEW i \in 1 .. l + 1, NEW j \in 1 .. l + 1, i < j PROVE f[i] < f[j] OBVIOUS
      <4>1. i \in 1 .. l /\ f[i] = g[i] /\ g[i] \in 1 .. k - 1 BY <2>2, <3>3, <3>4
      <4>2. CASE j = l + 1 BY <2>2, <3>3, <4>1, <4>2
      <4>3. CASE j \in 1 .. l BY <2>3, <3>3, <4>1, <4>3
      <4> QED BY <3>4, <4>2, <4>3
    <3>8. \A q \in 1 .. k : q \in P => \E i \in 1 .. l + 1 : f[i] = q
      <4> SUFFICES ASSUME NEW q \in 1 .. k, q \in P PROVE \E i \in 1 .. l + 1 : f[i] = q OBVIOUS
      <4>1. CASE q = k
        <5>1. l + 1 \in 1 .. l + 1 BY <2>2
        <5> QED BY <3>3, <4>1, <5>1
      <4>2. CASE q # k
        <5>1. q \in 1 .. k - 1 BY <2>2, <4>2
        <5>2. PICK i \in 1 .. l : g[i] = q BY <2>3, <5>1
        <5>3. i \in 1 .. l + 1 BY <2>2
        <5> QED BY <3>3, <5>2, <5>3
      <4> QED BY <4>1, <4>2
    <3>9. Fit(f, k) BY <3>1, <3>2, <3>5, <3>6, <3>7, <3>8, <3>10 DEF a
    <3> QED BY <3>9
  <2> QED BY <2>4, <2>5
<1>5. n \in Good
  <2>1. \A k \in 1 .. n : k - 1 \in Good => k \in Good
    <3>1. \A k \in 1 .. n : k \in 0 .. n BY <1>1
    <3>2. \A k \in 1 .. n : k - 1 \in Good => \E g : Fit(g, k) BY <1>4
    <3> HIDE DEF Fit
    <3> QED BY <3>1, <3>2
  <2> HIDE DEF Good
  <2>2. \A k \in 0 .. n : k \in Good BY <1>1, <1>3, <2>1, UpTo
  <2> QED BY <1>1, <2>2
<1>6. PICK g : Fit(g, n) BY <1>5
<1>7. Keeps(g, s, P) BY <1>2, <1>6 DEF Keeps, n
<1>8. h[n] \in Seq(S) BY <1>1, <1>2
<1> QED BY <1>2, <1>7, <1>8

LEMMA SelectNothing ==
  ASSUME NEW S, NEW s \in Seq(S), NEW P, \A i \in 1 .. Len(s) : i \notin P PROVE Select(s, P) = <<>>
<1>1. PICK g : Keeps(g, s, P) BY SelectPositions
<1>2. Select(s, P) \in Seq(S) BY SelectPositions
<1> DEFINE r == Select(s, P)
<1>3. r \in Seq(S) /\ Len(r) \in Nat BY <1>2
<1>4. 1 .. Len(r) = {} BY <1>1 DEF Keeps
<1> HIDE DEF r
<1>5. Len(r) = 0
  <2>1. 1 \notin 1 .. Len(r) BY <1>4
  <2> QED BY <1>3, <2>1
<1>6. r = <<>> BY <1>3, <1>5
<1> QED BY <1>6 DEF r

-----------------------------------------------------------------------------
(* What is sent: ids of other texts than the provider's. *)
Ids == [text : {id.text : id \in Pool} \cup {Nothing}, spelling : {id.spelling : id \in Pool} \cup {Proper}, n : Nat]
Calls == [id : Ids, touch : Touches]
Sent ==
  [role : {"user", "assistant", "tool"}, calls : Seq(Calls), of : Ids,
   says : BOOLEAN, thinks : BOOLEAN, model : Models \cup {Nothing}, words : Nat \ {0}, ledger : SUBSET Touches]

LEMMA PoolIds == Pool \subseteq Ids /\ NoId \in Ids
<1>1. ASSUME NEW id \in Pool PROVE id \in Ids
  <2>1. id.n \in Nat /\ id = [text |-> id.text, spelling |-> id.spelling, n |-> id.n] BY HistoryAssumption
  <2>2. id.text \in {x.text : x \in Pool} \cup {Nothing} /\ id.spelling \in {x.spelling : x \in Pool} \cup {Proper} OBVIOUS
  <2>3. [text |-> id.text, spelling |-> id.spelling, n |-> id.n] \in Ids BY <2>1, <2>2 DEF Ids
  <2> QED BY <2>1, <2>3
<1>2. NoId \in Ids BY DEF NoId, Id, Ids
<1> QED BY <1>1, <1>2

LEMMA SentTyped ==
  ASSUME NEW x \in Sent
  PROVE  /\ x.role \in {"user", "assistant", "tool"} /\ x.calls \in Seq(Calls) /\ x.of \in Ids
         /\ x.says \in BOOLEAN /\ x.thinks \in BOOLEAN
BY DEF Sent

LEMMA SanitizedTyped ==
  ASSUME NEW x \in Sent
  PROVE  /\ Sanitized(x) \in Sent /\ Sanitized(x).role = x.role /\ Sanitized(x).calls = x.calls
         /\ Sanitized(x).says = x.says /\ Sanitized(x).of = x.of
BY DEF Sent, Sanitized

LEMMA SyntheticTyped ==
  ASSUME NEW c \in Calls
  PROVE  Synthetic(c) \in Sent /\ Synthetic(c).role = "tool" /\ Synthetic(c).calls = <<>> /\ Synthetic(c).of = c.id
<1>1. c.id \in Ids BY DEF Calls
<1> DEFINE none == <<>>
<1>2. none \in Seq(Calls) OBVIOUS
<1> HIDE DEF none
<1>3. /\ [role |-> "tool", calls |-> none, of |-> c.id, says |-> TRUE, thinks |-> FALSE, model |-> Nothing, words |-> 1,
          ledger |-> {}] \in Sent
  BY <1>1, <1>2 DEF Sent
<1>4. Synthetic(c) = [role |-> "tool", calls |-> none, of |-> c.id, says |-> TRUE, thinks |-> FALSE, model |-> Nothing,
                      words |-> 1, ledger |-> {}]
  BY DEF Synthetic, Message, none
<1> QED BY <1>3, <1>4 DEF none

LEMMA IdsOfCalls ==
  ASSUME NEW x, NEW id PROVE id \in ToSet(CallIds(x)) <=> \E i \in DOMAIN x.calls : x.calls[i].id = id
BY DEF ToSet, CallIds

\* A transcript whose ids the provider accepts: a result stands after its reply, where
\* the results are of different calls, or is left over.
SoundCalls(m) ==
  /\ CallsAreDistinct(m)
  /\ \A k \in DOMAIN m : m[k].calls # <<>> => m[k].role = "assistant"
  /\ \A k \in DOMAIN m : m[k].role = "tool" => Placed(m, k)
  /\ \A k \in DOMAIN m : \A l \in k .. Len(m) :
       (\A i \in k .. l : m[i].role = "tool") /\ m[k].of = m[l].of /\ AfterReply(m, k) => k = l
  /\ \A id \in AllCalls(m) : Valid(id)

\* What stands after a reply, and the results behind it, are not left over.
LEMMA NotLeftOver ==
  ASSUME NEW S, NEW m \in Seq(S), \A k \in DOMAIN m : m[k].calls # <<>> => m[k].role = "assistant",
         NEW k \in DOMAIN m, AfterReply(m, k), NEW l \in k .. Len(m), LeftOver(m, l)
  PROVE  FALSE
<1>1. Len(m) \in Nat /\ DOMAIN m = 1 .. Len(m) /\ k \in 1 .. Len(m) OBVIOUS
<1>2. PICK j \in 1 .. k - 1 : \E i \in DOMAIN m[j].calls : m[j].calls[i].id = m[k].of BY DEF AfterReply
<1>3. j \in DOMAIN m /\ (j = 1 \/ j \in 2 .. l) BY <1>1
<1>4. m[j].calls # <<>> BY <1>2
<1>5. m[j].role = "assistant" BY <1>3, <1>4
<1>6. j = 1 BY <1>3, <1>5 DEF LeftOver
<1> QED BY <1>4, <1>6 DEF LeftOver

\* Between a reply and the end of its results there are only results of its calls, or of
\* calls that come again, behind the marker.
LEMMA ResultIsOfReply ==
  ASSUME NEW m \in Seq(Sent), SoundCalls(m), NEW k \in DOMAIN m, m[k].role = "assistant",
         NEW p \in k + 1 .. RoundEnd(m, k), m[p].of \in AllCalls(m)
  PROVE  \/ m[p].of \in ToSet(CallIds(m[k])) /\ AfterReply(m, p)
         \/ m[k].calls = <<>> /\ UsedAgain(m, k, m[p].of)
<1> DEFINE e == RoundEnd(m, k)
<1>1. Len(m) \in Nat /\ DOMAIN m = 1 .. Len(m) /\ k \in 1 .. Len(m) OBVIOUS
<1>2. e \in k .. Len(m) /\ \A i \in k + 1 .. e : m[i].role = "tool" BY <1>1, RoundEnds
<1> HIDE DEF e
<1>3. p \in k + 1 .. e BY DEF e
<1>4. p \in DOMAIN m /\ m[p].role = "tool" BY <1>1, <1>2, <1>3
<1>5. CASE AfterReply(m, p)
  <2>1. PICK j \in 1 .. p - 1 : /\ \E i \in DOMAIN m[j].calls : m[j].calls[i].id = m[p].of
                                /\ \A i \in j + 1 .. p : m[i].role = "tool"
    BY <1>5 DEF AfterReply
  <2>2. j \in DOMAIN m BY <1>1, <1>4
  <2>3. m[j].calls # <<>> BY <2>1
  <2>4. m[j].role = "assistant" BY <2>2, <2>3 DEF SoundCalls
  <2>5. ~(j < k)
    <3> SUFFICES ASSUME j < k PROVE FALSE OBVIOUS
    <3>1. k \in j + 1 .. p BY <1>1, <1>2, <1>3, <2>2
    <3> QED BY <2>1, <3>1
  <2>6. ~(j > k)
    <3> SUFFICES ASSUME j > k PROVE FALSE OBVIOUS
    <3>1. j \in k + 1 .. e BY <1>1, <1>2, <1>3, <2>2
    <3> QED BY <1>2, <2>4, <3>1
  <2>7. j = k BY <1>1, <2>2, <2>5, <2>6
  <2> QED BY <1>5, <2>1, <2>7, IdsOfCalls
<1>6. CASE LeftOver(m, p)
  <2>1. k = 1 \/ k \in 2 .. p BY <1>1, <1>2, <1>3
  <2>2. k = 1 /\ m[1].calls = <<>> /\ \A i \in 2 .. p : m[i].role = "tool" BY <1>6, <2>1 DEF LeftOver
  <2>3. PICK q \in DOMAIN m : \E i \in DOMAIN m[q].calls : m[q].calls[i].id = m[p].of BY CalledIn
  <2>4. q # 1 BY <2>2, <2>3
  <2>5. q \in k + 1 .. Len(m) BY <1>1, <2>2, <2>4
  <2> QED BY <2>2, <2>3, <2>5, IdsOfCalls DEF UsedAgain
<1> QED BY <1>4, <1>5, <1>6 DEF SoundCalls, Placed

\* Behind it there are some of them only where a later reply calls them again.
LEMMA Elsewhere ==
  ASSUME NEW m \in Seq(Sent), SoundCalls(m), NEW k \in DOMAIN m, NEW i \in DOMAIN m[k].calls,
         NEW p \in RoundEnd(m, k) + 1 .. Len(m), m[p].role = "tool", m[p].of = m[k].calls[i].id
  PROVE  UsedAgain(m, k, m[k].calls[i].id)
<1> DEFINE e == RoundEnd(m, k)
<1>1. Len(m) \in Nat /\ DOMAIN m = 1 .. Len(m) /\ k \in 1 .. Len(m) OBVIOUS
<1>2. e \in k .. Len(m) /\ (e < Len(m) => m[e + 1].role # "tool") BY <1>1, RoundEnds
<1> HIDE DEF e
<1>3. p \in e + 1 .. Len(m) BY DEF e
<1>4. p \in DOMAIN m /\ e < Len(m) BY <1>1, <1>2, <1>3
<1>5. CASE AfterReply(m, p)
  <2>1. PICK j \in 1 .. p - 1 : /\ \E r \in DOMAIN m[j].calls : m[j].calls[r].id = m[p].of
                                /\ \A r \in j + 1 .. p : m[r].role = "tool"
    BY <1>5 DEF AfterReply
  <2>2. ~(j <= k)
    <3> SUFFICES ASSUME j <= k PROVE FALSE OBVIOUS
    <3>1. e + 1 \in j + 1 .. p BY <1>1, <1>2, <1>3
    <3> QED BY <1>2, <1>4, <2>1, <3>1
  <2>3. j \in k + 1 .. Len(m) BY <1>1, <1>4, <2>2
  <2> QED BY <2>1, <2>3, IdsOfCalls DEF UsedAgain
<1>6. CASE LeftOver(m, p)
  <2>1. m[k].calls # <<>> OBVIOUS
  <2>2. m[k].role = "assistant" BY <2>1 DEF SoundCalls
  <2>3. k = 1 \/ k \in 2 .. p BY <1>1, <1>2, <1>3
  <2> QED BY <1>6, <2>1, <2>2, <2>3 DEF LeftOver
<1> QED BY <1>4, <1>5, <1>6 DEF SoundCalls, Placed

\* Who may be missing, and who may be there, among the results after reply k.
Missing(got, m, k) == \A id \in ToSet(CallIds(m[k])) : id \notin got => UsedAgain(m, k, id)
Strange(got, m, k) ==
  \A id \in got : id \in ToSet(CallIds(m[k])) \/ (m[k].calls = <<>> /\ UsedAgain(m, k, id))
OneEach(b, m, k) == m[k].calls # <<>> => \A i, j \in 2 .. Len(b) : b[i].of = b[j].of => i = j
ResultsOf(b) == {b[i].of : i \in 2 .. Len(b)}

\* Reply k, its results and no message more.
IsRound(b, m, k) ==
  /\ b \in Seq(Sent) /\ Len(b) > 0 /\ b[1] = Sanitized(m[k])
  /\ \A i \in 2 .. Len(b) : b[i].role = "tool" /\ b[i].calls = <<>>
  /\ Missing(ResultsOf(b), m, k) /\ Strange(ResultsOf(b), m, k) /\ OneEach(b, m, k)

\* Element i of b is one of r, which follows the first, or of u, which follows r.
OfTails(b, i, r, u) ==
  \/ \E q \in 1 .. Len(r) : i = 1 + q /\ b[i] = r[q]
  \/ \E q \in 1 .. Len(u) : i = 1 + Len(r) + q /\ b[i] = u[q]

\* A head and two tails.
Joined(x, r, u) == <<x>> \o r \o u
LEMMA HeadAndTails ==
  ASSUME NEW x \in Sent, NEW r \in Seq(Sent), NEW u \in Seq(Sent), NEW b, b = Joined(x, r, u)
  PROVE  /\ b \in Seq(Sent) /\ Len(b) = 1 + Len(r) + Len(u) /\ b[1] = x
         /\ \A i \in 2 .. Len(b) : OfTails(b, i, r, u)
         /\ \A q \in 1 .. Len(r) : 1 + q \in 2 .. Len(b) /\ b[1 + q] = r[q]
         /\ \A q \in 1 .. Len(u) : 1 + Len(r) + q \in 2 .. Len(b) /\ b[1 + Len(r) + q] = u[q]
<1> DEFINE y == <<x>>
           f == y \o r
<1>1. y \in Seq(Sent) /\ Len(y) = 1 /\ y[1] = x OBVIOUS
<1> HIDE DEF y
<1>a. y \in Seq(Sent) /\ r \in Seq(Sent) BY <1>1
<1>2. /\ f \in Seq(Sent) /\ Len(f) = Len(y) + Len(r) /\ Len(r) \in Nat
      /\ \A i \in 1 .. Len(y) : f[i] = y[i]
      /\ \A i \in 1 .. Len(r) : f[Len(y) + i] = r[i]
  <2>1. Len(f) = Len(y) + Len(r) /\ f \in Seq(Sent) /\ Len(r) \in Nat BY <1>a, InOne
  <2>2. \A i \in 1 .. Len(y) : f[i] = y[i] BY <1>a, InOne
  <2>3. \A i \in 1 .. Len(r) : f[Len(y) + i] = r[i] BY <1>a, InOne
  <2> QED BY <2>1, <2>2, <2>3
<1>3. b = f \o u BY DEF y, Joined
<1> HIDE DEF f
<1>b. f \in Seq(Sent) /\ u \in Seq(Sent) BY <1>2
<1>4. /\ f \o u \in Seq(Sent) /\ Len(f \o u) = Len(f) + Len(u) /\ Len(u) \in Nat
      /\ \A i \in 1 .. Len(f) : (f \o u)[i] = f[i]
      /\ \A i \in 1 .. Len(u) : (f \o u)[Len(f) + i] = u[i]
  BY <1>b, InOne
<1> DEFINE lr == Len(r)
           lu == Len(u)
<1>5. lr \in Nat /\ lu \in Nat /\ Len(f) = 1 + lr /\ b \in Seq(Sent) /\ Len(b) = 1 + lr + lu BY <1>1, <1>2, <1>3, <1>4
<1>6. \A i \in 1 .. 1 + lr : b[i] = f[i] BY <1>3, <1>4, <1>5
<1>7. \A i \in 1 .. lu : b[1 + lr + i] = u[i] BY <1>3, <1>4, <1>5
<1>8. f[1] = x /\ \A i \in 1 .. lr : f[1 + i] = r[i] BY <1>1, <1>2
<1> HIDE DEF lr, lu
<1>9. 1 \in 1 .. 1 + lr /\ \A i \in 1 .. lr : 1 + i \in 1 .. 1 + lr /\ 1 + i \in 2 .. 1 + lr + lu BY <1>5
<1>10. b[1] = x /\ \A q \in 1 .. lr : b[1 + q] = r[q] BY <1>6, <1>8, <1>9
<1>11. \A q \in 1 .. lu : 1 + lr + q \in 2 .. 1 + lr + lu BY <1>5
<1>12. ASSUME NEW i \in 2 .. 1 + lr + lu
       PROVE  (\E q \in 1 .. lr : i = 1 + q) \/ (\E q \in 1 .. lu : i = 1 + lr + q)
  <2>1. CASE i <= 1 + lr
    <3>1. i - 1 \in 1 .. lr /\ i = 1 + (i - 1) BY <1>5, <2>1
    <3> QED BY <3>1
  <2>2. CASE ~(i <= 1 + lr)
    <3>1. i - (1 + lr) \in 1 .. lu /\ i = 1 + lr + (i - (1 + lr)) BY <1>5, <2>2
    <3> QED BY <3>1
  <2> QED BY <2>1, <2>2
<1>13. \A i \in 2 .. 1 + lr + lu : (\E q \in 1 .. lr : i = 1 + q /\ b[i] = r[q]) \/ (\E q \in 1 .. lu : i = 1 + lr + q /\ b[i] = u[q])
  BY <1>7, <1>10, <1>12
<1>14. \A i \in 2 .. 1 + lr + lu : OfTails(b, i, r, u) BY <1>13 DEF OfTails, lr, lu
<1> QED BY <1>5, <1>7, <1>9, <1>10, <1>11, <1>14 DEF lr, lu

\* What becomes of a reply that is kept.
LEMMA ReplyIsAnswered ==
  ASSUME NEW m \in Seq(Sent), SoundCalls(m), NEW k \in DOMAIN m, m[k].role = "assistant", Meaningful(Sanitized(m[k]))
  PROVE  IsRound(Kept(m, k, RoundEnd(m, k), AllCalls(m)), m, k)
<1> DEFINE e == RoundEnd(m, k)
           b == Kept(m, k, e, AllCalls(m))
           calls == m[k].calls
           ms == SubSeq(m, k + 1, e)
           P == {i \in DOMAIN ms : ms[i].of \in AllCalls(m)}
           results == Select(ms, P)
           got == {x.of : x \in ToSet(results)}
           rest == SubSeq(m, e + 1, Len(m))
           Q == {i \in DOMAIN calls : calls[i].id \notin got /\ \A x \in ToSet(rest) : x.role = "tool" => x.of # calls[i].id}
           owed == Select(calls, Q)
           made == [i \in DOMAIN owed |-> Synthetic(owed[i])]
<1>1. Len(m) \in Nat /\ DOMAIN m = 1 .. Len(m) /\ k \in 1 .. Len(m) OBVIOUS
<1>2. e \in k .. Len(m) /\ (\A i \in k + 1 .. e : m[i].role = "tool") BY <1>1, RoundEnds
<1>3. b = <<Sanitized(m[k])>> \o results \o made
  BY DEF Kept, Round, Known, Unanswered
<1>4. m[k] \in Sent /\ calls \in Seq(Calls)
  <2>1. m[k] \in Sent BY <1>1
  <2> QED BY <2>1, SentTyped
<1>5. \A p \in k + 1 .. e : m[p].of \in AllCalls(m) =>
        \/ m[p].of \in ToSet(CallIds(m[k])) /\ AfterReply(m, p)
        \/ calls = <<>> /\ UsedAgain(m, k, m[p].of)
  BY ResultIsOfReply
<1>6. \A p \in e + 1 .. Len(m), i \in DOMAIN calls :
        m[p].role = "tool" /\ m[p].of = calls[i].id => UsedAgain(m, k, calls[i].id)
  BY Elsewhere
<1> HIDE DEF e, calls
<1>7. ms \in Seq(Sent) /\ Len(ms) = e - k /\ \A i \in 1 .. e - k : ms[i] = m[k + i] /\ k + i \in k + 1 .. e /\ k + i \in DOMAIN m
  <2> DEFINE a == k + 1
  <2>1. a \in Int /\ e \in Int /\ a + 0 = k + 1 /\ \A i \in a .. e : m[i] \in Sent BY <1>1, <1>2
  <2>2. \A i \in 1 .. e - k : a + i - 1 = k + i /\ k + i \in k + 1 .. e /\ k + i \in DOMAIN m BY <1>1, <1>2
  <2>3. (IF a <= e THEN e - a + 1 ELSE 0) = e - k /\ e - a + 1 = e - k BY <1>1, <1>2
  <2> HIDE DEF a
  <2>4. /\ SubSeq(m, a, e) \in Seq(Sent) /\ Len(SubSeq(m, a, e)) = (IF a <= e THEN e - a + 1 ELSE 0)
        /\ \A i \in 1 .. e - a + 1 : SubSeq(m, a, e)[i] = m[a + i - 1]
    BY <2>1, SubSeqProperties
  <2>5. /\ SubSeq(m, a, e) \in Seq(Sent) /\ Len(SubSeq(m, a, e)) = e - k
        /\ \A i \in 1 .. e - k : SubSeq(m, a, e)[i] = m[a + i - 1]
    BY <2>3, <2>4
  <2> QED BY <2>2, <2>5 DEF a
<1>8. ASSUME NEW x \in ToSet(rest), x.role = "tool", NEW i \in DOMAIN calls, x.of = calls[i].id
      PROVE  UsedAgain(m, k, calls[i].id)
  <2>1. e \in 0 .. Len(m) BY <1>1, <1>2
  <2>2. rest \in Seq(Sent) /\ Len(rest) = Len(m) - e /\ \A q \in 1 .. Len(m) - e : rest[q] = m[e + q] BY <2>1, CutInTwo
  <2> HIDE DEF rest
  <2>3. PICK q \in 1 .. Len(m) - e : x = rest[q] BY <2>2 DEF ToSet
  <2>4. e + q \in e + 1 .. Len(m) /\ x = m[e + q] BY <1>1, <2>1, <2>2, <2>3
  <2> QED BY <1>6, <1>8, <2>4
<1>9. \A i \in DOMAIN calls : (i \in Q => calls[i].id \notin got)
                              /\ (i \in Q \/ calls[i].id \in got \/ UsedAgain(m, k, calls[i].id))
  <2> HIDE DEF rest, got
  <2> QED BY <1>8
<1> HIDE DEF ms, Q
<1>10. results \in Seq(Sent) /\ \E g : Keeps(g, ms, P)
  <2> HIDE DEF P
  <2> QED BY <1>7, SelectPositions
<1>11. PICK g : Keeps(g, ms, P) BY <1>10
<1>12. owed \in Seq(Calls) /\ \E g2 : Keeps(g2, calls, Q) BY <1>4, SelectPositions
<1>13. PICK g2 : Keeps(g2, calls, Q) BY <1>12
<1> DEFINE R == 1 .. Len(results)
           U == 1 .. Len(owed)
<1>14. \A i \in R : g[i] \in 1 .. e - k /\ g[i] \in P /\ results[i] = ms[g[i]] BY <1>7, <1>11 DEF Keeps
<1>15. \A i, j \in R : g[i] = g[j] => i = j BY <1>11 DEF Keeps
<1>16. \A i \in U : g2[i] \in DOMAIN calls /\ g2[i] \in Q /\ owed[i] = calls[g2[i]] BY <1>4, <1>13 DEF Keeps
<1>17. \A i, j \in U : g2[i] = g2[j] => i = j BY <1>13 DEF Keeps
<1>18. \A i \in DOMAIN calls : i \in Q => \E q \in U : g2[q] = i BY <1>4, <1>13 DEF Keeps
<1>19. \A i \in R : /\ results[i] = m[k + g[i]] /\ k + g[i] \in DOMAIN m /\ k + g[i] \in k + 1 .. e
                    /\ results[i].role = "tool" /\ results[i].of \in AllCalls(m)
  <2> SUFFICES ASSUME NEW i \in R
               PROVE  /\ results[i] = m[k + g[i]] /\ k + g[i] \in DOMAIN m /\ k + g[i] \in k + 1 .. e
                      /\ results[i].role = "tool" /\ results[i].of \in AllCalls(m)
    OBVIOUS
  <2>1. g[i] \in 1 .. e - k /\ g[i] \in P /\ results[i] = ms[g[i]] BY <1>14
  <2> DEFINE p == k + g[i]
  <2>2. results[i] = m[p] /\ p \in DOMAIN m /\ p \in k + 1 .. e BY <1>7, <2>1
  <2>3. results[i].of \in AllCalls(m) BY <2>1
  <2> HIDE DEF p, results, R, P
  <2>4. m[p].role = "tool" BY <1>2, <2>2
  <2> QED BY <2>2, <2>3, <2>4 DEF p
<1>20. \A i \in R : results[i].calls = <<>> BY <1>19 DEF SoundCalls
<1>a. \A i \in R : \/ results[i].of \in ToSet(CallIds(m[k])) /\ AfterReply(m, k + g[i])
                   \/ calls = <<>> /\ UsedAgain(m, k, results[i].of)
  <2> SUFFICES ASSUME NEW i \in R
               PROVE  \/ results[i].of \in ToSet(CallIds(m[k])) /\ AfterReply(m, k + g[i])
                      \/ calls = <<>> /\ UsedAgain(m, k, results[i].of)
    OBVIOUS
  <2> DEFINE p == k + g[i]
  <2>1. results[i] = m[p] /\ p \in k + 1 .. e /\ results[i].of \in AllCalls(m) BY <1>19
  <2> HIDE DEF p, results, R
  <2>2. m[p].of \in AllCalls(m) BY <2>1
  <2>3. \/ m[p].of \in ToSet(CallIds(m[k])) /\ AfterReply(m, p)
        \/ calls = <<>> /\ UsedAgain(m, k, m[p].of)
    BY <1>5, <2>1, <2>2
  <2> QED BY <2>1, <2>3 DEF p
<1>21. ASSUME calls # <<>> PROVE \A i, j \in R : results[i].of = results[j].of => i = j
  <2> SUFFICES ASSUME NEW i \in R, NEW j \in R, results[i].of = results[j].of PROVE i = j OBVIOUS
  <2>1. k + g[i] = k + g[j]
    <3> DEFINE p == k + g[i]
               q == k + g[j]
    <3>1. p \in DOMAIN m /\ p \in k + 1 .. e /\ m[p].of = results[i].of /\ AfterReply(m, p) BY <1>19, <1>a, <1>21
    <3>2. q \in DOMAIN m /\ q \in k + 1 .. e /\ m[q].of = results[j].of /\ AfterReply(m, q) BY <1>19, <1>a, <1>21
    <3>3. m[p].of = m[q].of BY <3>1, <3>2
    <3> HIDE DEF p, q, results, R
    <3>4. ASSUME NEW c \in k + 1 .. e, NEW d \in k + 1 .. e, c <= d, m[c].of = m[d].of, AfterReply(m, c) PROVE c = d
      <4>1. c \in DOMAIN m /\ d \in c .. Len(m) /\ \A r \in c .. d : r \in k + 1 .. e BY <1>1, <1>2, <3>4
      <4>2. \A r \in c .. d : m[r].role = "tool" BY <1>2, <4>1
      <4> QED BY <3>4, <4>1, <4>2 DEF SoundCalls
    <3>5. p <= q \/ q <= p BY <1>1, <1>2, <3>1, <3>2
    <3>6. p = q BY <3>1, <3>2, <3>3, <3>4, <3>5
    <3> QED BY <3>6 DEF p, q
  <2>2. g[i] \in Int /\ g[j] \in Int /\ k \in Int BY <1>1, <1>2, <1>14
  <2>3. g[i] = g[j] BY <2>1, <2>2
  <2> QED BY <1>15, <2>3
<1>22. got = {results[i].of : i \in R}
  <2>1. DOMAIN results = R BY <1>10
  <2> HIDE DEF results, R
  <2> QED BY <2>1 DEF ToSet
<1>23. DOMAIN owed = U /\ Len(owed) \in Nat BY <1>12
<1> HIDE DEF results, got, P, owed
<1>24. \A i \in U : owed[i] \in Calls BY <1>12
<1>25. made \in Seq(Sent) /\ Len(made) = Len(owed) /\ \A i \in U : made[i] = Synthetic(owed[i])
  <2>1. made \in [U -> Sent] BY <1>23, <1>24, SyntheticTyped
  <2>2. \A i \in U : made[i] = Synthetic(owed[i]) BY <1>23
  <2> HIDE DEF made
  <2>3. made \in Seq(Sent) /\ Len(made) = Len(owed) BY <1>23, <2>1, IsASeq
  <2> QED BY <2>2, <2>3
<1>26. \A i \in U : made[i].role = "tool" /\ made[i].calls = <<>> /\ made[i].of = owed[i].id
  BY <1>24, <1>25, SyntheticTyped
<1>27. \A i \in U : made[i].of \notin got /\ \E q \in DOMAIN calls : q = g2[i] /\ calls[q].id = made[i].of
  <2> SUFFICES ASSUME NEW i \in U PROVE made[i].of \notin got /\ \E q \in DOMAIN calls : q = g2[i] /\ calls[q].id = made[i].of
    OBVIOUS
  <2>1. g2[i] \in DOMAIN calls /\ g2[i] \in Q /\ owed[i] = calls[g2[i]] BY <1>16
  <2>2. calls[g2[i]].id \notin got BY <1>9, <2>1, Zenon
  <2>3. made[i].of = calls[g2[i]].id BY <1>26, <2>1
  <2> QED BY <2>1, <2>2, <2>3
<1>28. \A i, j \in U : made[i].of = made[j].of => i = j
  <2> SUFFICES ASSUME NEW i \in U, NEW j \in U, made[i].of = made[j].of PROVE i = j OBVIOUS
  <2>0. \A p, q \in DOMAIN calls : calls[p].id = calls[q].id => p = q BY DEF SoundCalls, CallsAreDistinct, calls
  <2> HIDE DEF made, U
  <2>1. g2[i] = g2[j] BY <1>27, <2>0
  <2> QED BY <1>17, <2>1
<1>29. ASSUME NEW i \in DOMAIN calls
       PROVE  \/ \E q \in R : results[q].of = calls[i].id
              \/ \E q \in U : made[q].of = calls[i].id
              \/ UsedAgain(m, k, calls[i].id)
  <2>1. CASE calls[i].id \in got BY <1>22, <2>1
  <2>2. CASE i \in Q
    <3>1. PICK q \in U : g2[q] = i BY <1>18, <2>2
    <3>2. owed[q] = calls[i] /\ made[q].of = owed[q].id BY <1>16, <1>26, <3>1
    <3> QED BY <3>2
  <2> QED BY <1>9, <2>1, <2>2, Zenon
<1> HIDE DEF made
<1>30. /\ b \in Seq(Sent) /\ Len(b) = 1 + Len(results) + Len(made) /\ b[1] = Sanitized(m[k])
       /\ \A i \in 2 .. Len(b) : OfTails(b, i, results, made)
       /\ \A q \in 1 .. Len(results) : 1 + q \in 2 .. Len(b) /\ b[1 + q] = results[q]
       /\ \A q \in 1 .. Len(made) : 1 + Len(results) + q \in 2 .. Len(b) /\ b[1 + Len(results) + q] = made[q]
  <2>1. Sanitized(m[k]) \in Sent BY <1>4, SanitizedTyped
  <2> DEFINE x == Sanitized(m[k])
             c == b
  <2>2. x \in Sent /\ c = Joined(x, results, made) BY <1>3, <2>1 DEF Joined
  <2> HIDE DEF x, b, c
  <2>3. /\ c \in Seq(Sent) /\ Len(c) = 1 + Len(results) + Len(made) /\ c[1] = x
        /\ \A i \in 2 .. Len(c) : OfTails(c, i, results, made)
        /\ \A q \in 1 .. Len(results) : 1 + q \in 2 .. Len(c) /\ c[1 + q] = results[q]
        /\ \A q \in 1 .. Len(made) : 1 + Len(results) + q \in 2 .. Len(c) /\ c[1 + Len(results) + q] = made[q]
    <3>1. results \in Seq(Sent) /\ made \in Seq(Sent) BY <1>10, <1>25
    <3>2. /\ c \in Seq(Sent) /\ Len(c) = 1 + Len(results) + Len(made) /\ c[1] = x
          /\ \A q \in 1 .. Len(results) : 1 + q \in 2 .. Len(c) /\ c[1 + q] = results[q]
      BY <2>2, <3>1, HeadAndTails
    <3>3. \A q \in 1 .. Len(made) : 1 + Len(results) + q \in 2 .. Len(c) /\ c[1 + Len(results) + q] = made[q]
      BY <2>2, <3>1, HeadAndTails
    <3>4. \A i \in 2 .. Len(c) : OfTails(c, i, results, made)
      BY <2>2, <3>1, HeadAndTails
    <3> QED BY <3>2, <3>3, <3>4
  <2> QED BY <2>3 DEF c, x
<1> HIDE DEF b
<1>31. \A i \in 2 .. Len(b) : \/ \E q \in R : i = 1 + q /\ b[i] = results[q]
                              \/ \E q \in U : i = 1 + Len(results) + q /\ b[i] = made[q]
  BY <1>25, <1>30 DEF OfTails
<1>32. \A q \in R : 1 + q \in 2 .. Len(b) /\ b[1 + q] = results[q] BY <1>30
<1>33. \A q \in U : 1 + Len(results) + q \in 2 .. Len(b) /\ b[1 + Len(results) + q] = made[q] BY <1>25, <1>30
<1>34. Len(results) \in Nat BY <1>10
<1> HIDE DEF R, U
<1>35. \A i \in 2 .. Len(b) : b[i].role = "tool" /\ b[i].calls = <<>> BY <1>19, <1>20, <1>26, <1>31
<1>36. Strange(ResultsOf(b), m, k)
  <2> SUFFICES ASSUME NEW i \in 2 .. Len(b)
               PROVE  b[i].of \in ToSet(CallIds(m[k])) \/ (m[k].calls = <<>> /\ UsedAgain(m, k, b[i].of))
    BY DEF Strange, ResultsOf
  <2>1. CASE \E q \in R : i = 1 + q /\ b[i] = results[q] BY <1>a, <2>1 DEF calls
  <2>2. CASE \E q \in U : i = 1 + Len(results) + q /\ b[i] = made[q]
    <3>1. \E q \in DOMAIN calls : calls[q].id = b[i].of BY <1>27, <2>2
    <3> QED BY <3>1, IdsOfCalls DEF calls
  <2> QED BY <1>31, <2>1, <2>2
<1>37. Missing(ResultsOf(b), m, k)
  <2> SUFFICES ASSUME NEW id \in ToSet(CallIds(m[k])), id \notin ResultsOf(b) PROVE UsedAgain(m, k, id) BY DEF Missing
  <2>1. PICK q \in DOMAIN calls : id = calls[q].id BY IdsOfCalls DEF calls
  <2>2. \A i \in 2 .. Len(b) : b[i].of # id BY DEF ResultsOf
  <2>3. (\A p \in R : results[p].of # id) /\ \A p \in U : made[p].of # id BY <1>32, <1>33, <2>2
  <2> QED BY <1>29, <2>1, <2>3
<1>38. OneEach(b, m, k)
  <2> SUFFICES ASSUME calls # <<>>, NEW i \in 2 .. Len(b), NEW j \in 2 .. Len(b), b[i].of = b[j].of PROVE i = j
    BY DEF OneEach, calls
  <2>1. \A p \in R, q \in U : results[p].of # made[q].of BY <1>22, <1>27
  <2> QED BY <1>21, <1>28, <1>31, <2>1
<1>39. Len(b) > 0 BY <1>23, <1>25, <1>30, <1>34
<1> QED BY <1>30, <1>35, <1>36, <1>37, <1>38, <1>39 DEF IsRound, b, e

\* What message k leaves: nothing, or a question or a reply with results.
IsBlock(b, m, k) ==
  /\ b \in Seq(Sent)
  /\ Len(b) > 0 =>
       /\ b[1].role \in {"user", "assistant"} /\ b[1].role = m[k].role /\ b[1].calls = m[k].calls /\ b[1].says = m[k].says
       /\ b[1].role = "user" => Len(b) = 1
       /\ \A i \in 2 .. Len(b) : b[i].role = "tool" /\ b[i].calls = <<>>
       /\ Missing(ResultsOf(b), m, k) /\ Strange(ResultsOf(b), m, k) /\ OneEach(b, m, k)
  /\ Len(b) = 0 => m[k].role = "tool" \/ (~m[k].says /\ m[k].calls = <<>>)

\* A result leaves nothing: the reply or the marker before it took it.
LEMMA ResultIsTaken ==
  ASSUME NEW m \in Seq(Sent), SoundCalls(m), NEW k \in DOMAIN m, m[k].role = "tool"
  PROVE  Kept(m, k, RoundEnd(m, k), AllCalls(m)) = <<>>
<1>1. Len(m) \in Nat /\ DOMAIN m = 1 .. Len(m) /\ k \in 1 .. Len(m) OBVIOUS
<1>2. Kept(m, k, RoundEnd(m, k), AllCalls(m)) = IF Absorbed(m, k) THEN <<>> ELSE Known(<<m[k]>>, AllCalls(m))
  BY DEF Kept
<1>3. CASE AfterReply(m, k)
  <2>1. PICK j \in 1 .. k - 1 : /\ \E i \in DOMAIN m[j].calls : m[j].calls[i].id = m[k].of
                                /\ \A i \in j + 1 .. k : m[i].role = "tool"
    BY <1>3 DEF AfterReply
  <2>2. j \in DOMAIN m /\ m[j] \in Sent BY <1>1
  <2>3. m[j].calls # <<>> BY <2>1
  <2>4. m[j].role = "assistant" BY <2>2, <2>3 DEF SoundCalls
  <2>5. Meaningful(Sanitized(m[j])) BY <2>2, <2>3, SanitizedTyped DEF Meaningful
  <2>6. Absorbed(m, k) BY <2>1, <2>4, <2>5 DEF Absorbed
  <2> QED BY <1>2, <2>6
<1>4. CASE LeftOver(m, k)
  <2>1. m[1].role = "assistant" /\ m[1].says /\ \A i \in 1 + 1 .. k : m[i].role = "tool" BY <1>4 DEF LeftOver
  <2>2. 1 \in DOMAIN m /\ m[1] \in Sent BY <1>1
  <2>3. Meaningful(Sanitized(m[1])) BY <2>1, <2>2, SanitizedTyped DEF Meaningful
  <2>4. k # 1 BY <2>1
  <2>5. 1 \in 1 .. k - 1 BY <1>1, <2>4
  <2>6. Absorbed(m, k) BY <2>1, <2>3, <2>5 DEF Absorbed
  <2> QED BY <1>2, <2>6
<1> QED BY <1>3, <1>4 DEF SoundCalls, Placed

LEMMA KeptIsBlock ==
  ASSUME NEW m \in Seq(Sent), SoundCalls(m), NEW k \in DOMAIN m
  PROVE  IsBlock(Kept(m, k, RoundEnd(m, k), AllCalls(m)), m, k)
<1> DEFINE b == Kept(m, k, RoundEnd(m, k), AllCalls(m))
           x == m[k]
<1>1. x \in Sent OBVIOUS
<1>2. x.role \in {"user", "assistant", "tool"} /\ x.calls \in Seq(Calls) BY <1>1, SentTyped
<1>3. /\ Sanitized(x) \in Sent /\ Sanitized(x).role = x.role /\ Sanitized(x).calls = x.calls
      /\ Sanitized(x).says = x.says
  BY <1>1, SanitizedTyped
<1>4. CASE x.role = "assistant" /\ Meaningful(Sanitized(x))
  <2>1. IsRound(b, m, k) BY <1>4, ReplyIsAnswered
  <2> HIDE DEF b
  <2>2. Len(b) \in Nat /\ Len(b) > 0 /\ b[1].role = "assistant" BY <1>3, <1>4, <2>1 DEF IsRound
  <2>3. IsBlock(b, m, k) BY <1>3, <1>4, <2>1, <2>2 DEF IsRound, IsBlock
  <2> QED BY <2>3 DEF b
<1>5. CASE x.role = "assistant" /\ ~Meaningful(Sanitized(x))
  <2>1. b = <<>> BY <1>5 DEF Kept
  <2>2. ~x.says /\ x.calls = <<>> BY <1>3, <1>5 DEF Meaningful
  <2> HIDE DEF b
  <2>3. IsBlock(b, m, k) BY <2>1, <2>2 DEF IsBlock
  <2> QED BY <2>3 DEF b
<1>6. CASE x.role = "tool"
  <2>1. b = <<>> BY <1>6, ResultIsTaken
  <2> HIDE DEF b
  <2>2. IsBlock(b, m, k) BY <1>6, <2>1 DEF IsBlock
  <2> QED BY <2>2 DEF b
<1>7. CASE x.role = "user"
  <2>1. b = <<x>> BY <1>7 DEF Kept
  <2>2. x.calls = <<>> BY <1>7 DEF SoundCalls
  <2> HIDE DEF b
  <2>3. b \in Seq(Sent) /\ Len(b) = 1 /\ b[1] = x BY <1>1, <2>1
  <2>4. 2 .. Len(b) = {} BY <2>3
  <2>5. ToSet(CallIds(x)) = {} BY <2>2 DEF CallIds, ToSet
  <2>6. ResultsOf(b) = {} BY <2>4 DEF ResultsOf
  <2>7. Missing(ResultsOf(b), m, k) /\ Strange(ResultsOf(b), m, k) /\ OneEach(b, m, k)
    BY <2>2, <2>5, <2>6 DEF Missing, Strange, OneEach
  <2>8. IsBlock(b, m, k) BY <1>7, <2>3, <2>4, <2>7 DEF IsBlock
  <2> QED BY <2>8 DEF b
<1> QED BY <1>2, <1>4, <1>5, <1>6, <1>7

-----------------------------------------------------------------------------
\* A later reply has a call of this id: of what is sent, or of what is behind message d.
Owed(h, m, d, k, id) == UsedAgain(h, k, id) \/ UsedAgain(m, d, id)

\* The results of reply k are those up to e, one for each call but those that are owed.
Complete(h, m, d, k, e) ==
  /\ \A id \in ToSet(CallIds(h[k])) : (\E i \in k + 1 .. e : h[i].of = id) \/ Owed(h, m, d, k, id)
  /\ \A i \in k + 1 .. e : h[i].of \in ToSet(CallIds(h[k])) \/ (h[k].calls = <<>> /\ Owed(h, m, d, k, h[i].of))
  /\ h[k].calls # <<>> => \A i, j \in k + 1 .. e : h[i].of = h[j].of => i = j
Answered(h, m, d, k, e) ==
  /\ e \in k .. Len(h) /\ \A i \in k + 1 .. e : h[i].role = "tool"
  /\ e < Len(h) => h[e + 1].role # "tool"
  /\ Complete(h, m, d, k, e)

LEMMA AnsweredUpTo ==
  ASSUME NEW h \in Seq(Sent), NEW m, NEW d, NEW k \in DOMAIN h, NEW e, Answered(h, m, d, k, e)
  PROVE  RoundEnd(h, k) = e
<1> DEFINE r == RoundEnd(h, k)
<1>1. Len(h) \in Nat /\ k \in 1 .. Len(h) OBVIOUS
<1>2. r \in k .. Len(h) /\ (\A i \in k + 1 .. r : h[i].role = "tool") /\ (r < Len(h) => h[r + 1].role # "tool")
  BY <1>1, RoundEnds
<1>3. e \in k .. Len(h) /\ (\A i \in k + 1 .. e : h[i].role = "tool") /\ (e < Len(h) => h[e + 1].role # "tool")
  BY DEF Answered
<1> HIDE DEF r
<1>4. ~(r < e)
  <2> SUFFICES ASSUME r < e PROVE FALSE OBVIOUS
  <2>1. r + 1 \in k + 1 .. e /\ r < Len(h) BY <1>1, <1>2, <1>3
  <2> QED BY <1>2, <1>3, <2>1
<1>5. ~(e < r)
  <2> SUFFICES ASSUME e < r PROVE FALSE OBVIOUS
  <2>1. e + 1 \in k + 1 .. r /\ e < Len(h) BY <1>1, <1>2, <1>3
  <2> QED BY <1>2, <1>3, <2>1
<1>6. r = e BY <1>1, <1>2, <1>3, <1>4, <1>5
<1> QED BY <1>6 DEF r

\* What is sent so far, of the first d messages.
SoundSoFar(h, m, d) ==
  /\ h \in Seq(Sent)
  /\ \A k \in DOMAIN h : h[k].role = "assistant" => \E e : Answered(h, m, d, k, e)
  /\ ResultsFollowReplies(h)
  /\ CallsAreDistinct(h)
  /\ \A k \in DOMAIN h : h[k].calls # <<>> => \E q \in 1 .. d : h[k].calls = m[q].calls

\* What is owed is owed still when what message d leaves is sent.
LEMMA OwedMore ==
  ASSUME NEW m \in Seq(Sent), NEW d \in 1 .. Len(m), NEW h \in Seq(Sent), NEW b \in Seq(Sent), NEW o, o = h \o b,
         m[d].calls # <<>> => Len(b) > 0 /\ b[1].calls = m[d].calls,
         NEW k \in DOMAIN h, NEW id, Owed(h, m, d - 1, k, id)
  PROVE  Owed(o, m, d, k, id)
<1> DEFINE n == Len(h)
           l == Len(b)
<1>1. /\ n \in Nat /\ l \in Nat /\ Len(o) = n + l /\ k \in 1 .. n /\ Len(m) \in Nat
      /\ (\A i \in 1 .. n : o[i] = h[i]) /\ \A i \in 1 .. l : o[n + i] = b[i]
  BY InOne
<1>2. CASE UsedAgain(h, k, id)
  <2>1. PICK q \in k + 1 .. n : id \in ToSet(CallIds(h[q])) BY <1>2 DEF UsedAgain
  <2> HIDE DEF n, l
  <2>2. q \in 1 .. n /\ q \in k + 1 .. Len(o) BY <1>1
  <2>3. id \in ToSet(CallIds(o[q])) BY <1>1, <2>1, <2>2
  <2> QED BY <2>2, <2>3 DEF Owed, UsedAgain
<1>3. CASE UsedAgain(m, d - 1, id)
  <2>1. PICK q \in d .. Len(m) : id \in ToSet(CallIds(m[q])) BY <1>3 DEF UsedAgain
  <2>2. CASE q = d
    <3>1. PICK i \in DOMAIN m[d].calls : m[d].calls[i].id = id BY <2>1, <2>2, IdsOfCalls
    <3>2. l > 0 /\ b[1].calls = m[d].calls BY <3>1
    <3> HIDE DEF n, l
    <3>3. 1 \in 1 .. l /\ n + 1 \in k + 1 .. Len(o) BY <1>1, <3>2
    <3>4. o[n + 1].calls = m[d].calls BY <1>1, <3>2, <3>3
    <3>5. id \in ToSet(CallIds(o[n + 1])) BY <3>1, <3>4, IdsOfCalls
    <3> QED BY <3>3, <3>5 DEF Owed, UsedAgain
  <2>3. CASE q # d
    <3>1. q \in d + 1 .. Len(m) BY <1>1, <2>3
    <3> QED BY <2>1, <3>1 DEF Owed, UsedAgain
  <2> QED BY <2>2, <2>3
<1> QED BY <1>2, <1>3 DEF Owed

\* A reply that was answered is.
LEMMA AnsweredStill ==
  ASSUME NEW m \in Seq(Sent), NEW d \in 1 .. Len(m), NEW h \in Seq(Sent), NEW b \in Seq(Sent), NEW o, o = h \o b,
         m[d].calls # <<>> => Len(b) > 0 /\ b[1].calls = m[d].calls, Len(b) > 0 => b[1].role # "tool",
         NEW k \in DOMAIN h, NEW e, Answered(h, m, d - 1, k, e)
  PROVE  Answered(o, m, d, k, e)
<1> DEFINE n == Len(h)
           l == Len(b)
<1>1. /\ n \in Nat /\ l \in Nat /\ Len(o) = n + l /\ k \in 1 .. n /\ DOMAIN h = 1 .. n
      /\ (\A i \in 1 .. n : o[i] = h[i]) /\ \A i \in 1 .. l : o[n + i] = b[i]
  BY InOne
<1>2. \A id : Owed(h, m, d - 1, k, id) => Owed(o, m, d, k, id) BY OwedMore
<1>3. /\ e \in k .. n /\ (\A i \in k + 1 .. e : h[i].role = "tool") /\ (e < n => h[e + 1].role # "tool")
      /\ \A id \in ToSet(CallIds(h[k])) : (\E i \in k + 1 .. e : h[i].of = id) \/ Owed(h, m, d - 1, k, id)
      /\ \A i \in k + 1 .. e :
           h[i].of \in ToSet(CallIds(h[k])) \/ (h[k].calls = <<>> /\ Owed(h, m, d - 1, k, h[i].of))
      /\ h[k].calls # <<>> => \A i, j \in k + 1 .. e : h[i].of = h[j].of => i = j
  BY DEF Answered, Complete
<1>4. l > 0 => b[1].role # "tool" OBVIOUS
<1> HIDE DEF n, l
<1>5. o[k] = h[k] /\ \A i \in k + 1 .. e : o[i] = h[i] BY <1>1, <1>3
<1>6. e < Len(o) => o[e + 1].role # "tool"
  <2> SUFFICES ASSUME e < n + l PROVE o[e + 1].role # "tool" BY <1>1
  <2>1. CASE e = n
    <3>1. 1 \in 1 .. l /\ l > 0 BY <1>1, <2>1
    <3> QED BY <1>1, <1>4, <2>1, <3>1
  <2>2. CASE e # n
    <3>1. e < n /\ e + 1 \in 1 .. n BY <1>1, <1>3, <2>2
    <3> QED BY <1>1, <1>3, <3>1
  <2> QED BY <2>1, <2>2
<1>7. Complete(o, m, d, k, e)
  <2>1. \A id \in ToSet(CallIds(o[k])) : (\E i \in k + 1 .. e : o[i].of = id) \/ Owed(o, m, d, k, id)
    <3> SUFFICES ASSUME NEW id \in ToSet(CallIds(h[k])), ~Owed(o, m, d, k, id) PROVE \E i \in k + 1 .. e : o[i].of = id
      BY <1>5
    <3>1. ~Owed(h, m, d - 1, k, id) BY <1>2
    <3>2. PICK i \in k + 1 .. e : h[i].of = id BY <1>3, <3>1
    <3> QED BY <1>5, <3>2
  <2>2. ASSUME NEW i \in k + 1 .. e
        PROVE  o[i].of \in ToSet(CallIds(o[k])) \/ (o[k].calls = <<>> /\ Owed(o, m, d, k, o[i].of))
    <3>1. h[i].of \in ToSet(CallIds(h[k])) \/ (h[k].calls = <<>> /\ Owed(h, m, d - 1, k, h[i].of)) BY <1>3
    <3>2. o[i] = h[i] /\ o[k] = h[k] BY <1>5
    <3> QED BY <1>2, <3>1, <3>2
  <2>3. o[k].calls # <<>> => \A i, j \in k + 1 .. e : o[i].of = o[j].of => i = j BY <1>3, <1>5
  <2> QED BY <2>1, <2>2, <2>3 DEF Complete
<1>8. e \in k .. Len(o) BY <1>1, <1>3
<1> QED BY <1>3, <1>5, <1>6, <1>7, <1>8 DEF Answered

\* A reply is when its block is sent.
LEMMA AnsweredNow ==
  ASSUME NEW m \in Seq(Sent), NEW d \in 1 .. Len(m), NEW h \in Seq(Sent), NEW b, IsBlock(b, m, d), Len(b) > 0,
         NEW o, o = h \o b
  PROVE  Answered(o, m, d, Len(h) + 1, Len(h) + Len(b))
<1> DEFINE n == Len(h)
           l == Len(b)
           k == n + 1
           e == n + l
<1>0. b \in Seq(Sent) BY DEF IsBlock
<1>1. /\ n \in Nat /\ l \in Nat /\ l > 0 /\ Len(o) = n + l
      /\ \A i \in 1 .. l : o[n + i] = b[i]
  BY <1>0, InOne
<1>2. /\ b[1].calls = m[d].calls /\ \A i \in 2 .. l : b[i].role = "tool"
      /\ Missing(ResultsOf(b), m, d) /\ Strange(ResultsOf(b), m, d) /\ OneEach(b, m, d)
  BY DEF IsBlock
<1> DEFINE B == 2 .. l
<1>3. OneEach(b, m, d) <=> (m[d].calls # <<>> => \A i, j \in B : b[i].of = b[j].of => i = j) BY DEF OneEach
<1>4. ResultsOf(b) = {b[i].of : i \in B} BY DEF ResultsOf
<1> HIDE DEF n, l
<1>6. 1 \in 1 .. l /\ (\A i \in B : i \in 1 .. l /\ n + i \in k + 1 .. e) /\ \A i \in k + 1 .. e : i - n \in B /\ n + (i - n) = i
  BY <1>1
<1>7. e \in k .. Len(o) /\ ~(e < Len(o)) BY <1>1
<1>8. o[k] = b[1] BY <1>1, <1>6
<1>9. \A i \in B : o[n + i] = b[i] BY <1>1, <1>6
<1> HIDE DEF k, e, B
<1>10. ASSUME NEW i \in k + 1 .. e PROVE \E j \in B : i = n + j /\ o[i] = b[j]
  <2> DEFINE j == i - n
  <2>1. j \in B /\ n + j = i BY <1>6
  <2> HIDE DEF j
  <2> QED BY <1>9, <2>1
<1>11. o[k].calls = m[d].calls /\ CallIds(o[k]) = CallIds(m[d]) BY <1>2, <1>8 DEF CallIds
<1>12. \A i \in k + 1 .. e : o[i].role = "tool" BY <1>2, <1>10 DEF B
<1>13. ASSUME NEW id \in ToSet(CallIds(o[k])), \A i \in k + 1 .. e : o[i].of # id PROVE Owed(o, m, d, k, id)
  <2>1. \A j \in B : b[j].of # id BY <1>6, <1>9, <1>13
  <2>2. id \notin ResultsOf(b) BY <1>4, <2>1
  <2> QED BY <1>2, <1>11, <1>13, <2>2 DEF Missing, Owed
<1>14. ASSUME NEW i \in k + 1 .. e
       PROVE  o[i].of \in ToSet(CallIds(o[k])) \/ (o[k].calls = <<>> /\ Owed(o, m, d, k, o[i].of))
  <2>1. PICK j \in B : o[i] = b[j] BY <1>10
  <2>2. b[j].of \in ResultsOf(b) BY <1>4
  <2> QED BY <1>2, <1>11, <2>1, <2>2 DEF Strange, Owed
<1>15. o[k].calls # <<>> => \A i, j \in k + 1 .. e : o[i].of = o[j].of => i = j
  <2> SUFFICES ASSUME m[d].calls # <<>>, NEW i \in k + 1 .. e, NEW j \in k + 1 .. e, o[i].of = o[j].of PROVE i = j
    BY <1>11
  <2>1. PICK x \in B : i = n + x /\ o[i] = b[x] BY <1>10
  <2>2. PICK y \in B : j = n + y /\ o[j] = b[y] BY <1>10
  <2>3. x = y BY <1>2, <1>3, <2>1, <2>2
  <2> QED BY <2>1, <2>2, <2>3
<1>16. Complete(o, m, d, k, e) BY <1>13, <1>14, <1>15 DEF Complete
<1>17. Answered(o, m, d, k, e) BY <1>7, <1>12, <1>16 DEF Answered
<1> QED BY <1>17 DEF k, e, n, l

\* A block more.
LEMMA BlockMore ==
  ASSUME NEW m \in Seq(Sent), CallsAreDistinct(m), NEW d \in 1 .. Len(m), NEW h, SoundSoFar(h, m, d - 1),
         \A k \in DOMAIN m : m[k].calls # <<>> => m[k].role = "assistant",
         NEW b, IsBlock(b, m, d)
  PROVE  SoundSoFar(h \o b, m, d)
<1> DEFINE n == Len(h)
           l == Len(b)
           o == h \o b
<1>0. h \in Seq(Sent) /\ b \in Seq(Sent) BY DEF SoundSoFar, IsBlock
<1>1. n \in Nat /\ l \in Nat /\ DOMAIN h = 1 .. n /\ DOMAIN b = 1 .. l /\ d \in 1 .. Len(m) /\ DOMAIN m = 1 .. Len(m)
  BY <1>0
<1>2. /\ o \in Seq(Sent) /\ Len(o) = n + l /\ DOMAIN o = 1 .. n + l
      /\ (\A i \in 1 .. n : o[i] = h[i]) /\ \A i \in 1 .. l : o[n + i] = b[i]
      /\ \A i \in 1 .. n + l : i \in 1 .. n \/ (i - n \in 1 .. l /\ n + (i - n) = i)
  BY <1>0, InOne
<1>3. l > 0 =>
        /\ b[1].role \in {"user", "assistant"} /\ b[1].calls = m[d].calls
        /\ b[1].role = "user" => l = 1
        /\ \A i \in 2 .. l : b[i].role = "tool" /\ b[i].calls = <<>>
  BY DEF IsBlock
<1>4. m[d].calls # <<>> => l > 0 /\ b[1].calls = m[d].calls
  <2>1. m[d].calls # <<>> => m[d].role = "assistant" BY <1>1
  <2>2. l = 0 => m[d].role = "tool" \/ m[d].calls = <<>> BY DEF IsBlock
  <2>3. l = 0 \/ l > 0 BY <1>1
  <2> QED BY <1>3, <2>1, <2>2, <2>3
<1>5. \A k \in 1 .. n + l : k \in 1 .. n \/ (k = n + 1 /\ l > 0) \/ (k - n \in 2 .. l /\ n + (k - n) = k) BY <1>1
<1>a. o = h \o b OBVIOUS
<1> HIDE DEF o
<1>6. \A k \in DOMAIN h : \A e : Answered(h, m, d - 1, k, e) => Answered(o, m, d, k, e)
  <2>1. Len(b) > 0 => b[1].role # "tool" BY <1>3
  <2> QED BY <1>0, <1>4, <1>a, <2>1, AnsweredStill
<1>7. l > 0 => Answered(o, m, d, n + 1, n + l) BY <1>0, <1>a, AnsweredNow
<1> HIDE DEF n, l
<1>8. ASSUME NEW k \in DOMAIN o
      PROVE  \/ k \in DOMAIN h /\ o[k] = h[k]
             \/ l > 0 /\ k = n + 1 /\ o[k] = b[1]
             \/ \E i \in 2 .. l : k = n + i /\ o[k] = b[i]
  <2>1. CASE k \in 1 .. n BY <1>1, <1>2, <2>1
  <2>2. CASE k = n + 1 /\ l > 0
    <3>1. 1 \in 1 .. l BY <1>1, <2>2
    <3> QED BY <1>2, <2>2, <3>1
  <2>3. CASE k - n \in 2 .. l /\ n + (k - n) = k
    <3> DEFINE i == k - n
    <3>1. i \in 2 .. l /\ i \in 1 .. l /\ k = n + i BY <1>1, <2>3
    <3> HIDE DEF i
    <3> QED BY <1>2, <3>1
  <2> QED BY <1>2, <1>5, <2>1, <2>2, <2>3
<1>9. \A k \in DOMAIN o : o[k].calls # <<>> => \E q \in 1 .. d : o[k].calls = m[q].calls
  <2>1. d \in 1 .. d /\ \A q \in 1 .. d - 1 : q \in 1 .. d BY <1>1
  <2>2. \A k \in DOMAIN h : h[k].calls # <<>> => \E q \in 1 .. d : h[k].calls = m[q].calls BY <2>1 DEF SoundSoFar
  <2> SUFFICES ASSUME NEW k \in DOMAIN o, o[k].calls # <<>> PROVE \E q \in 1 .. d : o[k].calls = m[q].calls OBVIOUS
  <2>3. CASE k \in DOMAIN h /\ o[k] = h[k] BY <2>2, <2>3
  <2>4. CASE l > 0 /\ k = n + 1 /\ o[k] = b[1] BY <1>3, <2>1, <2>4
  <2>5. CASE \E i \in 2 .. l : k = n + i /\ o[k] = b[i]
    <3>1. PICK i \in 2 .. l : o[k] = b[i] BY <2>5
    <3>2. l > 0 BY <1>1
    <3> QED BY <1>3, <3>1, <3>2
  <2> QED BY <1>8, <2>3, <2>4, <2>5
<1>10. CallsAreDistinct(o)
  <2> SUFFICES ASSUME NEW k \in DOMAIN o, NEW i \in DOMAIN o[k].calls, NEW j \in DOMAIN o[k].calls,
                      o[k].calls[i].id = o[k].calls[j].id
               PROVE  i = j
    BY DEF CallsAreDistinct
  <2>1. o[k].calls # <<>> OBVIOUS
  <2>2. PICK q \in 1 .. d : o[k].calls = m[q].calls BY <1>9, <2>1
  <2>3. q \in DOMAIN m BY <1>1
  <2> QED BY <2>2, <2>3 DEF CallsAreDistinct
<1>11. ASSUME NEW k \in DOMAIN o, o[k].role = "tool" PROVE k > 1 /\ o[k - 1].role # "user"
  <2>1. CASE k \in DOMAIN h /\ o[k] = h[k]
    <3>1. k > 1 /\ h[k - 1].role # "user" BY <1>11, <2>1 DEF SoundSoFar, ResultsFollowReplies
    <3>2. k - 1 \in 1 .. n BY <1>1, <2>1, <3>1
    <3> QED BY <1>2, <3>1, <3>2
  <2>2. ASSUME NEW i \in 2 .. l, k = n + i PROVE k > 1 /\ o[k - 1].role # "user"
    <3>1. l > 0 /\ l # 1 /\ k > 1 BY <1>1, <2>2
    <3>2. b[1].role # "user" BY <1>3, <3>1
    <3>3. CASE i = 2
      <4>1. k - 1 = n + 1 /\ 1 \in 1 .. l BY <1>1, <2>2, <3>3
      <4> QED BY <1>2, <3>1, <3>2, <4>1
    <3>4. CASE i # 2
      <4> DEFINE j == i - 1
      <4>1. j \in 2 .. l /\ j \in 1 .. l /\ k - 1 = n + j BY <1>1, <2>2, <3>4
      <4> HIDE DEF j
      <4>2. o[k - 1].role = "tool" BY <1>2, <1>3, <3>1, <4>1
      <4> QED BY <3>1, <4>2
    <3> QED BY <3>3, <3>4
  <2>3. CASE l > 0 /\ k = n + 1 /\ o[k] = b[1] BY <1>3, <1>11, <2>3
  <2> QED BY <1>8, <2>1, <2>2, <2>3
<1>12. ASSUME NEW k \in DOMAIN o, o[k].role = "assistant" PROVE \E e : Answered(o, m, d, k, e)
  <2>1. CASE k \in DOMAIN h /\ o[k] = h[k]
    <3>1. PICK e : Answered(h, m, d - 1, k, e) BY <1>12, <2>1 DEF SoundSoFar
    <3> QED BY <1>6, <2>1, <3>1
  <2>2. CASE l > 0 /\ k = n + 1 BY <1>7, <2>2
  <2>3. CASE \E i \in 2 .. l : k = n + i /\ o[k] = b[i]
    <3>1. PICK i \in 2 .. l : o[k] = b[i] BY <2>3
    <3>2. l > 0 BY <1>1
    <3> QED BY <1>3, <1>12, <3>1, <3>2
  <2> QED BY <1>8, <2>1, <2>2, <2>3
<1>13. SoundSoFar(o, m, d) BY <1>2, <1>9, <1>10, <1>11, <1>12 DEF SoundSoFar, ResultsFollowReplies
<1> QED BY <1>13 DEF o

\* Blocks, one for each message, are sound together.
LEMMA RepairedIsPaired ==
  ASSUME NEW m \in Seq(Sent), SoundCalls(m)
  PROVE  Paired(Hardened(m)) /\ Hardened(m) \in Seq(Sent)
<1> DEFINE n == Len(m)
           f == [k \in 1 .. n |-> Kept(m, k, RoundEnd(m, k), AllCalls(m))]
           Good == {k \in 0 .. n : SoundSoFar(Flat(f, k), m, k)}
<1>1. n \in Nat /\ DOMAIN m = 1 .. n OBVIOUS
<1>2. \A k \in 1 .. n : IsBlock(f[k], m, k) BY <1>1, KeptIsBlock
<1>3. f \in [1 .. n -> Seq(Sent)] BY <1>2 DEF IsBlock
<1>4. Hardened(m) = Flat(f, n)
  <2>1. f = [k \in 1 .. n |-> f[k]] OBVIOUS
  <2> QED BY <2>1 DEF Hardened, Repaired, Flat
<1>5. CallsAreDistinct(m) /\ \A k \in DOMAIN m : m[k].calls # <<>> => m[k].role = "assistant" BY DEF SoundCalls
<1> HIDE DEF f, n
<1>6. 0 \in Good
  <2> DEFINE h == <<>>
  <2>1. h \in Seq(Sent) /\ DOMAIN h = {} OBVIOUS
  <2> HIDE DEF h
  <2>2. SoundSoFar(h, m, 0) BY <2>1 DEF SoundSoFar, ResultsFollowReplies, CallsAreDistinct
  <2> QED BY <1>1, <2>2, FlatNone DEF h
<1>7. \A k \in 1 .. n : k - 1 \in Good => k \in Good
  <2> SUFFICES ASSUME NEW k \in 1 .. n, SoundSoFar(Flat(f, k - 1), m, k - 1) PROVE SoundSoFar(Flat(f, k), m, k)
    BY <1>1
  <2>1. Flat(f, k) = Flat(f, k - 1) \o f[k] BY <1>1, <1>3, FlatMore
  <2>2. k \in 1 .. Len(m) /\ IsBlock(f[k], m, k) BY <1>2 DEF n
  <2> QED BY <1>5, <2>1, <2>2, BlockMore
<1>8. SoundSoFar(Flat(f, n), m, n)
  <2> HIDE DEF Good
  <2>1. \A k \in 0 .. n : k \in Good BY <1>1, <1>6, <1>7, UpTo
  <2>2. n \in Good BY <1>1, <2>1
  <2> QED BY <2>2 DEF Good
<1> DEFINE h == Flat(f, n)
<1>9. SoundSoFar(h, m, n) /\ Hardened(m) = h BY <1>4, <1>8
<1> HIDE DEF h
<1>10. h \in Seq(Sent) /\ ResultsFollowReplies(h) /\ CallsAreDistinct(h) BY <1>9 DEF SoundSoFar
<1>11. RepliesAreAnswered(h)
  <2> SUFFICES ASSUME NEW k \in DOMAIN h, h[k].role = "assistant"
               PROVE  LET answers == k + 1 .. RoundEnd(h, k)
                          ids     == ToSet(CallIds(h[k]))
                          got     == {h[i].of : i \in answers}
                      IN  /\ \A id \in ids \ got : UsedAgain(h, k, id)
                          /\ \A id \in got \ ids : UsedAgain(h, k, id) /\ h[k].calls = <<>>
                          /\ h[k].calls # <<>> => \A i, j \in answers : h[i].of = h[j].of => i = j
    BY DEF RepliesAreAnswered
  <2>1. PICK e : Answered(h, m, n, k, e) BY <1>9 DEF SoundSoFar
  <2>2. RoundEnd(h, k) = e BY <1>10, <2>1, AnsweredUpTo
  <2>3. Complete(h, m, n, k, e) BY <2>1 DEF Answered
  <2>4. \A id : Owed(h, m, n, k, id) => UsedAgain(h, k, id)
    <3>1. n + 1 .. Len(m) = {} BY <1>1 DEF n
    <3> QED BY <3>1 DEF Owed, UsedAgain
  <2> QED BY <2>2, <2>3, <2>4 DEF Complete
<1>12. ASSUME NEW id \in AllCalls(h) PROVE Valid(id)
  <2>1. PICK k \in DOMAIN h : \E i \in DOMAIN h[k].calls : h[k].calls[i].id = id BY CalledIn
  <2>2. h[k].calls # <<>> BY <2>1
  <2>3. PICK q \in 1 .. n : h[k].calls = m[q].calls BY <1>9, <2>2 DEF SoundSoFar
  <2>4. q \in DOMAIN m BY <1>1, <2>3
  <2>5. id \in AllCalls(m) BY <2>1, <2>3, <2>4, CalledIn
  <2> QED BY <2>5 DEF SoundCalls
<1>13. Paired(h) BY <1>10, <1>11, <1>12 DEF Paired
<1> QED BY <1>9, <1>10, <1>13

-----------------------------------------------------------------------------
Talk == [role : {"user", "assistant", "tool"}, touches : Seq(Touches)]

LEMMA SaidTyped == ASSUME NEW x \in Sent PROVE Said(x) \in Seq(Talk)
<1>1. x.role \in {"user", "assistant", "tool"} /\ x.calls \in Seq(Calls) BY SentTyped
<1> DEFINE t == [i \in DOMAIN x.calls |-> x.calls[i].touch]
           y == [role |-> x.role, touches |-> t]
<1>2. t \in Seq(Touches)
  <2>1. Len(x.calls) \in Nat /\ DOMAIN x.calls = 1 .. Len(x.calls) /\ \A i \in DOMAIN x.calls : x.calls[i] \in Calls BY <1>1
  <2>2. \A i \in DOMAIN x.calls : x.calls[i].touch \in Touches BY <2>1 DEF Calls
  <2>3. t \in [1 .. Len(x.calls) -> Touches] BY <2>1, <2>2
  <2> HIDE DEF t
  <2> QED BY <2>1, <2>3, IsASeq
<1> HIDE DEF t
<1>3. y \in Talk BY <1>1, <1>2 DEF Talk
<1> HIDE DEF y
<1>4. <<y>> \in Seq(Talk) /\ <<>> \in Seq(Talk) BY <1>3
<1>5. Said(x) = <<y>> \/ Said(x) = <<>> BY DEF Said, y, t
<1> QED BY <1>4, <1>5

LEMMA ConversationBoth ==
  ASSUME NEW a \in Seq(Sent), NEW b \in Seq(Sent)
  PROVE  /\ Conversation(a \o b) = Conversation(a) \o Conversation(b)
         /\ Conversation(a) \in Seq(Talk) /\ Conversation(b) \in Seq(Talk)
<1> DEFINE F == [x \in Sent |-> Said(x)]
<1>1. F \in [Sent -> Seq(Talk)] BY SaidTyped
<1>2. ASSUME NEW c \in Seq(Sent) PROVE Conversation(c) = Through(c, F)
  <2>1. \A k \in 1 .. Len(c) : Said(c[k]) = F[c[k]] OBVIOUS
  <2> HIDE DEF F
  <2>2. [k \in 1 .. Len(c) |-> Said(c[k])] = [k \in 1 .. Len(c) |-> F[c[k]]] BY <2>1
  <2> QED BY <2>2 DEF Conversation, Through
<1>3. a \o b \in Seq(Sent) BY InOne
<1> HIDE DEF F
<1>4. /\ Through(a \o b, F) = Through(a, F) \o Through(b, F)
      /\ Through(a, F) \in Seq(Talk) /\ Through(b, F) \in Seq(Talk) /\ Through(a \o b, F) \in Seq(Talk)
  BY <1>1, ThroughBoth
<1>5. /\ Conversation(a) = Through(a, F) /\ Conversation(b) = Through(b, F)
      /\ Conversation(a \o b) = Through(a \o b, F)
  BY <1>2, <1>3
<1> QED BY <1>4, <1>5

\* A block says what its message said.
LEMMA BlockSays ==
  ASSUME NEW m \in Seq(Sent), NEW d \in DOMAIN m, NEW b, IsBlock(b, m, d) PROVE Conversation(b) = Said(m[d])
<1> DEFINE l == Len(b)
           x == m[d]
           f == [k \in 1 .. l |-> Said(b[k])]
<1>1. b \in Seq(Sent) /\ l \in Nat /\ \A k \in 1 .. l : b[k] \in Sent BY DEF IsBlock
<1>2. f \in [1 .. l -> Seq(Talk)] BY <1>1, SaidTyped
<1>3. Conversation(b) = Flat(f, l)
  <2>1. f = [k \in 1 .. l |-> f[k]] OBVIOUS
  <2> QED BY <2>1 DEF Conversation, Flat
<1>4. CASE l = 0
  <2>1. x.role = "tool" \/ (~x.says /\ x.calls = <<>>) BY <1>4 DEF IsBlock
  <2>2. Said(x) = <<>> BY <2>1 DEF Said
  <2> HIDE DEF f, l
  <2> QED BY <1>3, <1>4, <2>2, FlatNone
<1>5. CASE l # 0
  <2>0. 1 \in 1 .. l /\ l \in 1 .. l BY <1>1, <1>5
  <2>1. f[1] = Said(x) BY <1>1, <1>5, <2>0 DEF IsBlock, Said
  <2>2. \A k \in 2 .. l : f[k] = <<>> BY <1>1, <1>5 DEF IsBlock, Said
  <2> HIDE DEF f, l
  <2>3. Said(x) \in Seq(Talk)
    <3>1. x \in Sent OBVIOUS
    <3> QED BY <3>1, SaidTyped
  <2> HIDE DEF x
  <2> DEFINE Good == {k \in 0 .. l : k = 0 \/ Flat(f, k) = Said(x)}
  <2>4. 0 \in Good BY <1>1
  <2>5. \A k \in 1 .. l : k - 1 \in Good => k \in Good
    <3> SUFFICES ASSUME NEW k \in 1 .. l, k - 1 \in Good PROVE Flat(f, k) = Said(x) BY <1>1
    <3>1. Flat(f, k) = Flat(f, k - 1) \o f[k] BY <1>1, <1>2, FlatMore
    <3>2. CASE k = 1
      <4>1. Flat(f, k - 1) = <<>> BY <3>2, FlatNone
      <4> QED BY <2>1, <2>3, <3>1, <3>2, <4>1, ConcatEmptySeq
    <3>3. CASE k # 1
      <4>1. k \in 2 .. l /\ k - 1 # 0 BY <1>1, <3>3
      <4>2. Flat(f, k - 1) = Said(x) BY <4>1
      <4>3. f[k] = <<>> BY <2>2, <4>1
      <4> QED BY <2>3, <3>1, <4>2, <4>3, ConcatEmptySeq
    <3> QED BY <3>2, <3>3
  <2> HIDE DEF Good
  <2>6. \A k \in 0 .. l : k \in Good BY <1>1, <2>4, <2>5, UpTo
  <2>7. l \in Good BY <1>1, <2>6
  <2> QED BY <1>3, <1>5, <2>7 DEF Good, x
<1> QED BY <1>4, <1>5

\* What is repaired says what was said.
LEMMA RepairedSaysAll ==
  ASSUME NEW m \in Seq(Sent), SoundCalls(m) PROVE Conversation(Hardened(m)) = Conversation(m)
<1> DEFINE n == Len(m)
           f == [k \in 1 .. n |-> Kept(m, k, RoundEnd(m, k), AllCalls(m))]
           g == [k \in 1 .. n |-> Said(m[k])]
           Good == {k \in 0 .. n : Conversation(Flat(f, k)) = Flat(g, k)}
<1>1. n \in Nat /\ DOMAIN m = 1 .. n /\ \A k \in 1 .. n : m[k] \in Sent OBVIOUS
<1>2. \A k \in 1 .. n : IsBlock(f[k], m, k) BY <1>1, KeptIsBlock
<1>3. f \in [1 .. n -> Seq(Sent)] BY <1>2 DEF IsBlock
<1>4. Hardened(m) = Flat(f, n)
  <2>1. f = [k \in 1 .. n |-> f[k]] OBVIOUS
  <2> QED BY <2>1 DEF Hardened, Repaired, Flat
<1>5. Conversation(m) = Flat(g, n)
  <2>1. g = [k \in 1 .. n |-> g[k]] OBVIOUS
  <2> QED BY <2>1 DEF Conversation, Flat
<1>6. g \in [1 .. n -> Seq(Talk)] /\ \A k \in 1 .. n : g[k] = Said(m[k]) BY <1>1, SaidTyped
<1> HIDE DEF f, g, n
<1>7. 0 \in Good
  <2> DEFINE e == <<>>
             s == [k \in 1 .. Len(e) |-> Said(e[k])]
  <2>1. s = <<>> OBVIOUS
  <2> HIDE DEF s
  <2>2. FlattenSeq(s) = <<>> BY <2>1 DEF FlattenSeq
  <2>3. Conversation(e) = <<>> BY <2>2 DEF Conversation, s
  <2> QED BY <1>1, <2>3, FlatNone
<1>8. \A k \in 1 .. n : k - 1 \in Good => k \in Good
  <2> SUFFICES ASSUME NEW k \in 1 .. n, Conversation(Flat(f, k - 1)) = Flat(g, k - 1)
               PROVE  Conversation(Flat(f, k)) = Flat(g, k)
    BY <1>1
  <2>1. Flat(f, k) = Flat(f, k - 1) \o f[k] /\ Flat(f, k - 1) \in Seq(Sent) BY <1>1, <1>3, FlatMore
  <2>2. Flat(g, k) = Flat(g, k - 1) \o g[k] BY <1>1, <1>6, FlatMore
  <2>3. f[k] \in Seq(Sent) BY <1>3
  <2>4. Conversation(f[k]) = g[k]
    <3>1. k \in DOMAIN m /\ IsBlock(f[k], m, k) BY <1>1, <1>2
    <3> QED BY <1>6, <3>1, BlockSays
  <2> QED BY <2>1, <2>2, <2>3, <2>4, ConversationBoth
<1> HIDE DEF Good
<1>9. \A k \in 0 .. n : k \in Good BY <1>1, <1>7, <1>8, UpTo
<1>10. n \in Good BY <1>1, <1>9
<1> QED BY <1>4, <1>5, <1>10 DEF Good

-----------------------------------------------------------------------------
(* normalizeToolCallIDs. *)
Maps     == UNION {[D -> Ids] : D \in SUBSET Ids}
IdStates == {ids \in [map : Maps, used : SUBSET Ids, next : Nat] : IsFiniteSet(ids.used)}

LEMMA IdsTyped ==
  ASSUME NEW id \in Ids, NEW k \in Nat
  PROVE  /\ Sanitize(id) \in Ids /\ Valid(Sanitize(id)) /\ id.n \in Nat
         /\ [Sanitize(id) EXCEPT !.n = k] \in Ids /\ Valid([Sanitize(id) EXCEPT !.n = k])
         /\ [Sanitize(id) EXCEPT !.n = k].n = k
BY DEF Ids, Sanitize, Valid

\* There are more numbers than ids in use.
LEMMA NumberIsFree ==
  ASSUME NEW used \in SUBSET Ids, IsFiniteSet(used), NEW next \in Nat, NEW id \in Ids
  PROVE  \E k \in next + 1 .. next + Cardinality(used) + 1 : [Sanitize(id) EXCEPT !.n = k] \notin used
<1> DEFINE c == Cardinality(used)
           I == next + 1 .. next + c + 1
           N == {x.n : x \in used}
           f == [x \in used |-> x.n]
<1>1. c \in Nat BY FS_CardinalityType
<1> HIDE DEF c
<1>2. SUFFICES ASSUME \A k \in I : [Sanitize(id) EXCEPT !.n = k] \in used PROVE FALSE BY DEF c
<1>3. I \subseteq N
  <2>1. \A k \in I : k \in Nat BY <1>1
  <2> HIDE DEF I
  <2>2. \A k \in I : [Sanitize(id) EXCEPT !.n = k].n = k BY <2>1, IdsTyped
  <2> QED BY <1>2, <2>2
<1>4. f \in Surjection(used, N) BY DEF Surjection
<1> HIDE DEF f, N
<1>5. IsFiniteSet(N) /\ Cardinality(N) <= c BY <1>4, FS_Surjection DEF c
<1>6. Cardinality(I) <= Cardinality(N) /\ IsFiniteSet(I)
  <2>1. I \in SUBSET N BY <1>3
  <2> HIDE DEF I
  <2> QED BY <1>5, <2>1, FS_Subset
<1>7. Cardinality(I) = c + 1
  <2> DEFINE a == next + 1
             b == next + c + 1
  <2>1. a \in Int /\ b \in Int /\ (IF a > b THEN 0 ELSE b - a + 1) = c + 1 BY <1>1
  <2> HIDE DEF a, b
  <2>2. Cardinality(a .. b) = IF a > b THEN 0 ELSE b - a + 1 BY <2>1, FS_Interval
  <2> QED BY <2>1, <2>2 DEF a, b
<1> HIDE DEF I
<1>8. Cardinality(N) \in Nat BY <1>5, FS_CardinalityType
<1> QED BY <1>1, <1>5, <1>6, <1>7, <1>8

\* An id that is not valid gets one that is not in use.
Renames(ids, id, r) ==
  \E new \in Ids :
    /\ new \notin ids.used /\ Valid(new) /\ r.used = ids.used \cup {new}
    /\ DOMAIN r.map = DOMAIN ids.map \cup {id} /\ r.map[id] = new
    /\ \A i \in DOMAIN ids.map : i # id => r.map[i] = ids.map[i]

LEMMA MappedIs ==
  ASSUME NEW ids \in IdStates, NEW id \in Ids
  PROVE  /\ Mapped(ids, id) \in IdStates
         /\ id \in DOMAIN ids.map => Mapped(ids, id) = ids
         /\ id \notin DOMAIN ids.map /\ Valid(id) =>
              Mapped(ids, id).map = ids.map /\ Mapped(ids, id).used = ids.used \cup {id}
         /\ id \notin DOMAIN ids.map /\ ~Valid(id) => Renames(ids, id, Mapped(ids, id))
<1>1. /\ ids \in [map : Maps, used : SUBSET Ids, next : Nat] /\ IsFiniteSet(ids.used)
      /\ ids.map \in Maps /\ ids.used \in SUBSET Ids /\ ids.next \in Nat
  BY DEF IdStates
<1>2. CASE id \in DOMAIN ids.map
  <2>1. Mapped(ids, id) = ids BY <1>2 DEF Mapped
  <2> QED BY <1>2, <2>1
<1>3. CASE id \notin DOMAIN ids.map /\ Valid(id)
  <2> DEFINE r == [ids EXCEPT !.used = @ \cup {id}]
  <2>1. Mapped(ids, id) = r BY <1>3 DEF Mapped
  <2>2. r.map = ids.map /\ r.used = ids.used \cup {id} /\ r \in [map : Maps, used : SUBSET Ids, next : Nat] BY <1>1
  <2>3. IsFiniteSet(ids.used \cup {id}) BY <1>1, FS_AddElement
  <2> HIDE DEF r
  <2>4. r \in IdStates BY <2>2, <2>3 DEF IdStates
  <2> QED BY <1>3, <2>1, <2>2, <2>4
<1>4. CASE id \notin DOMAIN ids.map /\ ~Valid(id)
  <2> DEFINE s == Sanitize(id)
             I == ids.next + 1 .. ids.next + Cardinality(ids.used) + 1
             P(k) == /\ [s EXCEPT !.n = k] \notin ids.used
                     /\ \A j \in ids.next + 1 .. k - 1 : [s EXCEPT !.n = j] \in ids.used
             free == CHOOSE k \in I : P(k)
             new == IF s \in ids.used THEN [s EXCEPT !.n = free] ELSE s
             to == [i \in DOMAIN ids.map \cup {id} |-> IF i = id THEN new ELSE ids.map[i]]
             r == [map |-> to, used |-> ids.used \cup {new}, next |-> IF s \in ids.used THEN free ELSE ids.next]
  <2>1. Mapped(ids, id) = r BY <1>4 DEF Mapped
  <2>2. \E k \in I : P(k)
    <3> DEFINE T == {k \in I : [s EXCEPT !.n = k] \notin ids.used}
    <3>0. \A k \in I : k \in Nat BY <1>1, FS_CardinalityType
    <3>1. T # {}
      <4>1. \E k \in ids.next + 1 .. ids.next + Cardinality(ids.used) + 1 : [Sanitize(id) EXCEPT !.n = k] \notin ids.used
        BY <1>1, NumberIsFree
      <4> QED BY <4>1
    <3>2. T \in SUBSET Nat BY <3>0
    <3>3. PICK k \in T : \A j \in T : k <= j
      <4> HIDE DEF T
      <4> QED BY <3>1, <3>2, LeastIsThere
    <3>4. k \in I /\ k \in Nat /\ [s EXCEPT !.n = k] \notin ids.used BY <3>0, <3>3
    <3>5. ASSUME NEW j \in ids.next + 1 .. k - 1 PROVE [s EXCEPT !.n = j] \in ids.used
      <4>0. Cardinality(ids.used) \in Nat BY <1>1, FS_CardinalityType
      <4>1. j \in I /\ ~(k <= j) BY <1>1, <3>4, <4>0
      <4> QED BY <3>3, <4>1
    <3> QED BY <3>4, <3>5
  <2>3. free \in I /\ P(free)
    <3> HIDE DEF P, I
    <3> QED BY <2>2
  <2>4. free \in Nat BY <1>1, <2>3, FS_CardinalityType
  <2>5. [s EXCEPT !.n = free] \notin ids.used BY <2>3
  <2> HIDE DEF free, P, I
  <2>6. new \in Ids /\ Valid(new) /\ new \notin ids.used BY <2>4, <2>5, IdsTyped
  <2> HIDE DEF s, new
  <2>7. to \in Maps
    <3>1. PICK D \in SUBSET Ids : ids.map \in [D -> Ids] BY <1>1 DEF Maps
    <3> DEFINE E == D \cup {id}
    <3>2. DOMAIN ids.map = D /\ E \in SUBSET Ids BY <3>1
    <3>3. to \in [E -> Ids] BY <2>6, <3>1, <3>2
    <3> HIDE DEF to, E
    <3> QED BY <3>2, <3>3 DEF Maps
  <2>8. DOMAIN to = DOMAIN ids.map \cup {id} /\ to[id] = new /\ \A i \in DOMAIN ids.map : i # id => to[i] = ids.map[i]
    OBVIOUS
  <2> HIDE DEF to
  <2>9. r.map = to /\ r.used = ids.used \cup {new} /\ r \in [map : Maps, used : SUBSET Ids, next : Nat]
    BY <1>1, <2>4, <2>6, <2>7
  <2>10. IsFiniteSet(ids.used \cup {new}) BY <1>1, FS_AddElement
  <2> HIDE DEF r
  <2>11. r \in IdStates BY <2>9, <2>10 DEF IdStates
  <2>12. Renames(ids, id, r) BY <2>6, <2>8, <2>9 DEF Renames
  <2> QED BY <1>4, <2>1, <2>11, <2>12
<1> QED BY <1>2, <1>3, <1>4

BeginsWith(b, a) == Len(a) <= Len(b) /\ \A q \in 1 .. Len(a) : b[q] = a[q]

\* The first k of the sequences begin what all of them make.
LEMMA FlatBegins ==
  ASSUME NEW S, NEW n \in Nat, NEW f \in [1 .. n -> Seq(S)], NEW k \in 0 .. n
  PROVE  Flat(f, k) \in Seq(S) /\ Flat(f, n) \in Seq(S) /\ BeginsWith(Flat(f, n), Flat(f, k))
<1> DEFINE Begins(j) == /\ Flat(f, k) \in Seq(S) /\ Flat(f, j) \in Seq(S) /\ Len(Flat(f, k)) <= Len(Flat(f, j))
                        /\ \A q \in 1 .. Len(Flat(f, k)) : Flat(f, j)[q] = Flat(f, k)[q]
           Good == {j \in 0 .. n : k <= j => Begins(j)}
<1>1. Flat(f, k) \in Seq(S)
  <2>1. CASE k = 0
    <3>1. Flat(f, 0) = <<>> BY FlatNone
    <3>2. <<>> \in Seq(S) OBVIOUS
    <3> QED BY <2>1, <3>1, <3>2
  <2>2. CASE k # 0
    <3>1. k \in 1 .. n BY <2>2
    <3> QED BY <3>1, FlatMore
  <2> QED BY <2>1, <2>2
<1>2. Begins(k) /\ k \in Nat BY <1>1
<1>3. 0 \in Good
  <2>1. k <= 0 => k = 0 BY <1>2
  <2> HIDE DEF Begins
  <2> QED BY <1>2, <2>1
<1>4. \A j \in 1 .. n : j - 1 \in Good => j \in Good
  <2> SUFFICES ASSUME NEW j \in 1 .. n, j - 1 \in Good, k <= j PROVE Begins(j)
    <3> HIDE DEF Begins
    <3> QED OBVIOUS
  <2>1. CASE k = j BY <1>2, <2>1
  <2>2. CASE k # j
    <3> DEFINE a == Flat(f, j - 1)
               b == f[j]
               z == Flat(f, k)
    <3>1. j - 1 \in 0 .. n /\ k <= j - 1 BY <1>2, <2>2
    <3>2. Begins(j - 1)
      <4> HIDE DEF Begins
      <4> QED BY <3>1
    <3>3. a \in Seq(S) /\ Len(z) <= Len(a) /\ (\A q \in 1 .. Len(z) : a[q] = z[q]) /\ z \in Seq(S) BY <3>2
    <3>b. Flat(f, j) = Flat(f, j - 1) \o f[j] /\ Flat(f, j) \in Seq(S) /\ Flat(f, j - 1) \in Seq(S)
      <4> HIDE DEF Begins
      <4> QED BY FlatMore
    <3>4. Flat(f, j) = a \o b /\ Flat(f, j) \in Seq(S) /\ b \in Seq(S) BY <3>b
    <3> HIDE DEF a, b, z
    <3>5. /\ Len(a \o b) = Len(a) + Len(b) /\ Len(a) \in Nat /\ Len(b) \in Nat
          /\ \A i \in 1 .. Len(a) : (a \o b)[i] = a[i]
      BY <3>3, <3>4, InOne
    <3>6. Len(z) \in Nat /\ Len(z) <= Len(a \o b) /\ \A q \in 1 .. Len(z) : q \in 1 .. Len(a) BY <3>3, <3>5
    <3>7. \A q \in 1 .. Len(z) : (a \o b)[q] = z[q] BY <3>3, <3>5, <3>6
    <3> QED BY <1>1, <3>4, <3>6, <3>7 DEF z
  <2> QED BY <2>1, <2>2
<1> HIDE DEF Good
<1>5. \A j \in 0 .. n : j \in Good BY <1>3, <1>4, UpTo
<1>6. n \in Good /\ k <= n BY <1>5
<1> QED BY <1>6 DEF Good, BeginsWith

-----------------------------------------------------------------------------
(* Where the ids of a transcript occur. *)
OccursAt(m) == [k \in 1 .. Len(m) |-> IF m[k].role = "tool" THEN <<m[k].of>> ELSE CallIds(m[k])]

LEMMA CallIdsTyped ==
  ASSUME NEW x \in Messages
  PROVE  /\ CallIds(x) \in Seq(Ids) /\ x.of \in Ids /\ x.calls \in Seq([id : Pool, touch : Touches])
         /\ DOMAIN x.calls = 1 .. Len(CallIds(x)) /\ \A i \in DOMAIN x.calls : CallIds(x)[i] = x.calls[i].id
<1>1. x.calls \in Seq([id : Pool, touch : Touches]) /\ x.of \in Pool \cup {NoId} BY DEF Messages
<1> DEFINE c == x.calls
           l == Len(c)
           d == [i \in DOMAIN c |-> c[i].id]
<1>2. l \in Nat /\ DOMAIN c = 1 .. l /\ \A i \in 1 .. l : c[i] \in [id : Pool, touch : Touches]
  <2> DEFINE C == [id : Pool, touch : Touches]
  <2>1. c \in Seq(C) BY <1>1
  <2> HIDE DEF c, C
  <2>2. Len(c) \in Nat /\ DOMAIN c = 1 .. Len(c) /\ \A i \in 1 .. Len(c) : c[i] \in C BY <2>1
  <2> QED BY <2>2 DEF C
<1>3. \A i \in 1 .. l : c[i].id \in Ids BY <1>2, PoolIds
<1>4. d \in [1 .. l -> Ids] BY <1>2, <1>3
<1>5. \A i \in 1 .. l : d[i] = c[i].id BY <1>2
<1>6. CallIds(x) = d BY DEF CallIds
<1> HIDE DEF d, c, l
<1>7. d \in Seq(Ids) /\ Len(d) = l BY <1>2, <1>4, IsASeq
<1> QED BY <1>1, <1>2, <1>5, <1>6, <1>7, PoolIds DEF c

LEMMA OccurrencesTyped ==
  ASSUME NEW m \in Seq(Messages)
  PROVE  /\ OccursAt(m) \in [1 .. Len(m) -> Seq(Ids)] /\ Occurrences(m) = Flat(OccursAt(m), Len(m))
         /\ Occurrences(m) \in Seq(Ids)
<1>1. Len(m) \in Nat /\ \A k \in 1 .. Len(m) : m[k] \in Messages OBVIOUS
<1>2. \A k \in 1 .. Len(m) : <<m[k].of>> \in Seq(Ids) /\ CallIds(m[k]) \in Seq(Ids) BY <1>1, CallIdsTyped
<1>3. OccursAt(m) \in [1 .. Len(m) -> Seq(Ids)] BY <1>2 DEF OccursAt
<1>4. Occurrences(m) = Flat(OccursAt(m), Len(m))
  <2>1. OccursAt(m) = [k \in 1 .. Len(m) |-> OccursAt(m)[k]] BY DEF OccursAt
  <2> QED BY <2>1 DEF Occurrences, OccursAt, Flat
<1> DEFINE f == OccursAt(m)
           n == Len(m)
<1>5. f \in [1 .. n -> Seq(Ids)] /\ n \in Nat /\ n \in 0 .. n BY <1>1, <1>3
<1> HIDE DEF f, n
<1>6. Flat(f, n) \in Seq(Ids) BY <1>5, FlatBegins
<1> QED BY <1>3, <1>4, <1>6 DEF f, n

\* Every call occurs.
LEMMA CallOccurs ==
  ASSUME NEW m \in Seq(Messages), Rounds(m), NEW id \in AllCalls(m)
  PROVE  \E p \in 1 .. Len(Occurrences(m)) : Occurrences(m)[p] = id
<1> DEFINE f == OccursAt(m)
           n == Len(m)
           u == Occurrences(m)
<1>1. f \in [1 .. n -> Seq(Ids)] /\ n \in Nat /\ DOMAIN m = 1 .. n /\ u = Flat(f, n) /\ u \in Seq(Ids) BY OccurrencesTyped
<1>2. PICK k \in DOMAIN m : \E i \in DOMAIN m[k].calls : m[k].calls[i].id = id BY CalledIn
<1>3. PICK i \in DOMAIN m[k].calls : m[k].calls[i].id = id BY <1>2
<1>4. m[k] \in Messages /\ k \in 1 .. n /\ k \in 0 .. n BY <1>1
<1>5. m[k].calls # <<>> BY <1>3
<1>6. f[k] = CallIds(m[k])
  <2>1. m[k].role = "assistant" BY <1>5 DEF Rounds
  <2> QED BY <1>4, <2>1 DEF OccursAt
<1>7. i \in 1 .. Len(f[k]) /\ f[k][i] = id BY <1>3, <1>4, <1>6, CallIdsTyped
<1> HIDE DEF f, n, u
<1> DEFINE a == Flat(f, k - 1)
           b == f[k]
<1>8. Flat(f, k) = a \o b /\ a \in Seq(Ids) /\ b \in Seq(Ids)
  <2>1. n \in Nat /\ f \in [1 .. n -> Seq(Ids)] /\ k \in 1 .. n BY <1>1, <1>4
  <2>2. Flat(f, k) = a \o b /\ a \in Seq(Ids) BY <2>1, FlatMore, Zenon
  <2> QED BY <2>1, <2>2
<1>9. i \in 1 .. Len(b) /\ b[i] = id BY <1>7
<1> HIDE DEF a, b
<1>10. /\ Len(a \o b) = Len(a) + Len(b) /\ Len(a) \in Nat /\ Len(b) \in Nat
       /\ \A q \in 1 .. Len(b) : (a \o b)[Len(a) + q] = b[q]
  BY <1>8, InOne
<1> DEFINE p == Len(a) + i
<1>11. p \in 1 .. Len(a \o b) /\ (a \o b)[p] = id BY <1>9, <1>10
<1>12. Flat(f, k) \in Seq(Ids) /\ Flat(f, n) \in Seq(Ids) /\ BeginsWith(Flat(f, n), Flat(f, k))
  BY <1>1, <1>4, FlatBegins
<1> HIDE DEF p
<1>13. u[p] = id BY <1>1, <1>8, <1>11, <1>12 DEF BeginsWith
<1>14. p \in 1 .. Len(u)
  <2>1. Len(u) \in Nat /\ Len(a \o b) <= Len(u) /\ Len(a \o b) \in Nat BY <1>1, <1>8, <1>10, <1>12 DEF BeginsWith
  <2> QED BY <1>11, <2>1
<1> QED BY <1>13, <1>14 DEF u

ValidCalls(m) == {id \in AllCalls(m) : Valid(id)}

LEMMA AllCallsTyped ==
  ASSUME NEW m \in Seq(Messages), Rounds(m)
  PROVE  AllCalls(m) \subseteq Ids /\ IsFiniteSet(ValidCalls(m)) /\ Unmapped(m) \in IdStates
<1> DEFINE u == Occurrences(m)
           n == Len(u)
           E == {u[p] : p \in 1 .. n}
           f == [p \in 1 .. n |-> u[p]]
<1>1. u \in Seq(Ids) BY OccurrencesTyped
<1>2. n \in Nat /\ \A p \in 1 .. n : u[p] \in Ids BY <1>1
<1>3. AllCalls(m) \subseteq E
  <2> SUFFICES ASSUME NEW id \in AllCalls(m) PROVE id \in E OBVIOUS
  <2>1. \E p \in 1 .. Len(Occurrences(m)) : Occurrences(m)[p] = id BY CallOccurs
  <2> QED BY <2>1
<1>4. E \subseteq Ids BY <1>2
<1>5. f \in Surjection(1 .. n, E) BY DEF Surjection
<1> HIDE DEF u, n, f, E
<1>6. IsFiniteSet(1 .. n)
  <2>1. 1 \in Int /\ n \in Int BY <1>2
  <2> QED BY <2>1, FS_Interval
<1>7. IsFiniteSet(E) BY <1>5, <1>6, FS_Surjection
<1>8. ValidCalls(m) \in SUBSET E BY <1>3 DEF ValidCalls
<1>9. IsFiniteSet(ValidCalls(m)) BY <1>7, <1>8, FS_Subset
<1>11. Unmapped(m) \in IdStates
  <2> DEFINE none == <<>>
             D == {}
             r == [map |-> none, used |-> ValidCalls(m), next |-> 0]
  <2>1. none \in [D -> Ids] /\ D \in SUBSET Ids OBVIOUS
  <2> HIDE DEF none, D
  <2>2. none \in Maps BY <2>1 DEF Maps
  <2>3. r \in [map : Maps, used : SUBSET Ids, next : Nat] /\ r.used = ValidCalls(m) BY <1>3, <1>4, <2>2 DEF ValidCalls
  <2>4. r = Unmapped(m) BY DEF Unmapped, ValidCalls, none
  <2> HIDE DEF r
  <2> QED BY <1>9, <2>3, <2>4 DEF IdStates
<1> QED BY <1>3, <1>4, <1>9, <1>11

\* The mapping is made occurrence by occurrence.
Mapping(h, m) ==
  /\ h \in [0 .. Len(Occurrences(m)) -> IdStates] /\ h[0] = Unmapped(m)
  /\ \A i \in 1 .. Len(Occurrences(m)) : h[i] = Mapped(h[i - 1], Occurrences(m)[i])
  /\ AllMapped(m) = h[Len(Occurrences(m))]

LEMMA MapsAll == ASSUME NEW m \in Seq(Messages), Rounds(m) PROVE \E h : Mapping(h, m)
<1> DEFINE s == Occurrences(m)
           n == Len(s)
           T == IdStates
           base == Unmapped(m)
           G == [i \in 1 .. n |-> [x \in T |-> Mapped(x, s[i])]]
<1>1. s \in Seq(Ids) BY OccurrencesTyped
<1>2. n \in Nat /\ \A i \in 1 .. n : s[i] \in Ids BY <1>1
<1>3. base \in T BY AllCallsTyped
<1> HIDE DEF n, s, base
<1>4. \A i \in 1 .. n : \A x \in T : Mapped(x, s[i]) \in T BY <1>2, MappedIs
<1> HIDE DEF T
<1>5. G \in Steps(n, T) BY <1>4 DEF Steps
<1>6. \A i \in 1 .. n, x \in T : G[i][x] = Mapped(x, s[i]) OBVIOUS
<1> HIDE DEF G
<1>7. PICK h : Computes(h, n, T, base, G) BY <1>2, <1>3, <1>5, Iterates
<1>8. h \in [0 .. n -> T] /\ h[0] = base /\ \A i \in 1 .. n : h[i] = G[i][h[i - 1]] BY <1>7 DEF Computes
<1>9. \A i \in 1 .. n : i - 1 \in 0 .. n /\ i \in 0 .. n /\ h[i - 1] \in T BY <1>2, <1>8
<1>10. \A i \in 1 .. n : h[i] = Mapped(h[i - 1], s[i]) BY <1>6, <1>8, <1>9
<1> DEFINE up == CHOOSE g : g = [k \in 0 .. n |-> IF k = 0 THEN base ELSE Mapped(g[k - 1], s[k])]
<1>11. AllMapped(m) = up[n] BY DEF AllMapped, n, s, base
<1>12. up = [k \in 0 .. n |-> IF k = 0 THEN base ELSE Mapped(up[k - 1], s[k])]
  <2>1. h = [k \in 0 .. n |-> IF k = 0 THEN base ELSE Mapped(h[k - 1], s[k])]
    <3>1. h = [k \in 0 .. n |-> h[k]] BY <1>8
    <3>2. \A k \in 0 .. n : h[k] = IF k = 0 THEN base ELSE Mapped(h[k - 1], s[k])
      <4>1. \A k \in 0 .. n : k = 0 \/ k \in 1 .. n BY <1>2
      <4> QED BY <1>8, <1>10, <4>1
    <3> QED BY <3>1, <3>2
  <2> QED BY <2>1
<1> HIDE DEF up
<1> DEFINE Good == {i \in 0 .. n : up[i] = h[i]}
<1>13. 0 \in Good BY <1>2, <1>8, <1>12
<1>14. \A i \in 1 .. n : i - 1 \in Good => i \in Good
  <2>1. ASSUME NEW i \in 1 .. n, i - 1 \in Good PROVE up[i] = h[i]
    <3>0. i \in 0 .. n /\ i # 0 BY <1>2
    <3>1. up[i] = IF i = 0 THEN base ELSE Mapped(up[i - 1], s[i]) BY <1>12, <3>0, Zenon
    <3> QED BY <1>10, <2>1, <3>0, <3>1
  <2> QED BY <1>2, <2>1
<1>15. n \in Good
  <2> HIDE DEF Good
  <2>1. \A i \in 0 .. n : i \in Good BY <1>2, <1>13, <1>14, UpTo
  <2> QED BY <1>2, <2>1
<1> QED BY <1>8, <1>10, <1>11, <1>15 DEF n, s, T, base, Mapping

-----------------------------------------------------------------------------
\* What holds after the first k occurrences: an id that is not valid has one of its own,
\* in use, which is no call's.
SoundMap(ids, m, k) ==
  /\ ValidCalls(m) \subseteq ids.used
  /\ \A i \in DOMAIN ids.map : /\ ~Valid(i) /\ Valid(ids.map[i]) /\ ids.map[i] \in ids.used
                               /\ ids.map[i] \notin ValidCalls(m)
  /\ \A i, j \in DOMAIN ids.map : ids.map[i] = ids.map[j] => i = j
  /\ \A q \in 1 .. k : LET id == Occurrences(m)[q]
                       IN  (Valid(id) => id \in ids.used) /\ (~Valid(id) => id \in DOMAIN ids.map)

LEMMA SoundMapStep ==
  ASSUME NEW m \in Seq(Messages), Rounds(m), NEW k \in 1 .. Len(Occurrences(m)),
         NEW ids \in IdStates, SoundMap(ids, m, k - 1)
  PROVE  SoundMap(Mapped(ids, Occurrences(m)[k]), m, k)
<1> DEFINE u == Occurrences(m)
           id == u[k]
           r == Mapped(ids, id)
<1>1. u \in Seq(Ids) BY OccurrencesTyped
<1>2. id \in Ids /\ k \in Nat BY <1>1
<1>3. \A q \in 1 .. k : q = k \/ q \in 1 .. k - 1 BY <1>2
<1> HIDE DEF id
<1>4. /\ id \in DOMAIN ids.map => r = ids
      /\ id \notin DOMAIN ids.map /\ Valid(id) => r.map = ids.map /\ r.used = ids.used \cup {id}
      /\ id \notin DOMAIN ids.map /\ ~Valid(id) => Renames(ids, id, r)
  BY <1>2, MappedIs
<1> HIDE DEF r
<1>5. /\ ValidCalls(m) \subseteq ids.used
      /\ \A i \in DOMAIN ids.map : /\ ~Valid(i) /\ Valid(ids.map[i]) /\ ids.map[i] \in ids.used
                                   /\ ids.map[i] \notin ValidCalls(m)
      /\ \A i, j \in DOMAIN ids.map : ids.map[i] = ids.map[j] => i = j
  BY DEF SoundMap
<1>6. \A q \in 1 .. k - 1 : (Valid(u[q]) => u[q] \in ids.used) /\ (~Valid(u[q]) => u[q] \in DOMAIN ids.map)
  BY DEF SoundMap
<1>7. u[k] = id BY DEF id
<1> HIDE DEF u
<1>8. CASE id \in DOMAIN ids.map
  <2>1. r = ids /\ ~Valid(id) BY <1>4, <1>5, <1>8
  <2>2. \A q \in 1 .. k : (Valid(u[q]) => u[q] \in r.used) /\ (~Valid(u[q]) => u[q] \in DOMAIN r.map)
    BY <1>3, <1>6, <1>7, <1>8, <2>1
  <2>3. SoundMap(r, m, k) BY <1>5, <2>1, <2>2 DEF SoundMap, u
  <2> QED BY <2>3 DEF r, id, u
<1>9. CASE id \notin DOMAIN ids.map /\ Valid(id)
  <2>1. r.map = ids.map /\ r.used = ids.used \cup {id} BY <1>4, <1>9
  <2>2. \A q \in 1 .. k : (Valid(u[q]) => u[q] \in r.used) /\ (~Valid(u[q]) => u[q] \in DOMAIN r.map)
    BY <1>3, <1>6, <1>7, <1>9, <2>1
  <2>3. SoundMap(r, m, k) BY <1>5, <2>1, <2>2 DEF SoundMap, u
  <2> QED BY <2>3 DEF r, id, u
<1>10. CASE id \notin DOMAIN ids.map /\ ~Valid(id)
  <2>1. PICK new \in Ids :
          /\ new \notin ids.used /\ Valid(new) /\ r.used = ids.used \cup {new}
          /\ DOMAIN r.map = DOMAIN ids.map \cup {id} /\ r.map[id] = new
          /\ \A i \in DOMAIN ids.map : i # id => r.map[i] = ids.map[i]
    BY <1>4, <1>10 DEF Renames
  <2>2. \A i \in DOMAIN ids.map : i # id /\ r.map[i] = ids.map[i] /\ r.map[i] # new BY <1>5, <1>10, <2>1
  <2>3. new \notin ValidCalls(m) BY <1>5, <2>1
  <2>4. \A i \in DOMAIN r.map : i \in DOMAIN ids.map \/ i = id BY <2>1
  <2>5. \A i \in DOMAIN r.map : ~Valid(i) /\ Valid(r.map[i]) /\ r.map[i] \in r.used /\ r.map[i] \notin ValidCalls(m)
    <3> SUFFICES ASSUME NEW i \in DOMAIN r.map
                 PROVE  ~Valid(i) /\ Valid(r.map[i]) /\ r.map[i] \in r.used /\ r.map[i] \notin ValidCalls(m)
      OBVIOUS
    <3>1. CASE i = id BY <1>10, <2>1, <2>3, <3>1
    <3>2. CASE i \in DOMAIN ids.map BY <1>5, <2>1, <2>2, <3>2
    <3> QED BY <2>4, <3>1, <3>2
  <2>6. \A i, j \in DOMAIN r.map : r.map[i] = r.map[j] => i = j BY <1>5, <2>1, <2>2, <2>4
  <2>9. \A q \in 1 .. k : (Valid(u[q]) => u[q] \in r.used) /\ (~Valid(u[q]) => u[q] \in DOMAIN r.map)
    BY <1>3, <1>6, <1>7, <1>10, <2>1
  <2>10. ValidCalls(m) \subseteq r.used BY <1>5, <2>1
  <2>11. SoundMap(r, m, k) BY <2>5, <2>6, <2>9, <2>10 DEF SoundMap, u
  <2> QED BY <2>11 DEF r, id, u
<1> QED BY <1>8, <1>9, <1>10

LEMMA MapIsSound ==
  ASSUME NEW m \in Seq(Messages), Rounds(m)
  PROVE  AllMapped(m) \in IdStates /\ SoundMap(AllMapped(m), m, Len(Occurrences(m)))
<1> DEFINE n == Len(Occurrences(m))
<1>1. PICK h : Mapping(h, m) BY MapsAll
<1>2. /\ h \in [0 .. n -> IdStates] /\ h[0] = Unmapped(m)
      /\ \A i \in 1 .. n : h[i] = Mapped(h[i - 1], Occurrences(m)[i])
      /\ AllMapped(m) = h[n]
  BY <1>1 DEF Mapping
<1>3. Occurrences(m) \in Seq(Ids) BY OccurrencesTyped
<1>4. n \in Nat BY <1>3
<1> DEFINE Good == {k \in 0 .. n : SoundMap(h[k], m, k)}
<1>5. 0 \in Good
  <2> DEFINE ids == Unmapped(m)
  <2>1. ids.used = ValidCalls(m) /\ DOMAIN ids.map = {} BY DEF Unmapped, ValidCalls
  <2>2. 1 .. 0 = {} OBVIOUS
  <2> HIDE DEF ids
  <2>3. SoundMap(ids, m, 0) BY <2>1, <2>2 DEF SoundMap
  <2> QED BY <1>2, <1>4, <2>3 DEF ids
<1>6. \A k \in 1 .. n : k - 1 \in Good => k \in Good
  <2> SUFFICES ASSUME NEW k \in 1 .. n, SoundMap(h[k - 1], m, k - 1) PROVE SoundMap(h[k], m, k) BY <1>4
  <2>1. k - 1 \in 0 .. n BY <1>4
  <2>2. h[k - 1] \in IdStates BY <1>2, <2>1
  <2> QED BY <1>2, <2>2, SoundMapStep
<1> HIDE DEF Good, n
<1>7. \A k \in 0 .. n : k \in Good BY <1>4, <1>5, <1>6, UpTo
<1>8. n \in Good /\ n \in 0 .. n BY <1>4, <1>7
<1> QED BY <1>2, <1>8 DEF Good, n

\* The ids of calls are told apart as before, and are valid.
LEMMA ToTellsApart ==
  ASSUME NEW m \in Seq(Messages), Rounds(m), NEW c \in AllCalls(m)
  PROVE  /\ Valid(To(AllMapped(m).map, c))
         /\ \A t \in AllCalls(m) : To(AllMapped(m).map, t) = To(AllMapped(m).map, c) => t = c
<1> DEFINE ids == AllMapped(m)
           u == Occurrences(m)
<1>1. /\ ValidCalls(m) \subseteq ids.used
      /\ \A i \in DOMAIN ids.map : /\ ~Valid(i) /\ Valid(ids.map[i]) /\ ids.map[i] \in ids.used
                                   /\ ids.map[i] \notin ValidCalls(m)
      /\ \A i, j \in DOMAIN ids.map : ids.map[i] = ids.map[j] => i = j
  BY MapIsSound DEF SoundMap
<1>2. \A q \in 1 .. Len(u) : ~Valid(u[q]) => u[q] \in DOMAIN ids.map BY MapIsSound DEF SoundMap
<1>3. \E p \in 1 .. Len(u) : u[p] = c BY CallOccurs
<1> HIDE DEF ids
<1>4. ~Valid(c) => c \in DOMAIN ids.map BY <1>2, <1>3
<1>5. Valid(c) => c \in ValidCalls(m) /\ c \notin DOMAIN ids.map BY <1>1 DEF ValidCalls
<1>6. Valid(To(ids.map, c)) BY <1>1, <1>4, <1>5 DEF To
<1>7. ASSUME NEW t \in AllCalls(m), To(ids.map, t) = To(ids.map, c) PROVE t = c
  <2>1. CASE t \in DOMAIN ids.map
    <3>1. To(ids.map, t) = ids.map[t] BY <2>1 DEF To
    <3>2. CASE Valid(c) BY <1>1, <1>5, <1>7, <2>1, <3>1, <3>2 DEF To
    <3>3. CASE ~Valid(c) BY <1>1, <1>4, <1>7, <2>1, <3>1, <3>3 DEF To
    <3> QED BY <3>2, <3>3
  <2>2. CASE t \notin DOMAIN ids.map
    <3>1. To(ids.map, t) = t BY <2>2 DEF To
    <3>2. CASE Valid(c) BY <1>5, <1>7, <3>1, <3>2 DEF To
    <3>3. CASE ~Valid(c)
      <4>1. c \in DOMAIN ids.map /\ t = ids.map[c] BY <1>4, <1>7, <3>1, <3>3 DEF To
      <4>2. t \notin ValidCalls(m) /\ Valid(t) BY <1>1, <4>1
      <4> QED BY <4>2 DEF ValidCalls
    <3> QED BY <3>2, <3>3
  <2> QED BY <2>1, <2>2
<1> QED BY <1>6, <1>7 DEF ids

IsChanged(o, x, e, d) == o \in Sent /\ o.role = x.role /\ o.of = e /\ o.says = x.says /\ o.calls = d
Changed(x, e, d) == [x EXCEPT !.of = e, !.calls = d]
LEMMA ChangedMessage ==
  ASSUME NEW x \in Messages, NEW e \in Ids, NEW d \in Seq(Calls)
  PROVE  IsChanged(Changed(x, e, d), x, e, d)
<1> DEFINE y == [role |-> x.role, calls |-> d, of |-> e, says |-> x.says, thinks |-> x.thinks, model |-> x.model,
                 words |-> x.words, ledger |-> x.ledger]
<1>1. x \in [role : {"user", "assistant", "tool"}, calls : Seq([id : Pool, touch : Touches]), of : Pool \cup {NoId},
             says : BOOLEAN, thinks : BOOLEAN, model : Models \cup {Nothing}, words : Nat \ {0}, ledger : SUBSET Touches]
  BY DEF Messages
<1>2. x = [role |-> x.role, calls |-> x.calls, of |-> x.of, says |-> x.says, thinks |-> x.thinks, model |-> x.model,
           words |-> x.words, ledger |-> x.ledger]
  BY <1>1, Zenon
<1>3. [x EXCEPT !.of = e, !.calls = d] = y
  <2> DEFINE a == x.role
             b == x.calls
             c == x.of
             f == x.says
             g == x.thinks
             h == x.model
             i == x.words
             j == x.ledger
             z == [role |-> a, calls |-> b, of |-> c, says |-> f, thinks |-> g, model |-> h, words |-> i, ledger |-> j]
  <2>1. x = z BY <1>2
  <2> HIDE DEF a, b, c, f, g, h, i, j
  <2> DEFINE w == [role |-> a, calls |-> b, of |-> e, says |-> f, thinks |-> g, model |-> h, words |-> i, ledger |-> j]
  <2>2. [z EXCEPT !.of = e] = w OBVIOUS
  <2>3. [w EXCEPT !.calls = d]
          = [role |-> a, calls |-> d, of |-> e, says |-> f, thinks |-> g, model |-> h, words |-> i, ledger |-> j]
    OBVIOUS
  <2>4. [[z EXCEPT !.of = e] EXCEPT !.calls = d] = [w EXCEPT !.calls = d]
    <3> HIDE DEF z, w
    <3> QED BY <2>2
  <2> HIDE DEF z, w
  <2>5. [x EXCEPT !.of = e, !.calls = d] = [[z EXCEPT !.of = e] EXCEPT !.calls = d] BY <2>1
  <2> QED BY <2>3, <2>4, <2>5 DEF a, b, c, f, g, h, i, j
<1>4. /\ x.role \in {"user", "assistant", "tool"} /\ x.says \in BOOLEAN /\ x.thinks \in BOOLEAN
      /\ x.model \in Models \cup {Nothing} /\ x.words \in Nat \ {0} /\ x.ledger \in SUBSET Touches
  BY DEF Messages
<1>5. y \in Sent BY <1>4 DEF Sent
<1> QED BY <1>3, <1>5 DEF IsChanged, Changed

\* What a message is under new ids.
LEMMA RenamedIs ==
  ASSUME NEW m \in Seq(Messages), Rounds(m), NEW k \in DOMAIN m
  PROVE  LET o == NormalizeIDs(m)
             M == AllMapped(m).map
         IN  /\ DOMAIN o = DOMAIN m /\ o[k] \in Sent /\ o[k].role = m[k].role /\ o[k].of = To(M, m[k].of)
             /\ o[k].says = m[k].says /\ DOMAIN o[k].calls = DOMAIN m[k].calls
             /\ \A i \in DOMAIN m[k].calls : o[k].calls[i] = [id |-> To(M, m[k].calls[i].id), touch |-> m[k].calls[i].touch]
<1> DEFINE M == AllMapped(m).map
           x == m[k]
           c == x.calls
           l == Len(c)
           d == WithIds(c, M)
           y == [x EXCEPT !.of = To(M, @), !.calls = d]
           C == [id : Pool, touch : Touches]
<1>1. AllMapped(m) \in IdStates BY MapIsSound
<1>2. M \in Maps BY <1>1 DEF IdStates
<1>3. PICK D \in SUBSET Ids : M \in [D -> Ids] BY <1>2 DEF Maps
<1> HIDE DEF M
<1>4. \A id \in Ids : To(M, id) \in Ids BY <1>3 DEF To
<1>5. x \in Messages OBVIOUS
<1>6. c \in Seq(C) /\ x.of \in Ids BY <1>5, CallIdsTyped
<1>7. /\ NormalizeIDs(m)[k] = y /\ DOMAIN NormalizeIDs(m) = DOMAIN m
  BY DEF NormalizeIDs, Renamed, M
<1> HIDE DEF x
<1> HIDE DEF c, C
<1>10. l \in Nat /\ DOMAIN c = 1 .. l /\ \A i \in DOMAIN c : c[i] \in C BY <1>6
<1>11. d = [i \in DOMAIN c |-> [id |-> To(M, c[i].id), touch |-> c[i].touch]] BY DEF WithIds, Call
<1>12. \A i \in DOMAIN c : [id |-> To(M, c[i].id), touch |-> c[i].touch] \in Calls
  <2>1. \A i \in DOMAIN c : c[i].id \in Ids /\ c[i].touch \in Touches BY <1>10, PoolIds DEF C
  <2> QED BY <1>4, <2>1 DEF Calls
<1>13. d \in [1 .. l -> Calls] BY <1>10, <1>11, <1>12
<1>14. DOMAIN d = DOMAIN c /\ \A i \in DOMAIN c : d[i] = [id |-> To(M, c[i].id), touch |-> c[i].touch] BY <1>11
<1> HIDE DEF d, l
<1>15. d \in Seq(Calls) BY <1>10, <1>13, IsASeq
<1>16. To(M, x.of) \in Ids BY <1>4, <1>6
<1>17. /\ y \in Sent /\ y.role = x.role /\ y.of = To(M, x.of) /\ y.says = x.says /\ y.calls = d
  <2> DEFINE e == To(M, x.of)
  <2>1. e \in Ids /\ y = Changed(x, e, d) BY <1>16 DEF Changed
  <2> HIDE DEF e, y
  <2>2. IsChanged(Changed(x, e, d), x, e, d) BY <1>5, <1>15, <2>1, ChangedMessage
  <2> QED BY <2>1, <2>2 DEF e, IsChanged
<1> HIDE DEF y
<1> QED BY <1>7, <1>14, <1>17 DEF M, x, c

\* normalizeToolCallIDs keeps what calls and results have to do with each other.
LEMMA NormalizedIsSound ==
  ASSUME NEW m \in Seq(Messages), Rounds(m)
  PROVE  NormalizeIDs(m) \in Seq(Sent) /\ SoundCalls(NormalizeIDs(m)) /\ Conversation(NormalizeIDs(m)) = Conversation(m)
<1> DEFINE o == NormalizeIDs(m)
           M == AllMapped(m).map
           n == Len(m)
<1>1. n \in Nat /\ DOMAIN m = 1 .. n OBVIOUS
<1>2. \A k \in DOMAIN m :
        /\ DOMAIN o = DOMAIN m /\ o[k] \in Sent /\ o[k].role = m[k].role /\ o[k].of = To(M, m[k].of)
        /\ o[k].says = m[k].says /\ DOMAIN o[k].calls = DOMAIN m[k].calls
        /\ \A i \in DOMAIN m[k].calls : o[k].calls[i] = [id |-> To(M, m[k].calls[i].id), touch |-> m[k].calls[i].touch]
  BY RenamedIs
<1>3. o = [k \in 1 .. n |-> o[k]] /\ DOMAIN o = 1 .. n BY <1>1 DEF NormalizeIDs, Renamed
<1>4. \A c \in AllCalls(m) : Valid(To(M, c)) /\ \A t \in AllCalls(m) : To(M, t) = To(M, c) => t = c
  BY ToTellsApart
<1> HIDE DEF o, M, n
<1>5. o \in Seq(Sent) /\ Len(o) = n
  <2>1. o \in [1 .. n -> Sent] BY <1>1, <1>2, <1>3
  <2> QED BY <1>1, <2>1, IsASeq
<1>6. \A k \in DOMAIN m : \A i \in DOMAIN m[k].calls : m[k].calls[i].id \in AllCalls(m) /\ o[k].calls[i].id = To(M, m[k].calls[i].id)
  <2> SUFFICES ASSUME NEW k \in DOMAIN m, NEW i \in DOMAIN m[k].calls
               PROVE  m[k].calls[i].id \in AllCalls(m) /\ o[k].calls[i].id = To(M, m[k].calls[i].id)
    OBVIOUS
  <2>1. o[k].calls[i] = [id |-> To(M, m[k].calls[i].id), touch |-> m[k].calls[i].touch] BY <1>2
  <2>2. o[k].calls[i].id = To(M, m[k].calls[i].id) BY <2>1
  <2> QED BY <2>2, CalledIn
<1>8. CallsAreDistinct(o)
  <2> SUFFICES ASSUME NEW k \in DOMAIN o, NEW i \in DOMAIN o[k].calls, NEW j \in DOMAIN o[k].calls,
                      o[k].calls[i].id = o[k].calls[j].id
               PROVE  i = j
    BY DEF CallsAreDistinct
  <2>1. k \in DOMAIN m /\ i \in DOMAIN m[k].calls /\ j \in DOMAIN m[k].calls BY <1>1, <1>2, <1>3
  <2>2. m[k].calls[i].id = m[k].calls[j].id BY <1>4, <1>6, <2>1
  <2> QED BY <2>1, <2>2 DEF Rounds, CallsAreDistinct
<1>7. \A k \in DOMAIN m : o[k].calls = <<>> <=> m[k].calls = <<>>
  <2> TAKE k \in DOMAIN m
  <2> DEFINE c == o[k].calls
             d == m[k].calls
             C == [id : Pool, touch : Touches]
  <2>1. m[k] \in Messages OBVIOUS
  <2>2. c \in Seq(Calls) /\ d \in Seq(C) /\ DOMAIN c = DOMAIN d BY <1>2, <2>1, SentTyped, CallIdsTyped
  <2> HIDE DEF c, d, C
  <2>3. (c = <<>> <=> DOMAIN c = {}) /\ (d = <<>> <=> DOMAIN d = {}) BY <2>2
  <2> QED BY <2>2, <2>3 DEF c, d
<1>9. \A k \in DOMAIN o : o[k].calls # <<>> => o[k].role = "assistant"
  <2> SUFFICES ASSUME NEW k \in DOMAIN o, o[k].calls # <<>> PROVE o[k].role = "assistant" OBVIOUS
  <2>1. k \in DOMAIN m BY <1>1, <1>3
  <2>2. m[k].calls # <<>> BY <1>7, <2>1
  <2> QED BY <1>2, <2>1, <2>2 DEF Rounds
<1>10. \A id \in AllCalls(o) : \E c \in AllCalls(m) : id = To(M, c)
  <2> SUFFICES ASSUME NEW id \in AllCalls(o) PROVE \E c \in AllCalls(m) : id = To(M, c) OBVIOUS
  <2>1. PICK k \in DOMAIN o : \E i \in DOMAIN o[k].calls : o[k].calls[i].id = id BY CalledIn
  <2>2. k \in DOMAIN m BY <1>1, <1>3
  <2> QED BY <1>2, <1>6, <2>1, <2>2
<1>11. \A id \in AllCalls(o) : Valid(id) BY <1>4, <1>10
<1>12. ASSUME NEW k \in DOMAIN m, LeftOver(m, k) PROVE LeftOver(o, k)
  <2>1. 1 \in DOMAIN m /\ \A i \in 2 .. k : i \in DOMAIN m BY <1>1
  <2>2. m[1].role = "assistant" /\ m[1].says /\ m[1].calls = <<>> /\ \A i \in 2 .. k : m[i].role = "tool"
    BY <1>12 DEF LeftOver
  <2>3. o[1].role = "assistant" /\ o[1].says /\ o[1].calls = <<>> BY <1>2, <1>7, <2>1, <2>2
  <2>4. \A i \in 2 .. k : o[i].role = "tool" BY <1>2, <2>1, <2>2
  <2> QED BY <2>3, <2>4 DEF LeftOver
<1>13. ASSUME NEW k \in DOMAIN m, AfterReply(m, k) PROVE AfterReply(o, k) /\ m[k].of \in AllCalls(m)
  <2>4. PICK j \in 1 .. k - 1 : /\ \E i \in DOMAIN m[j].calls : m[j].calls[i].id = m[k].of
                                /\ \A i \in j + 1 .. k : m[i].role = "tool"
    BY <1>13 DEF AfterReply
  <2>5. j \in DOMAIN m /\ \A i \in j + 1 .. k : i \in DOMAIN m BY <1>1
  <2>6. PICK i \in DOMAIN m[j].calls : m[j].calls[i].id = m[k].of BY <2>4
  <2>7. i \in DOMAIN o[j].calls /\ o[j].calls[i].id = o[k].of BY <1>2, <1>6, <2>5, <2>6
  <2>8. \A q \in j + 1 .. k : o[q].role = "tool" BY <1>2, <2>4, <2>5
  <2>9. m[k].of \in AllCalls(m) BY <2>5, <2>6, CalledIn
  <2> QED BY <2>4, <2>7, <2>8, <2>9 DEF AfterReply
<1>a. ASSUME NEW k \in DOMAIN o, o[k].role = "tool" PROVE Placed(o, k)
  <2>1. k \in DOMAIN m /\ m[k].role = "tool" BY <1>1, <1>2, <1>3, <1>a
  <2> QED BY <1>12, <1>13, <2>1 DEF Rounds, Placed
<1>14. ASSUME NEW k \in DOMAIN o, NEW l \in k .. Len(o), \A i \in k .. l : o[i].role = "tool", o[k].of = o[l].of,
              AfterReply(o, k)
       PROVE  k = l
  <2>1. k \in DOMAIN m /\ l \in DOMAIN m /\ k \in k .. Len(o) /\ k \in k .. l /\ l \in k .. l /\ l \in k .. Len(m)
    BY <1>1, <1>3, <1>5
  <2>2. \A i \in k .. l : i \in DOMAIN m BY <1>1, <2>1
  <2>3. \A i \in k .. l : m[i].role = "tool" BY <1>2, <1>14, <2>2
  <2>4. ~LeftOver(o, k) /\ ~LeftOver(o, l) BY <1>5, <1>9, <1>14, <2>1, NotLeftOver
  <2>5. AfterReply(m, k) /\ AfterReply(m, l) BY <1>12, <2>1, <2>3, <2>4 DEF Rounds, Placed
  <2>6. m[k].of \in AllCalls(m) /\ m[l].of \in AllCalls(m) BY <1>13, <2>1, <2>5
  <2>7. To(M, m[l].of) = To(M, m[k].of) BY <1>2, <1>14, <2>1
  <2>8. m[k].of = m[l].of BY <1>4, <2>6, <2>7
  <2> QED BY <2>1, <2>3, <2>8 DEF Rounds, ResultsDiffer
<1>15. SoundCalls(o) BY <1>8, <1>9, <1>11, <1>14, <1>a DEF SoundCalls
<1>16. Conversation(o) = Conversation(m)
  <2>1. ASSUME NEW k \in 1 .. n PROVE Said(o[k]) = Said(m[k])
    <3>1. k \in DOMAIN m BY <1>1
    <3>2. o[k].role = m[k].role /\ o[k].says = m[k].says /\ DOMAIN o[k].calls = DOMAIN m[k].calls
      BY <1>2, <3>1
    <3>3. \A i \in DOMAIN m[k].calls : o[k].calls[i].touch = m[k].calls[i].touch
      <4> TAKE i \in DOMAIN m[k].calls
      <4>1. o[k].calls[i] = [id |-> To(M, m[k].calls[i].id), touch |-> m[k].calls[i].touch] BY <1>2, <3>1
      <4> QED BY <4>1
    <3>4. [i \in DOMAIN o[k].calls |-> o[k].calls[i].touch] = [i \in DOMAIN m[k].calls |-> m[k].calls[i].touch]
      BY <3>2, <3>3
    <3>5. (o[k].calls # <<>>) <=> (m[k].calls # <<>>) BY <1>7, <3>1
    <3> QED BY <3>2, <3>4, <3>5 DEF Said
  <2>2. [k \in 1 .. n |-> Said(o[k])] = [k \in 1 .. n |-> Said(m[k])] BY <2>1
  <2> QED BY <1>5, <2>2 DEF Conversation, n
<1> QED BY <1>5, <1>15, <1>16 DEF o

\* What is sent of a transcript of rounds is paired and says all.
LEMMA HardenedIsSound ==
  ASSUME NEW m \in Seq(Messages), Rounds(m)
  PROVE  Paired(HardenHistory(m)) /\ IdsStayApart(m) /\ Conversation(HardenHistory(m)) = Conversation(m)
<1> DEFINE o == NormalizeIDs(m)
<1>1. o \in Seq(Sent) /\ SoundCalls(o) /\ Conversation(o) = Conversation(m) BY NormalizedIsSound
<1> HIDE DEF o
<1>2. Paired(Hardened(o)) /\ Conversation(Hardened(o)) = Conversation(o) BY <1>1, RepairedIsPaired, RepairedSaysAll
<1>3. IdsStayApart(m)
  <2>1. \A c, t \in AllCalls(m) : To(AllMapped(m).map, c) = To(AllMapped(m).map, t) => c = t BY ToTellsApart
  <2> QED BY <2>1 DEF IdsStayApart
<1> QED BY <1>1, <1>2, <1>3 DEF HardenHistory, o

\* What goes to the provider is complete as far as the ids tell, whatever was interrupted,
\* renamed or compacted away: every call whose id no later reply uses again has its result
\* at once, there are no other results, ids that differ stay apart and are ones the
\* provider accepts, and all that was asked, said and called is there (HardenHistory, from
\* any transcript the loop and the compactors can leave, with ids used again and again).
THEOREM RequestsStaySound == HistorySpec => []RequestsAreComplete
<1>1. HistoryInv => RequestsAreComplete
  <2> SUFFICES ASSUME HistoryInv PROVE RequestsAreComplete OBVIOUS
  <2>1. transcript \in Seq(Messages) /\ Rounds(transcript) BY DEF HistoryInv, HistoryTypeOK
  <2>2. /\ Paired(HardenHistory(transcript)) /\ IdsStayApart(transcript)
        /\ Conversation(HardenHistory(transcript)) = Conversation(transcript)
    BY <2>1, HardenedIsSound
  <2> QED BY <2>2 DEF RequestsAreComplete, RequestsArePaired, ContentSurvives
<1> QED BY <1>1, HistoryInductive, PTL

-----------------------------------------------------------------------------
(* Conversion. *)

\* The parts of some kinds.
OfThem(kinds) == {p \in AnyPart : p.kind \in kinds}
LEMMA OfKindsThrough ==
  ASSUME NEW s \in Seq(AnyPart), NEW kinds
  PROVE  OfKinds(kinds, s) = Through(s, Picks(AnyPart, OfThem(kinds)))
<1> DEFINE Q == OfThem(kinds)
<1>1. {k \in DOMAIN s : s[k] \in Q} = {k \in DOMAIN s : s[k].kind \in kinds}
  <2>1. \A k \in DOMAIN s : s[k] \in AnyPart OBVIOUS
  <2> QED BY <2>1 DEF OfThem
<1> HIDE DEF Q
<1>2. Select(s, {k \in DOMAIN s : s[k] \in Q}) = Through(s, Picks(AnyPart, Q)) BY SelectThrough
<1> QED BY <1>1, <1>2 DEF OfKinds, Q

LEMMA OfKindsTyped ==
  ASSUME NEW s \in Seq(AnyPart), NEW kinds
  PROVE  /\ OfKinds(kinds, s) \in Seq(AnyPart) /\ Len(OfKinds(kinds, s)) \in Nat
         /\ DOMAIN OfKinds(kinds, s) = 1 .. Len(OfKinds(kinds, s))
         /\ \A i \in DOMAIN OfKinds(kinds, s) : OfKinds(kinds, s)[i] \in AnyPart /\ OfKinds(kinds, s)[i].kind \in kinds
<1> DEFINE P == {k \in DOMAIN s : s[k].kind \in kinds}
           r == Select(s, P)
<1>1. r \in Seq(AnyPart) BY SelectPositions
<1>2. PICK g : Keeps(g, s, P)
  <2> HIDE DEF P
  <2> QED BY SelectPositions
<1>3. \A i \in DOMAIN g : g[i] \in P /\ r[i] = s[g[i]] BY <1>2 DEF Keeps
<1>4. DOMAIN g = 1 .. Len(r) BY <1>2 DEF Keeps
<1> HIDE DEF r
<1>5. \A i \in 1 .. Len(r) : r[i] \in AnyPart /\ r[i].kind \in kinds BY <1>1, <1>3, <1>4
<1>6. Len(r) \in Nat /\ DOMAIN r = 1 .. Len(r) BY <1>1
<1> QED BY <1>1, <1>5, <1>6 DEF r, OfKinds

LEMMA ThroughOne == ASSUME NEW S, NEW T, NEW F \in [S -> Seq(T)], NEW x \in S PROVE Through(<<x>>, F) = F[x]
<1>1. <<>> \in Seq(S) /\ Append(<<>>, x) = <<x>> OBVIOUS
<1>2. Through(Append(<<>>, x), F) = Through(<<>>, F) \o F[x]
  <2> DEFINE e == <<>>
  <2>1. e \in Seq(S) OBVIOUS
  <2> HIDE DEF e
  <2>2. /\ Through(Append(e, x), F) = Through(e, F) \o F[x]
        /\ Through(e, F) \in Seq(T) /\ Through(Append(e, x), F) \in Seq(T)
    BY <2>1, ThroughMore
  <2> QED BY <2>2 DEF e
<1>3. F[x] \in Seq(T) /\ Through(<<>>, F) = <<>> BY ThroughNone
<1>4. <<>> \o F[x] = F[x] BY <1>3, ConcatEmptySeq
<1> QED BY <1>1, <1>2, <1>3, <1>4

\* The parts of some kinds among those of more kinds.
LEMMA OfKindsTwice ==
  ASSUME NEW s \in Seq(AnyPart), NEW some, NEW more, some \subseteq more
  PROVE  OfKinds(some, OfKinds(more, s)) = OfKinds(some, s)
<1> DEFINE F == Picks(AnyPart, OfThem(more))
           G == Picks(AnyPart, OfThem(some))
<1>1. F \in [AnyPart -> Seq(AnyPart)] /\ G \in [AnyPart -> Seq(AnyPart)] BY DEF Picks
<1>2. ASSUME NEW x \in AnyPart PROVE G[x] = Through(F[x], G)
  <2>1. CASE x \in OfThem(more)
    <3>1. F[x] = <<x>> BY <2>1 DEF Picks
    <3> HIDE DEF F, G
    <3> QED BY <1>1, <3>1, ThroughOne
  <2>2. CASE x \notin OfThem(more)
    <3>1. F[x] = <<>> /\ G[x] = <<>> BY <2>2 DEF Picks, OfThem
    <3> HIDE DEF F, G
    <3> QED BY <3>1, ThroughNone
  <2> QED BY <2>1, <2>2
<1>3. Through(Through(s, F), G) = Through(s, G)
  <2> HIDE DEF F, G
  <2>1. Composes(G, F, G, AnyPart, AnyPart, AnyPart) BY <1>1, <1>2 DEF Composes
  <2> QED BY <2>1, ThroughTwice
<1>4. OfKinds(more, s) = Through(s, F) /\ OfKinds(some, s) = Through(s, G) BY OfKindsThrough
<1>5. OfKinds(more, s) \in Seq(AnyPart) BY OfKindsTyped
<1>6. OfKinds(some, OfKinds(more, s)) = Through(OfKinds(more, s), G) BY <1>5, OfKindsThrough
<1> QED BY <1>3, <1>4, <1>6

\* Where each element gives one, Through is a map.
Ones(S, G) == [x \in S |-> <<G[x]>>]
Each(s, G) == [i \in DOMAIN s |-> G[s[i]]]
TakesTo(S, T) == [S -> T]
LEMMA EachTyped ==
  ASSUME NEW S, NEW T, NEW G, G \in TakesTo(S, T), NEW s \in Seq(S)
  PROVE  Each(s, G) \in Seq(T) /\ Len(Each(s, G)) = Len(s)
<1> DEFINE r == Each(s, G)
<1>0. G \in [S -> T] BY DEF TakesTo
<1>1. Len(s) \in Nat /\ DOMAIN s = 1 .. Len(s) /\ \A i \in 1 .. Len(s) : s[i] \in S OBVIOUS
<1>2. r \in [1 .. Len(s) -> T] /\ \A i \in 1 .. Len(s) : r[i] = G[s[i]] BY <1>0, <1>1 DEF Each
<1> HIDE DEF r
<1>3. r \in Seq(T) /\ Len(r) = Len(s) BY <1>1, <1>2, IsASeq
<1> QED BY <1>3 DEF r

LEMMA EachMore ==
  ASSUME NEW S, NEW T, NEW G \in [S -> T], NEW c \in Seq(S), NEW x \in S
  PROVE  Each(Append(c, x), G) = Append(Each(c, G), G[x]) /\ Each(c, G) \in Seq(T)
<1> DEFINE a == Append(c, x)
           n == Len(c)
           u == Each(c, G)
           v == Each(a, G)
           y == G[x]
<1>1. a \in Seq(S) /\ n \in Nat /\ Len(a) = n + 1 /\ a[n + 1] = x /\ \A i \in 1 .. n : a[i] = c[i] OBVIOUS
<1>2. u \in Seq(T) /\ Len(u) = n /\ \A i \in 1 .. n : u[i] = G[c[i]]
  <2>1. u \in Seq(T) /\ Len(u) = Len(c)
    <3>1. G \in TakesTo(S, T) BY DEF TakesTo
    <3> QED BY <3>1, EachTyped
  <2>2. DOMAIN c = 1 .. n OBVIOUS
  <2>3. \A i \in 1 .. n : u[i] = G[c[i]] BY <2>2 DEF Each
  <2> QED BY <2>1, <2>3
<1>3. v \in Seq(T) /\ Len(v) = n + 1 /\ \A i \in 1 .. n + 1 : v[i] = G[a[i]]
  <2> HIDE DEF a
  <2>1. Each(a, G) \in Seq(T) /\ Len(Each(a, G)) = Len(a)
    <3>1. a \in Seq(S) /\ G \in TakesTo(S, T) BY <1>1 DEF TakesTo
    <3> QED BY <3>1, EachTyped
  <2>2. DOMAIN a = 1 .. n + 1 BY <1>1
  <2>3. \A i \in 1 .. n + 1 : v[i] = G[a[i]] BY <2>2 DEF Each
  <2> QED BY <1>1, <2>1, <2>3
<1>4. y \in T /\ v[n + 1] = y /\ \A i \in 1 .. n : v[i] = u[i] BY <1>1, <1>2, <1>3
<1> HIDE DEF a, n, u, v, y
<1>5. /\ Append(u, y) \in Seq(T) /\ Len(Append(u, y)) = n + 1
      /\ Append(u, y)[n + 1] = y /\ \A i \in 1 .. n : Append(u, y)[i] = u[i]
  BY <1>2, <1>4
<1>6. \A i \in 1 .. n + 1 : Append(u, y)[i] = v[i]
  <2>1. \A i \in 1 .. n + 1 : i = n + 1 \/ i \in 1 .. n BY <1>1
  <2> QED BY <1>4, <1>5, <2>1
<1>7. Append(u, y) = v BY <1>3, <1>5, <1>6, SeqEqual
<1> QED BY <1>2, <1>7 DEF a, u, v, y

LEMMA EachNone == ASSUME NEW G PROVE Each(<<>>, G) = <<>>
BY DEF Each

LEMMA ThroughOnes ==
  ASSUME NEW S, NEW T, NEW G \in [S -> T], NEW s \in Seq(S)
  PROVE  Through(s, Ones(S, G)) = Each(s, G)
<1> DEFINE F == Ones(S, G)
           Good == {c \in Seq(S) : Through(c, F) = Each(c, G)}
<1>0. F \in [S -> Seq(T)] BY DEF Ones
<1> HIDE DEF F
<1>1. <<>> \in Good BY ThroughNone, EachNone
<1>2. ASSUME NEW c \in Seq(S), NEW x \in S, c \in Good PROVE Append(c, x) \in Good
  <2>1. Append(c, x) \in Seq(S) OBVIOUS
  <2>2. /\ Through(Append(c, x), F) = Through(c, F) \o F[x]
        /\ Through(c, F) \in Seq(T) /\ Through(Append(c, x), F) \in Seq(T)
    BY <1>0, ThroughMore
  <2>3. Through(c, F) = Each(c, G) BY <1>2
  <2>4. F[x] = <<G[x]>> /\ G[x] \in T BY DEF F, Ones
  <2>5. Each(Append(c, x), G) = Append(Each(c, G), G[x]) /\ Each(c, G) \in Seq(T) BY EachMore
  <2> DEFINE u == Each(c, G)
             y == G[x]
  <2>6. u \in Seq(T) /\ y \in T BY <2>4, <2>5
  <2>7. Each(Append(c, x), G) = Append(u, y) /\ Through(Append(c, x), F) = u \o <<y>> BY <2>2, <2>3, <2>4, <2>5
  <2> HIDE DEF u, y
  <2>8. u \o <<y>> = Append(u, y) BY <2>6
  <2> QED BY <2>1, <2>7, <2>8
<1>3. \A c \in Seq(S) : c \in Good
  <2> HIDE DEF Good
  <2> QED BY <1>1, <1>2, SeqInduction
<1> QED BY <1>3 DEF F

\* A selection of what a function makes of each element.
LEMMA SelectEach ==
  ASSUME NEW S, NEW T, NEW G \in [S -> T], NEW s \in Seq(S), NEW P
  PROVE  Select(Each(s, G), P) = Each(Select(s, P), G)
<1> DEFINE Good == {c \in Seq(S) : Select(Each(c, G), P) = Each(Select(c, P), G)}
<1>1. <<>> \in Good BY EachNone, SelectNone
<1>2. ASSUME NEW c \in Seq(S), NEW x \in S, c \in Good PROVE Append(c, x) \in Good
  <2> DEFINE u == Each(c, G)
             r == Select(c, P)
             y == G[x]
  <2>1. Append(c, x) \in Seq(S) OBVIOUS
  <2>2. Each(Append(c, x), G) = Append(u, y) /\ u \in Seq(T) /\ Len(u) = Len(c) /\ y \in T
    <3>1. Each(Append(c, x), G) = Append(Each(c, G), G[x]) /\ Each(c, G) \in Seq(T) BY EachMore
    <3>2. G \in TakesTo(S, T) BY DEF TakesTo
    <3>3. Len(Each(c, G)) = Len(c) BY <3>2, EachTyped
    <3>4. G[x] \in T OBVIOUS
    <3> QED BY <3>1, <3>3, <3>4
  <2>3. r \in Seq(S) BY SelectPositions
  <2>4. Select(u, P) = Each(r, G) BY <1>2
  <2>5. Select(Append(c, x), P) = IF Len(c) + 1 \in P THEN Append(r, x) ELSE r BY SelectMore
  <2> HIDE DEF u, r, y
  <2>6. Select(Append(u, y), P) = IF Len(u) + 1 \in P THEN Append(Select(u, P), y) ELSE Select(u, P)
    BY <2>2, SelectMore
  <2>7. Each(Append(r, x), G) = Append(Each(r, G), y)
    <3>1. Each(Append(r, x), G) = Append(Each(r, G), G[x]) /\ Each(r, G) \in Seq(T) BY <2>3, EachMore
    <3> QED BY <3>1 DEF y
  <2> QED BY <2>1, <2>2, <2>4, <2>5, <2>6, <2>7
<1>3. \A c \in Seq(S) : c \in Good
  <2> HIDE DEF Good
  <2> QED BY <1>1, <1>2, SeqInduction
<1> QED BY <1>3

\* Ids are those of the parts of their kind.
CallNumber == [p \in AnyPart |-> p.call]
LEMMA IdsEach ==
  ASSUME NEW s \in Seq(AnyPart), NEW kind
  PROVE  /\ IdsOf(kind, s) = Each(OfKinds({kind}, s), CallNumber)
         /\ IdsOf(kind, s) = Select(Each(s, CallNumber), {k \in DOMAIN s : s[k].kind = kind})
<1> DEFINE ps == OfKinds({kind}, s)
<1>1. ps \in Seq(AnyPart) /\ DOMAIN ps = 1 .. Len(ps) /\ \A k \in DOMAIN ps : ps[k] \in AnyPart BY OfKindsTyped
<1>2. CallNumber \in [AnyPart -> Nat] BY DEF CallNumber, AnyPart
<1>3. IdsOf(kind, s) = Each(ps, CallNumber)
  <2>1. \A k \in DOMAIN ps : CallNumber[ps[k]] = ps[k].call BY <1>1 DEF CallNumber
  <2>2. IdsOf(kind, s) = [k \in DOMAIN ps |-> ps[k].call] BY DEF IdsOf
  <2> HIDE DEF ps
  <2> QED BY <2>1, <2>2 DEF Each
<1>4. {k \in DOMAIN s : s[k].kind \in {kind}} = {k \in DOMAIN s : s[k].kind = kind} OBVIOUS
<1> DEFINE P == {k \in DOMAIN s : s[k].kind = kind}
<1>5. ps = Select(s, P) BY <1>4 DEF OfKinds
<1>6. Each(Select(s, P), CallNumber) = Select(Each(s, CallNumber), P)
  <2> HIDE DEF P
  <2> QED BY <1>2, SelectEach
<1> QED BY <1>3, <1>5, <1>6

\* Parts that differ in their signatures only have the same ids.
LEMMA SameIds ==
  ASSUME NEW s \in Seq(AnyPart), NEW t \in Seq(AnyPart), Len(s) = Len(t),
         \A k \in 1 .. Len(s) : s[k].kind = t[k].kind /\ s[k].call = t[k].call, NEW kind
  PROVE  IdsOf(kind, s) = IdsOf(kind, t)
<1>1. {k \in DOMAIN s : s[k].kind = kind} = {k \in DOMAIN t : t[k].kind = kind} OBVIOUS
<1>2. \A k \in 1 .. Len(s) : CallNumber[s[k]] = CallNumber[t[k]]
  <2>1. \A k \in 1 .. Len(s) : s[k] \in AnyPart /\ t[k] \in AnyPart OBVIOUS
  <2> QED BY <2>1 DEF CallNumber
<1>3. Each(s, CallNumber) = Each(t, CallNumber)
  <2>1. DOMAIN s = 1 .. Len(s) /\ DOMAIN t = 1 .. Len(s) OBVIOUS
  <2> QED BY <1>2, <2>1 DEF Each
<1> QED BY <1>1, <1>3, IdsEach

\* Where all parts are of the kinds, all are taken; where none is, none.
LEMMA OfKindsAll ==
  ASSUME NEW s \in Seq(AnyPart), NEW kinds, \A k \in 1 .. Len(s) : s[k].kind \in kinds
  PROVE  OfKinds(kinds, s) = s
<1> DEFINE R == OfThem(kinds)
           G == [p \in R |-> p]
           F == Picks(AnyPart, R)
<1>1. s \in Seq(R) /\ DOMAIN s = 1 .. Len(s)
  <2>1. \A k \in 1 .. Len(s) : s[k] \in R BY DEF OfThem
  <2>2. Len(s) \in Nat /\ s = [k \in 1 .. Len(s) |-> s[k]] OBVIOUS
  <2>3. s \in [1 .. Len(s) -> R] BY <2>1, <2>2
  <2> HIDE DEF R
  <2> QED BY <2>2, <2>3, IsASeq
<1>2. OfKinds(kinds, s) = Through(s, F) BY OfKindsThrough
<1>3. \A k \in 1 .. Len(s) : F[s[k]] = Ones(R, G)[s[k]]
  <2>1. \A k \in 1 .. Len(s) : s[k] \in AnyPart /\ s[k] \in R BY <1>1
  <2>2. \A p \in R : p \in AnyPart => F[p] = <<p>> BY DEF Picks
  <2>3. \A p \in R : Ones(R, G)[p] = <<p>> BY DEF Ones
  <2> HIDE DEF F, R, G
  <2> QED BY <2>1, <2>2, <2>3
<1>4. Through(s, F) = Through(s, Ones(R, G))
  <2> HIDE DEF F, R, G
  <2>1. [k \in 1 .. Len(s) |-> F[s[k]]] = [k \in 1 .. Len(s) |-> Ones(R, G)[s[k]]] BY <1>3
  <2> QED BY <2>1 DEF Through
<1>5. Through(s, Ones(R, G)) = Each(s, G)
  <2>1. G \in [R -> R] OBVIOUS
  <2> HIDE DEF G, R
  <2> QED BY <1>1, <2>1, ThroughOnes
<1>6. Each(s, G) = s
  <2>1. \A k \in DOMAIN s : G[s[k]] = s[k] BY <1>1
  <2> HIDE DEF G
  <2> QED BY <2>1 DEF Each
<1> QED BY <1>2, <1>4, <1>5, <1>6

LEMMA OfKindsNone ==
  ASSUME NEW s \in Seq(AnyPart), NEW kinds, \A k \in 1 .. Len(s) : s[k].kind \notin kinds
  PROVE  OfKinds(kinds, s) = <<>>
<1> DEFINE P == {k \in DOMAIN s : s[k].kind \in kinds}
<1>1. \A k \in 1 .. Len(s) : k \notin P OBVIOUS
<1> HIDE DEF P
<1>2. Select(s, P) = <<>> BY <1>1, SelectNothing
<1> QED BY <1>2 DEF OfKinds, P

\* The first of what is selected is the first there is.
LEMMA FirstOfKinds ==
  ASSUME NEW s \in Seq(AnyPart), NEW kinds, OfKinds(kinds, s) # <<>>
  PROVE  \E j \in 1 .. Len(s) : /\ s[j].kind \in kinds /\ OfKinds(kinds, s)[1] = s[j]
                                /\ \A i \in 1 .. j - 1 : s[i].kind \notin kinds
<1> DEFINE P == {k \in DOMAIN s : s[k].kind \in kinds}
           r == Select(s, P)
<1>1. r \in Seq(AnyPart) /\ r # <<>> BY SelectPositions DEF OfKinds
<1>2. PICK g : Keeps(g, s, P)
  <2> HIDE DEF P
  <2> QED BY SelectPositions
<1>3. /\ DOMAIN g = 1 .. Len(r)
      /\ \A i \in DOMAIN g : g[i] \in 1 .. Len(s) /\ g[i] \in P /\ r[i] = s[g[i]]
      /\ \A i, j \in DOMAIN g : i < j => g[i] < g[j]
      /\ \A k \in 1 .. Len(s) : k \in P => \E i \in DOMAIN g : g[i] = k
  BY <1>2 DEF Keeps
<1> HIDE DEF r
<1>4. Len(r) \in Nat /\ 1 \in 1 .. Len(r) BY <1>1, EmptySeq
<1> DEFINE j == g[1]
<1>5. j \in 1 .. Len(s) /\ j \in P /\ r[1] = s[j] BY <1>3, <1>4
<1>6. ASSUME NEW i \in 1 .. j - 1, i \in P PROVE FALSE
  <2>1. i \in 1 .. Len(s) /\ i < j BY <1>5
  <2>2. PICK h \in 1 .. Len(r) : g[h] = i BY <1>3, <1>6, <2>1
  <2>3. h = 1 \/ 1 < h BY <1>4
  <2>4. 1 < h => j < i BY <1>3, <1>4, <2>2
  <2> QED BY <1>5, <2>1, <2>2, <2>3, <2>4
<1>7. \A i \in 1 .. j - 1 : s[i].kind \notin kinds
  <2>1. \A i \in 1 .. j - 1 : i \in 1 .. Len(s) BY <1>5
  <2> QED BY <1>6, <2>1
<1> QED BY <1>5, <1>7 DEF r, OfKinds

LEMMA UtteranceTyped ==
  ASSUME NEW x \in Utterances
  PROVE  /\ x.role \in {"user", "assistant", "tool"} /\ x.parts \in Seq(AnyPart) /\ x.call \in Nat
         /\ TextParts(x) \in Seq(AnyPart) /\ CallParts(x) \in Seq(AnyPart)
<1>1. x.role \in {"user", "assistant", "tool"} /\ x.parts \in Seq(AnyPart) /\ x.call \in Nat BY DEF Utterances
<1> QED BY <1>1, OfKindsTyped DEF TextParts, CallParts

Dialogues == {"text", "call", "result"} \X Nat
LEMMA TalkedTyped ==
  ASSUME NEW s \in Seq(AnyPart), NEW what \in {"text", "call"}
  PROVE  Talked(what, s) \in Seq(Dialogues) /\ (s = <<>> => Talked(what, s) = <<>>)
<1>1. DOMAIN s = 1 .. Len(s) /\ Len(s) \in Nat /\ \A k \in DOMAIN s : s[k] \in AnyPart OBVIOUS
<1>2. \A k \in DOMAIN s : <<what, s[k].call>> \in Dialogues BY <1>1 DEF AnyPart, Dialogues
<1>3. Talked(what, s) \in [1 .. Len(s) -> Dialogues] BY <1>1, <1>2 DEF Talked
<1>4. Talked(what, s) \in Seq(Dialogues) BY <1>1, <1>3, IsASeq
<1>5. s = <<>> => Talked(what, s) = <<>> BY DEF Talked
<1> QED BY <1>4, <1>5

LEMMA DialogueTyped == ASSUME NEW x \in Utterances PROVE DialogueOf(x) \in Seq(Dialogues)
<1>1. TextParts(x) \in Seq(AnyPart) /\ CallParts(x) \in Seq(AnyPart) /\ x.call \in Nat BY UtteranceTyped
<1>2. Talked("text", TextParts(x)) \in Seq(Dialogues) /\ Talked("call", CallParts(x)) \in Seq(Dialogues)
  BY <1>1, TalkedTyped
<1>3. Talked("text", TextParts(x)) \o Talked("call", CallParts(x)) \in Seq(Dialogues)
  BY <1>2, ConcatProperties
<1>4. <<<<"result", x.call>>>> \in Seq(Dialogues)
  <2>1. <<"result", x.call>> \in Dialogues BY <1>1 DEF Dialogues
  <2> QED BY <2>1
<1> QED BY <1>3, <1>4 DEF DialogueOf, Result

\* Chat completions.
ChatWire == [role : {"user", "assistant", "tool"}, text : Seq(AnyPart), calls : Seq(AnyPart), call : Nat]
ChatTells == [c \in ChatWire |-> ChatDialogue(c)]
LEMMA ChatTyped == ChatTells \in [ChatWire -> Seq(Dialogues)]
<1>1. ASSUME NEW c \in ChatWire PROVE ChatDialogue(c) \in Seq(Dialogues)
  <2>1. c.text \in Seq(AnyPart) /\ c.calls \in Seq(AnyPart) /\ c.call \in Nat BY DEF ChatWire
  <2>2. Talked("text", c.text) \in Seq(Dialogues) /\ Talked("call", c.calls) \in Seq(Dialogues)
    BY <2>1, TalkedTyped
  <2>3. Talked("text", c.text) \o Talked("call", c.calls) \in Seq(Dialogues) BY <2>2, ConcatProperties
  <2>4. <<"result", c.call>> \in Dialogues BY <2>1 DEF Dialogues
  <2>5. <<<<"result", c.call>>>> \in Seq(Dialogues) BY <2>4
  <2> QED BY <2>3, <2>5 DEF ChatDialogue, Result
<1> QED BY <1>1 DEF ChatTells

LEMMA ChatTellsMessage ==
  ASSUME NEW x \in Utterances
  PROVE  ChatMessage(x) \in Seq(ChatWire) /\ DialogueOf(x) = Through(ChatMessage(x), ChatTells)
<1> DEFINE E == ChatTells
<1>1. /\ TextParts(x) \in Seq(AnyPart) /\ CallParts(x) \in Seq(AnyPart) /\ x.call \in Nat
      /\ x.role \in {"user", "assistant", "tool"}
  BY UtteranceTyped
<1>2. E \in [ChatWire -> Seq(Dialogues)] BY ChatTyped
<1>a. \A c \in ChatWire : E[c] = ChatDialogue(c) BY DEF ChatTells
<1> HIDE DEF E
<1> DEFINE c == IF x.role = "tool" THEN [role |-> "tool", text |-> TextParts(x), calls |-> <<>>, call |-> x.call]
                ELSE [role |-> x.role, text |-> TextParts(x), calls |-> CallParts(x), call |-> 0]
<1>3. c \in ChatWire /\ ChatDialogue(c) = DialogueOf(x)
  <2>1. <<>> \in Seq(AnyPart) /\ 0 \in Nat OBVIOUS
  <2>2. CASE x.role = "tool" BY <1>1, <2>1, <2>2 DEF ChatWire, ChatDialogue, DialogueOf, Result
  <2>3. CASE x.role # "tool" BY <1>1, <2>1, <2>3 DEF ChatWire, ChatDialogue, DialogueOf
  <2> QED BY <2>2, <2>3
<1>4. CASE x.role = "assistant" /\ TextParts(x) = <<>> /\ CallParts(x) = <<>>
  <2>1. ChatMessage(x) = <<>> BY <1>4 DEF ChatMessage
  <2>2. Talked("text", TextParts(x)) = <<>> /\ Talked("call", CallParts(x)) = <<>> BY <1>1, <1>4, TalkedTyped
  <2>3. DialogueOf(x) = <<>> \o <<>> BY <1>4, <2>2 DEF DialogueOf
  <2>4. Through(<<>>, E) = <<>> BY ThroughNone
  <2> QED BY <1>2, <2>1, <2>3, <2>4 DEF E
<1>5. CASE ~(x.role = "assistant" /\ TextParts(x) = <<>> /\ CallParts(x) = <<>>)
  <2>1. ChatMessage(x) = <<c>>
    <3>1. CASE x.role = "tool" BY <3>1 DEF ChatMessage
    <3>2. CASE x.role # "tool" BY <3>2, <1>5 DEF ChatMessage
    <3> QED BY <3>1, <3>2
  <2> HIDE DEF c
  <2>2. Through(<<c>>, E) = E[c] BY <1>2, <1>3, ThroughOne
  <2>3. E[c] = ChatDialogue(c)
    BY <1>a, <1>3 DEF c
  <2> QED BY <1>2, <1>3, <2>1, <2>2, <2>3 DEF E
<1> QED BY <1>4, <1>5 DEF E

LEMMA ChatTellsAll ==
  ASSUME NEW m \in Seq(Utterances) PROVE DialogueOfChat(ChatMessages(m)) = Dialogue(m)
<1> DEFINE F == [x \in Utterances |-> ChatMessage(x)]
           E == ChatTells
           H == [x \in Utterances |-> DialogueOf(x)]
<1>1. \A x \in Utterances : /\ ChatMessage(x) \in Seq(ChatWire)
                            /\ DialogueOf(x) = Through(ChatMessage(x), E)
  BY ChatTellsMessage
<1>2. \A x \in Utterances : DialogueOf(x) \in Seq(Dialogues) BY DialogueTyped
<1>3. \A x \in Utterances : F[x] = ChatMessage(x) /\ H[x] = DialogueOf(x) OBVIOUS
<1>4. F \in [Utterances -> Seq(ChatWire)] /\ H \in [Utterances -> Seq(Dialogues)] BY <1>1, <1>2
<1>5. E \in [ChatWire -> Seq(Dialogues)] BY ChatTyped
<1>6. \A k \in 1 .. Len(m) : m[k] \in Utterances OBVIOUS
<1>7. ChatMessages(m) = Through(m, F) /\ Dialogue(m) = Through(m, H)
  <2>1. [k \in 1 .. Len(m) |-> ChatMessage(m[k])] = [k \in 1 .. Len(m) |-> F[m[k]]] BY <1>3, <1>6
  <2>2. [k \in 1 .. Len(m) |-> DialogueOf(m[k])] = [k \in 1 .. Len(m) |-> H[m[k]]] BY <1>3, <1>6
  <2> QED BY <2>1, <2>2 DEF ChatMessages, Dialogue, Through
<1> DEFINE w == Through(m, F)
<1>8. w \in Seq(ChatWire)
  <2> HIDE DEF F
  <2> QED BY <1>4, ThroughTyped
<1>9. DialogueOfChat(w) = Through(w, E)
  <2> HIDE DEF w
  <2>1. \A k \in 1 .. Len(w) : w[k] \in ChatWire BY <1>8
  <2>2. [k \in 1 .. Len(w) |-> ChatDialogue(w[k])] = [k \in 1 .. Len(w) |-> E[w[k]]] BY <2>1 DEF ChatTells
  <2> QED BY <2>2 DEF DialogueOfChat, Through
<1>10. Through(w, E) = Through(m, H)
  <2>1. \A x \in Utterances : H[x] = Through(F[x], E) BY <1>1, <1>3
  <2> HIDE DEF F, E, H
  <2>2. Composes(H, F, E, Utterances, ChatWire, Dialogues) BY <1>4, <1>5, <2>1 DEF Composes
  <2> QED BY <2>2, ThroughTwice
<1> QED BY <1>7, <1>9, <1>10

\* Responses.
ItemWire == [type : {"output", "function_call", "message"}, text : Seq(AnyPart), call : Nat]
ItemsTell == [i \in ItemWire |-> ItemDialogue(i)]
LEMMA ItemsTyped == ItemsTell \in [ItemWire -> Seq(Dialogues)]
<1>1. ASSUME NEW i \in ItemWire PROVE ItemDialogue(i) \in Seq(Dialogues)
  <2>1. i.type \in {"output", "function_call", "message"} /\ i.text \in Seq(AnyPart) /\ i.call \in Nat BY DEF ItemWire
  <2>2. <<"result", i.call>> \in Dialogues /\ <<"call", i.call>> \in Dialogues BY <2>1 DEF Dialogues
  <2>3. <<<<"result", i.call>>>> \in Seq(Dialogues) /\ <<<<"call", i.call>>>> \in Seq(Dialogues) BY <2>2
  <2>4. Talked("text", i.text) \in Seq(Dialogues) BY <2>1, TalkedTyped
  <2>5. CASE i.type = "output" BY <2>3, <2>5 DEF ItemDialogue, Result
  <2>6. CASE i.type = "function_call" BY <2>3, <2>6 DEF ItemDialogue
  <2>7. CASE i.type = "message" BY <2>4, <2>7 DEF ItemDialogue
  <2> QED BY <2>1, <2>5, <2>6, <2>7
<1> QED BY <1>1 DEF ItemsTell

FunctionCalls == {i \in ItemWire : i.type = "function_call" /\ i.text = <<>>}
FunctionsOf(s) == [j \in DOMAIN s |-> Item("function_call", <<>>, s[j].call)]
LEMMA FunctionsTell ==
  ASSUME NEW s \in Seq(AnyPart)
  PROVE  FunctionsOf(s) \in Seq(ItemWire) /\ Through(FunctionsOf(s), ItemsTell) = Talked("call", s)
<1> DEFINE E == ItemsTell
           f == FunctionsOf(s)
           G == [i \in FunctionCalls |-> <<"call", i.call>>]
           F == Ones(FunctionCalls, G)
<1>1. DOMAIN s = 1 .. Len(s) /\ Len(s) \in Nat /\ \A j \in DOMAIN s : s[j] \in AnyPart OBVIOUS
<1>2. \A j \in DOMAIN s : f[j] \in FunctionCalls /\ f[j].call = s[j].call
  <2>1. \A j \in DOMAIN s : s[j].call \in Nat BY <1>1 DEF AnyPart
  <2>2. <<>> \in Seq(AnyPart) OBVIOUS
  <2> QED BY <1>1, <2>1, <2>2 DEF FunctionCalls, ItemWire, Item, FunctionsOf
<1>3. f \in Seq(FunctionCalls) /\ Len(f) = Len(s) /\ DOMAIN f = 1 .. Len(f)
  <2>1. f \in [1 .. Len(s) -> FunctionCalls] BY <1>1, <1>2 DEF FunctionsOf
  <2>2. f = [j \in 1 .. Len(s) |-> f[j]] BY <1>1 DEF FunctionsOf
  <2> HIDE DEF f
  <2> QED BY <1>1, <2>1, <2>2, IsASeq
<1> HIDE DEF f
<1>4. f \in Seq(ItemWire)
  <2>1. FunctionCalls \subseteq ItemWire BY DEF FunctionCalls
  <2>2. f \in [1 .. Len(s) -> ItemWire] BY <1>1, <1>2, <2>1 DEF f, FunctionsOf
  <2> QED BY <1>1, <2>2, IsASeq
<1>5. G \in [FunctionCalls -> Dialogues]
  <2>1. \A i \in FunctionCalls : <<"call", i.call>> \in Dialogues BY DEF FunctionCalls, ItemWire, Dialogues
  <2> QED BY <2>1
<1>6. Through(f, F) = Each(f, G)
  <2> HIDE DEF G
  <2>1. f \in Seq(FunctionCalls) BY <1>3
  <2> HIDE DEF E
  <2> QED BY <1>5, <2>1, ThroughOnes
<1>7. \A j \in DOMAIN f : E[f[j]] = F[f[j]]
  <2>1. \A i \in FunctionCalls : E[i] = <<<<"call", i.call>>>> /\ F[i] = <<<<"call", i.call>>>>
    BY DEF FunctionCalls, ItemDialogue, ItemsTell, Ones
  <2> HIDE DEF F, E
  <2>2. ASSUME NEW j \in DOMAIN f PROVE E[f[j]] = F[f[j]]
    <3>1. f[j] \in FunctionCalls BY <1>1, <1>2, <1>3
    <3> DEFINE i == f[j]
    <3>2. i \in FunctionCalls BY <3>1
    <3> HIDE DEF i
    <3>3. E[i] = F[i] BY <2>1, <3>2, Zenon
    <3> QED BY <3>3 DEF i
  <2> QED BY <2>2
<1>8. Through(f, E) = Through(f, F)
  <2> HIDE DEF F
  <2>1. [j \in 1 .. Len(f) |-> E[f[j]]] = [j \in 1 .. Len(f) |-> F[f[j]]] BY <1>3, <1>7
  <2> QED BY <2>1 DEF Through
<1>9. Each(f, G) = Talked("call", s)
  <2>1. \A j \in DOMAIN f : G[f[j]] = <<"call", s[j].call>> BY <1>1, <1>2, <1>3
  <2> HIDE DEF G
  <2> QED BY <1>1, <1>3, <2>1 DEF Talked, Each
<1> QED BY <1>4, <1>6, <1>8, <1>9 DEF f

LEMMA ItemsTellMessage ==
  ASSUME NEW x \in Utterances
  PROVE  ItemsOf(x) \in Seq(ItemWire) /\ DialogueOf(x) = Through(ItemsOf(x), ItemsTell)
<1> DEFINE E == ItemsTell
<1>1. /\ TextParts(x) \in Seq(AnyPart) /\ CallParts(x) \in Seq(AnyPart) /\ x.call \in Nat
      /\ x.role \in {"user", "assistant", "tool"}
  BY UtteranceTyped
<1>2. E \in [ItemWire -> Seq(Dialogues)] BY ItemsTyped
<1>a. \A i \in ItemWire : E[i] = ItemDialogue(i) BY DEF ItemsTell
<1> HIDE DEF E
<1>3. CASE x.role = "tool"
  <2> DEFINE i == Item("output", TextParts(x), x.call)
  <2>1. i \in ItemWire /\ ItemDialogue(i) = DialogueOf(x)
    BY <1>1, <1>3 DEF ItemWire, Item, ItemDialogue, Result, DialogueOf
  <2>2. ItemsOf(x) = <<i>> BY <1>3 DEF ItemsOf
  <2> HIDE DEF i
  <2>3. Through(<<i>>, E) = E[i] BY <1>2, <2>1, ThroughOne
  <2>4. E[i] = ItemDialogue(i) BY <1>a, <2>1
  <2> QED BY <2>1, <2>2, <2>3, <2>4 DEF E
<1>4. CASE x.role # "tool"
  <2> DEFINE t == TextParts(x)
             s == CallParts(x)
             i == Item("message", t, 0)
             a == IF t = <<>> THEN <<>> ELSE <<i>>
             f == FunctionsOf(s)
  <2>1. ItemsOf(x) = a \o f BY <1>4 DEF ItemsOf, FunctionsOf
  <2>2. DialogueOf(x) = Talked("text", t) \o Talked("call", s) BY <1>4 DEF DialogueOf
  <2>3. t \in Seq(AnyPart) /\ s \in Seq(AnyPart) BY <1>1
  <2> HIDE DEF t, s
  <2>4. i \in ItemWire /\ ItemDialogue(i) = Talked("text", t)
    BY <2>3 DEF ItemWire, Item, ItemDialogue
  <2> HIDE DEF i
  <2>5. f \in Seq(ItemWire) /\ Through(f, E) = Talked("call", s) BY <2>3, FunctionsTell DEF E
  <2>6. a \in Seq(ItemWire) BY <2>4
  <2>7. Through(a, E) = Talked("text", t)
    <3>1. CASE t = <<>>
      <4>1. a = <<>> /\ Talked("text", t) = <<>> BY <2>3, <3>1, TalkedTyped
      <4> HIDE DEF a
      <4> QED BY <4>1, ThroughNone
    <3>2. CASE t # <<>>
      <4>1. a = <<i>> BY <3>2
      <4> HIDE DEF a
      <4>2. Through(<<i>>, E) = E[i] BY <1>2, <2>4, ThroughOne
      <4>3. E[i] = ItemDialogue(i) BY <1>a, <2>4
      <4> QED BY <2>4, <4>1, <4>2, <4>3
    <3> QED BY <3>1, <3>2
  <2> HIDE DEF a, f
  <2>8. /\ Through(a \o f, E) = Through(a, E) \o Through(f, E)
        /\ Through(a, E) \in Seq(Dialogues) /\ Through(f, E) \in Seq(Dialogues) /\ Through(a \o f, E) \in Seq(Dialogues)
    <3>1. f \in Seq(ItemWire) BY <2>5
    <3> QED BY <1>2, <2>6, <3>1, ThroughBoth
  <2>9. a \o f \in Seq(ItemWire) BY <2>5, <2>6, ConcatProperties
  <2> QED BY <2>1, <2>2, <2>5, <2>7, <2>8, <2>9 DEF E
<1> QED BY <1>3, <1>4 DEF E

LEMMA ItemsTellAll ==
  ASSUME NEW m \in Seq(Utterances) PROVE DialogueOfItems(ResponsesItems(m)) = Dialogue(m)
<1> DEFINE F == [x \in Utterances |-> ItemsOf(x)]
           E == ItemsTell
           H == [x \in Utterances |-> DialogueOf(x)]
<1>1. \A x \in Utterances : ItemsOf(x) \in Seq(ItemWire) /\ DialogueOf(x) = Through(ItemsOf(x), E)
  BY ItemsTellMessage
<1>2. \A x \in Utterances : DialogueOf(x) \in Seq(Dialogues) BY DialogueTyped
<1>3. \A x \in Utterances : F[x] = ItemsOf(x) /\ H[x] = DialogueOf(x) OBVIOUS
<1>4. F \in [Utterances -> Seq(ItemWire)] /\ H \in [Utterances -> Seq(Dialogues)] BY <1>1, <1>2
<1>5. E \in [ItemWire -> Seq(Dialogues)] BY ItemsTyped
<1>6. \A k \in 1 .. Len(m) : m[k] \in Utterances OBVIOUS
<1>7. ResponsesItems(m) = Through(m, F) /\ Dialogue(m) = Through(m, H)
  <2>1. [k \in 1 .. Len(m) |-> ItemsOf(m[k])] = [k \in 1 .. Len(m) |-> F[m[k]]] BY <1>3, <1>6
  <2>2. [k \in 1 .. Len(m) |-> DialogueOf(m[k])] = [k \in 1 .. Len(m) |-> H[m[k]]] BY <1>3, <1>6
  <2> QED BY <2>1, <2>2 DEF ResponsesItems, Dialogue, Through
<1> DEFINE w == Through(m, F)
<1>8. w \in Seq(ItemWire)
  <2> HIDE DEF F
  <2> QED BY <1>4, ThroughTyped
<1>9. DialogueOfItems(w) = Through(w, E)
  <2> HIDE DEF w
  <2>1. \A k \in 1 .. Len(w) : w[k] \in ItemWire BY <1>8
  <2>2. [k \in 1 .. Len(w) |-> ItemDialogue(w[k])] = [k \in 1 .. Len(w) |-> E[w[k]]] BY <2>1 DEF ItemsTell
  <2> QED BY <2>2 DEF DialogueOfItems, Through
<1>10. Through(w, E) = Through(m, H)
  <2>1. \A x \in Utterances : H[x] = Through(F[x], E) BY <1>1, <1>3
  <2> HIDE DEF F, E, H
  <2>2. Composes(H, F, E, Utterances, ItemWire, Dialogues) BY <1>4, <1>5, <2>1 DEF Composes
  <2> QED BY <2>2, ThroughTwice
<1> QED BY <1>7, <1>9, <1>10

\* Gemini: the results in a row.
LEMMA RunIs ==
  ASSUME NEW m \in Seq(Utterances), NEW k \in 1 .. Len(m), NEW e \in k .. Len(m),
         \A j \in k + 1 .. e : m[j].role = "tool", e < Len(m) => m[e + 1].role # "tool"
  PROVE  RunEnd(m, k) = e
<1> DEFINE RunsTo(d) == (\A j \in k + 1 .. d : m[j].role = "tool") /\ (d < Len(m) => m[d + 1].role # "tool")
<1>1. ASSUME NEW d \in k .. Len(m), RunsTo(d) PROVE d = e
  <2>1. d < e => d + 1 \in k + 1 .. e /\ d < Len(m) OBVIOUS
  <2>2. e < d => e + 1 \in k + 1 .. d /\ e < Len(m) OBVIOUS
  <2>3. ~(d < e) BY <1>1, <2>1
  <2>4. ~(e < d) BY <1>1, <2>2
  <2> QED BY <2>3, <2>4
<1>2. RunsTo(e) OBVIOUS
<1>3. RunEnd(m, k) = CHOOSE d \in k .. Len(m) : RunsTo(d) BY DEF RunEnd
<1> HIDE DEF RunsTo
<1> QED BY <1>1, <1>2, <1>3

LEMMA RunEndThere ==
  ASSUME NEW m \in Seq(Utterances), NEW k \in 1 .. Len(m)
  PROVE  /\ RunEnd(m, k) \in k .. Len(m)
         /\ \A j \in k + 1 .. RunEnd(m, k) : m[j].role = "tool"
<1> DEFINE T == {e \in k .. Len(m) : e = Len(m) \/ m[e + 1].role # "tool"}
<1>1. Len(m) \in Nat /\ k \in Nat /\ Len(m) \in T OBVIOUS
<1>2. PICK e \in T : \A d \in T : e <= d
  <2>1. T \in SUBSET Nat /\ T # {} BY <1>1
  <2> HIDE DEF T
  <2> QED BY <2>1, LeastIsThere
<1>3. ASSUME NEW j \in k + 1 .. e PROVE m[j].role = "tool"
  <2>1. j - 1 \in k .. Len(m) /\ j - 1 < e /\ (j - 1) + 1 = j OBVIOUS
  <2>2. e \in Nat /\ \A d \in T : e <= d BY <1>2
  <2>3. j - 1 \in T => e <= j - 1
    <3> HIDE DEF T
    <3> QED BY <2>2
  <2>4. j - 1 \notin T BY <2>1, <2>2, <2>3
  <2> QED BY <2>1, <2>4
<1>4. RunEnd(m, k) = e
  <2>1. e \in k .. Len(m) /\ (e < Len(m) => m[e + 1].role # "tool") OBVIOUS
  <2> HIDE DEF T
  <2> QED BY <1>3, <2>1, RunIs
<1> QED BY <1>3, <1>4

GeminiWire == [role : {"user", "model"}, parts : Seq(AnyPart)]
LEMMA ContentTyped ==
  ASSUME NEW m \in Seq(Utterances), NEW k \in 1 .. Len(m)
  PROVE  /\ ContentOf(m, k) \in GeminiWire
         /\ m[k].role = "tool" => \A j \in 1 .. Len(ContentOf(m, k).parts) : ContentOf(m, k).parts[j].kind = "response"
<1>1. m[k] \in Utterances OBVIOUS
<1>2. CASE m[k].role = "tool"
  <2> DEFINE e == RunEnd(m, k)
             ps == [j \in 1 .. e - k + 1 |-> ResultPart(m[k + j - 1])]
  <2>1. e \in k .. Len(m) BY RunEndThere
  <2> HIDE DEF e
  <2>2. \A j \in 1 .. e - k + 1 : k + j - 1 \in 1 .. Len(m) BY <2>1
  <2>3. \A j \in 1 .. e - k + 1 : m[k + j - 1].call \in Nat
    <3>1. \A i \in 1 .. Len(m) : m[i] \in Utterances OBVIOUS
    <3>2. \A x \in Utterances : x.call \in Nat BY DEF Utterances
    <3> QED BY <2>2, <3>1, <3>2
  <2>4. \A j \in 1 .. e - k + 1 : ps[j] \in AnyPart /\ ps[j].kind = "response"
    BY <2>3 DEF ResultPart, Part, AnyPart
  <2>5. e - k + 1 \in Nat BY <2>1
  <2>6. ps \in Seq(AnyPart) /\ Len(ps) = e - k + 1
    <3>1. ps \in [1 .. e - k + 1 -> AnyPart] BY <2>4
    <3> HIDE DEF ps
    <3> QED BY <2>5, <3>1, IsASeq
  <2>7. ContentOf(m, k) = [role |-> "user", parts |-> ps] BY <1>2 DEF ContentOf, e
  <2> HIDE DEF ps
  <2> QED BY <2>4, <2>6, <2>7 DEF GeminiWire
<1>3. CASE m[k].role # "tool"
  <2>1. Shown(m[k]) \in Seq(AnyPart) BY <1>1, UtteranceTyped, OfKindsTyped DEF Shown
  <2>2. ContentOf(m, k) = [role |-> GeminiRole(m[k]), parts |-> Shown(m[k])] BY <1>3 DEF ContentOf
  <2> QED BY <1>3, <2>1, <2>2 DEF GeminiWire, GeminiRole
<1> QED BY <1>2, <1>3

\* Content c is that of message g[c].
PlacedIn(g, c, m) ==
  /\ c \in Seq(GeminiWire) /\ DOMAIN g = 1 .. Len(c)
  /\ \A i \in 1 .. Len(c) : g[i] \in 1 .. Len(m) /\ HasContent(m, g[i]) /\ c[i] = ContentOf(m, g[i])
  /\ \A i, j \in 1 .. Len(c) : i < j => g[i] < g[j]
  /\ \A k \in 1 .. Len(m) : HasContent(m, k) => \E i \in 1 .. Len(c) : g[i] = k
LEMMA ContentsPlaced ==
  ASSUME NEW m \in Seq(Utterances) PROVE \E g : PlacedIn(g, Contents(m), m)
<1> DEFINE s == [k \in DOMAIN m |-> ContentOf(m, k)]
           P == {k \in DOMAIN m : HasContent(m, k)}
           c == Select(s, P)
<1>1. Len(m) \in Nat /\ DOMAIN m = 1 .. Len(m) OBVIOUS
<1>2. \A k \in 1 .. Len(m) : ContentOf(m, k) \in GeminiWire BY ContentTyped
<1>3. \A k \in 1 .. Len(m) : s[k] = ContentOf(m, k) BY <1>1
<1>4. s \in Seq(GeminiWire) /\ Len(s) = Len(m)
  <2>1. s \in [1 .. Len(m) -> GeminiWire] BY <1>1, <1>2
  <2> HIDE DEF s
  <2> QED BY <1>1, <2>1, IsASeq
<1>5. Contents(m) = c BY DEF Contents
<1>6. \A k \in 1 .. Len(m) : k \in P <=> HasContent(m, k) BY <1>1
<1> HIDE DEF s, P
<1>7. c \in Seq(GeminiWire) /\ \E g : Keeps(g, s, P) BY <1>4, SelectPositions
<1>8. PICK g : Keeps(g, s, P) BY <1>7
<1>9. PlacedIn(g, c, m) BY <1>3, <1>4, <1>6, <1>7, <1>8 DEF PlacedIn, Keeps
<1> QED BY <1>5, <1>9

\* What a message shows, it shows with its calls.
LEMMA ShownCalls ==
  ASSUME NEW x \in Utterances
  PROVE  /\ OfKinds({"call"}, Shown(x)) = CallParts(x) /\ IdsOf("call", Shown(x)) = IdsOf("call", x.parts)
         /\ Shown(x) \in Seq(AnyPart)
         /\ CallParts(x) # <<>> => Shown(x) # <<>>
<1>1. x.parts \in Seq(AnyPart) BY UtteranceTyped
<1>2. {"call"} \subseteq {"text", "thought", "image", "call"} OBVIOUS
<1>3. OfKinds({"call"}, Shown(x)) = CallParts(x) BY <1>1, <1>2, OfKindsTwice DEF Shown, CallParts
<1>4. IdsOf("call", Shown(x)) = IdsOf("call", x.parts) BY <1>3 DEF IdsOf, CallParts
<1>5. Shown(x) \in Seq(AnyPart) BY <1>1, OfKindsTyped DEF Shown
<1>6. Shown(x) = <<>> => CallParts(x) = <<>>
  <2>1. OfKinds({"call"}, <<>>) = <<>> BY SelectNone DEF OfKinds
  <2> QED BY <1>3, <2>1
<1> QED BY <1>3, <1>4, <1>5, <1>6

\* Ids there are belong to parts of the kind.
LEMMA IdsThere ==
  ASSUME NEW s \in Seq(AnyPart), NEW kind, IdsOf(kind, s) # <<>>
  PROVE  OfKinds({kind}, s) # <<>> /\ \E k \in 1 .. Len(s) : s[k].kind = kind
<1>1. OfKinds({kind}, s) # <<>>
  <2>1. ASSUME OfKinds({kind}, s) = <<>> PROVE FALSE
    <3>1. IdsOf(kind, s) = Each(<<>>, CallNumber) BY <2>1, IdsEach
    <3> QED BY <3>1, EachNone
  <2> QED BY <2>1
<1>2. PICK k \in 1 .. Len(s) : s[k].kind \in {kind} BY <1>1, FirstOfKinds
<1> QED BY <1>1, <1>2

LEMMA OfKindsSome ==
  ASSUME NEW s \in Seq(AnyPart), NEW kinds, NEW j \in 1 .. Len(s), s[j].kind \in kinds
  PROVE  OfKinds(kinds, s) # <<>>
<1> DEFINE P == {k \in DOMAIN s : s[k].kind \in kinds}
           r == Select(s, P)
<1>1. PICK g : Keeps(g, s, P)
  <2> HIDE DEF P
  <2> QED BY SelectPositions
<1>0. j \in P OBVIOUS
<1>2. PICK i \in 1 .. Len(r) : g[i] = j
  <2> HIDE DEF P
  <2> QED BY <1>0, <1>1 DEF Keeps
<1>3. r = <<>> => 1 .. Len(r) = {} OBVIOUS
<1> HIDE DEF r
<1>4. r # <<>> BY <1>2, <1>3
<1> QED BY <1>4 DEF r, OfKinds

\* Only a turn's content has calls.
LEMMA ContentCalls ==
  ASSUME NEW m \in Seq(Utterances), NEW i \in 1 .. Len(m), m[i].role = "user" => m[i].parts \in Seq(Written)
  PROVE  /\ IdsOf("call", ContentOf(m, i).parts) # <<>> => m[i].role = "assistant"
         /\ m[i].role = "assistant" =>
              /\ ContentOf(m, i).role = "model" /\ ContentOf(m, i).parts = Shown(m[i])
              /\ IdsOf("call", ContentOf(m, i).parts) = IdsOf("call", m[i].parts)
              /\ IdsOf("call", m[i].parts) # <<>> <=> CallParts(m[i]) # <<>>
<1>1. m[i] \in Utterances /\ m[i].role \in {"user", "assistant", "tool"} /\ m[i].parts \in Seq(AnyPart) BY UtteranceTyped
<1>2. ContentOf(m, i) \in GeminiWire BY ContentTyped
<1>3. ContentOf(m, i).parts \in Seq(AnyPart) BY <1>2 DEF GeminiWire
<1>4. CASE m[i].role = "tool"
  <2>1. \A j \in 1 .. Len(ContentOf(m, i).parts) : ContentOf(m, i).parts[j].kind = "response" BY <1>4, ContentTyped
  <2> DEFINE ps == ContentOf(m, i).parts
  <2>2. ps \in Seq(AnyPart) /\ \A j \in 1 .. Len(ps) : ps[j].kind = "response" BY <1>3, <2>1
  <2> HIDE DEF ps
  <2>3. IdsOf("call", ps) # <<>> => \E j \in 1 .. Len(ps) : ps[j].kind = "call" BY <2>2, IdsThere
  <2>4. IdsOf("call", ps) = <<>> BY <2>2, <2>3
  <2> QED BY <1>4, <2>4 DEF ps
<1>5. CASE m[i].role = "user"
  <2>1. ContentOf(m, i).parts = Shown(m[i]) BY <1>5 DEF ContentOf
  <2>2. IdsOf("call", ContentOf(m, i).parts) = IdsOf("call", m[i].parts) BY <1>1, <2>1, ShownCalls
  <2>3. \A j \in 1 .. Len(m[i].parts) : m[i].parts[j].kind # "call" BY <1>5 DEF Written
  <2>4. IdsOf("call", m[i].parts) = <<>> BY <1>1, <2>3, IdsThere
  <2> QED BY <1>5, <2>2, <2>4
<1>6. CASE m[i].role = "assistant"
  <2>1. ContentOf(m, i) = [role |-> "model", parts |-> Shown(m[i])] BY <1>6 DEF ContentOf, GeminiRole
  <2>2. IdsOf("call", ContentOf(m, i).parts) = IdsOf("call", m[i].parts) BY <1>1, <2>1, ShownCalls
  <2>3. IdsOf("call", m[i].parts) # <<>> => CallParts(m[i]) # <<>> BY <1>1, IdsThere DEF CallParts
  <2>4. CallParts(m[i]) # <<>> => IdsOf("call", m[i].parts) # <<>>
    <3> DEFINE ps == CallParts(m[i])
    <3>1. ps \in Seq(AnyPart) /\ ps = OfKinds({"call"}, m[i].parts) BY <1>1, UtteranceTyped DEF CallParts
    <3>2. IdsOf("call", m[i].parts) = [k \in DOMAIN ps |-> ps[k].call] BY <3>1 DEF IdsOf
    <3> HIDE DEF ps
    <3>3. ps # <<>> => 1 \in DOMAIN ps BY <3>1, EmptySeq
    <3>4. DOMAIN [k \in DOMAIN ps |-> ps[k].call] = DOMAIN ps OBVIOUS
    <3>5. 1 \notin DOMAIN <<>> OBVIOUS
    <3> QED BY <3>2, <3>3, <3>4, <3>5 DEF ps
  <2> QED BY <1>6, <2>1, <2>2, <2>3, <2>4
<1> QED BY <1>1, <1>4, <1>5, <1>6

\* The results of a turn are the content after its own.
LEMMA ResultsContent ==
  ASSUME NEW m \in Seq(Utterances), NEW i \in 1 .. Len(m), m[i].role = "assistant", ResultsFollow(m, i),
         CallParts(m[i]) # <<>>
  PROVE  /\ HasContent(m, i) /\ i + 1 \in 1 .. Len(m) /\ HasContent(m, i + 1)
         /\ IdsOf("response", ContentOf(m, i + 1).parts) = IdsOf("call", m[i].parts)
<1> DEFINE calls == CallParts(m[i])
           n == Len(calls)
<1>1. m[i] \in Utterances /\ m[i].parts \in Seq(AnyPart) /\ calls \in Seq(AnyPart) BY UtteranceTyped
<1>2. n \in Nat /\ n >= 1 /\ DOMAIN calls = 1 .. n
  <2>1. calls # <<>> OBVIOUS
  <2> HIDE DEF calls
  <2> QED BY <1>1, <2>1, EmptySeq
<1>3. /\ i + n <= Len(m) /\ \A j \in 1 .. n : m[i + j].role = "tool" /\ m[i + j].call = calls[j].call
      /\ i + n < Len(m) => m[i + n + 1].role # "tool"
  BY DEF ResultsFollow
<1>4. HasContent(m, i) BY <1>1, ShownCalls DEF HasContent
<1>9. IdsOf("call", m[i].parts) = [j \in DOMAIN calls |-> calls[j].call] BY DEF IdsOf, CallParts
<1> HIDE DEF calls, n
<1>5. i + 1 \in 1 .. Len(m) /\ m[i + 1].role = "tool" /\ i \in Nat /\ Len(m) \in Nat
  <2>1. 1 \in 1 .. n BY <1>2
  <2> QED BY <1>2, <1>3, <2>1
<1>6. HasContent(m, i + 1)
  <2>1. (i + 1) - 1 = i OBVIOUS
  <2> QED BY <1>5, <2>1 DEF HasContent
<1>7. RunEnd(m, i + 1) = i + n
  <2>1. i + n \in i + 1 .. Len(m) BY <1>2, <1>3, <1>5
  <2>2. ASSUME NEW j \in i + 1 + 1 .. i + n PROVE m[j].role = "tool"
    <3>1. j - i \in 1 .. n /\ i + (j - i) = j BY <1>2, <1>5
    <3> QED BY <1>3, <3>1
  <2>3. i + n < Len(m) => m[(i + n) + 1].role # "tool" BY <1>3
  <2> DEFINE k == i + 1
             e == i + n
  <2>4. k \in 1 .. Len(m) /\ e \in k .. Len(m) BY <1>5, <2>1
  <2>5. \A j \in k + 1 .. e : m[j].role = "tool" BY <2>2
  <2>6. e < Len(m) => m[e + 1].role # "tool" BY <2>3
  <2> HIDE DEF k, e
  <2>7. RunEnd(m, k) = e BY <2>4, <2>5, <2>6, RunIs
  <2> QED BY <2>7 DEF k, e
<1> DEFINE ps == ContentOf(m, i + 1).parts
<1>8. /\ ps \in Seq(AnyPart) /\ Len(ps) = n /\ \A j \in 1 .. n : ps[j].call = calls[j].call
      /\ \A j \in 1 .. Len(ps) : ps[j].kind = "response"
  <2>1. ContentOf(m, i + 1) \in GeminiWire BY <1>5, ContentTyped
  <2>2. ps \in Seq(AnyPart) BY <2>1 DEF GeminiWire
  <2>3. ps = [j \in 1 .. (i + n) - (i + 1) + 1 |-> ResultPart(m[i + 1 + j - 1])] BY <1>5, <1>7 DEF ContentOf
  <2>4. (i + n) - (i + 1) + 1 = n /\ \A j \in 1 .. n : i + 1 + j - 1 = i + j BY <1>2, <1>5
  <2>5. DOMAIN ps = 1 .. n /\ \A j \in 1 .. n : ps[j] = ResultPart(m[i + j]) BY <2>3, <2>4
  <2> HIDE DEF ps
  <2>6. Len(ps) = n BY <1>2, <2>2, <2>5
  <2>7. \A j \in 1 .. n : ps[j].call = calls[j].call /\ ps[j].kind = "response"
    <3>1. \A j \in 1 .. n : ResultPart(m[i + j]).call = m[i + j].call /\ ResultPart(m[i + j]).kind = "response"
      BY DEF ResultPart, Part
    <3> QED BY <1>3, <2>5, <3>1
  <2> QED BY <2>2, <2>6, <2>7
<1>10. IdsOf("response", ps) = [j \in DOMAIN calls |-> calls[j].call]
  <2> HIDE DEF ps
  <2>1. \A k \in 1 .. Len(ps) : ps[k].kind \in {"response"} BY <1>8
  <2>2. OfKinds({"response"}, ps) = ps BY <1>8, <2>1, OfKindsAll
  <2>3. IdsOf("response", ps) = [k \in DOMAIN ps |-> ps[k].call] BY <2>2 DEF IdsOf
  <2>4. DOMAIN ps = 1 .. n BY <1>8
  <2> QED BY <1>2, <1>8, <2>3, <2>4
<1> QED BY <1>4, <1>5, <1>6, <1>9, <1>10

LEMMA ResultsAreNext ==
  ASSUME ConvInv, NEW k \in DOMAIN Contents(messages), IdsOf("call", Contents(messages)[k].parts) # <<>>
  PROVE  /\ k + 1 \in DOMAIN Contents(messages)
         /\ IdsOf("response", Contents(messages)[k + 1].parts) = IdsOf("call", Contents(messages)[k].parts)
<1> DEFINE m == messages
           c == Contents(m)
<1>1. m \in Seq(Utterances) BY DEF ConvInv
<1>2. PICK g : PlacedIn(g, c, m) BY <1>1, ContentsPlaced
<1>3. IdsOf("call", c[k].parts) # <<>> /\ k \in DOMAIN c OBVIOUS
<1>4. /\ c \in Seq(GeminiWire) /\ DOMAIN g = 1 .. Len(c)
      /\ \A i \in 1 .. Len(c) : g[i] \in 1 .. Len(m) /\ HasContent(m, g[i]) /\ c[i] = ContentOf(m, g[i])
      /\ \A i, j \in 1 .. Len(c) : i < j => g[i] < g[j]
      /\ \A l \in 1 .. Len(m) : HasContent(m, l) => \E i \in 1 .. Len(c) : g[i] = l
  BY <1>2 DEF PlacedIn
<1>0. \A l \in 1 .. Len(m) : /\ m[l].role = "user" => m[l].parts \in Seq(Written)
                             /\ m[l].role = "assistant" => ResultsFollow(m, l)
  BY DEF ConvInv, TurnsAreWhole
<1> HIDE DEF m, c
<1> DEFINE i == g[k]
<1>5. k \in 1 .. Len(c) /\ Len(c) \in Nat /\ DOMAIN c = 1 .. Len(c) BY <1>3, <1>4
<1>6. i \in 1 .. Len(m) /\ c[k] = ContentOf(m, i) BY <1>4, <1>5
<1> HIDE DEF i
<1>7. m[i].role = "assistant" /\ CallParts(m[i]) # <<>> /\ IdsOf("call", c[k].parts) = IdsOf("call", m[i].parts)
  <2>1. m[i].role = "user" => m[i].parts \in Seq(Written) BY <1>0, <1>6
  <2>2. /\ IdsOf("call", ContentOf(m, i).parts) # <<>> => m[i].role = "assistant"
        /\ m[i].role = "assistant" =>
              /\ ContentOf(m, i).role = "model" /\ ContentOf(m, i).parts = Shown(m[i])
              /\ IdsOf("call", ContentOf(m, i).parts) = IdsOf("call", m[i].parts)
              /\ IdsOf("call", m[i].parts) # <<>> <=> CallParts(m[i]) # <<>>
    BY <1>1, <1>6, <2>1, ContentCalls
  <2> QED BY <1>3, <1>6, <2>2
<1>8. /\ HasContent(m, i) /\ i + 1 \in 1 .. Len(m) /\ HasContent(m, i + 1)
      /\ IdsOf("response", ContentOf(m, i + 1).parts) = IdsOf("call", m[i].parts)
  BY <1>0, <1>1, <1>6, <1>7, ResultsContent
<1>9. PICK l \in 1 .. Len(c) : g[l] = i + 1 BY <1>4, <1>8
<1>10. l = k + 1
  <2>1. i \in Nat /\ l \in Nat /\ k \in Nat BY <1>5, <1>6
  <2>2. ~(l < k)
    <3>1. l < k => g[l] < g[k] BY <1>4, <1>5
    <3> QED BY <1>9, <2>1, <3>1 DEF i
  <2>3. l # k BY <1>9, <2>1 DEF i
  <2>4. ~(k + 1 < l)
    <3>1. k + 1 < l => k + 1 \in 1 .. Len(c) BY <1>5, <2>1
    <3>2. k + 1 < l => g[k] < g[k + 1] /\ g[k + 1] < g[l] /\ g[k + 1] \in Nat BY <1>4, <1>5, <2>1, <3>1
    <3> QED BY <1>9, <2>1, <3>2 DEF i
  <2> QED BY <2>1, <2>2, <2>3, <2>4
<1>11. k + 1 \in DOMAIN c /\ c[k + 1] = ContentOf(m, i + 1) BY <1>4, <1>5, <1>9, <1>10
<1> QED BY <1>7, <1>8, <1>11 DEF m, c

LEMMA TalkIsSent == ConvInv => TheTalkIsSent
<1> SUFFICES ASSUME ConvInv PROVE TheTalkIsSent OBVIOUS
<1>1. messages \in Seq(Utterances) BY DEF ConvInv
<1>2. DialogueOfChat(ChatMessages(messages)) = Dialogue(messages) BY <1>1, ChatTellsAll
<1>3. DialogueOfItems(ResponsesItems(messages)) = Dialogue(messages) BY <1>1, ItemsTellAll
<1> QED BY <1>2, <1>3, ResultsAreNext DEF TheTalkIsSent

\* A finite set of positions has a last one.
LEMMA LastIsThere ==
  ASSUME NEW n \in Nat, NEW T \in SUBSET (1 .. n), T # {}
  PROVE  \E x \in T : \A y \in T : y <= x
<1> DEFINE B == {d \in 0 .. n : n - d \in T}
<1>1. B \in SUBSET Nat /\ B # {}
  <2>1. PICK y \in T : TRUE OBVIOUS
  <2>2. n - y \in 0 .. n /\ n - (n - y) = y OBVIOUS
  <2>3. n - y \in B BY <2>1, <2>2
  <2>4. B \in SUBSET Nat OBVIOUS
  <2> HIDE DEF B
  <2> QED BY <2>3, <2>4
<1>2. PICK d \in B : \A e \in B : d <= e
  <2> HIDE DEF B
  <2> QED BY <1>1, LeastIsThere
<1>3. d \in 0 .. n /\ n - d \in T OBVIOUS
<1>4. ASSUME NEW y \in T PROVE y <= n - d
  <2>1. n - y \in 0 .. n /\ n - (n - y) = y OBVIOUS
  <2>2. n - y \in B BY <2>1
  <2>3. d <= n - y BY <1>2, <2>2
  <2> QED BY <1>3, <2>1, <2>3
<1> QED BY <1>3, <1>4

\* A content with its first call signed.
LEMMA SignedFirstIs ==
  ASSUME NEW x \in GeminiWire
  PROVE  /\ SignedFirst(x) \in GeminiWire /\ SignedFirst(x).role = x.role
         /\ DOMAIN SignedFirst(x).parts = DOMAIN x.parts /\ Len(SignedFirst(x).parts) = Len(x.parts)
         /\ \A j \in 1 .. Len(x.parts) :
              /\ SignedFirst(x).parts[j].kind = x.parts[j].kind /\ SignedFirst(x).parts[j].call = x.parts[j].call
              /\ j \in Firsts(x) => SignedFirst(x).parts[j].signed
              /\ SignedFirst(x).parts[j] # x.parts[j] => j \in Firsts(x) /\ ~x.parts[j].signed
         /\ IdsOf("call", SignedFirst(x).parts) = IdsOf("call", x.parts)
<1> DEFINE s == x.parts
           t == [j \in DOMAIN s |-> IF j \in Firsts(x) THEN [s[j] EXCEPT !.signed = TRUE] ELSE s[j]]
<1>1. x = [role |-> x.role, parts |-> s] /\ x.role \in {"user", "model"} /\ s \in Seq(AnyPart) BY DEF GeminiWire
<1>2. SignedFirst(x) = [role |-> x.role, parts |-> t]
  <2>1. SignedFirst(x) = [x EXCEPT !.parts = t] BY DEF SignedFirst
  <2> HIDE DEF s, t
  <2>2. [x EXCEPT !.parts = t] = [role |-> x.role, parts |-> t] BY DEF GeminiWire
  <2> QED BY <2>1, <2>2
<1>3. DOMAIN s = 1 .. Len(s) /\ Len(s) \in Nat /\ \A j \in 1 .. Len(s) : s[j] \in AnyPart BY <1>1
<1>4. \A p \in AnyPart : /\ [p EXCEPT !.signed = TRUE] \in AnyPart /\ [p EXCEPT !.signed = TRUE].kind = p.kind
                         /\ [p EXCEPT !.signed = TRUE].call = p.call /\ [p EXCEPT !.signed = TRUE].signed
                         /\ p.signed => [p EXCEPT !.signed = TRUE] = p
  <2> SUFFICES ASSUME NEW p \in AnyPart
               PROVE  /\ [p EXCEPT !.signed = TRUE] \in AnyPart /\ [p EXCEPT !.signed = TRUE].kind = p.kind
                      /\ [p EXCEPT !.signed = TRUE].call = p.call /\ [p EXCEPT !.signed = TRUE].signed
                      /\ p.signed => [p EXCEPT !.signed = TRUE] = p
    OBVIOUS
  <2>1. p.signed \in BOOLEAN BY DEF AnyPart
  <2>2. CASE p.signed = TRUE BY <2>2 DEF AnyPart
  <2>3. CASE p.signed = FALSE BY <2>3 DEF AnyPart
  <2> QED BY <2>1, <2>2, <2>3
<1>5. \A j \in 1 .. Len(s) : t[j] = IF j \in Firsts(x) THEN [s[j] EXCEPT !.signed = TRUE] ELSE s[j] BY <1>3
<1>6. DOMAIN t = 1 .. Len(s) BY <1>3
<1>7. t \in Seq(AnyPart) /\ Len(t) = Len(s)
  <2>1. \A j \in 1 .. Len(s) : t[j] \in AnyPart BY <1>3, <1>4, <1>5
  <2>2. t = [j \in 1 .. Len(s) |-> t[j]] BY <1>3
  <2> HIDE DEF t, s
  <2>3. t \in [1 .. Len(s) -> AnyPart] BY <2>1, <2>2
  <2> QED BY <1>3, <2>3, IsASeq
<1> HIDE DEF s, t
<1>8. ASSUME NEW j \in 1 .. Len(s)
      PROVE  /\ t[j].kind = s[j].kind /\ t[j].call = s[j].call /\ (j \in Firsts(x) => t[j].signed)
             /\ (t[j] # s[j] => j \in Firsts(x) /\ ~s[j].signed)
  <2>1. s[j] \in AnyPart BY <1>3
  <2>2. CASE j \in Firsts(x)
    <3> DEFINE p == s[j]
    <3>1. t[j] = [p EXCEPT !.signed = TRUE] BY <1>5, <2>2
    <3>2. p \in AnyPart BY <2>1
    <3> HIDE DEF p
    <3> DEFINE q == [p EXCEPT !.signed = TRUE]
    <3>3. q.kind = p.kind /\ q.call = p.call /\ q.signed /\ (p.signed => q = p) BY <1>4, <3>2
    <3> HIDE DEF q
    <3>4. t[j] = q BY <3>1 DEF q
    <3> QED BY <2>2, <3>3, <3>4 DEF p
  <2>3. CASE j \notin Firsts(x)
    <3>1. t[j] = s[j] BY <1>5, <2>3
    <3> QED BY <2>3, <3>1
  <2> QED BY <2>2, <2>3
<1>9. IdsOf("call", t) = IdsOf("call", s)
  <2>1. Len(t) = Len(s) /\ \A k \in 1 .. Len(t) : t[k].kind = s[k].kind /\ t[k].call = s[k].call BY <1>7, <1>8
  <2> QED BY <1>1, <1>7, <2>1, SameIds
<1>10. SignedFirst(x).parts = t /\ SignedFirst(x).role = x.role /\ SignedFirst(x) \in GeminiWire
  BY <1>1, <1>2, <1>7 DEF GeminiWire
<1> QED BY <1>3, <1>6, <1>7, <1>8, <1>9, <1>10 DEF s

\* What is signed: nothing, or contents from the last genuine turn of the user on.
FromStart(c, s, start) ==
  /\ modern /\ start \in 1 .. Len(c) /\ Genuine(c[start])
  /\ \A k \in 1 .. Len(c) : Genuine(c[k]) => k <= start
  /\ s = [k \in 1 .. Len(c) |-> IF k < start \/ c[k].role # "model" THEN c[k] ELSE SignedFirst(c[k])]
LEMMA SignedIs ==
  ASSUME NEW c \in Seq(GeminiWire), NEW k \in 1 .. Len(c), modern, Genuine(c[k])
  PROVE  \E start : FromStart(c, Signed(c), start)
<1> DEFINE asked == {i \in DOMAIN c : Genuine(c[i])}
           start == CHOOSE i \in asked : \A j \in asked : j <= i
<1>1. DOMAIN c = 1 .. Len(c) /\ Len(c) \in Nat /\ asked # {} /\ asked \in SUBSET (1 .. Len(c)) OBVIOUS
<1>2. \E i \in asked : \A j \in asked : j <= i
  <2> HIDE DEF asked
  <2> QED BY <1>1, LastIsThere
<1>3. start \in asked /\ \A j \in asked : j <= start
  <2> HIDE DEF asked
  <2> QED BY <1>2
<1>4. Signed(c) = [i \in 1 .. Len(c) |->
        IF i < start \/ c[i].role # "model" THEN c[i] ELSE SignedFirst(c[i])]
  BY <1>1 DEF Signed
<1> HIDE DEF start
<1>5. FromStart(c, Signed(c), start) BY <1>1, <1>3, <1>4 DEF FromStart
<1> QED BY <1>5

LEMMA NotSigned ==
  ASSUME NEW c \in Seq(GeminiWire), ~modern \/ \A k \in 1 .. Len(c) : ~Genuine(c[k])
  PROVE  Signed(c) = c
<1>1. DOMAIN c = 1 .. Len(c) OBVIOUS
<1>2. ~modern \/ {k \in DOMAIN c : Genuine(c[k])} = {} BY <1>1
<1> QED BY <1>2 DEF Signed

\* Nothing else is touched, and nothing before the last genuine turn.
LEMMA OthersAreLeft ==
  ASSUME NEW c \in Seq(GeminiWire)
  PROVE  /\ DOMAIN Signed(c) = DOMAIN c
         /\ \A k \in DOMAIN Signed(c) : \A j \in DOMAIN Signed(c)[k].parts :
              Signed(c)[k].parts[j] # c[k].parts[j] =>
                /\ modern /\ ~c[k].parts[j].signed /\ j \in Firsts(c[k])
                /\ \A i \in k + 1 .. Len(Signed(c)) : ~Genuine(Signed(c)[i])
<1>1. CASE ~modern \/ \A k \in 1 .. Len(c) : ~Genuine(c[k])
  <2>1. Signed(c) = c BY <1>1, NotSigned
  <2> QED BY <2>1
<1>2. CASE modern /\ \E k \in 1 .. Len(c) : Genuine(c[k])
  <2> DEFINE s == Signed(c)
  <2>1. PICK start : FromStart(c, s, start) BY <1>2, SignedIs
  <2>2. /\ modern /\ start \in 1 .. Len(c) /\ Genuine(c[start])
        /\ \A k \in 1 .. Len(c) : Genuine(c[k]) => k <= start
        /\ DOMAIN s = 1 .. Len(c)
        /\ \A k \in 1 .. Len(c) : s[k] = IF k < start \/ c[k].role # "model" THEN c[k] ELSE SignedFirst(c[k])
    BY <2>1 DEF FromStart
  <2>0. DOMAIN c = 1 .. Len(c) /\ Len(c) \in Nat /\ \A k \in 1 .. Len(c) : c[k] \in GeminiWire OBVIOUS
  <2> HIDE DEF s
  <2>3. \A x \in GeminiWire : x.parts \in Seq(AnyPart) BY DEF GeminiWire
  <2>4. s \in Seq(GeminiWire) /\ Len(s) = Len(c)
    <3>1. \A k \in 1 .. Len(c) : s[k] \in GeminiWire BY <2>0, <2>2, SignedFirstIs
    <3>2. s = [k \in 1 .. Len(c) |-> s[k]] BY <2>1 DEF FromStart
    <3>3. s \in [1 .. Len(c) -> GeminiWire]
      <4> HIDE DEF GeminiWire
      <4> QED BY <3>1, <3>2
    <3> QED BY <2>0, <3>3, IsASeq
  <2>5. ASSUME NEW i \in 1 .. Len(c), start < i PROVE ~Genuine(s[i])
    <3>1. i \in Nat /\ start \in Nat /\ ~(i <= start) BY <2>2, <2>5
    <3>2. ~Genuine(c[i]) BY <2>2, <3>1
    <3>3. CASE c[i].role # "model"
      <4>1. s[i] = c[i] BY <2>2, <3>3
      <4> QED BY <3>2, <4>1
    <3>4. CASE c[i].role = "model"
      <4>1. s[i] = SignedFirst(c[i]) BY <2>2, <3>1, <3>4
      <4>2. s[i].role = "model" BY <2>0, <3>4, <4>1, SignedFirstIs
      <4> QED BY <4>2 DEF Genuine
    <3> QED BY <3>3, <3>4
  <2>6. ASSUME NEW k \in DOMAIN s, NEW j \in DOMAIN s[k].parts, s[k].parts[j] # c[k].parts[j]
        PROVE  /\ modern /\ ~c[k].parts[j].signed /\ j \in Firsts(c[k])
               /\ \A i \in k + 1 .. Len(s) : ~Genuine(s[i])
    <3>1. k \in 1 .. Len(c) /\ c[k] \in GeminiWire BY <2>0, <2>2
    <3>2. ~(k < start \/ c[k].role # "model")
      <4>1. s[k] # c[k] BY <2>6
      <4> QED BY <2>2, <3>1, <4>1
    <3>3. s[k] = SignedFirst(c[k]) BY <2>2, <3>1, <3>2
    <3>4. DOMAIN s[k].parts = DOMAIN c[k].parts BY <3>1, <3>3, SignedFirstIs
    <3>5. j \in 1 .. Len(c[k].parts)
      <4>1. c[k].parts \in Seq(AnyPart) BY <2>3, <3>1
      <4> QED BY <3>4, <4>1
    <3>6. j \in Firsts(c[k]) /\ ~c[k].parts[j].signed BY <2>6, <3>1, <3>3, <3>5, SignedFirstIs
    <3>7. ASSUME NEW i \in k + 1 .. Len(s) PROVE ~Genuine(s[i])
      <4>1. i \in 1 .. Len(c) /\ start < i BY <2>0, <2>2, <2>4, <3>1, <3>2
      <4> QED BY <2>5, <4>1
    <3> QED BY <2>2, <3>6, <3>7
  <2>7. DOMAIN s = DOMAIN c BY <2>0, <2>2
  <2> QED BY <2>6, <2>7 DEF s
<1> QED BY <1>1, <1>2

\* The genuine turns are those of a user who shows something.
ShowsAsk(x) == x.role = "user" /\ OfKinds({"text", "image"}, x.parts) # <<>>
LEMMA GenuineIsAsk ==
  ASSUME NEW m \in Seq(Utterances), NEW i \in 1 .. Len(m), m[i].role = "user" => m[i].parts \in Seq(Written)
  PROVE  /\ HasContent(m, i) /\ Genuine(ContentOf(m, i)) => ShowsAsk(m[i])
         /\ ShowsAsk(m[i]) => HasContent(m, i) /\ Genuine(ContentOf(m, i))
<1>1. m[i] \in Utterances /\ m[i].role \in {"user", "assistant", "tool"} /\ m[i].parts \in Seq(AnyPart) BY UtteranceTyped
<1>2. ContentOf(m, i) \in GeminiWire BY ContentTyped
<1>3. CASE m[i].role = "tool"
  <2>1. \A j \in 1 .. Len(ContentOf(m, i).parts) : ContentOf(m, i).parts[j].kind = "response" BY <1>3, ContentTyped
  <2>2. ContentOf(m, i).parts \in Seq(AnyPart) BY <1>2 DEF GeminiWire
  <2>3. ~Genuine(ContentOf(m, i)) BY <2>1, <2>2 DEF Genuine
  <2> QED BY <1>3, <2>3 DEF ShowsAsk
<1>4. CASE m[i].role = "assistant"
  <2>1. ContentOf(m, i).role = "model" BY <1>4 DEF ContentOf, GeminiRole
  <2> QED BY <1>4, <2>1 DEF ShowsAsk, Genuine
<1>5. CASE m[i].role = "user"
  <2> DEFINE ps == m[i].parts
             visible == {"text", "thought", "image", "call"}
  <2>1. ContentOf(m, i) = [role |-> "user", parts |-> Shown(m[i])] BY <1>5 DEF ContentOf, GeminiRole
  <2>2. HasContent(m, i) <=> Shown(m[i]) # <<>> BY <1>5 DEF HasContent
  <2>3. Shown(m[i]) = OfKinds(visible, ps) BY DEF Shown
  <2>4. OfKinds(visible, ps) \in Seq(AnyPart) /\ \A j \in DOMAIN OfKinds(visible, ps) : OfKinds(visible, ps)[j].kind \in visible
    BY <1>1, OfKindsTyped
  <2>5. Genuine(ContentOf(m, i)) <=> OfKinds(visible, ps) # <<>>
    <3> DEFINE r == OfKinds(visible, ps)
    <3>1. Genuine(ContentOf(m, i)) <=> \E j \in DOMAIN r : r[j].kind # "response" BY <2>1, <2>3 DEF Genuine
    <3>2. r \in Seq(AnyPart) /\ \A j \in DOMAIN r : r[j].kind # "response" BY <2>4
    <3> HIDE DEF r
    <3>3. r # <<>> => 1 \in DOMAIN r BY <3>2, EmptySeq
    <3>4. r = <<>> => DOMAIN r = {} OBVIOUS
    <3> QED BY <3>1, <3>2, <3>3, <3>4 DEF r
  <2>6. OfKinds(visible, ps) # <<>> => OfKinds({"text", "image"}, ps) # <<>>
    <3> SUFFICES ASSUME OfKinds(visible, ps) # <<>> PROVE OfKinds({"text", "image"}, ps) # <<>> OBVIOUS
    <3>1. ps \in Seq(AnyPart) /\ \A j \in 1 .. Len(ps) : ps[j].kind \in {"text", "blank", "image"}
      BY <1>1, <1>5 DEF Written
    <3> HIDE DEF ps
    <3>2. PICK j \in 1 .. Len(ps) : ps[j].kind \in visible
      <4> HIDE DEF visible
      <4> QED BY <3>1, FirstOfKinds
    <3>3. ps[j].kind \in {"text", "image"} BY <3>1, <3>2
    <3> QED BY <3>1, <3>3, OfKindsSome
  <2>7. OfKinds({"text", "image"}, ps) # <<>> => OfKinds(visible, ps) # <<>>
    <3>1. {"text", "image"} \subseteq visible OBVIOUS
    <3>2. OfKinds({"text", "image"}, OfKinds(visible, ps)) = OfKinds({"text", "image"}, ps)
      <4> DEFINE some == {"text", "image"}
      <4>1. some \subseteq visible BY <3>1
      <4> HIDE DEF visible, some, ps
      <4>2. OfKinds(some, OfKinds(visible, m[i].parts)) = OfKinds(some, m[i].parts) BY <1>1, <4>1, OfKindsTwice
      <4> QED BY <4>2 DEF some, ps
    <3>3. OfKinds({"text", "image"}, <<>>) = <<>> BY SelectNone DEF OfKinds
    <3> QED BY <3>2, <3>3
  <2> QED BY <1>5, <2>2, <2>3, <2>5, <2>6, <2>7 DEF ShowsAsk
<1> QED BY <1>1, <1>3, <1>4, <1>5

\* A turn after the last ask is sent with its first call signed.
LEMMA TurnIsSigned ==
  ASSUME ConvInv, modern, NEW l \in 1 .. Len(messages), ShowsAsk(messages[l]),
         NEW k \in 1 .. Len(messages), messages[k].role = "assistant", CallParts(messages[k]) # <<>>,
         \A j \in 1 .. Len(messages) : ShowsAsk(messages[j]) => j < k
  PROVE  \E d \in DOMAIN Signed(Contents(messages)) :
           /\ IdsOf("call", Signed(Contents(messages))[d].parts) = IdsOf("call", messages[k].parts)
           /\ CallParts(Signed(Contents(messages))[d])[1].signed
<1> DEFINE m == messages
           c == Contents(m)
           s == Signed(c)
<1>1. m \in Seq(Utterances) BY DEF ConvInv
<1>2. PICK g : PlacedIn(g, c, m) BY <1>1, ContentsPlaced
<1>3. /\ c \in Seq(GeminiWire) /\ DOMAIN g = 1 .. Len(c)
      /\ \A i \in 1 .. Len(c) : g[i] \in 1 .. Len(m) /\ HasContent(m, g[i]) /\ c[i] = ContentOf(m, g[i])
      /\ \A i, j \in 1 .. Len(c) : i < j => g[i] < g[j]
      /\ \A h \in 1 .. Len(m) : HasContent(m, h) => \E i \in 1 .. Len(c) : g[i] = h
  BY <1>2 DEF PlacedIn
<1>4. \A h \in 1 .. Len(m) : /\ m[h].role = "user" => m[h].parts \in Seq(Written)
                             /\ m[h].role = "assistant" => ResultsFollow(m, h)
  BY DEF ConvInv, TurnsAreWhole
<1>5. /\ l \in 1 .. Len(m) /\ ShowsAsk(m[l]) /\ k \in 1 .. Len(m) /\ m[k].role = "assistant" /\ CallParts(m[k]) # <<>>
      /\ \A j \in 1 .. Len(m) : ShowsAsk(m[j]) => j < k
  OBVIOUS
<1> HIDE DEF m, c
<1>6. \A h \in 1 .. Len(m) : /\ HasContent(m, h) /\ Genuine(ContentOf(m, h)) => ShowsAsk(m[h])
                             /\ ShowsAsk(m[h]) => HasContent(m, h) /\ Genuine(ContentOf(m, h))
  BY <1>1, <1>4, GenuineIsAsk
<1>7. PICK a \in 1 .. Len(c) : g[a] = l BY <1>3, <1>5, <1>6
<1>8. Genuine(c[a]) BY <1>3, <1>5, <1>6, <1>7
<1>9. PICK start : FromStart(c, s, start)
  <2> HIDE DEF s
  <2> QED BY <1>3, <1>8, SignedIs DEF s
<1>10. start \in 1 .. Len(c) /\ Genuine(c[start]) /\ DOMAIN s = 1 .. Len(c)
       /\ \A i \in 1 .. Len(c) : s[i] = IF i < start \/ c[i].role # "model" THEN c[i] ELSE SignedFirst(c[i])
  BY <1>9 DEF FromStart
<1> HIDE DEF s
<1>11. g[start] \in 1 .. Len(m) /\ g[start] < k
  <2>1. g[start] \in 1 .. Len(m) /\ HasContent(m, g[start]) /\ Genuine(ContentOf(m, g[start])) BY <1>3, <1>10
  <2> QED BY <1>5, <1>6, <2>1
<1>12. m[k] \in Utterances BY <1>1, <1>5
<1>13. HasContent(m, k) BY <1>5, <1>12, ShownCalls DEF HasContent
<1>14. PICK d \in 1 .. Len(c) : g[d] = k BY <1>3, <1>5, <1>13
<1>15. ~(d < start)
  <2>1. d < start => g[d] < g[start] BY <1>3, <1>10
  <2>2. g[start] \in Nat /\ k \in Nat BY <1>5, <1>11
  <2> QED BY <1>11, <1>14, <2>1, <2>2
<1>16. /\ c[d].role = "model" /\ c[d].parts = Shown(m[k]) /\ c[d] \in GeminiWire
       /\ IdsOf("call", c[d].parts) = IdsOf("call", m[k].parts)
  <2>1. ContentOf(m, k) = [role |-> "model", parts |-> Shown(m[k])] BY <1>5 DEF ContentOf, GeminiRole
  <2>2. c[d] = ContentOf(m, k) BY <1>3, <1>14
  <2> QED BY <1>3, <1>12, <2>1, <2>2, ShownCalls
<1>17. s[d] = SignedFirst(c[d]) BY <1>10, <1>15, <1>16
<1>18. IdsOf("call", s[d].parts) = IdsOf("call", m[k].parts) BY <1>16, <1>17, SignedFirstIs
<1>19. CallParts(s[d])[1].signed
  <2> DEFINE x == c[d]
             p == x.parts
             q == s[d].parts
  <2>1. p \in Seq(AnyPart) /\ s[d] \in GeminiWire BY <1>16, <1>17, SignedFirstIs DEF GeminiWire
  <2>2. q \in Seq(AnyPart) BY <2>1 DEF GeminiWire
  <2>3. Len(q) = Len(p)
        /\ \A j \in 1 .. Len(p) : q[j].kind = p[j].kind /\ (j \in Firsts(x) => q[j].signed)
    BY <1>16, <1>17, SignedFirstIs
  <2>4. \E j \in 1 .. Len(p) : p[j].kind = "call"
    <3>1. OfKinds({"call"}, p) # <<>> BY <1>5, <1>12, <1>16, ShownCalls
    <3> HIDE DEF p
    <3>2. \E j \in 1 .. Len(p) : p[j].kind \in {"call"} BY <2>1, <3>1, FirstOfKinds
    <3> QED BY <3>2
  <2>5. CallParts(s[d]) = OfKinds({"call"}, q) BY DEF CallParts
  <2>6. Firsts(x) = {j \in DOMAIN p : p[j].kind = "call" /\ \A i \in 1 .. j - 1 : p[i].kind # "call"} BY DEF Firsts
  <2> HIDE DEF p, q, x
  <2>7. PICK j \in 1 .. Len(q) : q[j].kind \in {"call"} BY <2>3, <2>4
  <2>8. OfKinds({"call"}, q) # <<>> BY <2>2, <2>7, OfKindsSome
  <2>9. PICK f \in 1 .. Len(q) : /\ q[f].kind \in {"call"} /\ OfKinds({"call"}, q)[1] = q[f]
                                 /\ \A i \in 1 .. f - 1 : q[i].kind \notin {"call"}
    BY <2>2, <2>8, FirstOfKinds
  <2>10. f \in Firsts(x)
    <3>1. f \in DOMAIN p /\ Len(p) \in Nat BY <2>1, <2>3
    <3>2. p[f].kind = "call" BY <2>3, <2>9
    <3>3. \A i \in 1 .. f - 1 : i \in 1 .. Len(p) BY <2>3, <3>1
    <3>4. \A i \in 1 .. f - 1 : p[i].kind # "call" BY <2>3, <2>9, <3>3
    <3> QED BY <2>6, <3>1, <3>2, <3>4
  <2> QED BY <2>3, <2>5, <2>9, <2>10
<1> QED BY <1>10, <1>18, <1>19 DEF s, c, m

LEMMA LoopIsSigned == ConvInv => TheActiveLoopIsSigned
<1> SUFFICES ASSUME ConvInv PROVE TheActiveLoopIsSigned OBVIOUS
<1> DEFINE c == Contents(messages)
           last == {k \in DOMAIN messages : messages[k].role = "user" /\ OfKinds({"text", "image"}, messages[k].parts) # <<>>}
<1>1. messages \in Seq(Utterances) /\ DOMAIN messages = 1 .. Len(messages) BY DEF ConvInv
<1>2. c \in Seq(GeminiWire) BY <1>1, ContentsPlaced DEF PlacedIn
<1>3. \A k \in 1 .. Len(messages) : k \in last <=> ShowsAsk(messages[k]) BY <1>1 DEF ShowsAsk
<1>4. last \subseteq 1 .. Len(messages) BY <1>1
<1>5. ASSUME modern, last # {}, NEW k \in DOMAIN messages, messages[k].role = "assistant", CallParts(messages[k]) # <<>>,
             \A j \in last : j < k
      PROVE  \E d \in DOMAIN Signed(c) : /\ IdsOf("call", Signed(c)[d].parts) = IdsOf("call", messages[k].parts)
                                         /\ CallParts(Signed(c)[d])[1].signed
  <2>1. PICK l \in last : TRUE BY <1>5
  <2> HIDE DEF last
  <2>2. l \in 1 .. Len(messages) /\ ShowsAsk(messages[l]) BY <1>3, <1>4, <2>1
  <2>3. \A j \in 1 .. Len(messages) : ShowsAsk(messages[j]) => j < k BY <1>3, <1>5
  <2>4. k \in 1 .. Len(messages) BY <1>1, <1>5
  <2> QED BY <1>5, <2>2, <2>3, <2>4, TurnIsSigned
<1>6. /\ DOMAIN Signed(c) = DOMAIN c
      /\ \A k \in DOMAIN Signed(c) : \A j \in DOMAIN Signed(c)[k].parts :
              Signed(c)[k].parts[j] # c[k].parts[j] =>
                /\ modern /\ ~c[k].parts[j].signed /\ j \in Firsts(c[k])
                /\ \A i \in k + 1 .. Len(Signed(c)) : ~Genuine(Signed(c)[i])
  <2> HIDE DEF c
  <2> QED BY <1>2, OthersAreLeft
<1> HIDE DEF c, last
<1> QED BY <1>5, <1>6 DEF TheActiveLoopIsSigned, c, last

\* A turn of a user or of a model with its results is added.
LEMMA TurnsGrow ==
  ASSUME NEW m \in Seq(Utterances), TurnsAreWhole(m), NEW x \in Utterances, NEW r \in Seq(Utterances),
         x.role = "user" => x.parts \in Seq(Written),
         x.role = "assistant" => /\ Len(r) = Len(CallParts(x))
                                 /\ \A j \in 1 .. Len(r) : r[j].call = CallParts(x)[j].call,
         x.role # "tool", \A j \in 1 .. Len(r) : r[j].role = "tool"
  PROVE  m \o (<<x>> \o r) \in Seq(Utterances) /\ TurnsAreWhole(m \o (<<x>> \o r))
<1> DEFINE new == m \o (<<x>> \o r)
           n == Len(m)
<1>1. n \in Nat /\ Len(r) \in Nat OBVIOUS
<1>2. /\ new \in Seq(Utterances) /\ Len(new) = n + 1 + Len(r)
      /\ \A k \in 1 .. n : new[k] = m[k]
      /\ new[n + 1] = x /\ \A j \in 1 .. Len(r) : new[n + 1 + j] = r[j]
  <2> DEFINE y == <<x>> \o r
  <2>1. y \in Seq(Utterances) /\ Len(y) = 1 + Len(r) /\ y[1] = x /\ \A j \in 1 .. Len(r) : y[1 + j] = r[j] OBVIOUS
  <2> HIDE DEF y
  <2>2. /\ m \o y \in Seq(Utterances) /\ Len(m \o y) = n + Len(y)
        /\ \A k \in 1 .. n : (m \o y)[k] = m[k]
        /\ \A j \in 1 .. Len(y) : (m \o y)[n + j] = y[j]
    <3>1. y \in Seq(Utterances) BY <2>1
    <3> DEFINE z == m \o y
    <3>2. z \in Seq(Utterances) /\ Len(z) = n + Len(y) BY <3>1
    <3>3. \A k \in 1 .. n : z[k] = m[k] BY <3>1
    <3>4. \A j \in 1 .. Len(y) : z[n + j] = y[j] BY <3>1
    <3> QED BY <3>2, <3>3, <3>4
  <2>3. (m \o y)[n + 1] = x BY <1>1, <2>1, <2>2
  <2>4. ASSUME NEW j \in 1 .. Len(r) PROVE (m \o y)[n + 1 + j] = r[j]
    <3>1. 1 + j \in 1 .. Len(y) /\ n + (1 + j) = n + 1 + j BY <1>1, <2>1
    <3>2. (m \o y)[n + (1 + j)] = y[1 + j] BY <2>2, <3>1
    <3> QED BY <2>1, <3>1, <3>2
  <2>5. \A k \in 1 .. n : (m \o y)[k] = m[k] BY <2>2
  <2> QED BY <1>1, <2>1, <2>2, <2>3, <2>4, <2>5 DEF y
<1> HIDE DEF new, n
<1>3. ASSUME NEW k \in 1 .. Len(new)
      PROVE  /\ new[k].role = "user" => new[k].parts \in Seq(Written)
             /\ new[k].role = "assistant" => ResultsFollow(new, k)
  <2>1. CASE k \in 1 .. n
    <3>1. new[k] = m[k] /\ (m[k].role = "user" => m[k].parts \in Seq(Written))
          /\ (m[k].role = "assistant" => ResultsFollow(m, k))
      BY <1>2, <2>1 DEF TurnsAreWhole, n
    <3>2. ASSUME m[k].role = "assistant" PROVE ResultsFollow(new, k)
      <4> DEFINE calls == CallParts(m[k])
                 l == Len(calls)
      <4>1. m[k] \in Utterances BY <2>1 DEF n
      <4>2. calls \in Seq(AnyPart) BY <4>1, UtteranceTyped
      <4>3. /\ k + l <= n /\ \A j \in 1 .. l : m[k + j].role = "tool" /\ m[k + j].call = calls[j].call
            /\ k + l < n => m[k + l + 1].role # "tool"
        BY <3>1, <3>2 DEF ResultsFollow, n
      <4>4. CallParts(new[k]) = calls BY <3>1
      <4> HIDE DEF calls
      <4>5. l \in Nat /\ k \in Nat /\ k + l <= Len(new) BY <1>1, <1>2, <2>1, <4>2, <4>3
      <4>6. ASSUME NEW j \in 1 .. l PROVE new[k + j].role = "tool" /\ new[k + j].call = calls[j].call
        <5>1. k + j \in 1 .. n BY <1>1, <4>3, <4>5
        <5> QED BY <1>2, <4>3, <5>1
      <4>7. ASSUME k + l < Len(new) PROVE new[k + l + 1].role # "tool"
        <5>1. CASE k + l < n
          <6>1. k + l + 1 \in 1 .. n BY <1>1, <4>5, <5>1
          <6> QED BY <1>2, <4>3, <5>1, <6>1
        <5>2. CASE ~(k + l < n)
          <6> HIDE DEF l
          <6>1. k + l = n BY <1>1, <4>3, <4>5, <5>2
          <6>2. new[k + l + 1] = x BY <1>2, <6>1
          <6> QED BY <6>2
        <5> QED BY <5>1, <5>2
      <4> QED BY <4>4, <4>5, <4>6, <4>7 DEF ResultsFollow
    <3> QED BY <3>1, <3>2
  <2>2. CASE k = n + 1
    <3>1. new[k] = x BY <1>2, <2>2
    <3>2. ASSUME x.role = "assistant" PROVE ResultsFollow(new, k)
      <4> DEFINE calls == CallParts(x)
                 l == Len(calls)
      <4>1. Len(r) = l /\ \A j \in 1 .. l : r[j].call = calls[j].call /\ r[j].role = "tool" BY <3>2
      <4>2. CallParts(new[k]) = calls BY <3>1
      <4> HIDE DEF calls
      <4>3. k + l = Len(new) /\ ~(k + l < Len(new)) BY <1>1, <1>2, <2>2, <4>1
      <4>4. \A j \in 1 .. l : new[k + j].role = "tool" /\ new[k + j].call = calls[j].call BY <1>2, <2>2, <4>1
      <4>5. k + l <= Len(new) BY <1>1, <2>2, <4>1, <4>3
      <4> QED BY <4>2, <4>3, <4>4, <4>5 DEF ResultsFollow
    <3> QED BY <3>1, <3>2
  <2>3. CASE ~(k <= n + 1)
    <3>1. k - (n + 1) \in 1 .. Len(r) /\ n + 1 + (k - (n + 1)) = k BY <1>1, <1>2, <2>3
    <3>2. new[k].role = "tool" BY <1>2, <3>1
    <3> QED BY <3>2
  <2>4. k \in 1 .. n \/ k = n + 1 \/ ~(k <= n + 1) BY <1>1, <1>2
  <2> QED BY <2>1, <2>2, <2>3, <2>4
<1>4. TurnsAreWhole(new) BY <1>3 DEF TurnsAreWhole
<1> QED BY <1>2, <1>4 DEF new

LEMMA UserAsksStep == ASSUME ConvInv, NEW p \in Inputs, UserAsks(p) PROVE ConvInv'
<1> DEFINE x == Spoken("user", p, 0)
<1>0. messages \in Seq(Utterances) /\ TurnsAreWhole(messages) /\ turns' \in Nat /\ modern' \in BOOLEAN
      /\ messages' = Append(messages, x)
  BY DEF ConvInv, UserAsks
<1>1. p \in Seq(Written) BY ConversionAssumption
<1>2. p \in Seq(AnyPart)
  <2>1. Written \subseteq AnyPart BY DEF Written
  <2>2. Len(p) \in Nat /\ p = [k \in 1 .. Len(p) |-> p[k]] /\ \A k \in 1 .. Len(p) : p[k] \in Written BY <1>1
  <2>3. p \in [1 .. Len(p) -> AnyPart] BY <2>1, <2>2
  <2> QED BY <2>2, <2>3, IsASeq
<1>3. x \in Utterances /\ x.role = "user" /\ x.parts = p BY <1>2 DEF Spoken, Utterances
<1> HIDE DEF x
<1> DEFINE r == <<>>
<1>4. r \in Seq(Utterances) /\ 1 .. Len(r) = {} OBVIOUS
<1>5. messages' = messages \o (<<x>> \o r)
  <2>1. <<x>> \o <<>> = <<x>> /\ Append(messages, x) = messages \o <<x>> BY <1>0, <1>3
  <2> QED BY <1>0, <2>1
<1> HIDE DEF r
<1>6. messages \o (<<x>> \o r) \in Seq(Utterances) /\ TurnsAreWhole(messages \o (<<x>> \o r))
  BY <1>0, <1>1, <1>3, <1>4, TurnsGrow
<1>7. messages' \in Seq(Utterances) /\ TurnsAreWhole(messages') BY <1>5, <1>6
<1> QED BY <1>0, <1>7 DEF ConvInv

LEMMA ModelTurnsStep == ASSUME ConvInv, NEW p \in Turns, NEW o \in Outputs, ModelTurns(p, o) PROVE ConvInv'
<1> DEFINE own == Numbered(p)
           calls == OfKinds({"call"}, own)
           x == Spoken("assistant", own, 0)
           r == [k \in DOMAIN calls |-> Spoken("tool", o, calls[k].call)]
<1>0. messages \in Seq(Utterances) /\ TurnsAreWhole(messages) /\ turns \in Nat /\ turns' \in Nat /\ modern' \in BOOLEAN
      /\ messages' = messages \o (<<x>> \o r)
  BY DEF ConvInv, ModelTurns
<1>1. p \in Seq(AnyPart) /\ o \in Seq(AnyPart) BY ConversionAssumption
<1>2. own \in Seq(AnyPart)
  <2>1. DOMAIN p = 1 .. Len(p) /\ Len(p) \in Nat /\ \A k \in 1 .. Len(p) : p[k] \in AnyPart BY <1>1
  <2>2. ASSUME NEW k \in 1 .. Len(p) PROVE own[k] \in AnyPart
    <3> DEFINE q == p[k]
    <3>1. q \in AnyPart BY <2>1
    <3>2. own[k] = IF q.kind = "call" THEN [q EXCEPT !.call = 10 * turns + @] ELSE q BY <2>1 DEF Numbered
    <3> HIDE DEF q
    <3>3. q.call \in Nat /\ 10 * turns + q.call \in Nat BY <1>0, <3>1 DEF AnyPart
    <3>4. [q EXCEPT !.call = 10 * turns + @] \in AnyPart BY <3>1, <3>3 DEF AnyPart
    <3> QED BY <3>1, <3>2, <3>4
  <2>3. own = [k \in 1 .. Len(p) |-> own[k]] BY <2>1 DEF Numbered
  <2> HIDE DEF own
  <2>4. own \in [1 .. Len(p) -> AnyPart] BY <2>2, <2>3
  <2> QED BY <2>1, <2>4, IsASeq
<1> HIDE DEF own
<1>3. calls \in Seq(AnyPart) BY <1>2, OfKindsTyped
<1>4. x \in Utterances /\ x.role = "assistant" /\ CallParts(x) = calls BY <1>2 DEF Spoken, Utterances, CallParts
<1> HIDE DEF x, calls
<1>5. DOMAIN calls = 1 .. Len(calls) /\ Len(calls) \in Nat /\ \A k \in 1 .. Len(calls) : calls[k].call \in Nat
  <2>1. \A q \in AnyPart : q.call \in Nat BY DEF AnyPart
  <2>2. DOMAIN calls = 1 .. Len(calls) /\ Len(calls) \in Nat /\ \A k \in 1 .. Len(calls) : calls[k] \in AnyPart BY <1>3
  <2> QED BY <2>1, <2>2
<1>6. \A k \in 1 .. Len(calls) : r[k].role = "tool" /\ r[k].call = calls[k].call /\ r[k] \in Utterances
  BY <1>1, <1>5 DEF Spoken, Utterances
<1>7. r \in Seq(Utterances) /\ Len(r) = Len(calls)
  <2>1. r \in [1 .. Len(calls) -> Utterances] BY <1>5, <1>6
  <2> HIDE DEF r
  <2> QED BY <1>5, <2>1, IsASeq
<1> HIDE DEF r
<1>8. messages \o (<<x>> \o r) \in Seq(Utterances) /\ TurnsAreWhole(messages \o (<<x>> \o r))
  <2>1. Len(r) = Len(CallParts(x)) /\ \A j \in 1 .. Len(r) : r[j].call = CallParts(x)[j].call BY <1>4, <1>6, <1>7
  <2>2. \A j \in 1 .. Len(r) : r[j].role = "tool" BY <1>6, <1>7
  <2> QED BY <1>0, <1>4, <1>7, <2>1, <2>2, TurnsGrow
<1>9. messages' \in Seq(Utterances) /\ TurnsAreWhole(messages') BY <1>0, <1>8
<1> QED BY <1>0, <1>9 DEF ConvInv

\* ConvInv is inductive: a transcript is of turns, each with the results of its calls in
\* their order right behind it, and users do not call (the loop's turns, as the
\* converters get them).
THEOREM ConversionInductive == ConvSpec => []ConvInv
<1>1. ConvInit => ConvInv
  <2> SUFFICES ASSUME ConvInit PROVE ConvInv OBVIOUS
  <2>1. messages = <<>> /\ turns = 0 /\ modern \in BOOLEAN BY DEF ConvInit
  <2>2. <<>> \in Seq(Utterances) /\ 1 .. Len(<<>>) = {} OBVIOUS
  <2>3. TurnsAreWhole(<<>>) BY <2>2 DEF TurnsAreWhole
  <2> QED BY <2>1, <2>2, <2>3 DEF ConvInv
<1>2. ConvInv /\ [ConvNext]_convVars => ConvInv'
  <2>1. ConvInv /\ ConvNext => ConvInv' BY UserAsksStep, ModelTurnsStep DEF ConvNext
  <2>2. ConvInv /\ UNCHANGED convVars => ConvInv' BY DEF ConvInv, convVars
  <2> QED BY <2>1, <2>2
<1> QED BY <1>1, <1>2, PTL DEF ConvSpec

\* Whatever a transcript consists of, every provider is sent the conversation whole and
\* in order, and a Gemini 3 a signature with the first call of every turn of the active
\* loop (ConvertMessages, convertMessages, messagesToInput, ensureActiveLoopSignatures).
THEOREM ConversionStaysSound == ConvSpec => []ConversionIsSound
<1>1. ConvInv => ConversionIsSound BY TalkIsSent, LoopIsSigned DEF ConversionIsSound
<1> QED BY <1>1, ConversionInductive, PTL
=============================================================================
