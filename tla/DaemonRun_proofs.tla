-------------------------- MODULE DaemonRun_proofs --------------------------
(***************************************************************************)
(* Proofs about DaemonRun, for every set of requests, keys, posts and      *)
(* subscribers: the invariant DaemonInv is inductive, it implies that accepted  *)
(* decisions are delivered, that no wake-up is lost and that closed        *)
(* streams are complete, with LogInv that the event log is well formed,    *)
(* and the permission exchange implements DecideOnce.                      *)
(***************************************************************************)
EXTENDS DaemonRun, SequenceTheorems, TLAPS

USE DEF None

-----------------------------------------------------------------------------
(* Types. *)

EventTypes == {"run_start", "loop", "permission_request", "run_done", "run_error"}
Event == [type : EventTypes, ask : Asks \cup {None}]

\* Appending an event keeps the log typed, makes it one longer and leaves the
\* events before it where they were.
LEMMA EmitTyped ==
  ASSUME RunTypeOK, NEW type \in EventTypes, NEW a \in Asks \cup {None}, Emit(type, a)
  PROVE  /\ events' \in Seq(Event)
         /\ Len(events') = Len(events) + 1 /\ Len(events) \in Nat
         /\ \A i \in 1 .. Len(events) : events'[i] = events[i]
         /\ events'[Len(events) + 1] = [type |-> type, ask |-> a]
         /\ woken' = Watchers
<1>1. events \in Seq(Event) BY DEF RunTypeOK, Event, EventTypes
<1>2. [type |-> type, ask |-> a] \in Event BY DEF Event
<1> QED BY <1>1, <1>2, AppendProperties, LenProperties DEF Emit

\* Every step keeps the types.
LEMMA TypeStep ==
  ASSUME RunTypeOK, [DaemonNext]_daemonVars
  PROVE  RunTypeOK'
<1> USE DaemonAssumption DEF Stages, Answers, Streams
<1>1. CASE StartRun
  BY <1>1, EmitTyped DEF StartRun, RunTypeOK, Event, EventTypes, askVars, postVars, watchVars
<1>2. CASE ForwardEvent
  BY <1>2, EmitTyped DEF ForwardEvent, RunTypeOK, Event, EventTypes, runVars, askVars, postVars, watchVars
<1>3. CASE PromptReturns
  BY <1>3 DEF PromptReturns, RunTypeOK, logVars, askVars, postVars, watchVars
<1>4. CASE Report
  <2>1. Emit(IF promptResult = "ok" THEN "run_done" ELSE "run_error", None) BY <1>4 DEF Report
  <2>2. events' \in Seq(Event) /\ woken' = Watchers
    <3>1. CASE promptResult = "ok" BY <2>1, <3>1, EmitTyped DEF EventTypes
    <3>2. CASE promptResult # "ok" BY <2>1, <3>2, EmitTyped DEF EventTypes
    <3> QED BY <3>1, <3>2
  <2> QED BY <1>4, <2>2 DEF Report, RunTypeOK, Event, EventTypes, askVars, postVars, watchVars
<1>5. CASE FinishRun
  BY <1>5 DEF FinishRun, RunTypeOK, askVars, postVars, watchVars
<1>6. CASE CancelRun
  BY <1>6 DEF CancelRun, WatchRest, RunTypeOK, runVars, askVars, postVars, watchVars
<1>7. ASSUME NEW a \in Asks, Ask(a) PROVE RunTypeOK'
  <2>1. ret' \in [Asks -> Answers] BY <1>7 DEF Ask, Returns, RunTypeOK
  <2>2. \E s \in {"new", "returned"} : decide' = [decide EXCEPT ![a] = s]
    BY <1>7 DEF Ask, Returns
  <2>3. decide' \in [Asks -> Stages] BY <2>2 DEF RunTypeOK
  <2> QED BY <1>7, <2>1, <2>3 DEF Ask, AskRest, RunTypeOK, logVars, runVars, postVars, watchVars
<1>8. ASSUME NEW a \in Asks, Register(a) PROVE RunTypeOK'
  BY <1>8 DEF Register, AskRest, RunTypeOK, logVars, runVars, postVars, watchVars
<1>9. ASSUME NEW a \in Asks, Announce(a) PROVE RunTypeOK'
  <2>1. events' \in Seq(Event) /\ woken' = Watchers
    BY <1>9, EmitTyped DEF Announce, EventTypes
  <2> QED BY <1>9, <2>1 DEF Announce, AskRest, RunTypeOK, Event, EventTypes, runVars, postVars, watchVars
<1>10. ASSUME NEW a \in Asks, Receive(a) PROVE RunTypeOK'
  <2>1. channel[a] \in Decisions /\ KeyOf[a] \in Keys BY <1>10 DEF Receive, RunTypeOK
  <2>2. ret' \in [Asks -> Answers]
    BY <1>10, <2>1 DEF Receive, Returns, RunTypeOK
  <2>3. grants' \subseteq Keys BY <1>10, <2>1 DEF Receive, Remember, RunTypeOK
  <2>4. decide' \in [Asks -> Stages]
    <3>1. decide' = [decide EXCEPT ![a] = "returned"] BY <1>10 DEF Receive, Returns
    <3> QED BY <3>1 DEF RunTypeOK
  <2>5. channel' \in [Asks -> Decisions \cup {None}] BY <1>10 DEF Receive, RunTypeOK
  <2> QED BY <1>10, <2>2, <2>3, <2>4, <2>5
          DEF Receive, AskRest, RunTypeOK, logVars, runVars, postVars, watchVars
<1>11. ASSUME NEW a \in Asks, NEW why \in {"timed out", "canceled"}, Expire(a, why) PROVE RunTypeOK'
  <2>1. ret' \in [Asks -> Answers]
    BY <1>11 DEF Expire, Returns, RunTypeOK
  <2>2. /\ decide' \in [Asks -> Stages]
        /\ pending' \subseteq Asks
    BY <1>11 DEF Expire, Returns, RunTypeOK
  <2> QED BY <1>11, <2>1, <2>2 DEF Expire, AskRest, RunTypeOK, logVars, runVars, postVars, watchVars
<1>12. ASSUME NEW p \in Posts, Send(p) PROVE RunTypeOK'
  <2>1. post[p] \in [ask : Asks, decision : Decisions] BY <1>12 DEF Send, RunTypeOK
  <2>2. channel' \in [Asks -> Decisions \cup {None}] BY <1>12, <2>1 DEF Send, RunTypeOK
  <2>3. told' \in [Posts -> {None, "accepted", "not found"}] BY <1>12 DEF Send, RunTypeOK
  <2> QED BY <1>12, <2>2, <2>3 DEF Send, PostRest, RunTypeOK, runVars, logVars, watchVars
<1>13. ASSUME NEW p \in Posts, NEW a \in Asks, NEW d \in Decisions, Claim(p, a, d) PROVE RunTypeOK'
  <2>1. [ask |-> a, decision |-> d] \in [ask : Asks, decision : Decisions] OBVIOUS
  <2>2. post' \in [Posts -> [ask : Asks, decision : Decisions] \cup {Unsent}]
    BY <1>13, <2>1 DEF Claim, RunTypeOK
  <2>3. told' \in [Posts -> {None, "accepted", "not found"}] /\ pending' \subseteq Asks
    BY <1>13 DEF Claim, RunTypeOK
  <2> QED BY <1>13, <2>2, <2>3 DEF Claim, PostRest, RunTypeOK, runVars, logVars, watchVars
<1>14. ASSUME NEW w \in Watchers, Watch(w) \/ Disconnect(w) PROVE RunTypeOK'
  <2>1. /\ watch \in [Watchers -> Streams] /\ watch[w] \in Streams
        /\ watch[w].sent + 1 \in Nat /\ Len(events) \in Nat /\ Done \in BOOLEAN
    <3>1. watch \in [Watchers -> Streams] /\ watch[w] \in Streams BY DEF RunTypeOK
    <3>2. watch[w].sent \in Nat BY <3>1
    <3>3. watch[w].sent + 1 \in Nat BY <3>2
    <3>4. Len(events) \in Nat BY LenProperties DEF RunTypeOK
    <3> QED BY <3>1, <3>3, <3>4 DEF Done
  <2> HIDE DEF Stages, Answers
  <2>2. watch' \in [Watchers -> Streams] /\ woken' \subseteq Watchers /\ ctxCancelled' \in BOOLEAN
    <3> USE DEF RunTypeOK
    <3>1. CASE Snapshot(w) BY <2>1, <3>1 DEF Snapshot
    <3>2. CASE WriteEvent(w) BY <2>1, <3>2 DEF WriteEvent
    <3>3. CASE Written(w) BY <2>1, <3>3 DEF Written
    <3>4. CASE Disconnect(w) BY <2>1, <3>4 DEF Disconnect
    <3> QED BY <1>14, <3>1, <3>2, <3>3, <3>4 DEF Watch
  <2>3. WatchRest BY <1>14 DEF Watch, Snapshot, WriteEvent, Written, Disconnect
  <2> QED BY <2>2, <2>3 DEF RunTypeOK, WatchRest, runVars, askVars, postVars
<1>15. CASE UNCHANGED daemonVars
  BY <1>15 DEF daemonVars, runVars, logVars, askVars, postVars, watchVars, RunTypeOK
<1> QED
  BY <1>1, <1>2, <1>3, <1>4, <1>5, <1>6, <1>7, <1>8, <1>9, <1>10, <1>11, <1>12, <1>13, <1>14,
     <1>15 DEF DaemonNext, RunStep, Decide, TimesOut, CtxDone

-----------------------------------------------------------------------------
(* Requests. *)

\* Only the announcement of a request announces it.
LEMMA EmitAnnounces ==
  ASSUME RunTypeOK, NEW type \in EventTypes, NEW a \in Asks \cup {None}, Emit(type, a), NEW b \in Asks
  PROVE  Announced(b)' <=> Announced(b) \/ (type = "permission_request" /\ a = b)
<1>1. events \in Seq(Event) BY DEF RunTypeOK, Event, EventTypes
<1>2. DOMAIN events = 1 .. Len(events) /\ Len(events) \in Nat BY <1>1, LenProperties
<1>3. DOMAIN events' = 1 .. (Len(events) + 1) BY EmitTyped, LenProperties
<1>4. 1 .. (Len(events) + 1) = 1 .. Len(events) \cup {Len(events) + 1} BY <1>2
<1>5. \A i \in 1 .. Len(events) : events'[i] = events[i] BY EmitTyped
<1>6. events'[Len(events) + 1] = [type |-> type, ask |-> a] BY EmitTyped
<1>7. Announced(b)' <=> \E i \in 1 .. (Len(events) + 1) :
                          events'[i].type = "permission_request" /\ events'[i].ask = b
  BY <1>3 DEF Announced
<1>8. Announced(b) <=> \E i \in 1 .. Len(events) :
                         events[i].type = "permission_request" /\ events[i].ask = b
  BY <1>2 DEF Announced
<1> QED BY <1>4, <1>5, <1>6, <1>7, <1>8

\* The log keeps its announcements when it does not change.
LEMMA SameLogAnnounces ==
  ASSUME UNCHANGED events, NEW b \in Asks
  PROVE  Announced(b)' <=> Announced(b)
  BY DEF Announced

\* A request whose own state does not change stays well.
LEMMA RequestFrame ==
  ASSUME NEW a \in Asks, RequestOK(a),
         a \in pending' <=> a \in pending, decide'[a] = decide[a],
         channel'[a] = channel[a], ret'[a] = ret[a],
         Claims(a)' = Claims(a),
         \A p \in Claims(a) : told'[p] = told[p] /\ post'[p] = post[p],
         Announced(a)' <=> Announced(a)
  PROVE  RequestOK(a)'
<1>1. Unborn(a) => Unborn(a)' BY DEF Unborn
<1>2. Opened(a) => Opened(a)' BY DEF Opened
<1>3. Claimed(a) => Claimed(a)' BY DEF Claimed
<1>4. Over(a) => Over(a)' BY DEF Over
<1> QED BY <1>1, <1>2, <1>3, <1>4 DEF RequestOK

\* When no post moves, the claims stay as they are.
LEMMA SamePosts ==
  ASSUME UNCHANGED <<post, told>>, NEW a \in Asks
  PROVE  Claims(a)' = Claims(a)
  BY DEF Claims

\* A post that carries nothing yet claims nothing.
LEMMA UnsentClaimsNothing ==
  ASSUME RunTypeOK, NEW p \in Posts, post[p] = Unsent, NEW a \in Asks
  PROVE  p \notin Claims(a)
<1>1. post[p].ask = None BY DEF Unsent
<1> QED BY <1>1, DaemonAssumption DEF Claims

\* Each step of Decide takes its own request from one stage to the next.
LEMMA AskStep ==
  ASSUME RunTypeOK, NEW a \in Asks, RequestOK(a), Ask(a)
  PROVE  RequestOK(a)'
<1>1. Unborn(a) BY DEF Ask, RequestOK
<1>2. Claims(a)' = Claims(a) BY SamePosts DEF Ask, AskRest, postVars
<1>3. Announced(a)' <=> Announced(a) BY SameLogAnnounces DEF Ask, logVars
<1>4. \/ decide'[a] = "new" /\ ret' = ret
      \/ decide'[a] = "returned" /\ ret'[a] \in {"policy", "policy error", "cached"}
  BY DEF Ask, Returns, RunTypeOK
<1>5. pending' = pending /\ channel' = channel BY DEF Ask
<1>6. CASE decide'[a] = "new" /\ ret' = ret
  BY <1>1, <1>2, <1>3, <1>5, <1>6 DEF Unborn, RequestOK
<1>7. CASE decide'[a] = "returned" /\ ret'[a] \in {"policy", "policy error", "cached"}
  BY <1>1, <1>2, <1>3, <1>5, <1>7 DEF Unborn, RequestOK, Over
<1> QED BY <1>4, <1>6, <1>7

LEMMA RegisterStep ==
  ASSUME RunTypeOK, NEW a \in Asks, RequestOK(a), Register(a)
  PROVE  RequestOK(a)'
<1>1. Unborn(a) BY DEF Register, RequestOK
<1>2. Claims(a)' = Claims(a) BY SamePosts DEF Register, AskRest, postVars
<1>3. Announced(a)' <=> Announced(a) BY SameLogAnnounces DEF Register, logVars
<1>4. decide'[a] = "registered" /\ a \in pending' /\ UNCHANGED <<ret, channel>>
  BY DEF Register, RunTypeOK
<1> QED BY <1>1, <1>2, <1>3, <1>4 DEF Unborn, RequestOK, Opened

LEMMA AnnounceStep ==
  ASSUME RunTypeOK, NEW a \in Asks, RequestOK(a), Announce(a)
  PROVE  RequestOK(a)'
<1>1. Opened(a) BY DEF Announce, RequestOK
<1>2. Claims(a)' = Claims(a) BY SamePosts DEF Announce, AskRest, postVars
<1>3. decide'[a] = "waiting" /\ UNCHANGED <<ret, channel, pending>>
  BY DEF Announce, RunTypeOK
<1> QED BY <1>1, <1>2, <1>3 DEF RequestOK, Opened

\* What Receive takes from the channel is the decision of the post that claimed it.
LEMMA ReceivedIsClaimed ==
  ASSUME RunTypeOK, NEW a \in Asks, RequestOK(a), Receive(a)
  PROVE  Claimed(a) /\ \E p \in Posts : Claims(a) = {p} /\ told[p] = "accepted"
                                        /\ channel[a] = post[p].decision
<1>1. Claimed(a) BY DEF Receive, RequestOK, Opened
<1>2. PICK p \in Posts : /\ Claims(a) = {p}
                         /\ told[p] = None => channel[a] = None
                         /\ told[p] = "accepted" => channel[a] = post[p].decision
  BY <1>1 DEF Claimed
<1>3. told[p] # None BY <1>2 DEF Receive
<1>4. told[p] # "not found" BY <1>2 DEF Claims
<1>5. told[p] = "accepted" BY <1>3, <1>4 DEF RunTypeOK
<1> QED BY <1>1, <1>2, <1>5

LEMMA ReceiveStep ==
  ASSUME RunTypeOK, NEW a \in Asks, RequestOK(a), Receive(a)
  PROVE  RequestOK(a)'
<1>1. PICK p \in Posts : Claims(a) = {p} /\ told[p] = "accepted" /\ channel[a] = post[p].decision
  BY ReceivedIsClaimed
<1>2. Claims(a)' = {p} /\ UNCHANGED <<post, told>>
  BY <1>1, SamePosts DEF Receive, AskRest, postVars
<1>3. decide'[a] = "returned" /\ pending' = pending /\ channel'[a] = None
  BY DEF Receive, Returns, RunTypeOK
<1>4. a \notin pending BY ReceivedIsClaimed DEF Claimed
<1>5. \/ ret'[a] = post[p].decision
      \/ post[p].decision = "remember" /\ ret'[a] = "failed"
  BY <1>1 DEF Receive, Returns, RunTypeOK
<1> QED BY <1>1, <1>2, <1>3, <1>4, <1>5 DEF RequestOK, Over

LEMMA ExpireStep ==
  ASSUME RunTypeOK, NEW a \in Asks, RequestOK(a), NEW why \in {"timed out", "canceled"}, Expire(a, why)
  PROVE  RequestOK(a)'
<1>1. Claims(a)' = Claims(a) /\ UNCHANGED <<post, told>> /\ channel' = channel
  BY SamePosts DEF Expire, AskRest, postVars
<1>2. Opened(a) \/ Claimed(a) BY DEF Expire, RequestOK
<1>3. CASE a \in pending
  <2>1. Opened(a) BY <1>2, <1>3 DEF Claimed
  <2>2. a \notin pending' /\ decide'[a] = "returned" /\ ret'[a] = why
    BY <1>3 DEF Expire, Returns, RunTypeOK
  <2> QED BY <1>1, <2>1, <2>2 DEF RequestOK, Opened, Over
<1>4. CASE a \notin pending
  <2>1. Claimed(a) BY <1>2, <1>4 DEF Opened
  <2>2. UNCHANGED <<pending, ret>> /\ decide'[a] = "late" BY <1>4 DEF Expire, RunTypeOK
  <2> QED BY <1>1, <2>1, <2>2 DEF RequestOK, Claimed
<1> QED BY <1>3, <1>4

\* A post claims an open request for itself, or claims nothing.
LEMMA ClaimStep ==
  ASSUME RunTypeOK, RequestInv, PostInv, NEW p \in Posts, NEW a \in Asks, NEW d \in Decisions,
         Claim(p, a, d), NEW b \in Asks
  PROVE  RequestOK(b)'
<1>1. p \notin Claims(b) BY UnsentClaimsNothing DEF Claim
<1>2. told[p] = None BY DEF Claim, PostInv
<1>3. \A q \in Posts : q # p => post'[q] = post[q] /\ told'[q] = told[q]
  BY DEF Claim, RunTypeOK
<1>4. post'[p] = [ask |-> a, decision |-> d] BY DEF Claim, RunTypeOK
<1>5. UNCHANGED <<channel, decide, ret>> /\ (Announced(b)' <=> Announced(b))
  BY SameLogAnnounces DEF Claim, PostRest, logVars
<1>6. RequestOK(b) BY DEF RequestInv
<1>7. CASE a \in pending /\ b = a
  <2>1. pending' = pending \ {a} /\ told'[p] = None BY <1>2, <1>7 DEF Claim
  <2>2. decide[a] = "waiting" /\ Opened(a)
    BY <1>6, <1>7 DEF Claim, RequestOK, Unborn, Claimed, Over, RunTypeOK, Stages
  <2>3. Claims(a)' = {p}
    <3>1. \A q \in Posts : q # p => (q \in Claims(a)' <=> q \in Claims(a)) BY <1>3 DEF Claims
    <3>2. post'[p].ask = a /\ told'[p] # "not found" BY <1>4, <2>1
    <3>3. p \in Claims(a)' BY <3>2 DEF Claims
    <3>4. Claims(a)' \subseteq Posts BY DEF Claims
    <3> QED BY <2>2, <3>1, <3>3, <3>4 DEF Opened
  <2>4. Claimed(a)' BY <1>5, <2>1, <2>2, <2>3 DEF Opened, Claimed
  <2> QED BY <1>5, <1>7, <2>2, <2>4 DEF RequestOK
<1>8. CASE a \in pending /\ b # a
  <2>1. b \in pending' <=> b \in pending BY <1>8 DEF Claim
  <2>2. Claims(b)' = Claims(b)
    <3>1. \A q \in Posts : q # p => (q \in Claims(b)' <=> q \in Claims(b)) BY <1>3 DEF Claims
    <3>2. post'[p].ask = a BY <1>4
    <3>4. p \notin Claims(b)' BY <1>8, <3>2 DEF Claims
    <3>3. Claims(b) \subseteq Posts /\ Claims(b)' \subseteq Posts BY DEF Claims
    <3> QED BY <1>1, <3>1, <3>4, <3>3
  <2>3. \A q \in Claims(b) : told'[q] = told[q] /\ post'[q] = post[q] BY <1>1, <1>3 DEF Claims
  <2> QED BY <1>5, <1>6, <2>1, <2>2, <2>3, RequestFrame
<1>9. CASE a \notin pending
  <2>1. pending' = pending /\ told'[p] = "not found" BY <1>9 DEF Claim, RunTypeOK
  <2>2. Claims(b)' = Claims(b) BY <1>1, <1>3, <2>1 DEF Claims
  <2>3. \A q \in Claims(b) : told'[q] = told[q] /\ post'[q] = post[q] BY <1>1, <1>3 DEF Claims
  <2> QED BY <1>5, <1>6, <2>1, <2>2, <2>3, RequestFrame
<1> QED BY <1>7, <1>8, <1>9

\* A post that is neither answered nor empty is the one that claimed its request.
LEMMA SenderClaimed ==
  ASSUME RunTypeOK, RequestInv, NEW p \in Posts, post[p] # Unsent, told[p] # "not found"
  PROVE  /\ post[p].ask \in Asks /\ post[p].decision \in Decisions
         /\ Claims(post[p].ask) = {p}
         /\ told[p] = None => Claimed(post[p].ask) /\ decide[post[p].ask] \in {"waiting", "late"}
<1>1. post[p] \in [ask : Asks, decision : Decisions] BY DEF RunTypeOK
<1> DEFINE a == post[p].ask
<1>2. a \in Asks /\ p \in Claims(a) BY <1>1 DEF Claims
<1>3. RequestOK(a) BY <1>2 DEF RequestInv
<1>4. Claimed(a) \/ Over(a)
  BY <1>2, <1>3 DEF RequestOK, Unborn, Opened, RunTypeOK, Stages
<1>5. Claims(a) = {p} BY <1>2, <1>4 DEF Claimed, Over
<1>6. told[p] = None => ~Over(a) BY <1>5 DEF Over
<1>7. told[p] = None => decide[a] \in {"waiting", "late"}
  BY <1>2, <1>3, <1>6 DEF RequestOK, Unborn, Opened, RunTypeOK, Stages
<1> QED BY <1>1, <1>2, <1>4, <1>5, <1>6, <1>7

\* The decision goes to the request its post claimed.
LEMMA SendStep ==
  ASSUME RunTypeOK, RequestInv, NEW p \in Posts, Send(p), NEW b \in Asks
  PROVE  RequestOK(b)'
<1> DEFINE a == post[p].ask
<1>1. post[p] # Unsent /\ told[p] = None BY DEF Send
<1>2. /\ a \in Asks /\ Claims(a) = {p} /\ post[p].decision \in Decisions
      /\ Claimed(a) /\ decide[a] \in {"waiting", "late"}
  BY <1>1, SenderClaimed
<1>3. /\ \A q \in Posts : told'[q] = IF q = p THEN "accepted" ELSE told[q]
      /\ \A c \in Asks : channel'[c] = IF c = a THEN post[p].decision ELSE channel[c]
  BY <1>2 DEF Send, RunTypeOK
<1>4. UNCHANGED <<pending, post, decide, ret>> /\ (Announced(b)' <=> Announced(b))
  BY SameLogAnnounces DEF Send, PostRest, logVars
<1>5. Claims(b)' = Claims(b) BY <1>1, <1>3, <1>4 DEF Claims
<1>6. RequestOK(b) BY DEF RequestInv
<1>7. CASE b = a
  <2>1. Claimed(a)' BY <1>2, <1>3, <1>4, <1>5, <1>7 DEF Claimed
  <2> QED BY <1>2, <1>4, <1>7, <2>1 DEF RequestOK
<1>8. CASE b # a
  <2>1. p \notin Claims(b) BY <1>8 DEF Claims
  <2>2. \A q \in Claims(b) : told'[q] = told[q] /\ post'[q] = post[q]
    BY <1>3, <1>4, <2>1 DEF Claims
  <2> QED BY <1>3, <1>4, <1>5, <1>6, <1>8, <2>2, RequestFrame
<1> QED BY <1>7, <1>8

\* A step of one request leaves the others alone.
LEMMA OtherRequests ==
  ASSUME RunTypeOK, RequestInv, NEW a \in Asks, Decide(a), NEW b \in Asks, b # a
  PROVE  RequestOK(b)'
<1>1. RequestOK(b) BY DEF RequestInv
<1>2. UNCHANGED <<post, told>> /\ Claims(b)' = Claims(b)
  BY SamePosts DEF Decide, Ask, Register, Announce, Receive, TimesOut, CtxDone, Expire, AskRest,
                   postVars
<1>3. /\ b \in pending' <=> b \in pending
      /\ decide'[b] = decide[b] /\ channel'[b] = channel[b] /\ ret'[b] = ret[b]
  <2> USE DEF Returns, RunTypeOK
  <2>1. CASE Ask(a) BY <2>1 DEF Ask
  <2>2. CASE Register(a) BY <2>2 DEF Register
  <2>3. CASE Announce(a) BY <2>3 DEF Announce
  <2>4. CASE Receive(a) BY <2>4 DEF Receive
  <2>5. ASSUME NEW why \in {"timed out", "canceled"}, Expire(a, why)
        PROVE  /\ b \in pending' <=> b \in pending
               /\ decide'[b] = decide[b] /\ channel'[b] = channel[b] /\ ret'[b] = ret[b]
    BY <2>5 DEF Expire
  <2> QED BY <2>1, <2>2, <2>3, <2>4, <2>5 DEF Decide, TimesOut, CtxDone
<1>4. Announced(b)' <=> Announced(b)
  <2>1. CASE Announce(a)
    BY <2>1, EmitAnnounces DEF Announce, EventTypes
  <2>2. CASE ~Announce(a)
    BY <2>2, SameLogAnnounces
       DEF Decide, Ask, Register, Receive, TimesOut, CtxDone, Expire, logVars
  <2> QED BY <2>1, <2>2
<1> QED BY <1>1, <1>2, <1>3, <1>4, RequestFrame

\* Every step keeps every request well.
LEMMA RequestStep ==
  ASSUME RunTypeOK, RequestInv, PostInv, [DaemonNext]_daemonVars
  PROVE  RequestInv'
<1> SUFFICES ASSUME NEW b \in Asks PROVE RequestOK(b)' BY DEF RequestInv
<1>1. RequestOK(b) BY DEF RequestInv
<1>2. ASSUME UNCHANGED <<askVars, postVars>>, Announced(b)' <=> Announced(b)
      PROVE  RequestOK(b)'
  <2>1. Claims(b)' = Claims(b) BY <1>2, SamePosts DEF postVars
  <2> QED BY <1>1, <1>2, <2>1, RequestFrame DEF askVars, postVars
<1>3. ASSUME NEW type \in EventTypes \ {"permission_request"}, Emit(type, None)
      PROVE  Announced(b)' <=> Announced(b)
  BY <1>3, EmitAnnounces
<1>4. CASE RunStep \/ ForwardEvent \/ CancelRun
  <2>1. CASE StartRun BY <1>2, <1>3, <2>1 DEF StartRun, EventTypes
  <2>2. CASE PromptReturns BY <1>2, <2>2, SameLogAnnounces DEF PromptReturns, logVars
  <2>3. CASE Report
    <3>1. CASE promptResult = "ok" BY <1>2, <1>3, <2>3, <3>1 DEF Report, EventTypes
    <3>2. CASE promptResult # "ok" BY <1>2, <1>3, <2>3, <3>2 DEF Report, EventTypes
    <3> QED BY <3>1, <3>2
  <2>4. CASE FinishRun BY <1>2, <2>4, SameLogAnnounces DEF FinishRun
  <2>5. CASE ForwardEvent BY <1>2, <1>3, <2>5 DEF ForwardEvent, EventTypes
  <2>6. CASE CancelRun BY <1>2, <2>6, SameLogAnnounces DEF CancelRun, WatchRest
  <2> QED BY <1>4, <2>1, <2>2, <2>3, <2>4, <2>5, <2>6 DEF RunStep
<1>5. ASSUME NEW a \in Asks, Decide(a) PROVE RequestOK(b)'
  <2>1. CASE b = a
    BY <1>1, <1>5, <2>1, AskStep, RegisterStep, AnnounceStep, ReceiveStep, ExpireStep
       DEF Decide, TimesOut, CtxDone
  <2>2. CASE b # a BY <1>5, <2>2, OtherRequests
  <2> QED BY <2>1, <2>2
<1>6. ASSUME NEW p \in Posts, Send(p) PROVE RequestOK(b)' BY <1>6, SendStep
<1>7. ASSUME NEW p \in Posts, NEW a \in Asks, NEW d \in Decisions, Claim(p, a, d)
      PROVE  RequestOK(b)'
  BY <1>7, ClaimStep
<1>8. ASSUME NEW w \in Watchers, Watch(w) \/ Disconnect(w) PROVE RequestOK(b)'
  BY <1>2, <1>8, SameLogAnnounces DEF Watch, Snapshot, WriteEvent, Written, Disconnect, WatchRest
<1>9. CASE UNCHANGED daemonVars
  BY <1>2, <1>9, SameLogAnnounces DEF daemonVars, logVars
<1> QED BY <1>4, <1>5, <1>6, <1>7, <1>8, <1>9 DEF DaemonNext

\* Only posts that carry a decision are ever answered.
LEMMA PostStep ==
  ASSUME RunTypeOK, PostInv, [DaemonNext]_daemonVars
  PROVE  PostInv'
<1>1. CASE UNCHANGED postVars BY <1>1 DEF PostInv, postVars
<1>2. ASSUME NEW p \in Posts, Send(p) PROVE PostInv' BY <1>2 DEF Send, PostInv, RunTypeOK
<1>3. ASSUME NEW p \in Posts, NEW a \in Asks, NEW d \in Decisions, Claim(p, a, d) PROVE PostInv'
  <2>1. [ask |-> a, decision |-> d] # Unsent BY DaemonAssumption DEF Unsent
  <2> QED BY <1>3, <2>1 DEF Claim, PostInv, RunTypeOK
<1> QED
  BY <1>1, <1>2, <1>3
     DEF DaemonNext, RunStep, StartRun, PromptReturns, Report, FinishRun, ForwardEvent, CancelRun, Decide, Ask,
         Register, Announce, Receive, TimesOut, CtxDone, Expire, AskRest, Watch, Snapshot, WriteEvent,
         Written, Disconnect, WatchRest, daemonVars

-----------------------------------------------------------------------------
(* The log and its subscribers. *)

\* The last event after an emit is the one emitted.
LEMMA EmitLast ==
  ASSUME RunTypeOK, NEW type \in EventTypes, NEW a \in Asks \cup {None}, Emit(type, a)
  PROVE  /\ events' # <<>>
         /\ Terminal(events[Len(events)])' <=> type \in {"run_done", "run_error"}
<1>1. /\ events' \in Seq(Event) /\ Len(events') = Len(events) + 1 /\ Len(events) \in Nat
      /\ events'[Len(events) + 1] = [type |-> type, ask |-> a]
  BY EmitTyped
<1>2. events'[Len(events')] = [type |-> type, ask |-> a] BY <1>1
<1>3. events' # <<>> BY <1>1, EmptySeq
<1> QED BY <1>2, <1>3 DEF Terminal

\* Nothing but the run itself moves the run on, and nobody emits after its end.
LEMMA RunInvStep ==
  ASSUME RunTypeOK, RunInv, [DaemonNext]_daemonVars
  PROVE  RunInv'
<1>1. ASSUME UNCHANGED <<runPc, events, decide>> PROVE RunInv'
  BY <1>1 DEF RunInv, Undecided
<1>2. CASE StartRun
  <2>1. events' # <<>> /\ ~Terminal(events[Len(events)])'
    BY <1>2, EmitLast DEF StartRun, EventTypes
  <2> QED BY <1>2, <2>1 DEF StartRun, RunInv
<1>3. CASE ForwardEvent
  <2>1. events' # <<>> /\ ~Terminal(events[Len(events)])'
    BY <1>3, EmitLast DEF ForwardEvent, EventTypes
  <2> QED BY <1>3, <2>1 DEF ForwardEvent, RunInv, runVars
<1>4. CASE PromptReturns
  BY <1>4 DEF PromptReturns, RunInv, Undecided, logVars, askVars
<1>5. CASE Report
  <2>1. events' # <<>> /\ Terminal(events[Len(events)])'
    <3>1. CASE promptResult = "ok" BY <1>5, <3>1, EmitLast DEF Report, EventTypes
    <3>2. CASE promptResult # "ok" BY <1>5, <3>2, EmitLast DEF Report, EventTypes
    <3> QED BY <3>1, <3>2
  <2> QED BY <1>5, <2>1 DEF Report, RunInv, Undecided, askVars
<1>6. CASE FinishRun
  BY <1>6 DEF FinishRun, RunInv, Undecided, askVars
<1>7. ASSUME NEW a \in Asks, Decide(a) PROVE RunInv'
  <2>1. runPc = "prompt" /\ runPc' = "prompt"
    <3>1. decide[a] \in {"new", "registered", "waiting", "late"} \/ runPc = "prompt"
      BY <1>7 DEF Decide, Ask, Register, Announce, Receive, TimesOut, CtxDone, Expire
    <3>2. runPc = "prompt" BY <3>1 DEF RunInv, Undecided
    <3> QED BY <1>7, <3>2
            DEF Decide, Ask, Register, Announce, Receive, TimesOut, CtxDone, Expire, AskRest, runVars
  <2>2. ~(events' # <<>> /\ Terminal(events[Len(events)])')
    <3>1. CASE Announce(a) BY <3>1, EmitLast DEF Announce, EventTypes
    <3>2. CASE ~Announce(a)
      <4>1. events' = events
        BY <1>7, <3>2 DEF Decide, Ask, Register, Receive, TimesOut, CtxDone, Expire, logVars
      <4> QED BY <2>1, <4>1 DEF RunInv
    <3> QED BY <3>1, <3>2
  <2> QED BY <2>1, <2>2 DEF RunInv
<1>8. ASSUME NEW p \in Posts, Send(p) \/ \E a \in Asks, d \in Decisions : Claim(p, a, d)
      PROVE  RunInv'
  BY <1>1, <1>8 DEF Send, Claim, PostRest, runVars, logVars
<1>9. ASSUME CancelRun \/ \E w \in Watchers : Watch(w) \/ Disconnect(w) PROVE RunInv'
  BY <1>1, <1>9
     DEF CancelRun, Watch, Snapshot, WriteEvent, Written, Disconnect, WatchRest, runVars, askVars
<1>10. CASE UNCHANGED daemonVars BY <1>1, <1>10 DEF daemonVars, runVars, logVars, askVars
<1> QED BY <1>2, <1>3, <1>4, <1>5, <1>6, <1>7, <1>8, <1>9, <1>10 DEF DaemonNext, RunStep

\* Emitting wakes every subscriber, whose snapshot then is a prefix of the log.
LEMMA EmitWakes ==
  ASSUME RunTypeOK, StreamInv, ~Done, NEW type \in EventTypes, NEW a \in Asks \cup {None},
         Emit(type, a), UNCHANGED watch
  PROVE  StreamInv'
<1> SUFFICES ASSUME NEW w \in Watchers PROVE SubscriberOK(w)' BY DEF StreamInv
<1>1. SubscriberOK(w) BY DEF StreamInv
<1>2. watch[w].upto \in Nat BY DEF RunTypeOK, Streams
<1>3. Len(events') = Len(events) + 1 /\ Len(events) \in Nat /\ w \in woken' BY EmitTyped
<1> QED BY <1>1, <1>2, <1>3 DEF SubscriberOK

\* A step that leaves the log, its subscribers and the run alone.
LEMMA SameStreams ==
  ASSUME StreamInv, UNCHANGED <<runPc, events, woken, watch>>
  PROVE  StreamInv'
  BY DEF StreamInv, SubscriberOK, Done

\* A subscriber's own step keeps its hold on the log.
LEMMA WatchStep ==
  ASSUME RunTypeOK, StreamInv, NEW w \in Watchers, Watch(w) \/ Disconnect(w)
  PROVE  StreamInv'
<1> SUFFICES ASSUME NEW v \in Watchers PROVE SubscriberOK(v)' BY DEF StreamInv
<1>1. SubscriberOK(v) /\ SubscriberOK(w) BY DEF StreamInv
<1>2. /\ watch \in [Watchers -> Streams] /\ watch[w] \in Streams
      /\ watch[w].sent \in Nat /\ watch[w].upto \in Nat
  BY DEF RunTypeOK, Streams
<1>3. UNCHANGED <<runPc, events>> /\ (Done' <=> Done) /\ Done \in BOOLEAN
  BY DEF Watch, Snapshot, WriteEvent, Written, Disconnect, WatchRest, runVars, Done
<1>4. Len(events) \in Nat BY LenProperties DEF RunTypeOK
<1>5. CASE v # w
  <2>1. watch'[v] = watch[v] /\ (v \in woken' <=> v \in woken)
    BY <1>2, <1>5 DEF Watch, Snapshot, WriteEvent, Written, Disconnect
  <2> QED BY <1>1, <1>3, <2>1 DEF SubscriberOK
<1>6. CASE v = w
  <2>1. CASE Snapshot(w)
    <3>1. watch'[w] = [watch[w] EXCEPT !.state = "writing", !.upto = Len(events), !.last = Done]
      BY <1>2, <2>1 DEF Snapshot
    <3>2. /\ watch'[w].state = "writing" /\ watch'[w].upto = Len(events)
          /\ watch'[w].last = Done
      BY <1>2, <3>1 DEF Streams
    <3> QED BY <1>3, <1>4, <1>6, <3>2 DEF SubscriberOK
  <2>2. CASE WriteEvent(w)
    <3>1. watch'[w] = [watch[w] EXCEPT !.sent = watch[w].sent + 1]
      BY <1>2, <2>2 DEF WriteEvent
    <3>2. /\ watch'[w].state = "writing" /\ watch'[w].upto = watch[w].upto
          /\ watch'[w].last = watch[w].last /\ watch[w].state = "writing" /\ woken' = woken
      BY <1>2, <2>2, <3>1 DEF Streams, WriteEvent
    <3> QED BY <1>1, <1>3, <1>6, <3>2 DEF SubscriberOK
  <2>3. CASE Written(w)
    <3>1. watch'[w] = [watch[w] EXCEPT !.state = IF watch[w].last THEN "complete" ELSE "waiting"]
      BY <1>2, <2>3 DEF Written
    <3>2. /\ watch'[w].state = IF watch[w].last THEN "complete" ELSE "waiting"
          /\ watch'[w].upto = watch[w].upto /\ watch'[w].sent = watch[w].sent
          /\ watch'[w].last = watch[w].last /\ watch[w].state = "writing" /\ woken' = woken
          /\ watch[w].sent = watch[w].upto
      BY <1>2, <2>3, <3>1 DEF Streams, Written
    <3> QED BY <1>1, <1>3, <1>6, <3>2 DEF SubscriberOK
  <2>4. CASE Disconnect(w)
    <3>1. watch'[w] = [watch[w] EXCEPT !.state = "gone"] BY <1>2, <2>4 DEF Disconnect
    <3>2. /\ watch'[w].state = "gone" /\ watch'[w].upto = watch[w].upto
          /\ watch'[w].last = watch[w].last
      BY <1>2, <3>1 DEF Streams
    <3> QED BY <1>1, <1>3, <1>6, <3>2 DEF SubscriberOK
  <2> QED BY <2>1, <2>2, <2>3, <2>4 DEF Watch
<1> QED BY <1>5, <1>6

LEMMA StreamStep ==
  ASSUME RunTypeOK, RunInv, StreamInv, [DaemonNext]_daemonVars
  PROVE  StreamInv'
<1>1. CASE StartRun BY <1>1, EmitWakes DEF StartRun, Done, EventTypes, watchVars
<1>2. CASE ForwardEvent BY <1>2, EmitWakes DEF ForwardEvent, Done, EventTypes, watchVars
<1>3. CASE PromptReturns
  BY <1>3 DEF PromptReturns, StreamInv, SubscriberOK, Done, logVars, watchVars
<1>4. CASE Report
  <2>1. CASE promptResult = "ok" BY <1>4, <2>1, EmitWakes DEF Report, Done, EventTypes, watchVars
  <2>2. CASE promptResult # "ok" BY <1>4, <2>2, EmitWakes DEF Report, Done, EventTypes, watchVars
  <2> QED BY <2>1, <2>2
<1>5. CASE FinishRun
  BY <1>5 DEF FinishRun, StreamInv, SubscriberOK, Done, watchVars
<1>6. CASE CancelRun
  BY <1>6, SameStreams DEF CancelRun, WatchRest, runVars, watchVars
<1>7. ASSUME NEW a \in Asks, Decide(a) PROVE StreamInv'
  <2>1. CASE Announce(a)
    <3>1. runPc = "prompt" BY <2>1 DEF Announce, RunInv, Undecided
    <3> QED BY <2>1, <3>1, EmitWakes DEF Announce, AskRest, Done, EventTypes, watchVars
  <2>2. CASE ~Announce(a)
    BY <1>7, <2>2, SameStreams
       DEF Decide, Ask, Register, Receive, TimesOut, CtxDone, Expire, AskRest, logVars, runVars,
           watchVars
  <2> QED BY <2>1, <2>2
<1>8. ASSUME NEW p \in Posts, Send(p) \/ \E a \in Asks, d \in Decisions : Claim(p, a, d)
      PROVE  StreamInv'
  BY <1>8, SameStreams DEF Send, Claim, PostRest, runVars, logVars, watchVars
<1>9. ASSUME NEW w \in Watchers, Watch(w) \/ Disconnect(w) PROVE StreamInv'
  BY <1>9, WatchStep
<1>10. CASE UNCHANGED daemonVars BY <1>10, SameStreams DEF daemonVars, runVars, logVars, watchVars
<1> QED BY <1>1, <1>2, <1>3, <1>4, <1>5, <1>6, <1>7, <1>8, <1>9, <1>10 DEF DaemonNext, RunStep

-----------------------------------------------------------------------------
(* The theorems about one run. *)

\* The invariant holds when the run is created.
LEMMA InitInv == DaemonInit => DaemonInv
<1> SUFFICES ASSUME DaemonInit PROVE DaemonInv OBVIOUS
<1>1. RunTypeOK
  <2>1. <<>> \in Seq(Event) /\ 0 \in Nat BY EmptySeq
  <2>2. watch \in [Watchers -> Streams] BY <2>1 DEF DaemonInit, Streams
  <2>3. post \in [Posts -> [ask : Asks, decision : Decisions] \cup {Unsent}] BY DEF DaemonInit
  <2> QED BY <2>1, <2>2, <2>3 DEF DaemonInit, RunTypeOK, Event, EventTypes, Stages, Answers
<1>2. RequestInv
  <2> SUFFICES ASSUME NEW a \in Asks PROVE RequestOK(a) BY DEF RequestInv
  <2>1. Claims(a) = {} BY DaemonAssumption DEF DaemonInit, Claims, Unsent
  <2>2. DOMAIN events = {} BY EmptySeq DEF DaemonInit
  <2>3. ~Announced(a) BY <2>2 DEF Announced
  <2> QED BY <2>1, <2>3 DEF DaemonInit, RequestOK, Unborn
<1>3. PostInv BY DEF DaemonInit, PostInv
<1>4. RunInv BY DEF DaemonInit, RunInv, Undecided
<1>5. StreamInv
  <2> SUFFICES ASSUME NEW w \in Watchers PROVE SubscriberOK(w) BY DEF StreamInv
  <2>1. watch[w].state = "new" /\ ~watch[w].last BY DEF DaemonInit
  <2> QED BY <2>1 DEF SubscriberOK
<1> QED BY <1>1, <1>2, <1>3, <1>4, <1>5 DEF DaemonInv

\* The agreement between Decide, pending, the channels, the posts, the log and its
\* subscribers is an invariant of every run (daemon/run.go, daemon/server.go).
THEOREM DaemonInductive == DaemonSpec => []DaemonInv
<1>1. DaemonInv /\ [DaemonNext]_daemonVars => DaemonInv'
  BY TypeStep, RequestStep, PostStep, RunInvStep, StreamStep DEF DaemonInv
<1> QED BY InitInv, <1>1, PTL DEF DaemonSpec

\* The state of a run keeps its type (daemon/run.go:11-30).
THEOREM DaemonTypeCorrect == DaemonSpec => []RunTypeOK
<1>1. DaemonInv => RunTypeOK BY DEF DaemonInv
<1> QED BY <1>1, DaemonInductive, PTL

\* A client told "accepted" decided the request (daemon/server.go:1279-1300, 1501-1593).
THEOREM AcceptedDecisionsDelivered == DaemonSpec => []AcceptedIsDelivered
<1>1. DaemonInv => AcceptedIsDelivered
  <2> SUFFICES ASSUME DaemonInv, NEW p \in Posts, told[p] = "accepted"
               PROVE  LET a == post[p].ask
                      IN  /\ Claims(a) = {p}
                          /\ IF decide[a] = "returned"
                               THEN \/ ret[a] = post[p].decision
                                    \/ post[p].decision = "remember" /\ ret[a] = "failed"
                               ELSE channel[a] = post[p].decision
    BY DEF AcceptedIsDelivered
  <2> DEFINE a == post[p].ask
  <2>1. post[p] # Unsent BY DEF DaemonInv, PostInv
  <2>2. a \in Asks /\ Claims(a) = {p} BY <2>1, SenderClaimed DEF DaemonInv
  <2>3. RequestOK(a) BY <2>2 DEF DaemonInv, RequestInv
  <2>4. decide[a] \in {"waiting", "late", "returned"} /\ (decide[a] # "returned" => Claimed(a))
    BY <2>2, <2>3 DEF RequestOK, Unborn, Opened, DaemonInv, RunTypeOK, Stages
  <2>5. CASE decide[a] = "returned"
    <3>1. Over(a) BY <2>3, <2>5 DEF RequestOK
    <3> QED BY <2>2, <2>5, <3>1 DEF Over
  <2>6. CASE decide[a] # "returned"
    <3>1. Claimed(a) BY <2>4, <2>6
    <3> QED BY <2>2, <2>6, <3>1 DEF Claimed
  <2> QED BY <2>5, <2>6
<1> QED BY <1>1, DaemonInductive, PTL

\* A request that is waited on can still be answered (daemon/server.go:1501-1593).
THEOREM WaitersServed == DaemonSpec => []WaitersAreAnswerable
<1>1. DaemonInv => WaitersAreAnswerable
  <2> SUFFICES ASSUME DaemonInv, NEW a \in Asks, decide[a] \in {"waiting", "late"}
               PROVE  /\ a \notin pending => channel[a] # None \/ \E p \in Claims(a) : told[p] = None
                      /\ decide[a] = "late" => a \notin pending
    BY DEF WaitersAreAnswerable
  <2>1. Opened(a) \/ Claimed(a) BY DEF DaemonInv, RequestInv, RequestOK
  <2>2. decide[a] = "late" => Claimed(a) BY DEF DaemonInv, RequestInv, RequestOK
  <2>3. ASSUME Claimed(a) PROVE channel[a] # None \/ \E p \in Claims(a) : told[p] = None
    <3>1. PICK p \in Posts : /\ Claims(a) = {p}
                             /\ told[p] = "accepted" => channel[a] = post[p].decision
      BY <2>3 DEF Claimed
    <3>2. told[p] = None \/ told[p] = "accepted" BY <3>1 DEF Claims, DaemonInv, RunTypeOK
    <3>3. told[p] = "accepted" => post[p].decision # None
      <4>1. told[p] = "accepted" => post[p] # Unsent BY DEF DaemonInv, PostInv
      <4> QED BY <4>1, SenderClaimed DEF DaemonInv, Decisions
    <3> QED BY <3>1, <3>2, <3>3
  <2> QED BY <2>1, <2>2, <2>3 DEF Opened, Claimed
<1> QED BY <1>1, DaemonInductive, PTL

\* A decision that was accepted stays: its post is never sent again.
LEMMA AcceptedStays ==
  ASSUME DaemonInv, [DaemonNext]_daemonVars, NEW p \in Posts, told[p] = "accepted"
  PROVE  told'[p] = "accepted" /\ post'[p] = post[p]
<1>1. post[p] # Unsent BY DEF DaemonInv, PostInv
<1>2. ASSUME NEW q \in Posts, NEW a \in Asks, NEW d \in Decisions, Claim(q, a, d)
      PROVE  told'[p] = "accepted" /\ post'[p] = post[p]
  <2>1. p # q BY <1>1, <1>2 DEF Claim
  <2> QED BY <1>2, <2>1 DEF Claim, DaemonInv, RunTypeOK
<1>3. ASSUME NEW q \in Posts, Send(q)
      PROVE  told'[p] = "accepted" /\ post'[p] = post[p]
  <2>1. p # q BY <1>3 DEF Send
  <2> QED BY <1>3, <2>1 DEF Send, DaemonInv, RunTypeOK
<1>4. ASSUME UNCHANGED <<post, told>> PROVE told'[p] = "accepted" /\ post'[p] = post[p]
  BY <1>4
<1>5. ASSUME NEW a \in Asks, Decide(a) PROVE UNCHANGED <<post, told>>
  BY <1>5 DEF Decide, Ask, Register, Announce, Receive, TimesOut, CtxDone, Expire, AskRest, postVars
<1>6. ASSUME NEW w \in Watchers, Watch(w) \/ Disconnect(w) PROVE UNCHANGED <<post, told>>
  BY <1>6 DEF Watch, Snapshot, WriteEvent, Written, Disconnect, WatchRest, postVars
<1>7. RunStep \/ ForwardEvent \/ CancelRun => UNCHANGED <<post, told>>
  BY DEF RunStep, StartRun, PromptReturns, Report, FinishRun, ForwardEvent, CancelRun, WatchRest, postVars
<1> QED BY <1>2, <1>3, <1>4, <1>5, <1>6, <1>7 DEF DaemonNext, daemonVars, postVars

\* Only Receive remembers, and what it remembers is the decision of an accepted post.
LEMMA GrantsStep ==
  ASSUME DaemonInv, GrantsAreConsented, [DaemonNext]_daemonVars
  PROVE  GrantsAreConsented'
<1>1. ASSUME NEW p \in Posts, NEW k, Consents(p, k) PROVE Consents(p, k)'
  BY <1>1, AcceptedStays DEF Consents
<1>2. ASSUME grants' = grants, \A a \in Asks : ret'[a] = "cached" => ret[a] = "cached" \/ Cached(a)
      PROVE  GrantsAreConsented'
  BY <1>1, <1>2 DEF GrantsAreConsented, Cached
<1>3. ASSUME NEW a \in Asks, Receive(a) PROVE GrantsAreConsented'
  <2>1. PICK p \in Posts : /\ Claims(a) = {p} /\ told[p] = "accepted"
                           /\ channel[a] = post[p].decision
    BY <1>3, ReceivedIsClaimed DEF DaemonInv, RequestInv
  <2>2. post[p].ask = a BY <2>1 DEF Claims
  <2>3. \A k \in grants' : k \in grants \/ Consents(p, k)
    BY <1>3, <2>1, <2>2 DEF Receive, Remember, Consents
  <2>4. grants \subseteq grants' BY <1>3 DEF Receive, Remember
  <2>5. post[p] # Unsent BY <2>1 DEF DaemonInv, PostInv
  <2>6. post[p].decision \in Decisions BY <2>5 DEF DaemonInv, RunTypeOK
  <2>7. \A b \in Asks : ret'[b] = "cached" => ret[b] = "cached"
    BY <1>3, <2>1, <2>6 DEF Receive, Returns, DaemonInv, RunTypeOK, Decisions
  <2> QED BY <1>1, <2>3, <2>4, <2>7 DEF GrantsAreConsented
<1>4. ASSUME NEW a \in Asks, Decide(a), ~Receive(a) PROVE GrantsAreConsented'
  <2>1. grants' = grants
    BY <1>4 DEF Decide, Ask, Register, Announce, TimesOut, CtxDone, Expire
  <2>2. \A b \in Asks : ret'[b] = "cached" => ret[b] = "cached" \/ Cached(b)
    BY <1>4 DEF Decide, Ask, Register, Announce, TimesOut, CtxDone, Expire, Returns, DaemonInv, RunTypeOK
  <2> QED BY <1>2, <2>1, <2>2
<1>5. ASSUME UNCHANGED <<grants, ret>> PROVE GrantsAreConsented' BY <1>2, <1>5
<1>6. ASSUME NEW p \in Posts, Send(p) \/ \E a \in Asks, d \in Decisions : Claim(p, a, d)
      PROVE  UNCHANGED <<grants, ret>>
  BY <1>6 DEF Send, Claim, PostRest
<1>7. ASSUME NEW w \in Watchers, Watch(w) \/ Disconnect(w) PROVE UNCHANGED <<grants, ret>>
  BY <1>7 DEF Watch, Snapshot, WriteEvent, Written, Disconnect, WatchRest, askVars
<1>8. RunStep \/ ForwardEvent \/ CancelRun => UNCHANGED <<grants, ret>>
  BY DEF RunStep, StartRun, PromptReturns, Report, FinishRun, ForwardEvent, CancelRun, WatchRest, askVars
<1> QED BY <1>3, <1>4, <1>5, <1>6, <1>7, <1>8 DEF DaemonNext, daemonVars, askVars

\* A remembered grant goes back to an accepted decision (daemon/server.go:1505-1593).
THEOREM GrantsConsented == DaemonSpec => []GrantsAreConsented
<1>1. DaemonInit => GrantsAreConsented BY DEF DaemonInit, GrantsAreConsented
<1>2. DaemonInv /\ GrantsAreConsented /\ [DaemonNext]_daemonVars => GrantsAreConsented' BY GrantsStep
<1> QED BY <1>1, <1>2, DaemonInductive, PTL DEF DaemonSpec

\* What Decide, pending, the channels, the posts and the grants agree on
\* (daemon/server.go:1279-1593).
THEOREM DecisionsSound == DaemonSpec => []DecisionsAreSound
<1>1. RunTypeOK /\ WaitersAreAnswerable /\ AcceptedIsDelivered /\ GrantsAreConsented => DecisionsAreSound
  BY DEF DecisionsAreSound
<1> QED BY <1>1, DaemonTypeCorrect, WaitersServed, AcceptedDecisionsDelivered, GrantsConsented, PTL

\* No subscriber sleeps through an event (daemon/run.go:32-76).
THEOREM WakeupsKept == DaemonSpec => []NoLostWakeup
<1>1. DaemonInv => NoLostWakeup BY DEF DaemonInv, StreamInv, SubscriberOK, NoLostWakeup
<1> QED BY <1>1, DaemonInductive, PTL

\* A stream the daemon closes carried the whole log (daemon/server.go:1230-1277).
THEOREM StreamsAreComplete == DaemonSpec => []CompleteStreams
<1>1. DaemonInv => CompleteStreams
  <2> SUFFICES ASSUME DaemonInv, NEW w \in Watchers, watch[w].state = "complete"
               PROVE  watch[w].sent = Len(events) /\ Terminal(events[Len(events)])
    BY DEF CompleteStreams
  <2>1. SubscriberOK(w) BY DEF DaemonInv, StreamInv
  <2>2. Done /\ watch[w].sent = Len(events) BY <2>1 DEF SubscriberOK
  <2> QED BY <2>2 DEF DaemonInv, RunInv, Done
<1> QED BY <1>1, DaemonInductive, PTL

\* What a subscriber can rely on (daemon/run.go:65-76, daemon/server.go:1245-1266).
THEOREM StreamsSound == DaemonSpec => []StreamsAreSound
<1>1. NoLostWakeup /\ CompleteStreams => StreamsAreSound BY DEF StreamsAreSound
<1> QED BY <1>1, WakeupsKept, StreamsAreComplete, PTL

-----------------------------------------------------------------------------
(* The log. *)

\* What an emit may add to a log that is well formed so far: run_start to an empty
\* one, nothing to one that has its terminal event, and no announcement it holds.
LEMMA EmitKeepsLog ==
  ASSUME RunTypeOK, LogInv, NEW type \in EventTypes, NEW a \in Asks \cup {None}, Emit(type, a),
         type = "run_start" <=> events = <<>>,
         \A i \in DOMAIN events : ~Terminal(events[i]),
         type = "permission_request" => a \in Asks /\ ~Announced(a)
  PROVE  /\ \A i \in DOMAIN events' : events'[i].type = "run_start" <=> i = 1
         /\ \A i \in DOMAIN events' : Terminal(events'[i]) => i = Len(events')
         /\ \A i, j \in DOMAIN events' :
              i # j /\ events'[i].type = "permission_request" => events'[j] # events'[i]
<1> DEFINE n == Len(events)
           new == [type |-> type, ask |-> a]
<1>1. events \in Seq(Event) BY DEF RunTypeOK, Event, EventTypes
<1>2. DOMAIN events = 1 .. n /\ n \in Nat BY <1>1, LenProperties
<1>3. /\ DOMAIN events' = 1 .. (n + 1) /\ Len(events') = n + 1
      /\ \A i \in 1 .. n : events'[i] = events[i]
      /\ events'[n + 1] = new
  BY EmitTyped, LenProperties
<1>4. \A i \in 1 .. (n + 1) : i \in 1 .. n \/ i = n + 1 BY <1>2
<1>5. type = "run_start" <=> n + 1 = 1
  <2>1. events = <<>> <=> n = 0 BY <1>1, EmptySeq
  <2> QED BY <1>2, <2>1
<1> HIDE DEF n
<1>6. \A i \in DOMAIN events' : events'[i].type = "run_start" <=> i = 1
  BY <1>2, <1>3, <1>4, <1>5 DEF LogInv
<1>7. \A i \in DOMAIN events' : Terminal(events'[i]) => i = Len(events')
  BY <1>2, <1>3, <1>4 DEF LogInv
<1>8. ASSUME NEW i \in 1 .. n, new.type = "permission_request" \/ events[i].type = "permission_request"
      PROVE  events[i] # new
  <2> SUFFICES ASSUME events[i] = new PROVE FALSE OBVIOUS
  <2>1. events[i].type = "permission_request" /\ events[i].ask = a /\ type = "permission_request"
    BY <1>8
  <2> QED BY <1>2, <2>1 DEF Announced
<1>9. \A i, j \in DOMAIN events' :
        i # j /\ events'[i].type = "permission_request" => events'[j] # events'[i]
  <2> SUFFICES ASSUME NEW i \in 1 .. (n + 1), NEW j \in 1 .. (n + 1), i # j,
                      events'[i].type = "permission_request"
               PROVE  events'[j] # events'[i]
    BY <1>3
  <2>1. CASE i \in 1 .. n /\ j \in 1 .. n BY <1>2, <1>3, <2>1 DEF LogInv
  <2>2. CASE i = n + 1 /\ j \in 1 .. n BY <1>3, <1>8, <2>2
  <2>3. CASE i \in 1 .. n /\ j = n + 1 BY <1>3, <1>8, <2>3
  <2> QED BY <1>4, <2>1, <2>2, <2>3
<1> QED BY <1>6, <1>7, <1>9

\* Before the run has finished, its log has no terminal event.
LEMMA NotTerminalYet ==
  ASSUME RunInv, LogInv, runPc \notin {"finish", "end"}
  PROVE  \A i \in DOMAIN events : ~Terminal(events[i])
BY DEF RunInv, LogInv

\* Every step keeps the log well formed.
LEMMA LogStep ==
  ASSUME DaemonInv, LogInv, [DaemonNext]_daemonVars
  PROVE  LogInv'
<1> USE DEF DaemonInv
<1>1. ASSUME UNCHANGED events, runPc' = "start" <=> runPc = "start" PROVE LogInv'
  BY <1>1 DEF LogInv
<1>2. ASSUME NEW type \in EventTypes, NEW a \in Asks \cup {None}, Emit(type, a),
             runPc \notin {"finish", "end"}, runPc' # "start",
             type = "run_start" <=> runPc = "start",
             type = "permission_request" => a \in Asks /\ ~Announced(a)
      PROVE  LogInv'
  <2>1. type = "run_start" <=> events = <<>> BY <1>2 DEF LogInv
  <2>2. \A i \in DOMAIN events : ~Terminal(events[i]) BY <1>2, NotTerminalYet
  <2>3. events' # <<>> BY <1>2, EmitLast
  <2> QED BY <1>2, <2>1, <2>2, <2>3, EmitKeepsLog DEF LogInv
<1>3. CASE StartRun
  BY <1>2, <1>3 DEF StartRun, EventTypes
<1>4. CASE ForwardEvent
  BY <1>2, <1>4 DEF ForwardEvent, EventTypes, runVars
<1>5. CASE Report
  <2>1. CASE promptResult = "ok" BY <1>2, <1>5, <2>1 DEF Report, EventTypes
  <2>2. CASE promptResult # "ok" BY <1>2, <1>5, <2>2 DEF Report, EventTypes
  <2> QED BY <2>1, <2>2
<1>6. CASE PromptReturns \/ FinishRun
  BY <1>1, <1>6 DEF PromptReturns, FinishRun, logVars
<1>7. ASSUME NEW a \in Asks, Announce(a) PROVE LogInv'
  <2>1. ~Announced(a) BY <1>7 DEF Announce, RequestInv, RequestOK
  <2>2. runPc = "prompt" BY <1>7 DEF Announce, RunInv, Undecided
  <2>3. Emit("permission_request", a) /\ runPc' = runPc BY <1>7 DEF Announce, AskRest, runVars
  <2> QED BY <1>2, <2>1, <2>2, <2>3 DEF EventTypes
<1>8. ASSUME NEW a \in Asks, Decide(a), ~Announce(a) PROVE LogInv'
  BY <1>1, <1>8 DEF Decide, Ask, Register, Receive, TimesOut, CtxDone, Expire, AskRest, runVars, logVars
<1>9. ASSUME NEW p \in Posts, Send(p) \/ \E a \in Asks, d \in Decisions : Claim(p, a, d)
      PROVE  LogInv'
  BY <1>1, <1>9 DEF Send, Claim, PostRest, runVars, logVars
<1>10. ASSUME CancelRun \/ \E w \in Watchers : Watch(w) \/ Disconnect(w) PROVE LogInv'
  BY <1>1, <1>10
     DEF CancelRun, Watch, Snapshot, WriteEvent, Written, Disconnect, WatchRest, runVars
<1>11. CASE UNCHANGED daemonVars BY <1>1, <1>11 DEF daemonVars, runVars, logVars
<1> QED BY <1>3, <1>4, <1>5, <1>6, <1>7, <1>8, <1>9, <1>10, <1>11 DEF DaemonNext, RunStep

\* A request that is not being decided is not pending.
LEMMA NothingPending ==
  ASSUME DaemonInv, runPc # "prompt"
  PROVE  pending = {}
<1>1. \A a \in Asks : decide[a] \in {"idle", "returned"} BY DEF DaemonInv, RunInv, Undecided
<1>2. \A a \in Asks : a \notin pending BY <1>1 DEF DaemonInv, RequestInv, RequestOK, Unborn, Over
<1> QED BY <1>2 DEF DaemonInv, RunTypeOK

\* The log begins with run_start, announces a request once and ends with its only
\* terminal event, emitted when nothing is left pending (daemon/run.go:32-63,
\* daemon/server.go:1162-1214, 1501-1538).
THEOREM LogsAreWellFormed == DaemonSpec => []EventLogWellFormed
<1>1. DaemonInit => LogInv
  <2> SUFFICES ASSUME DaemonInit PROVE LogInv OBVIOUS
  <2>1. DOMAIN events = {} BY DEF DaemonInit
  <2> QED BY <2>1 DEF DaemonInit, LogInv
<1>2. DaemonInv /\ LogInv /\ [DaemonNext]_daemonVars => LogInv' BY LogStep
<1>3. DaemonInv /\ LogInv => EventLogWellFormed
  <2> SUFFICES ASSUME DaemonInv, LogInv PROVE EventLogWellFormed OBVIOUS
  <2>1. \A i \in DOMAIN events : Terminal(events[i]) => pending = {}
    BY NothingPending, NotTerminalYet DEF DaemonInv
  <2> QED BY <2>1 DEF DaemonInv, RunInv, LogInv, EventLogWellFormed
<1> QED BY <1>1, <1>2, <1>3, DaemonInductive, PTL DEF DaemonSpec

-----------------------------------------------------------------------------
(* The permission exchange implements DecideOnce. *)

USE DEF Once!None, Once!Expired, Once!Failed

Expired == {"timed out", "canceled"}

\* A claimed request is settled by its post, an unclaimed one by expiry or not at all.
LEMMA SettledValue ==
  ASSUME NEW a \in Asks
  PROVE  /\ \A p \in Posts : Claims(a) = {p} => SettledBy(a) = p
         /\ Claims(a) = {} => SettledBy(a) = IF ret[a] \in Expired THEN "expired" ELSE None
  BY DEF SettledBy, Expired

LEMMA SettledNext ==
  ASSUME NEW a \in Asks
  PROVE  /\ \A p \in Posts : Claims(a)' = {p} => SettledBy(a)' = p
         /\ Claims(a)' = {} => SettledBy(a)' = IF ret'[a] \in Expired THEN "expired" ELSE None
  BY DEF SettledBy, Expired

\* A request whose claims and answer stay is settled and returned as before.
LEMMA SameSettled ==
  ASSUME NEW a \in Asks, Claims(a)' = Claims(a), ret'[a] = ret[a]
  PROVE  SettledBy(a)' = SettledBy(a) /\ ReturnedBy(a)' = ReturnedBy(a)
  BY DEF SettledBy, ReturnedBy

\* What changes for one request only changes the functions there.
LEMMA SettledAt ==
  ASSUME NEW a \in Asks, \A b \in Asks \ {a} : SettledBy(b)' = SettledBy(b)
  PROVE  Settled' = [Settled EXCEPT ![a] = SettledBy(a)']
  BY DEF Settled

LEMMA ReturnedAt ==
  ASSUME NEW a \in Asks, \A b \in Asks \ {a} : ReturnedBy(b)' = ReturnedBy(b)
  PROVE  Returned' = [Returned EXCEPT ![a] = ReturnedBy(a)']
  BY DEF Returned

\* Steps outside the exchange are invisible.
LEMMA Stutters ==
  ASSUME UNCHANGED <<pending, post, told, ret>>
  PROVE  UNCHANGED Once!vars
<1>1. \A a \in Asks : SettledBy(a)' = SettledBy(a) /\ ReturnedBy(a)' = ReturnedBy(a)
  BY SamePosts, SameSettled
<1> QED BY <1>1 DEF Settled, Returned, Once!vars

\* Decide's steps open, expire and return requests, or are invisible.
LEMMA DecideRefines ==
  ASSUME DaemonInv, NEW a \in Asks, Decide(a)
  PROVE  [Once!Next]_(Once!vars)
<1> USE DEF DaemonInv
<1>1. RequestOK(a) /\ RunTypeOK BY DEF RequestInv
<1>2. \A b \in Asks : Claims(b)' = Claims(b)
  BY SamePosts DEF Decide, Ask, Register, Announce, Receive, TimesOut, CtxDone, Expire, AskRest,
                   postVars
<1>3. UNCHANGED <<post, told>>
  BY DEF Decide, Ask, Register, Announce, Receive, TimesOut, CtxDone, Expire, AskRest, postVars
<1>4. CASE Ask(a)
  <2>1. Unborn(a) BY <1>1, <1>4 DEF Ask, RequestOK
  <2>2. /\ ret'[a] \in {None, "policy", "policy error", "cached"}
        /\ \A b \in Asks \ {a} : ret'[b] = ret[b]
        /\ pending' = pending
    BY <1>1, <1>4, <2>1 DEF Ask, Returns, RunTypeOK, Unborn
  <2>3. SettledBy(a)' = SettledBy(a) /\ ReturnedBy(a)' = ReturnedBy(a)
    BY <1>2, <2>1, <2>2, SettledValue, SettledNext DEF Unborn, ReturnedBy, Expired
  <2>4. \A b \in Asks : SettledBy(b)' = SettledBy(b) /\ ReturnedBy(b)' = ReturnedBy(b)
    BY <1>2, <2>2, <2>3, SameSettled
  <2> QED BY <1>3, <2>2, <2>4 DEF Settled, Returned, Once!vars
<1>5. CASE Register(a)
  <2>1. Unborn(a) BY <1>1, <1>5 DEF Register, RequestOK
  <2>2. SettledBy(a) = None BY <2>1, SettledValue DEF Unborn, Expired
  <2>3. \A b \in Asks : SettledBy(b)' = SettledBy(b) /\ ReturnedBy(b)' = ReturnedBy(b)
    BY <1>2, <1>5, SameSettled DEF Register
  <2>4. Once!Open(a)
    BY <1>3, <1>5, <2>1, <2>2, <2>3 DEF Register, Unborn, Settled, Returned, Once!Open
  <2> QED BY <2>4 DEF Once!Next
<1>6. CASE Announce(a) BY <1>3, <1>6, Stutters DEF Announce
<1>7. CASE Receive(a)
  <2>1. PICK p \in Posts : Claims(a) = {p} /\ told[p] = "accepted" /\ channel[a] = post[p].decision
    BY <1>1, <1>7, ReceivedIsClaimed
  <2>2. ret[a] = None BY <1>1, <1>7, ReceivedIsClaimed DEF Claimed
  <2>3. Settled[a] = p /\ Returned[a] = None BY <2>1, <2>2, SettledValue DEF Settled, Returned, ReturnedBy
  <2>4. channel[a] \in Decisions BY <1>1, <1>7 DEF Receive, RunTypeOK
  <2>5. ret'[a] \in {post[p].decision, "failed"} /\ \A b \in Asks \ {a} : ret'[b] = ret[b]
    BY <1>1, <1>7, <2>1 DEF Receive, Returns, RunTypeOK
  <2>6. ReturnedBy(a)' \in {post[p].decision, "failed"}
    BY <2>1, <2>4, <2>5 DEF ReturnedBy, Decisions
  <2>7. \A b \in Asks \ {a} : ReturnedBy(b)' = ReturnedBy(b) BY <1>2, <2>5, SameSettled
  <2>8. Settled' = Settled
    <3>1. SettledBy(a)' = SettledBy(a) BY <1>2, <2>1, SettledValue, SettledNext
    <3>2. \A b \in Asks : SettledBy(b)' = SettledBy(b) BY <1>2, <2>5, <3>1, SameSettled
    <3> QED BY <3>2 DEF Settled
  <2>9. Returned' = [Returned EXCEPT ![a] = ReturnedBy(a)'] BY <2>7, ReturnedAt
  <2>10. Once!Return(a)
    BY <1>3, <1>7, <2>3, <2>6, <2>8, <2>9 DEF Receive, Once!Return
  <2> QED BY <2>10 DEF Once!Next
<1>8. ASSUME NEW why \in Expired, Expire(a, why) PROVE [Once!Next]_(Once!vars)
  <2>1. CASE a \in pending
    <3>1. Opened(a) BY <1>1, <1>8, <2>1 DEF Expire, RequestOK, Claimed
    <3>2. ret'[a] = why /\ (\A b \in Asks \ {a} : ret'[b] = ret[b]) /\ pending' = pending \ {a}
      BY <1>1, <1>8, <2>1 DEF Expire, Returns, RunTypeOK
    <3>3. SettledBy(a)' = "expired" /\ ReturnedBy(a)' = "expired"
      BY <1>2, <1>8, <3>1, <3>2, SettledNext DEF Opened, ReturnedBy, Expired
    <3>4. \A b \in Asks \ {a} : SettledBy(b)' = SettledBy(b) /\ ReturnedBy(b)' = ReturnedBy(b)
      BY <1>2, <3>2, SameSettled
    <3>5. /\ Settled' = [Settled EXCEPT ![a] = "expired"]
          /\ Returned' = [Returned EXCEPT ![a] = "expired"]
      BY <3>3, <3>4, SettledAt, ReturnedAt
    <3>6. Once!Expire(a) BY <1>3, <2>1, <3>2, <3>5 DEF Once!Expire
    <3> QED BY <3>6 DEF Once!Next
  <2>2. CASE a \notin pending BY <1>3, <1>8, <2>2, Stutters DEF Expire
  <2> QED BY <2>1, <2>2
<1> QED BY <1>4, <1>5, <1>6, <1>7, <1>8 DEF Decide, TimesOut, CtxDone, Expired

\* A post that finds its request pending settles it, and is refused otherwise.
LEMMA ClaimRefines ==
  ASSUME DaemonInv, NEW p \in Posts, NEW a \in Asks, NEW d \in Decisions, Claim(p, a, d)
  PROVE  [Once!Next]_(Once!vars)
<1> USE DEF DaemonInv
<1>1. RequestOK(a) /\ RunTypeOK BY DEF RequestInv
<1>2. \A b \in Asks : p \notin Claims(b) BY UnsentClaimsNothing DEF Claim
<1>3. post[p] = Unsent /\ told[p] = None BY DEF Claim, PostInv
<1>4. \A q \in Posts : q # p => post'[q] = post[q] /\ told'[q] = told[q] BY DEF Claim, RunTypeOK
<1>5. post'[p] = [ask |-> a, decision |-> d] /\ UNCHANGED <<ret, channel>>
  BY DEF Claim, PostRest, RunTypeOK
<1>6. Returned' = Returned BY <1>5 DEF Returned, ReturnedBy
<1>7. decide[a] \notin {"idle", "new", "registered"}
  BY <1>1 DEF Claim, RequestOK, Unborn
<1>8. post' = [post EXCEPT ![p] = [ask |-> a, decision |-> d]] BY DEF Claim
<1>9. CASE a \in pending
  <2>1. Opened(a) /\ pending' = pending \ {a} /\ told' = told
    BY <1>1, <1>7, <1>9 DEF Claim, RequestOK, Claimed, Over, RunTypeOK, Stages
  <2>2. Claims(a)' = {p}
    <3>1. \A q \in Posts : q # p => (q \in Claims(a)' <=> q \in Claims(a)) BY <1>4 DEF Claims
    <3>2. post'[p].ask = a BY <1>5
    <3>5. told'[p] # "not found" BY <1>3, <2>1
    <3>3. p \in Claims(a)' BY <3>2, <3>5 DEF Claims
    <3>4. Claims(a)' \subseteq Posts BY DEF Claims
    <3> QED BY <2>1, <3>1, <3>3, <3>4 DEF Opened
  <2>3. \A b \in Asks \ {a} : Claims(b)' = Claims(b)
    <3>1. post'[p].ask = a BY <1>5
    <3> QED BY <1>2, <1>4, <3>1 DEF Claims
  <2>4. \A b \in Asks \ {a} : SettledBy(b)' = SettledBy(b) BY <1>5, <2>3, SameSettled
  <2>5. Settled' = [Settled EXCEPT ![a] = p] BY <2>2, <2>4, SettledNext, SettledAt
  <2>6. Once!Settle(p, a, d)
    BY <1>3, <1>6, <1>8, <1>9, <2>1, <2>5 DEF Once!Settle, Once!Unsent, Unsent
  <2> QED BY <2>6 DEF Once!Next
<1>10. CASE a \notin pending
  <2>1. pending' = pending /\ told' = [told EXCEPT ![p] = "not found"] BY <1>10 DEF Claim
  <2>2. told'[p] = "not found" BY <2>1 DEF RunTypeOK
  <2>3. \A b \in Asks : Claims(b)' = Claims(b) BY <1>2, <1>4, <2>2 DEF Claims
  <2>4. Settled' = Settled
    <3>1. \A b \in Asks : SettledBy(b)' = SettledBy(b) BY <1>5, <2>3, SameSettled
    <3> QED BY <3>1 DEF Settled
  <2>5. Settled[a] # None
    <3>1. Claimed(a) \/ Over(a)
      BY <1>1, <1>7, <1>10 DEF RequestOK, Opened, RunTypeOK, Stages
    <3>2. CASE \E q \in Posts : Claims(a) = {q}
      BY <3>2, SettledValue, DaemonAssumption DEF Settled
    <3>3. CASE ret[a] \in Expired /\ Claims(a) = {}
      BY <3>3, SettledValue DEF Settled
    <3>4. Announced(a) BY DEF Claim
    <3> QED BY <3>1, <3>2, <3>3, <3>4 DEF Claimed, Over, Expired
  <2>6. Once!Refuse(p, a, d)
    BY <1>3, <1>6, <1>8, <1>10, <2>1, <2>4, <2>5 DEF Once!Refuse, Once!Unsent, Unsent
  <2> QED BY <2>6 DEF Once!Next
<1> QED BY <1>9, <1>10

\* A client is told "accepted" by the post that settled the request.
LEMMA SendRefines ==
  ASSUME DaemonInv, NEW p \in Posts, Send(p)
  PROVE  [Once!Next]_(Once!vars)
<1> USE DEF DaemonInv
<1> DEFINE a == post[p].ask
<1>1. post[p] # Unsent /\ told[p] = None BY DEF Send
<1>2. a \in Asks /\ Claims(a) = {p} BY <1>1, SenderClaimed
<1>3. Settled[a] = p BY <1>2, SettledValue DEF Settled
<1>4. \A q \in Posts : told'[q] = IF q = p THEN "accepted" ELSE told[q] BY DEF Send, RunTypeOK
<1>5. UNCHANGED <<pending, post, ret>> BY DEF Send, PostRest
<1>6. \A b \in Asks : Claims(b)' = Claims(b) BY <1>1, <1>4, <1>5 DEF Claims
<1>7. \A b \in Asks : SettledBy(b)' = SettledBy(b) /\ ReturnedBy(b)' = ReturnedBy(b)
  BY <1>5, <1>6, SameSettled
<1>8. Settled' = Settled /\ Returned' = Returned BY <1>7 DEF Settled, Returned
<1>9. Once!Accept(p) BY <1>1, <1>3, <1>5, <1>8 DEF Send, Once!Accept, Once!Unsent, Unsent
<1> QED BY <1>9 DEF Once!Next

\* The exchange between Decide and the clients implements DecideOnce
\* (daemon/run.go:78-110, daemon/server.go:1279-1312, 1501-1556).
THEOREM ImplementsDecideOnce == DaemonSpec => DecideOnceSpec
<1>1. DaemonInit => Once!Init
  <2> SUFFICES ASSUME DaemonInit PROVE Once!Init OBVIOUS
  <2>1. \A a \in Asks : Claims(a) = {} BY DaemonAssumption DEF DaemonInit, Claims, Unsent
  <2>2. \A a \in Asks : SettledBy(a) = None /\ ReturnedBy(a) = None
    BY <2>1, SettledValue DEF DaemonInit, ReturnedBy, Expired
  <2> QED BY <2>2 DEF DaemonInit, Once!Init, Settled, Returned, Once!Unsent, Unsent
<1>2. DaemonInv /\ [DaemonNext]_daemonVars => [Once!Next]_(Once!vars)
  <2> SUFFICES ASSUME DaemonInv, [DaemonNext]_daemonVars PROVE [Once!Next]_(Once!vars) OBVIOUS
  <2>1. CASE UNCHANGED <<pending, post, told, ret>> BY <2>1, Stutters
  <2>2. ASSUME NEW a \in Asks, Decide(a) PROVE [Once!Next]_(Once!vars) BY <2>2, DecideRefines
  <2>3. ASSUME NEW p \in Posts, Send(p) PROVE [Once!Next]_(Once!vars) BY <2>3, SendRefines
  <2>4. ASSUME NEW p \in Posts, NEW a \in Asks, NEW d \in Decisions, Claim(p, a, d)
        PROVE  [Once!Next]_(Once!vars)
    BY <2>4, ClaimRefines
  <2> QED
    BY <2>1, <2>2, <2>3, <2>4
       DEF DaemonNext, RunStep, StartRun, PromptReturns, Report, FinishRun, ForwardEvent, CancelRun, Watch,
           Snapshot, WriteEvent, Written, Disconnect, WatchRest, askVars, postVars, daemonVars
<1> QED BY <1>1, <1>2, DaemonInductive, PTL DEF DaemonSpec, DecideOnceSpec, Once!Spec
=============================================================================
