----------------------------- MODULE DaemonRun -----------------------------
(***************************************************************************)
(* One run of the daemon (daemon/run.go and the run handlers of            *)
(* daemon/server.go): the goroutine of executeRun around Session.Prompt,   *)
(* the permission requests its tool calls wait on, the HTTP posts that     *)
(* decide them, and the SSE subscribers that stream its events.            *)
(*                                                                         *)
(* Each step below is one critical section of run.mu or permMu, or one     *)
(* channel operation.  Session.Prompt is the environment: while it runs it *)
(* emits events and starts permission requests, several at a time when the *)
(* loop runs its tools in parallel, and it returns when none is left.      *)
(* Clients post, disconnect and cancel when they please.                   *)
(***************************************************************************)
EXTENDS Integers, Sequences, FiniteSets

CONSTANTS
  Asks,         \* permission requests of the run
  Keys, KeyOf,  \* KeyOf[a]: what a remembered decision on a is filed under
  Posts,        \* POST .../permissions/{id} requests
  Watchers,     \* GET .../events requests
  MaxLoopEvents \* bound: loop events forwarded by the run

ASSUME DaemonAssumption ==
  /\ KeyOf \in [Asks -> Keys]
  /\ {"none", "expired"} \cap Posts = {}
  /\ "none" \notin Asks
  /\ MaxLoopEvents \in Nat

VARIABLES
  runPc,        \* executeRun: "start", "prompt", "report", "finish" or "end"
  ctxCancelled, \* the run's context is cancelled
  promptResult, \* what Prompt returned: "ok", "canceled" or "internal"
  events,       \* run.events, sequence numbers being positions
  pending,      \* run.pending
  decide,       \* per ask: where decidePermission is
  channel,      \* per ask: the decision buffered in pendingPermission.done
  ret,          \* per ask: what decidePermission returned
  post,         \* per post: the request it names and the decision it carries
  told,         \* per post: the answer of handlePermissionDecision
  grants,       \* remembered keys
  watch,        \* per watcher: the state of handleRunEvents
  woken         \* watchers whose notify channel is closed

runVars   == <<runPc, promptResult>>
askVars   == <<pending, decide, channel, ret, grants>>
postVars  == <<post, told>>
watchVars == <<watch>>
logVars   == <<events, woken>>
daemonVars == <<runVars, ctxCancelled, logVars, askVars, postVars, watchVars>>

Decisions == {"deny", "allow", "remember"}
None   == "none"
Unsent == [ask |-> None, decision |-> None]

\* run.emit: the event is appended and everyone waiting is woken.
Emit(type, a) ==
  /\ events' = Append(events, [type |-> type, ask |-> a])
  /\ woken' = Watchers

DaemonInit ==
  /\ runPc = "start" /\ promptResult = None /\ ctxCancelled = FALSE
  /\ events = <<>> /\ woken = {}
  /\ pending = {} /\ grants = {}
  /\ decide = [a \in Asks |-> "idle"]
  /\ channel = [a \in Asks |-> None] /\ ret = [a \in Asks |-> None]
  /\ post = [p \in Posts |-> Unsent] /\ told = [p \in Posts |-> None]
  /\ watch = [w \in Watchers |-> [state |-> "new", sent |-> 0, upto |-> 0, last |-> FALSE]]

-----------------------------------------------------------------------------
(* executeRun. *)

StartRun ==
  /\ runPc = "start" /\ runPc' = "prompt"
  /\ Emit("run_start", None)
  /\ UNCHANGED <<ctxCancelled, promptResult, askVars, postVars, watchVars>>

LoopEvents == {i \in DOMAIN events : events[i].type = "loop"}

\* The events handler given to Prompt forwards a loop event.
ForwardEvent ==
  /\ runPc = "prompt" /\ Cardinality(LoopEvents) < MaxLoopEvents
  /\ Emit("loop", None)
  /\ UNCHANGED <<runVars, ctxCancelled, askVars, postVars, watchVars>>

\* Mutant: Prompt waits for the requests that lost an expiry only.
OnlyLate == {a \in Asks : decide[a] = "late"}

\* Prompt returns when none of its tool calls is still deciding.  A decision that
\* came back as an error aborts the run, and only a cancelled context makes the
\* error a cancellation.
Undecided == {a \in Asks : decide[a] \notin {"idle", "returned"}}
Failures  == {a \in Asks : ret[a] \in {"failed", "canceled", "policy error"}}

PromptReturns ==
  /\ runPc = "prompt" /\ Undecided = {}
  /\ runPc' = "report"
  /\ \/ Failures = {} /\ promptResult' = "ok"
     \/ promptResult' = "internal"
     \/ ctxCancelled /\ promptResult' = "canceled"
  /\ UNCHANGED <<ctxCancelled, logVars, askVars, postVars, watchVars>>

\* run_done or run_error, and then run.finish: two critical sections.
Report ==
  /\ runPc = "report" /\ runPc' = "finish"
  /\ Emit(IF promptResult = "ok" THEN "run_done" ELSE "run_error", None)
  /\ UNCHANGED <<ctxCancelled, promptResult, askVars, postVars, watchVars>>

\* Mutant: finish does not signal.
FinishSilently ==
  /\ runPc = "finish" /\ runPc' = "end"
  /\ UNCHANGED <<ctxCancelled, promptResult, events, woken, askVars, postVars, watchVars>>

FinishRun ==
  /\ runPc = "finish" /\ runPc' = "end"
  /\ woken' = Watchers
  /\ UNCHANGED <<ctxCancelled, promptResult, events, askVars, postVars, watchVars>>

Done == runPc = "end"

-----------------------------------------------------------------------------
(* decidePermission, one process per request. *)

AskRest == UNCHANGED <<runVars, ctxCancelled, postVars, watchVars>>

Returns(a, r) ==
  /\ decide' = [decide EXCEPT ![a] = "returned"]
  /\ ret' = [ret EXCEPT ![a] = r]

\* cachedPermission.
Cached(a) == KeyOf[a] \in grants

\* applyPermissionPolicy or a remembered grant answers, or the client must be asked.
Ask(a) ==
  /\ runPc = "prompt" /\ decide[a] = "idle"
  /\ \/ Returns(a, "policy") \/ Returns(a, "policy error")
     \/ Cached(a) /\ Returns(a, "cached")
     \/ /\ ~Cached(a)
        /\ decide' = [decide EXCEPT ![a] = "new"]
        /\ UNCHANGED ret
  /\ UNCHANGED <<pending, channel, grants, logVars>> /\ AskRest

Register(a) ==
  /\ decide[a] = "new"
  /\ pending' = pending \cup {a}
  /\ decide' = [decide EXCEPT ![a] = "registered"]
  /\ UNCHANGED <<channel, ret, grants, logVars>> /\ AskRest

Announce(a) ==
  /\ decide[a] = "registered"
  /\ Emit("permission_request", a)
  /\ decide' = [decide EXCEPT ![a] = "waiting"]
  /\ UNCHANGED <<pending, channel, ret, grants>> /\ AskRest

\* rememberPermission.
Remember(a, d) == IF d = "remember" THEN grants \cup {KeyOf[a]} ELSE grants

\* A decision is received, by the select or by the receive after a lost expiry,
\* and remembered; the store may refuse, which leaves the grant in memory.
Receive(a) ==
  /\ decide[a] \in {"waiting", "late"} /\ channel[a] # None
  /\ channel' = [channel EXCEPT ![a] = None]
  /\ grants' = Remember(a, channel[a])
  /\ \/ Returns(a, channel[a])
     \/ channel[a] = "remember" /\ Returns(a, "failed")
  /\ UNCHANGED <<pending, logVars>> /\ AskRest

\* The timer or the context wins the select: the request is withdrawn, unless a
\* post has claimed it, whose decision is then waited for.
Expire(a, why) ==
  /\ decide[a] = "waiting"
  /\ \/ a \in pending /\ pending' = pending \ {a} /\ Returns(a, why)
     \/ /\ a \notin pending
        /\ decide' = [decide EXCEPT ![a] = "late"]
        /\ UNCHANGED <<pending, ret>>
  /\ UNCHANGED <<channel, grants, logVars>> /\ AskRest

\* Mutant: the timer only matters to a cancelled run.
NoTimer(a) == ctxCancelled /\ Expire(a, "timed out")

TimesOut(a) == Expire(a, "timed out")
CtxDone(a)  == ctxCancelled /\ Expire(a, "canceled")

Decide(a) == Ask(a) \/ Register(a) \/ Announce(a) \/ Receive(a) \/ TimesOut(a) \/ CtxDone(a)

-----------------------------------------------------------------------------
(* handlePermissionDecision and resolvePermission. *)

PostRest == UNCHANGED <<runVars, ctxCancelled, logVars, decide, ret, grants, watchVars>>

\* Clients know the id of a request from its event.
Announced(a) == \E i \in DOMAIN events :
                  events[i].type = "permission_request" /\ events[i].ask = a

\* Mutants: the request is looked up but not removed; it is resolved before the
\* decision is built.
Peeks(p, a, d) ==
  /\ post[p] = Unsent /\ Announced(a)
  /\ post' = [post EXCEPT ![p] = [ask |-> a, decision |-> d]]
  /\ told' = [told EXCEPT ![p] = IF a \in pending THEN None ELSE "not found"]
  /\ UNCHANGED <<channel, pending>> /\ PostRest
ResolvesFirst(p, a, d) ==
  /\ post[p] = Unsent /\ Announced(a) /\ a \in pending /\ d \in Decisions
  /\ post' = [post EXCEPT ![p] = [ask |-> a, decision |-> None]]
  /\ pending' = pending \ {a}
  /\ UNCHANGED <<channel, told>> /\ PostRest

\* The request is removed from pending under run.mu, or is no longer there.
Claim(p, a, d) ==
  /\ post[p] = Unsent /\ Announced(a)
  /\ post' = [post EXCEPT ![p] = [ask |-> a, decision |-> d]]
  /\ \/ a \in pending /\ pending' = pending \ {a} /\ UNCHANGED told
     \/ /\ a \notin pending
        /\ told' = [told EXCEPT ![p] = "not found"]
        /\ UNCHANGED pending
  /\ UNCHANGED channel /\ PostRest

\* After the unlock: the decision is sent, and the client told it was accepted.
Send(p) ==
  /\ post[p] # Unsent /\ told[p] = None
  /\ channel' = [channel EXCEPT ![post[p].ask] = post[p].decision]
  /\ told' = [told EXCEPT ![p] = "accepted"]
  /\ UNCHANGED <<pending, post>> /\ PostRest

-----------------------------------------------------------------------------
(* handleRunEvents, and the two ways to cancel. *)

WatchRest == UNCHANGED <<runVars, events, askVars, postVars>>

\* eventsFrom: the unsent events, whether the run is done, and the notify channel
\* of this moment, all under run.mu.
Snapshot(w) ==
  /\ \/ watch[w].state = "new"
     \/ watch[w].state = "waiting" /\ w \in woken
  /\ watch' = [watch EXCEPT ![w].state = "writing", ![w].upto = Len(events), ![w].last = Done]
  /\ woken' = woken \ {w}
  /\ UNCHANGED ctxCancelled /\ WatchRest

WriteEvent(w) ==
  /\ watch[w].state = "writing" /\ watch[w].sent < watch[w].upto
  /\ watch' = [watch EXCEPT ![w].sent = @ + 1]
  /\ UNCHANGED <<ctxCancelled, woken>> /\ WatchRest

\* Mutant: the notify channel is fetched after the events are written.
NotifyTooLate(w) ==
  /\ watch[w].state = "writing" /\ watch[w].sent = watch[w].upto
  /\ watch' = [watch EXCEPT ![w].state = IF watch[w].last THEN "complete" ELSE "waiting"]
  /\ woken' = woken \ {w}
  /\ UNCHANGED ctxCancelled /\ WatchRest

Written(w) ==
  /\ watch[w].state = "writing" /\ watch[w].sent = watch[w].upto
  /\ watch' = [watch EXCEPT ![w].state = IF watch[w].last THEN "complete" ELSE "waiting"]
  /\ UNCHANGED <<ctxCancelled, woken>> /\ WatchRest

\* The client is gone: a write fails, or the select sees its context.
Disconnect(w) ==
  /\ \/ watch[w].state = "writing" /\ watch[w].sent < watch[w].upto
     \/ watch[w].state = "waiting"
  /\ watch' = [watch EXCEPT ![w].state = "gone"]
  /\ ctxCancelled' = TRUE
  /\ UNCHANGED woken /\ WatchRest

\* DELETE /v1/runs/{id}, at any time.
CancelRun ==
  /\ ctxCancelled' = TRUE
  /\ UNCHANGED <<woken, watchVars>> /\ WatchRest

Watch(w) == Snapshot(w) \/ WriteEvent(w) \/ Written(w)

-----------------------------------------------------------------------------
RunStep == StartRun \/ PromptReturns \/ Report \/ FinishRun

DaemonNext ==
  \/ RunStep \/ ForwardEvent \/ CancelRun
  \/ \E a \in Asks : Decide(a)
  \/ \E p \in Posts : Send(p) \/ \E a \in Asks, d \in Decisions : Claim(p, a, d)
  \/ \E w \in Watchers : Watch(w) \/ Disconnect(w)

DaemonSpec == DaemonInit /\ [][DaemonNext]_daemonVars

(***************************************************************************)
(* Fairness.  Goroutines are scheduled: executeRun, every decidePermission *)
(* with its timer, every handler past its unlock, every connected          *)
(* subscriber.  Prompt returns once its requests have (AgentLoop shows it  *)
(* of a run whose provider closes its streams or that is cancelled).       *)
(* Nobody has to post, and nobody has to start another request.            *)
(***************************************************************************)
DecideStep(a) == Register(a) \/ Announce(a) \/ Receive(a) \/ TimesOut(a)

Fairness ==
  /\ WF_daemonVars(RunStep)
  /\ \A a \in Asks : WF_daemonVars(DecideStep(a))
  /\ \A p \in Posts : WF_daemonVars(Send(p))
  /\ \A w \in Watchers : WF_daemonVars(Watch(w))

FairDaemon == DaemonSpec /\ Fairness

-----------------------------------------------------------------------------
Stages  == {"idle", "new", "registered", "waiting", "late", "returned"}
Answers == Decisions \cup {None, "policy", "policy error", "cached", "failed", "timed out",
                          "canceled"}
Streams == [state : {"new", "writing", "waiting", "complete", "gone"},
            sent : Nat, upto : Nat, last : BOOLEAN]

RunTypeOK ==
  /\ runPc \in {"start", "prompt", "report", "finish", "end"}
  /\ promptResult \in {None, "ok", "canceled", "internal"}
  /\ ctxCancelled \in BOOLEAN
  /\ events \in Seq([type : {"run_start", "loop", "permission_request", "run_done", "run_error"},
                     ask : Asks \cup {None}])
  /\ pending \subseteq Asks /\ grants \subseteq Keys
  /\ decide \in [Asks -> Stages]
  /\ channel \in [Asks -> Decisions \cup {None}]
  /\ ret \in [Asks -> Answers]
  /\ post \in [Posts -> [ask : Asks, decision : Decisions] \cup {Unsent}]
  /\ told \in [Posts -> {None, "accepted", "not found"}]
  /\ watch \in [Watchers -> Streams]
  /\ woken \subseteq Watchers

\* The posts that removed request a from pending.
Claims(a) == {p \in Posts : post[p].ask = a /\ told[p] # "not found"}

\* Decide never waits for an answer that cannot come: a request that is waited on
\* is still pending, or exactly one post took it and its decision is on its way or
\* in the channel; a request whose expiry failed is one a post took.
WaitersAreAnswerable ==
  \A a \in Asks :
    /\ (decide[a] \in {"waiting", "late"} /\ a \notin pending) =>
         \/ channel[a] # None
         \/ \E p \in Claims(a) : told[p] = None
    /\ decide[a] = "late" => a \notin pending

\* A client that was told "accepted" decided: no other post did, the request did
\* not expire, and Decide returns what this client chose, or the store's error.
AcceptedIsDelivered ==
  \A p \in Posts : told[p] = "accepted" =>
    LET a == post[p].ask
    IN  /\ Claims(a) = {p}
        /\ IF decide[a] = "returned"
             THEN \/ ret[a] = post[p].decision
                  \/ post[p].decision = "remember" /\ ret[a] = "failed"
             ELSE channel[a] = post[p].decision

\* A grant, and so every request it answers without asking, goes back to a client
\* whose decision to remember was accepted.
Consents(p, k) == told[p] = "accepted" /\ post[p].decision = "remember" /\ KeyOf[post[p].ask] = k

GrantsAreConsented ==
  /\ \A k \in grants : \E p \in Posts : Consents(p, k)
  /\ \A a \in Asks : ret[a] = "cached" => KeyOf[a] \in grants

\* What Decide, pending, the channels, the posts and the grants of a run agree on at
\* any moment (decidePermission and handlePermissionDecision, daemon/server.go:1279-1593).
DecisionsAreSound == RunTypeOK /\ WaitersAreAnswerable /\ AcceptedIsDelivered /\ GrantsAreConsented

\* The log of a run begins with run_start, announces a request once, and ends
\* with its only terminal event, emitted when no request is left pending.
Terminal(e) == e.type \in {"run_done", "run_error"}

EventLogWellFormed ==
  /\ \A i \in DOMAIN events : events[i].type = "run_start" <=> i = 1
  /\ \A i \in DOMAIN events : Terminal(events[i]) => i = Len(events) /\ pending = {}
  /\ runPc \in {"finish", "end"} <=> events # <<>> /\ Terminal(events[Len(events)])
  /\ \A i, j \in DOMAIN events :
       i # j /\ events[i].type = "permission_request" => events[j] # events[i]

\* A subscriber that sleeps on a channel nobody will close has missed nothing.
NoLostWakeup ==
  \A w \in Watchers : watch[w].state = "waiting" /\ w \notin woken =>
    watch[w].sent = Len(events) /\ ~Done

\* A stream the daemon closes by itself carried the whole log, the terminal event
\* included.
CompleteStreams ==
  \A w \in Watchers : watch[w].state = "complete" =>
    watch[w].sent = Len(events) /\ Terminal(events[Len(events)])

\* What a subscriber of a run can rely on (eventsFrom and handleRunEvents,
\* daemon/run.go:65-76, daemon/server.go:1245-1266).
StreamsAreSound == NoLostWakeup /\ CompleteStreams

\* Settled requests and returned decisions, as DecideOnce sees them.
SettledBy(a) ==
  IF Claims(a) # {} THEN CHOOSE p \in Claims(a) : TRUE
  ELSE IF ret[a] \in {"timed out", "canceled"} THEN "expired" ELSE None
ReturnedBy(a) ==
  IF ret[a] \in {"timed out", "canceled"} THEN "expired"
  ELSE IF ret[a] \in {"policy", "policy error", "cached"} THEN None ELSE ret[a]

Settled  == [a \in Asks |-> SettledBy(a)]
Returned == [a \in Asks |-> ReturnedBy(a)]

Once == INSTANCE DecideOnce WITH open <- pending, settled <- Settled, target <- post,
                                 returned <- Returned

\* The permission exchange keeps the promise of DecideOnce.
DecideOnceSpec == Once!Spec

\* Whoever answers and whatever the clients do, Decide returns, and every subscriber's
\* stream ends, with the whole log or with its client gone (decidePermission,
\* handleRunEvents).
AsksReturn == \A a \in Asks : decide[a] = "new" ~> decide[a] = "returned"
StreamsEnd == \A w \in Watchers : <>(watch[w].state \in {"complete", "gone"})
NobodyWaitsForever == AsksReturn /\ StreamsEnd

\* "If the owner stream disconnects while a permission request is pending, the
\* daemon denies with a model-visible reason" (docs/adr/0010, section 7): a
\* disconnect never turns a request into an error of the run.
DisconnectDenies ==
  \A a \in Asks : ret[a] = "canceled" => \A w \in Watchers : watch[w].state # "gone"

-----------------------------------------------------------------------------
(***************************************************************************)
(* The inductive strengthening.  A request is unborn, open, claimed by one *)
(* post or over, and where Decide stands, what is pending, what the        *)
(* channel holds and what the posts were told agree on which.              *)
(***************************************************************************)
Unborn(a) == /\ a \notin pending /\ Claims(a) = {} /\ channel[a] = None /\ ret[a] = None
             /\ ~Announced(a)
Opened(a) == a \in pending /\ Claims(a) = {} /\ channel[a] = None /\ ret[a] = None
Claimed(a) ==
  /\ a \notin pending /\ ret[a] = None
  /\ \E p \in Posts : /\ Claims(a) = {p}
                      /\ told[p] = None => channel[a] = None
                      /\ told[p] = "accepted" => channel[a] = post[p].decision
Over(a) ==
  /\ a \notin pending /\ channel[a] = None
  /\ \/ ret[a] \in {"policy", "policy error", "cached"} /\ Claims(a) = {} /\ ~Announced(a)
     \/ ret[a] \in {"timed out", "canceled"} /\ Claims(a) = {}
     \/ \E p \in Posts : /\ Claims(a) = {p} /\ told[p] = "accepted"
                         /\ \/ ret[a] = post[p].decision
                            \/ post[p].decision = "remember" /\ ret[a] = "failed"

RequestOK(a) ==
  /\ decide[a] \in {"idle", "new"} => Unborn(a)
  /\ decide[a] = "registered" => Opened(a) /\ ~Announced(a)
  /\ decide[a] = "waiting" => Opened(a) \/ Claimed(a)
  /\ decide[a] = "late" => Claimed(a)
  /\ decide[a] = "returned" => Over(a)

RequestInv == \A a \in Asks : RequestOK(a)

PostInv == \A p \in Posts : told[p] # None => post[p] # Unsent

\* Requests live while Prompt runs, and the terminal event comes once it has returned.
RunInv ==
  /\ runPc # "prompt" => Undecided = {}
  /\ runPc \in {"finish", "end"} <=> events # <<>> /\ Terminal(events[Len(events)])

\* What a subscriber holds is the log up to its snapshot, and it is awake unless
\* the snapshot is still the whole truth.
SubscriberOK(w) ==
  /\ watch[w].state \in {"writing", "waiting"} =>
       /\ watch[w].upto <= Len(events)
       /\ w \notin woken => watch[w].upto = Len(events) /\ (watch[w].last <=> Done)
  /\ watch[w].last => Done /\ watch[w].upto = Len(events)
  /\ watch[w].state \in {"waiting", "complete"} => watch[w].sent = watch[w].upto
  /\ watch[w].state = "waiting" => ~watch[w].last
  /\ watch[w].state = "complete" => watch[w].last

StreamInv == \A w \in Watchers : SubscriberOK(w)

DaemonInv == RunTypeOK /\ RequestInv /\ PostInv /\ RunInv /\ StreamInv

\* The log so far: what each emit relies on to keep EventLogWellFormed.
LogInv ==
  /\ events = <<>> <=> runPc = "start"
  /\ \A i \in DOMAIN events : events[i].type = "run_start" <=> i = 1
  /\ \A i \in DOMAIN events : Terminal(events[i]) => i = Len(events)
  /\ \A i, j \in DOMAIN events :
       i # j /\ events[i].type = "permission_request" => events[j] # events[i]
=============================================================================
