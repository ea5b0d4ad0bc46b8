------------------------------ MODULE AgentLoop ------------------------------
(***************************************************************************)
(* One call of loop.Run (loop/run.go): the provider-agnostic agent loop,   *)
(* with the provider retries of loop/retry.go, the auto-continue check of  *)
(* loop/autocontinue.go and the guardrails of loop/guardrails.go.          *)
(*                                                                         *)
(* The caller may cancel the context at any moment.  The provider and the  *)
(* tools are the environment: the provider streams an optional start, then *)
(* content, then a done event, then closes the channel, and may fail or    *)
(* close early at any point, as the providers of this repository do; a     *)
(* tool, a hook or the permission handler returns any of its outcomes.     *)
(*                                                                         *)
(* A call is its canonical key; a reply is its calls and whether its text  *)
(* announces an action it does not take.  The transcript is NewMessages,   *)
(* what this run appends to the hardened history.                          *)
(***************************************************************************)
EXTENDS Integers, Sequences, FiniteSets

CONSTANTS
  Calls,            \* tool calls a reply can contain
  Gated,            \* calls of tools with RequiresPermission
  Invalid,          \* calls of unknown tools or with invalid arguments
  MaxCalls,         \* bound: calls in one reply
  MaxTurns,         \* RunRequest.MaxTurns, after its default
  MaxRetries,       \* RetryPolicy.MaxRetries, after its default
  RetryDisabled,    \* RetryPolicy.Disabled
  AutoContinue,     \* RunRequest.AutoContinue with a nonempty tool list
  MaxAutoContinues, \* maxAutoContinues, 2 in the code
  Modes,            \* values of RunRequest.Parallel
  Several, Disabled, RepeatNudgeAt, RepeatHaltAt, MistakeNudgeAt, MistakeHaltAt

ASSUME LoopAssumption ==
  /\ Gated \subseteq Calls /\ Invalid \subseteq Calls
  /\ Several \notin Calls
  /\ {MaxCalls, MaxTurns, MaxRetries} \subseteq Nat \ {0}
  /\ MaxAutoContinues \in Nat
  /\ {RetryDisabled, AutoContinue, Disabled} \subseteq BOOLEAN /\ Modes \subseteq BOOLEAN
  /\ {RepeatNudgeAt, RepeatHaltAt, MistakeNudgeAt, MistakeHaltAt} \subseteq Int

VARIABLES
  pc,            \* where Run is
  parallel,      \* RunRequest.Parallel of this run
  cancelled,     \* ctx.Err() # nil
  turn,          \* finished iterations of the turn loop
  attempt,       \* retries of the current turn so far
  autoContinues, \* "Please continue." nudges so far
  draft,         \* the assistant message being streamed
  err,           \* class of the error the last attempt returned ("canceled" is ctx.Err())
  calls,         \* toolCalls of the current reply
  status,        \* where each call of the round is
  result,        \* what each call of the round returned
  transcript,    \* newMessages
  guard,         \* guardState
  rounds,        \* history of the guardrails (see Guardrails)
  ui,            \* what an observer of the events sees open
  effects,       \* history: <<turn, i>> of every call whose executor ran
  approved,      \* history: <<turn, i>> of every call the handler allowed
  outcome        \* what Run returned

streamVars == <<attempt, draft, err>>
roundVars  == <<calls, status, result>>
guardVars  == <<guard, rounds>>
history    == <<effects, approved, parallel>>
vars == <<pc, cancelled, turn, autoContinues, streamVars, roundVars, transcript,
          guardVars, ui, history, outcome>>

G == INSTANCE Guardrails WITH Keys <- Calls, MaxRounds <- MaxTurns

Errors   == {"overflow", "transient", "fatal"}
Outcomes == {"running", "ok", "canceled", "overflow", "provider", "retries", "aborted",
             "repeat", "mistakes", "max_turns"}

\* The messages Run appends.
Reply(cs, stall) == [role |-> "assistant", calls |-> cs, stall |-> stall, stop |-> "natural"]
ResultOf(i)      == [role |-> "tool", pos |-> i, call |-> calls[i], isError |-> result[i] = "error"]
UserNudge(why)   == [role |-> "user", why |-> why]

NoDraft == [started |-> FALSE, done |-> FALSE, calls |-> <<>>, stall |-> FALSE]

-----------------------------------------------------------------------------
(* The request starts with an empty round and a running loop (loop_start). *)
Init ==
  /\ pc = "turn" /\ cancelled = FALSE /\ outcome = "running"
  /\ turn = 0 /\ attempt = 0 /\ autoContinues = 0
  /\ draft = NoDraft /\ err = "fatal"
  /\ calls = <<>> /\ status = <<>> /\ result = <<>>
  /\ transcript = <<>>
  /\ guard = G!NewGuard /\ rounds = <<>>
  /\ ui = [loop |-> TRUE, turn |-> FALSE, message |-> FALSE, tools |-> 0]
  /\ effects = {} /\ approved = {} /\ parallel \in Modes

\* The caller cancels the context it passed to Run.
Cancel ==
  /\ ~cancelled /\ pc # "done"
  /\ cancelled' = TRUE
  /\ UNCHANGED <<pc, turn, autoContinues, streamVars, roundVars, transcript, guardVars,
                 ui, history, outcome>>

\* Run returns; the deferred loop_end is the last event.
Return(why) ==
  /\ pc' = "done" /\ outcome' = why
  /\ ui' = [ui EXCEPT !.loop = FALSE]

-----------------------------------------------------------------------------
(* The head of the turn loop. *)

\* Mutant: the first reply is tagged.
FirstReply == CHOOSE k \in DOMAIN transcript :
                /\ transcript[k].role = "assistant"
                /\ \A j \in DOMAIN transcript : j < k => transcript[j].role # "assistant"

\* Every turn used: the last assistant message is tagged max_turns.
LastReply == CHOOSE k \in DOMAIN transcript :
               /\ transcript[k].role = "assistant"
               /\ \A j \in DOMAIN transcript : j > k => transcript[j].role # "assistant"

TurnsExhausted ==
  /\ pc = "turn" /\ turn >= MaxTurns
  /\ transcript' = [transcript EXCEPT ![LastReply].stop = "max_turns"]
  /\ Return("max_turns")
  /\ UNCHANGED <<cancelled, turn, autoContinues, streamVars, roundVars, guardVars, history>>

BeginTurn ==
  /\ pc = "turn" /\ turn < MaxTurns
  /\ \/ /\ cancelled /\ Return("canceled")
        /\ UNCHANGED attempt
     \/ /\ ~cancelled /\ pc' = "attempt"
        /\ attempt' = 0
        /\ ui' = [ui EXCEPT !.turn = TRUE]
        /\ UNCHANGED outcome
  /\ UNCHANGED <<cancelled, turn, autoContinues, draft, err, roundVars, transcript,
                 guardVars, history>>

-----------------------------------------------------------------------------
(* runAssistantTurn: one provider attempt. *)

AttemptFails(class) == pc' = "failed" /\ err' = class

\* Provider.Stream either refuses or hands over a channel.
OpenStream ==
  /\ pc = "attempt"
  /\ draft' = NoDraft
  /\ \/ pc' = "stream" /\ UNCHANGED err
     \/ \E class \in Errors : AttemptFails(class)
  /\ UNCHANGED <<cancelled, turn, attempt, autoContinues, roundVars, transcript, guardVars,
                 ui, history, outcome>>

StreamRest == UNCHANGED <<cancelled, turn, attempt, autoContinues, roundVars, transcript,
                          guardVars, history, outcome>>

\* A start event, or the first delta of text or thinking: message_start.
StreamStart ==
  /\ pc = "stream" /\ ~draft.started
  /\ draft' = [draft EXCEPT !.started = TRUE]
  /\ ui' = [ui EXCEPT !.message = TRUE]
  /\ UNCHANGED <<pc, err>> /\ StreamRest

\* A tool_call event.
StreamToolCall(c) ==
  /\ pc = "stream" /\ ~draft.done /\ Len(draft.calls) < MaxCalls
  /\ draft' = [draft EXCEPT !.started = TRUE, !.calls = Append(@, c)]
  /\ ui' = [ui EXCEPT !.message = TRUE]
  /\ UNCHANGED <<pc, err>> /\ StreamRest

\* The done event: it may replace the message streamed so far by its own, whose
\* calls are then the ones that count.
StreamDone ==
  /\ pc = "stream" /\ ~draft.done
  /\ \E cs \in {draft.calls, <<>>} \cup {<<c>> : c \in Calls}, stall \in BOOLEAN :
       /\ stall => cs = <<>>
       /\ draft' = [started |-> TRUE, done |-> TRUE, calls |-> cs, stall |-> stall]
  /\ ui' = [ui EXCEPT !.message = FALSE]
  /\ UNCHANGED <<pc, err>> /\ StreamRest

\* An error event, also one that follows the done event; an empty or malformed one
\* is fatal.
StreamError ==
  /\ pc = "stream"
  /\ \E class \in Errors : AttemptFails(class)
  /\ UNCHANGED <<draft, ui>> /\ StreamRest

\* The provider closes the channel.  Before the done event that is a failure, and
\* its wording makes it a transient one.
StreamClose ==
  /\ pc = "stream"
  /\ \/ ~draft.done /\ AttemptFails("transient")
     \/ draft.done /\ pc' = "reply" /\ UNCHANGED err
  /\ UNCHANGED <<draft, ui>> /\ StreamRest

\* Mutant: the context is consulted once the provider has said something.
CancelledOnceStarted ==
  /\ pc = "stream" /\ cancelled /\ draft.started
  /\ AttemptFails("canceled")
  /\ UNCHANGED <<draft, ui>> /\ StreamRest

\* The select of runAssistantTurn takes ctx.Done().
StreamCancelled ==
  /\ pc = "stream" /\ cancelled
  /\ AttemptFails("canceled")
  /\ UNCHANGED <<draft, ui>> /\ StreamRest

Stream == StreamStart \/ StreamDone \/ StreamError \/ StreamClose \/ StreamCancelled
            \/ \E c \in Calls : StreamToolCall(c)

-----------------------------------------------------------------------------
(* runAssistantTurnWithRetry: what becomes of a failed attempt. *)

RetryRest == UNCHANGED <<cancelled, turn, autoContinues, draft, err, roundVars, transcript,
                         guardVars, history>>

\* A failure after cancellation is returned as it is, and so is every failure when
\* retries are disabled; an overflow or a fatal error is never retried.
GiveUp ==
  /\ pc = "failed"
  /\ \/ /\ cancelled \/ RetryDisabled
        /\ Return(IF err = "canceled" THEN "canceled" ELSE "provider")
     \/ /\ ~cancelled /\ ~RetryDisabled
        /\ \/ err = "overflow" /\ Return("overflow")
           \/ err = "fatal" /\ Return("provider")
           \/ err = "transient" /\ attempt >= MaxRetries /\ Return("retries")
  /\ UNCHANGED attempt /\ RetryRest

\* The retry event is emitted and the back-off starts.
BackOff ==
  /\ pc = "failed" /\ ~cancelled /\ ~RetryDisabled
  /\ err = "transient" /\ attempt < MaxRetries
  /\ pc' = "backoff"
  /\ UNCHANGED <<attempt, ui, outcome>> /\ RetryRest

\* The transcript with the streamed reply.
Appended == Append(transcript, Reply(draft.calls, draft.stall))

\* Mutant: what the failed attempt streamed is kept.
KeepsDraft ==
  /\ pc = "backoff"
  /\ pc' = "attempt" /\ attempt' = attempt + 1 /\ transcript' = Appended
  /\ UNCHANGED <<ui, outcome, cancelled, turn, autoContinues, draft, err, roundVars,
                 guardVars, history>>

\* The timer fires, or the context is cancelled during the sleep.
Retry ==
  /\ pc = "backoff"
  /\ pc' = "attempt" /\ attempt' = attempt + 1
  /\ UNCHANGED <<ui, outcome>> /\ RetryRest

BackOffCancelled ==
  /\ pc = "backoff" /\ cancelled
  /\ Return("canceled")
  /\ UNCHANGED attempt /\ RetryRest

-----------------------------------------------------------------------------
(* The reply is appended; a reply without calls ends the run or is nudged. *)

Stalled == AutoContinue /\ autoContinues < MaxAutoContinues /\ draft.stall

FinalReply ==
  /\ pc = "reply" /\ draft.calls = <<>> /\ ~Stalled
  /\ transcript' = Appended
  /\ pc' = "done" /\ outcome' = "ok"
  /\ ui' = [ui EXCEPT !.turn = FALSE, !.loop = FALSE]
  /\ UNCHANGED <<cancelled, turn, autoContinues, streamVars, roundVars, guardVars, history>>

PleaseContinue ==
  /\ pc = "reply" /\ draft.calls = <<>> /\ Stalled
  /\ transcript' = Append(Appended, UserNudge("continue"))
  /\ autoContinues' = autoContinues + 1
  /\ pc' = "turn" /\ turn' = turn + 1
  /\ ui' = [ui EXCEPT !.turn = FALSE]
  /\ UNCHANGED <<cancelled, streamVars, roundVars, guardVars, history, outcome>>

ToolReply ==
  /\ pc = "reply" /\ draft.calls # <<>>
  /\ transcript' = Appended
  /\ \/ /\ cancelled /\ Return("canceled") /\ UNCHANGED roundVars
     \/ /\ ~cancelled /\ pc' = "tools"
        /\ calls' = draft.calls
        /\ status' = [i \in DOMAIN draft.calls |-> "idle"]
        /\ result' = [i \in DOMAIN draft.calls |-> "none"]
        /\ UNCHANGED <<ui, outcome>>
  /\ UNCHANGED <<cancelled, turn, autoContinues, streamVars, guardVars, history>>

-----------------------------------------------------------------------------
(* executeToolCalls: each call is a process of its own. *)

ToolRest == UNCHANGED <<pc, cancelled, turn, autoContinues, streamVars, calls, transcript,
                        guardVars, outcome>>

\* tool_start, in source order in both modes.  Sequentially, the previous call has
\* returned without aborting the round and the context is checked first.
ToolStart(i) ==
  /\ pc = "tools" /\ status[i] = "idle"
  /\ \A j \in 1 .. (i - 1) : status[j] # "idle"
  /\ ~parallel => ~cancelled /\ \A j \in 1 .. (i - 1) :
                                  status[j] = "finished" /\ result[j] # "abort"
  /\ status' = [status EXCEPT ![i] = "started"]
  /\ ui' = [ui EXCEPT !.tools = @ + 1]
  /\ UNCHANGED <<result, history>> /\ ToolRest

Finish(i, r) ==
  /\ status' = [status EXCEPT ![i] = "finished"]
  /\ result' = [result EXCEPT ![i] = r]

\* Invalid arguments or an unknown tool: an error result, no hook is consulted.
ToolInvalid(i) ==
  /\ pc = "tools" /\ status[i] = "started" /\ calls[i] \in Invalid
  /\ Finish(i, "error")
  /\ UNCHANGED <<ui, history>> /\ ToolRest

\* Mutant: an identical call of the round was asked about already.
FirstAsksForAll(i) == calls[i] \in Gated /\ \A j \in 1 .. (i - 1) : calls[j] # calls[i]

NeedsDecision(i) == calls[i] \in Gated

\* The PreTool hooks skip the call, abort the run, or let it pass to the
\* permission handler or, ungated, straight to its executor.
PreTool(i) ==
  /\ pc = "tools" /\ status[i] = "started" /\ calls[i] \notin Invalid
  /\ \/ \E r \in {"error", "abort"} : Finish(i, r)
     \/ /\ status' = [status EXCEPT ![i] = IF NeedsDecision(i) THEN "asked" ELSE "executing"]
        /\ UNCHANGED result
  /\ UNCHANGED <<ui, history>> /\ ToolRest

\* Permission.Decide.  A denial is an error result shown to the PostTool hooks,
\* which may rewrite it or abort the run.
ToolAllowed(i) ==
  /\ pc = "tools" /\ status[i] = "asked"
  /\ status' = [status EXCEPT ![i] = "executing"]
  /\ approved' = approved \cup {<<turn, i>>}
  /\ UNCHANGED <<result, ui, effects, parallel>> /\ ToolRest

ToolDenied(i) ==
  /\ pc = "tools" /\ status[i] = "asked"
  /\ \E r \in {"ok", "error", "abort"} : Finish(i, r)
  /\ UNCHANGED <<ui, history>> /\ ToolRest

\* The executor ran and the PostTool hooks saw its result.
ToolExecuted(i) ==
  /\ pc = "tools" /\ status[i] = "executing"
  /\ \E r \in {"ok", "error", "abort"} : Finish(i, r)
  /\ effects' = effects \cup {<<turn, i>>}
  /\ UNCHANGED <<ui, approved, parallel>> /\ ToolRest

Tool(i) == ToolStart(i) \/ ToolInvalid(i) \/ PreTool(i) \/ ToolAllowed(i) \/ ToolDenied(i)
             \/ ToolExecuted(i)

Aborted     == \E i \in DOMAIN calls : result[i] = "abort"
AllFinished == \A i \in DOMAIN calls : status[i] = "finished"

\* Sequentially a call that aborts, or a cancellation seen before the next call,
\* ends the round at once; in parallel wg.Wait lets every call finish first.
RoundAborts ==
  /\ pc = "tools"
  /\ \/ /\ ~parallel /\ Aborted /\ Return("aborted")
     \/ /\ ~parallel /\ cancelled /\ \A i \in DOMAIN calls : status[i] \in {"idle", "finished"}
        /\ ~Aborted /\ Return("canceled")
     \/ /\ parallel /\ AllFinished /\ cancelled /\ Return("canceled")
     \/ /\ parallel /\ AllFinished /\ ~cancelled /\ Aborted
        /\ pc' = "done" /\ outcome' = "aborted"
        /\ \E i \in DOMAIN calls :
             /\ result[i] = "abort" /\ \A j \in 1 .. (i - 1) : result[j] # "abort"
             /\ ui' = [ui EXCEPT !.tools = @ - (i - 1), !.loop = FALSE]
  /\ UNCHANGED <<cancelled, turn, autoContinues, streamVars, roundVars, transcript,
                 guardVars, history>>

RoundKey    == IF Len(calls) = 1 THEN calls[1] ELSE Several
RoundFailed == \A i \in DOMAIN calls : result[i] = "error"

\* Mutant: every round is observed by a guard of its own.
ObservedAfresh == G!ObserveRound(G!NewGuard, RoundKey, RoundFailed)

\* guard.observe on the round just completed.
Observed == G!ObserveRound(guard, RoundKey, RoundFailed)

\* Mutant: the corrective message comes first.
NudgeFirst(verdict) ==
  transcript \o (IF verdict.action = "nudge" THEN <<UserNudge(verdict.kind)>> ELSE <<>>)
    \o [i \in DOMAIN calls |-> ResultOf(i)]

\* The results in source order, then the corrective message if there is one.
Extended(verdict) ==
  transcript \o [i \in DOMAIN calls |-> ResultOf(i)]
    \o IF verdict.action = "nudge" THEN <<UserNudge(verdict.kind)>> ELSE <<>>

\* Mutant: failed calls emit no tool_end.
OkToolsClosed == ui.tools - Cardinality({i \in DOMAIN calls : result[i] = "ok"})

\* A complete round emits one tool_end per call.
ToolsLeftOpen == ui.tools - Len(calls)

\* The round is complete: tool_end events and results, then the guardrails observe
\* it and nudge, halt or let the run go on.
EndRound ==
  /\ pc = "tools" /\ AllFinished /\ ~Aborted /\ ~cancelled
  /\ LET v == Observed.verdict
     IN  /\ guard' = Observed.guard
         /\ rounds' = Append(rounds, [key |-> RoundKey, failed |-> RoundFailed, verdict |-> v])
         /\ transcript' = Extended(v)
         /\ \/ /\ v.action = "halt"
               /\ pc' = "done" /\ outcome' = v.kind
               /\ ui' = [ui EXCEPT !.tools = ToolsLeftOpen, !.loop = FALSE]
               /\ UNCHANGED turn
            \/ /\ v.action # "halt"
               /\ pc' = "turn" /\ turn' = turn + 1
               /\ ui' = [ui EXCEPT !.tools = ToolsLeftOpen, !.turn = FALSE]
               /\ UNCHANGED outcome
  /\ calls' = <<>> /\ status' = <<>> /\ result' = <<>>
  /\ UNCHANGED <<cancelled, autoContinues, streamVars, history>>

-----------------------------------------------------------------------------
Finished == pc = "done" /\ UNCHANGED vars

Next ==
  \/ Cancel
  \/ TurnsExhausted \/ BeginTurn
  \/ OpenStream \/ Stream
  \/ GiveUp \/ BackOff \/ Retry \/ BackOffCancelled
  \/ FinalReply \/ PleaseContinue \/ ToolReply
  \/ \E i \in DOMAIN calls : Tool(i)
  \/ RoundAborts \/ EndRound
  \/ Finished

Spec == Init /\ [][Next]_vars

(***************************************************************************)
(* Fairness.  The goroutine of Run is scheduled, so each of its own steps  *)
(* is eventually taken; hooks, handlers and executors are assumed to       *)
(* return.  Nothing obliges the caller to cancel.  The provider closes its *)
(* channel when the turn ends (the contract on loop.Provider), which only  *)
(* the second half of LoopEnds (MCServices) assumes.                       *)
(***************************************************************************)
RunSteps ==
  \/ TurnsExhausted \/ BeginTurn \/ OpenStream \/ StreamCancelled
  \/ GiveUp \/ BackOff \/ Retry \/ BackOffCancelled
  \/ FinalReply \/ PleaseContinue \/ ToolReply \/ RoundAborts \/ EndRound

LoopFairness ==
  /\ WF_vars(RunSteps)
  /\ \A i \in 1 .. MaxCalls : WF_vars(i \in DOMAIN calls /\ Tool(i))

ScheduledSpec == Spec /\ LoopFairness

-----------------------------------------------------------------------------
Messages ==
  [role : {"assistant"}, calls : Seq(Calls), stall : BOOLEAN, stop : {"natural", "max_turns"}]
    \cup [role : {"tool"}, pos : 1 .. MaxCalls, call : Calls, isError : BOOLEAN]
    \cup [role : {"user"}, why : {"continue", "repeat", "mistakes"}]

TypeOK ==
  /\ pc \in {"turn", "attempt", "stream", "failed", "backoff", "reply", "tools", "done"}
  /\ cancelled \in BOOLEAN /\ parallel \in Modes /\ outcome \in Outcomes
  /\ turn \in 0 .. MaxTurns /\ attempt \in 0 .. MaxRetries
  /\ autoContinues \in 0 .. MaxAutoContinues
  /\ draft \in [started : BOOLEAN, done : BOOLEAN, calls : Seq(Calls), stall : BOOLEAN]
  /\ Len(draft.calls) <= MaxCalls
  /\ err \in Errors \cup {"canceled"}
  /\ calls \in Seq(Calls) /\ Len(calls) <= MaxCalls
  /\ status \in [DOMAIN calls -> {"idle", "started", "asked", "executing", "finished"}]
  /\ result \in [DOMAIN calls -> {"none", "ok", "error", "abort"}]
  /\ transcript \in Seq(Messages)
  /\ guard \in G!GuardStates
  /\ ui \in [loop : BOOLEAN, turn : BOOLEAN, message : BOOLEAN, tools : 0 .. MaxCalls]
  /\ effects \subseteq (0 .. MaxTurns) \X (1 .. MaxCalls)
  /\ approved \subseteq (0 .. MaxTurns) \X (1 .. MaxCalls)

\* The assistant messages of the transcript, by position.
Replies == {k \in DOMAIN transcript : transcript[k].role = "assistant"}

\* The reply at k is followed at once by one result per call, in source order.
Answered(k) ==
  \A i \in DOMAIN transcript[k].calls :
    /\ k + i <= Len(transcript)
    /\ transcript[k + i].role = "tool"
    /\ transcript[k + i].pos = i /\ transcript[k + i].call = transcript[k].calls[i]

\* Every provider request carries complete pairs: each call of each reply of this
\* run is answered, in order, before anything else, and every result follows its
\* reply.  Only the last reply of a run that stopped may be left unanswered, and
\* then none of its results is there.
TranscriptPaired ==
  /\ \A k \in Replies : Answered(k) \/ (pc \in {"tools", "done"} /\ k = Len(transcript))
  /\ \A k \in DOMAIN transcript :
       transcript[k].role = "tool" =>
         /\ k - transcript[k].pos \in Replies
         /\ transcript[k].pos \in DOMAIN transcript[k - transcript[k].pos].calls

\* The reply of turn t, or 0.
ReplyOf(t) ==
  IF \E k \in Replies : Cardinality({j \in Replies : j < k}) = t
    THEN CHOOSE k \in Replies : Cardinality({j \in Replies : j < k}) = t
    ELSE 0

\* A tool that ran is seen by the model: the result of every executed call is in
\* the transcript, at its place, unless its round is still running or was given up
\* because of a cancellation or of a hook or handler that aborted the run.
EffectsRecorded ==
  \A e \in effects :
    \/ ReplyOf(e[1]) # 0 /\ transcript[ReplyOf(e[1])].calls # <<>> /\ Answered(ReplyOf(e[1]))
    \/ e[1] = turn /\ (pc = "tools" \/ outcome \in {"canceled", "aborted"})

\* A gated call runs only after its own approval, in whatever order the calls of
\* the round were asked, and a sequential round runs nothing past a call that
\* aborted it.
EffectsAreLicensed ==
  /\ \A e \in effects :
       ReplyOf(e[1]) # 0 /\ (transcript[ReplyOf(e[1])].calls[e[2]] \in Gated => e \in approved)
  /\ ~parallel => \A i, j \in DOMAIN calls :
                    i < j /\ result[i] = "abort" => <<turn, j>> \notin effects

EffectsAccounted == TypeOK /\ EffectsRecorded /\ EffectsAreLicensed

\* What Run returns agrees with the transcript it returns: a nil error means the
\* last message is the model's final answer; the max_turns tag sits on the last
\* reply exactly when the budget ran out; a halt follows a complete round; the
\* nudges stay within their bound.
OutcomeMatchesTranscript ==
  /\ outcome = "ok" => /\ transcript # <<>>
                       /\ transcript[Len(transcript)].role = "assistant"
                       /\ transcript[Len(transcript)].calls = <<>>
  /\ \A k \in Replies :
       transcript[k].stop = "max_turns" <=> outcome = "max_turns" /\ \A j \in Replies : j <= k
  /\ outcome = "max_turns" => Cardinality(Replies) = MaxTurns
  /\ outcome \in {"repeat", "mistakes"} => \A k \in Replies : Answered(k)
  /\ Cardinality({k \in DOMAIN transcript : transcript[k] = UserNudge("continue")})
       <= MaxAutoContinues

\* An observer of the events sees everything closed between turns and after a run
\* that returned no error: no turn, message or tool is left spinning, and loop_end
\* is only ever the last event.
EventsBalance ==
  /\ pc = "turn" \/ outcome \in {"ok", "max_turns"} =>
       ~ui.turn /\ ~ui.message /\ ui.tools = 0
  /\ ui.loop <=> outcome = "running"

\* "Nothing is appended to the transcript until an attempt succeeds, so retries
\* can never duplicate history": the steps of the provider attempts and of the
\* back-off leave the transcript and the tools alone.
Attempting == pc \in {"attempt", "stream", "failed", "backoff"}

RetryKeepsHistory ==
  [][Attempting => UNCHANGED <<transcript, effects, autoContinues, guardVars>>]_vars

\* The tool rounds of Run drive the guardrails of module Guardrails.
GuardSpec == G!Spec

-----------------------------------------------------------------------------
(***************************************************************************)
(* The inductive strengthening.  One reply per turn, the last one under    *)
(* way while its tools run; tools start in source order, in a sequential   *)
(* round only past finished ones; effects belong to calls that finished;   *)
(* the counters of Run count what the transcript and the history hold.     *)
(***************************************************************************)
ControlInv ==
  /\ outcome = "running" <=> pc # "done"
  /\ pc \notin {"turn", "done"} => turn < MaxTurns
  /\ pc = "backoff" => attempt < MaxRetries
  /\ pc = "reply" => draft.done
  /\ draft.done => draft.started
  /\ pc \notin {"tools", "done"} => calls = <<>>

ReplyInv ==
  /\ pc \notin {"tools", "done"} => Cardinality(Replies) = turn
  /\ pc = "tools" => /\ Cardinality(Replies) = turn + 1
                     /\ Len(transcript) \in Replies
                     /\ transcript[Len(transcript)].calls = calls
  /\ Replies # {} => \E k \in Replies : \A j \in Replies : j <= k

RoundInv ==
  /\ pc = "tools" =>
       /\ ui.tools <= Len(calls)
       /\ \A i \in DOMAIN calls : status[i] # "idle" <=> i <= ui.tools
       /\ \A i \in DOMAIN calls :
            status[i] = "executing" /\ calls[i] \in Gated => <<turn, i>> \in approved
       /\ ~parallel => \A i, j \in DOMAIN calls :
            i < j /\ status[j] # "idle" => status[i] = "finished" /\ result[i] # "abort"
  /\ \A e \in effects :
       /\ e[1] <= turn
       /\ e[1] = turn => pc \in {"tools", "done"}
       /\ e[1] = turn /\ pc = "tools" => e[2] \in DOMAIN calls /\ status[e[2]] = "finished"

ObserverInv ==
  /\ pc \notin {"tools", "done"} => ui.tools = 0
  /\ pc = "tools" => ~ui.message
  /\ pc \in {"stream", "reply"} /\ draft.done => ~ui.message

Continues == {k \in DOMAIN transcript : transcript[k] = UserNudge("continue")}
NudgeInv  == Cardinality(Continues) = autoContinues

GuardInv == /\ rounds \in Seq(G!Rounds)
            /\ pc # "done" => ~G!Halted /\ Len(rounds) <= turn

IInv == /\ TypeOK /\ ControlInv /\ ReplyInv /\ RoundInv /\ ObserverInv /\ NudgeInv /\ GuardInv
        /\ TranscriptPaired /\ EventsBalance /\ OutcomeMatchesTranscript
        /\ EffectsRecorded /\ EffectsAreLicensed
=============================================================================
