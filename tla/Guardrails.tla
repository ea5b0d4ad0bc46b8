----------------------------- MODULE Guardrails -----------------------------
(***************************************************************************)
(* The loop guardrails of loop/guardrails.go: one guardState observes the  *)
(* tool rounds of one Run and answers each with "ok", "nudge" (inject a    *)
(* corrective user message) or "halt" (end the run).                       *)
(*                                                                         *)
(* A round is what `observe` looks at and no more: the canonical key of    *)
(* its call when it has exactly one (Several otherwise), and whether every *)
(* result of the round is an error.                                        *)
(***************************************************************************)
EXTENDS Integers, Sequences

CONSTANTS
  Keys,          \* canonical keys of single-call rounds (toolCallKey)
  Several,       \* stands for a round of two calls or more
  Disabled,      \* GuardrailPolicy.Disabled
  RepeatNudgeAt, \* the four thresholds as the caller sets them: zero or
  RepeatHaltAt,  \*   negative asks for the default
  MistakeNudgeAt,
  MistakeHaltAt,
  MaxRounds      \* tool rounds of one Run; MaxTurns bounds them

ASSUME GuardrailAssumption ==
  /\ Several \notin Keys
  /\ Disabled \in BOOLEAN
  /\ {RepeatNudgeAt, RepeatHaltAt, MistakeNudgeAt, MistakeHaltAt} \subseteq Int
  /\ MaxRounds \in Nat

\* GuardrailPolicy.withDefaults.
OrDefault(n, default) == IF n <= 0 THEN default ELSE n
RepeatNudge  == OrDefault(RepeatNudgeAt, 3)
RepeatHalt   == OrDefault(RepeatHaltAt, 5)
MistakeNudge == OrDefault(MistakeNudgeAt, 3)
MistakeHalt  == OrDefault(MistakeHaltAt, 6)

Kinds    == {"repeat", "mistakes"}
Verdicts == {[action |-> "ok", kind |-> "none"]}
              \cup [action : {"nudge", "halt"}, kind : Kinds]
OK       == [action |-> "ok", kind |-> "none"]
Nudge(k) == [action |-> "nudge", kind |-> k]
Halt(k)  == [action |-> "halt", kind |-> k]

(***************************************************************************)
(* guardState.  Several doubles as the empty lastCallKey: neither is ever  *)
(* the key of a call.                                                      *)
(***************************************************************************)
GuardStates ==
  [lastCallKey : Keys \cup {Several}, repeatCount : Nat, repeatNudged : BOOLEAN,
   mistakeRounds : Nat, mistakeNudged : BOOLEAN]

NewGuard ==
  [lastCallKey |-> Several, repeatCount |-> 0, repeatNudged |-> FALSE,
   mistakeRounds |-> 0, mistakeNudged |-> FALSE]

\* The identical-call half of observe: extend the streak, start a new one, or
\* forget it.
TrackRepeat(g, key) ==
  IF key = Several
    THEN [g EXCEPT !.lastCallKey = Several, !.repeatCount = 0, !.repeatNudged = FALSE]
  ELSE IF key = g.lastCallKey
    THEN [g EXCEPT !.repeatCount = @ + 1]
    ELSE [g EXCEPT !.lastCallKey = key, !.repeatCount = 1, !.repeatNudged = FALSE]

\* Mutant: a successful round leaves the streak of failed rounds alone.
NeverResets(g, failed) == [g EXCEPT !.mistakeRounds = IF failed THEN @ + 1 ELSE @]

\* The all-error half of observe.
TrackMistakes(g, failed) ==
  IF failed THEN [g EXCEPT !.mistakeRounds = @ + 1]
            ELSE [g EXCEPT !.mistakeRounds = 0, !.mistakeNudged = FALSE]

\* The order of the four tests is the code's: halts first, and a repeat nudge
\* takes the round from a mistake nudge.
Verdict(g) ==
  IF g.repeatCount >= RepeatHalt THEN Halt("repeat")
  ELSE IF g.mistakeRounds >= MistakeHalt THEN Halt("mistakes")
  ELSE IF g.repeatCount >= RepeatNudge /\ ~g.repeatNudged THEN Nudge("repeat")
  ELSE IF g.mistakeRounds >= MistakeNudge /\ ~g.mistakeNudged THEN Nudge("mistakes")
  ELSE OK

\* Mutant: any nudge counts for both streaks.
NudgesBoth(g, v) ==
  [g EXCEPT !.repeatNudged = @ \/ v.action = "nudge", !.mistakeNudged = @ \/ v.action = "nudge"]

\* A nudge is remembered so that it is given once per streak.
Remember(g, v) ==
  [g EXCEPT !.repeatNudged = @ \/ v = Nudge("repeat"),
            !.mistakeNudged = @ \/ v = Nudge("mistakes")]

\* guardState.observe: the new state and the verdict on a round.
ObserveRound(g, key, failed) ==
  LET tracked == TrackMistakes(TrackRepeat(g, key), failed)
      v == Verdict(tracked)
  IN  IF Disabled THEN [guard |-> g, verdict |-> OK]
                  ELSE [guard |-> Remember(tracked, v), verdict |-> v]

-----------------------------------------------------------------------------
VARIABLES
  guard,   \* the guardState of the run
  rounds   \* history: every round of the run with the verdict it received

vars == <<guard, rounds>>

Rounds == [key : Keys \cup {Several}, failed : BOOLEAN, verdict : Verdicts]

Init == guard = NewGuard /\ rounds = <<>>

Halted == rounds # <<>> /\ rounds[Len(rounds)].verdict.action = "halt"

\* One tool round of the run.  After a halt Run returns, so none follows.
Observe(key, failed) ==
  /\ ~Halted
  /\ Len(rounds) < MaxRounds
  /\ LET o == ObserveRound(guard, key, failed)
     IN  /\ guard' = o.guard
         /\ rounds' = Append(rounds, [key |-> key, failed |-> failed, verdict |-> o.verdict])

Next == \E key \in Keys \cup {Several}, failed \in BOOLEAN : Observe(key, failed)

Spec == Init /\ [][Next]_vars

-----------------------------------------------------------------------------
(* The streaks, read off the history and not off the code's counters. *)

\* The last n rounds made one and the same call.
Repeats(n) ==
  /\ n <= Len(rounds)
  /\ \A i \in (Len(rounds) - n + 1) .. Len(rounds) :
       rounds[i].key # Several /\ rounds[i].key = rounds[Len(rounds)].key

\* The last n rounds failed altogether.
Fails(n) ==
  /\ n <= Len(rounds)
  /\ \A i \in (Len(rounds) - n + 1) .. Len(rounds) : rounds[i].failed

\* One of the last n rounds, the last excepted, was answered with verdict v.
GivenWithin(n, v) ==
  \E i \in (Len(rounds) - n + 1) .. (Len(rounds) - 1) : i >= 1 /\ rounds[i].verdict = v

TypeOK ==
  /\ guard \in GuardStates
  /\ rounds \in Seq(Rounds)
  /\ Len(rounds) <= MaxRounds

\* The run is halted for repetition exactly when its last RepeatHalt rounds made
\* the same call, and for mistakes exactly when (that not being so) its last
\* MistakeHalt rounds failed: observe neither halts early, on a streak that was
\* broken, nor lets a streak grow past its limit.
HaltsExactlyAtTheLimit ==
  ~Disabled /\ rounds # <<>> =>
    LET v == rounds[Len(rounds)].verdict
    IN  /\ v = Halt("repeat") <=> Repeats(RepeatHalt)
        /\ v = Halt("mistakes") <=> Fails(MistakeHalt) /\ ~Repeats(RepeatHalt)

\* "The response is graduated": a run is only halted when the model was given the
\* corrective nudge of the same kind earlier in the same streak and went on.
GraduatedResponse ==
  rounds # <<>> =>
    LET v == rounds[Len(rounds)].verdict
    IN  /\ v = Halt("repeat") => GivenWithin(RepeatHalt, Nudge("repeat"))
        /\ v = Halt("mistakes") => GivenWithin(MistakeHalt, Nudge("mistakes"))

(***************************************************************************)
(* The thresholds under which the response is graduated.  A repeat nudge   *)
(* takes the round from a mistake nudge, at most once in two rounds when   *)
(* RepeatNudge is 2 or more, hence the one round of slack.                 *)
(***************************************************************************)
PolicyOrdered ==
  /\ RepeatNudge < RepeatHalt
  /\ RepeatNudge >= 2
  /\ MistakeNudge + 1 < MistakeHalt

\* A run is halted when it is due and not before: exactly at a limit of the policy and,
\* where the thresholds are ordered, after a nudge that went unheeded.
HaltsAreDue == HaltsExactlyAtTheLimit /\ (PolicyOrdered => GraduatedResponse)

-----------------------------------------------------------------------------
(***************************************************************************)
(* The inductive strengthening: the counters measure the streaks of the    *)
(* history, the flags say a nudge was given within them, and a streak past *)
(* its nudge threshold has been nudged, a mistake streak at the latest one *)
(* round after the repeat nudge that took its turn.                        *)
(***************************************************************************)
CountersMeasureStreaks ==
  /\ guard.repeatCount <= Len(rounds)
  /\ guard.mistakeRounds <= Len(rounds)
  /\ guard.repeatCount = 0 <=> guard.lastCallKey = Several
  /\ rounds # <<>> => guard.lastCallKey = rounds[Len(rounds)].key
  /\ rounds = <<>> => guard.lastCallKey = Several
  /\ \A i \in (Len(rounds) - guard.repeatCount + 1) .. Len(rounds) :
       rounds[i].key = guard.lastCallKey
  /\ \A i \in (Len(rounds) - guard.mistakeRounds + 1) .. Len(rounds) : rounds[i].failed
  /\ guard.repeatCount > 0 /\ guard.repeatCount < Len(rounds) =>
       rounds[Len(rounds) - guard.repeatCount].key # guard.lastCallKey
  /\ guard.mistakeRounds < Len(rounds) => ~rounds[Len(rounds) - guard.mistakeRounds].failed

FlagsRememberNudges ==
  /\ guard.repeatNudged =>
       \E i \in (Len(rounds) - guard.repeatCount + 1) .. Len(rounds) :
         rounds[i].verdict = Nudge("repeat")
  /\ guard.mistakeNudged =>
       \E i \in (Len(rounds) - guard.mistakeRounds + 1) .. Len(rounds) :
         rounds[i].verdict = Nudge("mistakes")

StreaksAreNudged ==
  /\ guard.repeatCount > RepeatNudge => guard.repeatNudged
  /\ guard.mistakeRounds > MistakeNudge + 1 => guard.mistakeNudged
  /\ ~Halted =>
       /\ guard.repeatCount = RepeatNudge => guard.repeatNudged
       /\ guard.mistakeRounds = MistakeNudge + 1 => guard.mistakeNudged
       /\ guard.mistakeRounds = MistakeNudge /\ ~guard.mistakeNudged =>
            guard.repeatCount >= RepeatNudge

\* The last verdict is a halt exactly when a counter has reached its limit, and
\* no counter ever passes it.
VerdictFollowsCounters ==
  /\ rounds = <<>> => guard.repeatCount = 0 /\ guard.mistakeRounds = 0
  /\ rounds # <<>> =>
       LET v == rounds[Len(rounds)].verdict
       IN  /\ v = Halt("repeat") <=> guard.repeatCount >= RepeatHalt
           /\ v = Halt("mistakes") <=>
                guard.mistakeRounds >= MistakeHalt /\ guard.repeatCount < RepeatHalt
  /\ guard.repeatCount <= RepeatHalt /\ guard.mistakeRounds <= MistakeHalt

IInv ==
  /\ TypeOK
  /\ Disabled => \A i \in 1 .. Len(rounds) : rounds[i].verdict = OK
  /\ ~Disabled => CountersMeasureStreaks /\ FlagsRememberNudges /\ VerdictFollowsCounters
  /\ ~Disabled /\ PolicyOrdered => StreaksAreNudged
=============================================================================
