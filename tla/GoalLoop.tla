------------------------------ MODULE GoalLoop ------------------------------
(***************************************************************************)
(* Goal loops: Agent.PursueGoal (goal.go) with its checkpoints             *)
(* (goal_store.go), started, paused, resumed and cleared from the TUI      *)
(* (cmd/glue/tui/goal.go), whose process may end at any moment.            *)
(*                                                                         *)
(* A loop is a goroutine. /goal clear forgets a loop that is still         *)
(* returning, and the messages of loops do not say which loop they are of. *)
(***************************************************************************)
EXTENDS Integers, Sequences, FiniteSets

CONSTANTS
  Goals,           \* ids, GoalSpec.SessionPrefix
  Lists,           \* checklists a plan or a verdict can be
  Whole,           \* the checklist with the objective as its only item
  MaxLoops,        \* bound: the goroutines that can be started
  MaxIterations,   \* GoalSpec.MaxIterations
  NoProgressLimit, \* GoalSpec.NoProgressLimit
  TokenBudgets,    \* values of GoalSpec.TokenBudget, 0 for none
  MaxLosses        \* bound: saves that fail and ends of the process

ASSUME GoalAssumption ==
  /\ \A c \in Lists \cup {Whole} : DOMAIN c # {} /\ c \in [DOMAIN c -> BOOLEAN]
  /\ {MaxIterations, NoProgressLimit} \subseteq Nat \ {0}
  /\ TokenBudgets \subseteq Nat /\ {MaxLoops, MaxLosses} \subseteq Nat

VARIABLES
  loop,    \* the state of each goroutine
  record,  \* GoalRecord of each goal in the store
  recency, \* per goal with a record, how many were saved since, it included; else 0
  tui,     \* Model.goal, or NoGoal
  budget,  \* GoalSpec.TokenBudget
  \* History.
  opened,  \* <<goal, iteration>> of each maker session that was prompted
  seen,    \* per running loop, the unfinished items of its latest verdicts
  faults

goalVars == <<loop, record, recency, tui, budget, opened, seen, faults>>

\* A checklist: its items by title, each done or not.
NoList        == <<>>
AllDone(c)    == c # NoList /\ \A x \in DOMAIN c : c[x]
Unfinished(c) == {x \in DOMAIN c : ~c[x]}

NoRecord == [status |-> "none", list |-> NoList, iterations |-> 0]
NoGoal   == [goal |-> "none", cancels |-> 0, running |-> FALSE, paused |-> FALSE, status |-> "",
             iteration |-> 0, list |-> NoList]
Unborn   == [pc |-> "unborn", goal |-> "none", list |-> NoList, start |-> 1, n |-> 0, iterations |-> 0,
             tokens |-> 0, prev |-> {}, stuck |-> 0, done |-> FALSE, cancelled |-> FALSE]

Loops    == 1 .. MaxLoops
Outcomes == {"achieved", "blocked", "budget_limited", "max_iterations", "errored", "paused"}
Alive(l) == loop[l].pc \notin Outcomes \cup {"unborn", "killed"}

GoalInit ==
  /\ loop = [l \in Loops |-> Unborn]
  /\ record = [g \in Goals |-> NoRecord] /\ recency = [g \in Goals |-> 0]
  /\ tui = NoGoal /\ budget \in TokenBudgets
  /\ opened = {} /\ seen = [l \in Loops |-> <<>>] /\ faults = 0

-----------------------------------------------------------------------------
(* What a step of a loop does to the store and to the TUI. *)

\* A save makes its record the latest (UpdatedAt).
Latest(g) ==
  [h \in Goals |-> IF h = g THEN 1
                  ELSE IF recency[h] # 0 /\ (recency[g] = 0 \/ recency[h] < recency[g]) THEN recency[h] + 1
                  ELSE recency[h]]

\* checkpoint: best effort.
Checkpoint(s, status) ==
  \/ /\ record' = [record EXCEPT ![s.goal] =
                     [status |-> status, list |-> s.list, iterations |-> s.iterations]]
     /\ recency' = Latest(s.goal)
     /\ UNCHANGED faults
  \/ faults < MaxLosses /\ faults' = faults + 1 /\ UNCHANGED <<record, recency>>

NoCheckpoint == UNCHANGED <<record, recency, faults>>

\* handleGoalEvent and handleGoalDone ask only whether there is a goal.
Mirror(goal) == tui' = IF tui = NoGoal THEN NoGoal ELSE goal
Silent       == UNCHANGED tui

GoalDone(s, status) ==
  Mirror([tui EXCEPT !.running = FALSE, !.list = IF s.list = NoList THEN @ ELSE s.list,
                     !.iteration = IF s.iterations > @ THEN s.iterations ELSE @,
                     !.status = IF status = "paused" /\ tui.paused THEN @
                                ELSE IF status = "paused" THEN "errored" ELSE status])

\* What is left of a loop that returned or was killed.
Gone(s, status) == [Unborn EXCEPT !.pc = status, !.goal = s.goal]

\* A return of PursueGoal: the last checkpoint, then the message to the TUI.
Finish(l, s, status) ==
  /\ loop' = [loop EXCEPT ![l] = Gone(s, status)]
  /\ seen' = [seen EXCEPT ![l] = <<>>]
  /\ Checkpoint(s, status)
  /\ GoalDone(s, status)

\* pauseOrErrored.
PauseOrErrored(l, s) == Finish(l, s, IF s.cancelled THEN "paused" ELSE "errored")

-----------------------------------------------------------------------------
(* PursueGoal. *)

\* A call of the provider costs a token, where somebody counts.
Spend(tokens) == IF budget = 0 THEN tokens ELSE tokens + 1

Planned(s, c) ==
  [s EXCEPT !.pc = "top", !.list = c, !.tokens = IF s.list = NoList THEN Spend(s.tokens) ELSE s.tokens]

\* The plan, or the seed of a resumed goal; a plan that fails or is empty is the objective.
Plan(l) ==
  /\ loop[l].pc = "plan"
  /\ \E c \in IF loop[l].list # NoList THEN {loop[l].list}
              ELSE {c \in Lists \cup {Whole} : \A x \in DOMAIN c : ~c[x]} :
       /\ loop' = [loop EXCEPT ![l] = Planned(loop[l], c)]
       /\ Checkpoint(Planned(loop[l], c), "running")
       /\ Mirror([tui EXCEPT !.list = c])
  /\ UNCHANGED <<budget, opened, seen>>

Top(l) ==
  LET s == loop[l]
  IN  /\ s.pc = "top"
      /\ CASE s.n >= MaxIterations                -> Finish(l, s, "max_iterations")
           [] s.n < MaxIterations /\ s.cancelled  -> Finish(l, s, "paused")
           [] OTHER                               -> budget > 0 /\ s.tokens >= budget /\ Finish(l, s, "budget_limited")
      /\ UNCHANGED <<budget, opened>>

\* A maker is prompted in the session iter-<i>.
Iterate(l) ==
  LET s == loop[l]
      i == s.start + s.n
  IN  /\ s.pc = "top" /\ s.n < MaxIterations /\ ~s.cancelled
      /\ budget = 0 \/ s.tokens < budget
      /\ loop' = [loop EXCEPT ![l] = [s EXCEPT !.pc = "maker", !.iterations = i]]
      /\ opened' = opened \cup {<<s.goal, i>>}
      /\ Mirror([tui EXCEPT !.iteration = i])
      /\ NoCheckpoint /\ UNCHANGED <<budget, seen>>

\* The maker returns and the checker is prompted, or the maker fails.
Maker(l) ==
  LET s == [loop[l] EXCEPT !.tokens = Spend(@)]
  IN  /\ s.pc = "maker"
      /\ \/ loop' = [loop EXCEPT ![l] = [s EXCEPT !.pc = "checker"]]
            /\ NoCheckpoint /\ Silent /\ UNCHANGED seen
         \/ PauseOrErrored(l, s)
      /\ UNCHANGED <<budget, opened>>

\* As much of the history as BlockedMeansStuck looks at.
Recent(h) == SubSeq(h, IF Len(h) > NoProgressLimit + 1 THEN 2 ELSE 1, Len(h))

Audited(s, c, done) == [s EXCEPT !.pc = "decide", !.list = c, !.done = done]

\* A verdict is stored before anything is decided from it. It may have no items.
Checker(l) ==
  LET s == [loop[l] EXCEPT !.tokens = Spend(@)]
  IN  /\ s.pc = "checker"
      /\ \/ PauseOrErrored(l, s)
         \/ \E done \in BOOLEAN, items \in Lists \cup {NoList} :
              LET c == IF items = NoList THEN s.list ELSE items
              IN  /\ loop' = [loop EXCEPT ![l] = Audited(s, c, done)]
                  /\ seen' = [seen EXCEPT ![l] = Recent(Append(seen[l], Unfinished(c)))]
                  /\ Checkpoint(Audited(s, c, done), "running")
                  /\ Mirror([tui EXCEPT !.list = c])
      /\ UNCHANGED <<budget, opened>>

\* Mutant: the checker's word is taken for it.
TakenForIt(s) == s.done
Achieved(s) == s.done /\ AllDone(s.list)

\* Mutant: the first audit is compared with the empty baseline.
FirstCounts(s) == IF Unfinished(s.list) = s.prev THEN s.stuck + 1 ELSE 0
NoProgress(s) == IF s.iterations > 1 /\ Unfinished(s.list) = s.prev THEN s.stuck + 1 ELSE 0

NextRound(s) == s.n + 1

Judged(s) == [s EXCEPT !.stuck = NoProgress(s), !.prev = Unfinished(s.list)]
Continued(s) == [s EXCEPT !.pc = "top", !.n = NextRound(s), !.done = FALSE]

Decide(l) ==
  LET s == Judged(loop[l])
  IN  /\ loop[l].pc = "decide"
      /\ IF Achieved(s) THEN Finish(l, s, "achieved")
         ELSE IF s.stuck >= NoProgressLimit THEN Finish(l, s, "blocked")
         ELSE /\ loop' = [loop EXCEPT ![l] = Continued(s)]
              /\ NoCheckpoint /\ Silent /\ UNCHANGED seen
      /\ UNCHANGED <<budget, opened>>

-----------------------------------------------------------------------------
(* The TUI. *)

\* startGoal.
StartGoal(g, list, start) ==
  \E l \in Loops :
    /\ loop[l] = Unborn /\ \A k \in 1 .. l - 1 : loop[k] # Unborn
    /\ loop' = [loop EXCEPT ![l] = [Unborn EXCEPT !.pc = "plan", !.goal = g, !.list = list, !.start = start]]
    /\ tui' = [NoGoal EXCEPT !.goal = g, !.cancels = l, !.running = TRUE,
                             !.iteration = start - 1, !.list = list]
    /\ NoCheckpoint /\ UNCHANGED <<budget, opened, seen>>

\* A new objective has a new id.
NewGoal ==
  LET fresh == Goals \ {loop[l].goal : l \in Loops}
  IN  ~tui.running /\ fresh # {} /\ StartGoal(CHOOSE g \in fresh : TRUE, NoList, 1)

Resume ==
  /\ tui # NoGoal /\ ~tui.running /\ tui.status # "achieved" /\ tui.list # NoList
  /\ StartGoal(tui.goal, tui.list, tui.iteration + 1)

Resumable(g) == recency[g] # 0 /\ record[g].status # "achieved"

\* resumeStoredGoal: the latest unfinished record, a stale "running" one included.
ResumeStored ==
  \E g \in Goals :
    /\ tui = NoGoal /\ Resumable(g)
    /\ \A h \in Goals : Resumable(h) => recency[g] <= recency[h]
    /\ StartGoal(g, record[g].list, record[g].iterations + 1)

Cancelled == loop' = [loop EXCEPT ![tui.cancels] = [loop[tui.cancels] EXCEPT !.cancelled = TRUE]]

Pause ==
  /\ tui.running
  /\ tui' = [tui EXCEPT !.paused = TRUE] /\ Cancelled
  /\ NoCheckpoint /\ UNCHANGED <<budget, opened, seen>>

Clear ==
  /\ tui # NoGoal
  /\ IF tui.running THEN Cancelled ELSE UNCHANGED loop
  /\ tui' = NoGoal
  /\ NoCheckpoint /\ UNCHANGED <<budget, opened, seen>>

\* The process ends, with every goroutine in it, and another is started.
Quit ==
  /\ faults < MaxLosses /\ faults' = faults + 1
  /\ loop' = [l \in Loops |-> IF Alive(l) THEN Gone(loop[l], "killed") ELSE loop[l]]
  /\ seen' = [l \in Loops |-> <<>>]
  /\ tui' = NoGoal
  /\ UNCHANGED <<record, recency, budget, opened>>

Step(l) == Plan(l) \/ Top(l) \/ Iterate(l) \/ Maker(l) \/ Checker(l) \/ Decide(l)
User    == NewGoal \/ Resume \/ ResumeStored \/ Pause \/ Clear
GoalNext == (\E l \in Loops : Step(l)) \/ User \/ Quit
GoalSpec == GoalInit /\ [][GoalNext]_goalVars

\* Goroutines run, and a prompt returns (LoopEnds of MCServices).
FairGoals == GoalSpec /\ \A l \in Loops : WF_goalVars(Step(l))

-----------------------------------------------------------------------------
\* "Stopped because no progress was made for NoProgressLimit consecutive iterations":
\* a blocked loop saw the same unfinished items that often more than once. Only when
\* everything was done and the checker did not say so can the first audit after a
\* resumption count, against the empty baseline it starts from.
BlockedStep ==
  \A l \in Loops : Decide(l) /\ loop'[l].pc = "blocked" =>
    LET k    == Len(seen[l])
        same == IF seen[l][k] = {} /\ loop[l].start > 1 THEN NoProgressLimit ELSE NoProgressLimit + 1
    IN  k >= same /\ \A i \in k - same + 1 .. k : seen[l][i] = seen[l][k]
BlockedMeansStuck == [][BlockedStep]_goalVars

\* A record says "achieved" only with a checklist that a checker found all done,
\* whatever was resumed, cleared, lost or overwritten before.
AchievedIsAudited ==
  \A g \in Goals : record[g].status = "achieved" =>
    /\ AllDone(record[g].list)
    /\ \E l \in Loops : loop[l].pc = "achieved" /\ loop[l].goal = g

\* Once no loop of a goal is left, and no process ended and no save failed, its record
\* is no longer "running": Resumable can offer it again.
RecordSaysItEnded ==
  \A g \in Goals :
    (faults = 0 /\ \A l \in Loops : loop[l].goal = g => loop[l].pc \in Outcomes)
      => record[g].status # "running"

\* Both, of every record.
RecordsAreTrue == AchievedIsAudited /\ RecordSaysItEnded

\* "Maker/checker session ids stay fresh": no maker is prompted in the session of an
\* iteration there was before.
FreshSessions ==
  [][\A l \in Loops : Iterate(l) => <<loop[l].goal, loop[l].start + loop[l].n>> \notin opened]_goalVars

-----------------------------------------------------------------------------
(* The inductive invariant of the two properties. *)

Checklists == Lists \cup {Whole, NoList}
Titles     == UNION {DOMAIN c : c \in Checklists}

Pcs == Outcomes \cup {"unborn", "plan", "top", "maker", "checker", "decide", "killed"}
LoopStates ==
  [pc : Pcs, goal : Goals \cup {"none"}, list : Checklists, start : Nat, n : Nat, iterations : Nat,
   tokens : Nat, prev : SUBSET Titles, stuck : Nat, done : BOOLEAN, cancelled : BOOLEAN]
GoalRecords ==
  [status : Outcomes \cup {"none", "running"}, list : Checklists, iterations : Nat]
Models ==
  [goal : Goals \cup {"none"}, cancels : Nat, running : BOOLEAN, paused : BOOLEAN,
   status : Outcomes \cup {""}, iteration : Nat, list : Checklists]

GoalTypeOK ==
  /\ loop \in [Loops -> LoopStates] /\ record \in [Goals -> GoalRecords]
  /\ tui \in Models /\ budget \in TokenBudgets
  /\ seen \in [Loops -> Seq(SUBSET Titles)] /\ faults \in Nat

\* While nothing was lost, a record that says "running" has a loop that will end it.
RunningIsAlive ==
  faults = 0 => \A g \in Goals : record[g].status = "running" =>
    \E l \in Loops : loop[l].goal = g /\ Alive(l)

\* The last k verdicts of h left the same items unfinished.
Streak(h, k) == k <= Len(h) /\ \A i \in Len(h) - k + 1 .. Len(h) : h[i] = h[Len(h)]

\* What k rounds without progress say of the verdicts, in a loop that began at start.
StuckFor(k, h, start) ==
  Streak(h, k + 1) \/ (start > 1 /\ h[Len(h)] = {} /\ Streak(h, k))

\* Before a verdict: prev and stuck are about those there were.
RoundsBefore(s, h) ==
  IF s.n = 0 THEN h = <<>> /\ s.prev = {} /\ s.stuck = 0
  ELSE h # <<>> /\ s.prev = h[Len(h)] /\ s.stuck < NoProgressLimit /\ StuckFor(s.stuck, h, s.start)

\* After one: the history ends with it.
RoundsAfter(s, h) ==
  /\ h # <<>> /\ Unfinished(s.list) = h[Len(h)]
  /\ NoProgress(s) <= NoProgressLimit /\ StuckFor(NoProgress(s), h, s.start)

Counts(s, h) ==
  /\ Len(h) <= NoProgressLimit + 1
  /\ s.pc \in {"unborn", "plan"} => h = <<>> /\ s.n = 0 /\ s.prev = {} /\ s.stuck = 0
  /\ s.pc \in {"top", "maker", "checker"} => RoundsBefore(s, h)
  /\ s.pc \in {"maker", "checker", "decide"} => s.iterations = s.start + s.n
  /\ s.pc = "decide" => RoundsAfter(s, h)
CountsAreTrue == \A l \in Loops : Counts(loop[l], seen[l])

GoalInv == GoalTypeOK /\ AchievedIsAudited /\ RunningIsAlive /\ CountsAreTrue
=============================================================================
