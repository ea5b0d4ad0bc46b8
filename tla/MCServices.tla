----------------------------- MODULE MCServices -----------------------------
(***************************************************************************)
(* What must end: the goal loop, a run of the agent loop, the scheduler,   *)
(* the stdio transport of MCP and the shell executor.  A behaviour is one  *)
(* of a single part, the part it starts with; the variables of the others  *)
(* stay Off (GoalLoop, AgentLoop) or as they start.                        *)
(***************************************************************************)
EXTENDS McpStdio, Executor, Scheduler, TLC

CONSTANT Off  \* what the variables of the other parts are

VARIABLES
  part,
  \* GoalLoop
  loop, record, recency, tui, budget, opened, seen, faults,
  \* AgentLoop
  pc, parallel, cancelled, turn, attempt, autoContinues, draft, err, toolCalls, status,
  result, transcript, guard, rounds, ui, effects, approved, outcome

Goal == INSTANCE GoalLoop WITH
  Goals <- {"g1"}, Lists <- {[a |-> FALSE], [a |-> TRUE]}, Whole <- [g |-> FALSE],
  MaxLoops <- 2, MaxIterations <- 2, NoProgressLimit <- 1, TokenBudgets <- {0, 3}, MaxLosses <- 1

Loop == INSTANCE AgentLoop WITH
  Calls <- {"edit", "read"}, Gated <- {"edit"}, Invalid <- {}, MaxCalls <- 2,
  MaxTurns <- 1, MaxRetries <- 1, RetryDisabled <- FALSE, AutoContinue <- TRUE,
  MaxAutoContinues <- 1, Modes <- BOOLEAN, Several <- "several", Disabled <- FALSE,
  RepeatNudgeAt <- 1, RepeatHaltAt <- 2, MistakeNudgeAt <- 1, MistakeHaltAt <- 2,
  calls <- toolCalls

\* A recurring schedule and one that runs once.
MCEvery    == [r |-> 2, o |-> 0]
MCFraction == [r |-> 1, o |-> 0]

-----------------------------------------------------------------------------
GoalOff ==
  /\ loop = Off /\ record = Off /\ recency = Off /\ tui = Off /\ budget = Off
  /\ opened = Off /\ seen = Off /\ faults = Off
LoopOff ==
  /\ pc = Off /\ parallel = Off /\ cancelled = Off /\ turn = Off /\ attempt = Off
  /\ autoContinues = Off /\ draft = Off /\ err = Off /\ toolCalls = Off /\ status = Off
  /\ result = Off /\ transcript = Off /\ guard = Off /\ rounds = Off /\ ui = Off
  /\ effects = Off /\ approved = Off /\ outcome = Off
ExecOff == ExecInit /\ limit = 1 /\ ~heir

GoalVars  == <<loop, record, recency, tui, budget, opened, seen, faults>>
LoopVars  == <<pc, parallel, cancelled, turn, attempt, autoContinues, draft, err, toolCalls, status,
               result, transcript, guard, rounds, ui, effects, approved, outcome>>
AllVars   == <<part, mcpVars, GoalVars, LoopVars, schedVars, execVars>>

ServicesInit ==
  /\ Init
  /\ \/ part = "mcp"   /\ GoalOff        /\ LoopOff    /\ SchedInit /\ ExecOff
     \/ part = "goal"  /\ Goal!GoalInit  /\ LoopOff    /\ SchedInit /\ ExecOff
     \/ part = "loop"  /\ GoalOff        /\ Loop!Init  /\ SchedInit /\ ExecOff
     \/ part = "sched" /\ GoalOff        /\ LoopOff    /\ SchedInit /\ ExecOff
     \/ part = "exec"  /\ GoalOff        /\ LoopOff    /\ SchedInit /\ ExecInit

ButMcp   == UNCHANGED <<part, GoalVars, LoopVars, schedVars, execVars>>
ButGoal  == UNCHANGED <<part, mcpVars, LoopVars, schedVars, execVars>>
ButLoop  == UNCHANGED <<part, mcpVars, GoalVars, schedVars, execVars>>
ButSched == UNCHANGED <<part, mcpVars, GoalVars, LoopVars, execVars>>
ButExec  == UNCHANGED <<part, mcpVars, GoalVars, LoopVars, schedVars>>

McpNext   == part = "mcp"   /\ Next       /\ ButMcp
GoalNext  == part = "goal"  /\ Goal!GoalNext  /\ ButGoal
LoopNext  == part = "loop"  /\ Loop!Next  /\ ButLoop
SchedStep == part = "sched" /\ SchedNext  /\ ButSched
ExecStep  == part = "exec"  /\ ExecNext   /\ ButExec

ServicesNext == McpNext \/ GoalNext \/ LoopNext \/ SchedStep \/ ExecStep

\* The fairness of each part, as its own module states it.
ServicesFairness ==
  /\ \A l \in Goal!Loops : WF_GoalVars(part = "goal" /\ Goal!Step(l))
  /\ WF_LoopVars(part = "loop" /\ Loop!RunSteps)
  /\ \A i \in {1, 2} : WF_LoopVars(part = "loop" /\ i \in DOMAIN toolCalls /\ Loop!Tool(i))
  /\ WF_schedVars(part = "sched" /\ Tick)
  /\ WF_schedVars(part = "sched" /\ Serve)
  /\ WF_schedVars(part = "sched" /\ \E d \in due : Dispatch(d))
  /\ \A i \in {"r", "o"} :
       /\ WF_schedVars(part = "sched" /\ Execute(i))
       /\ WF_schedVars(part = "sched" /\ Finish(i))
  /\ \A c \in Callers : WF_mcpVars(part = "mcp" /\ CallProgress(c))
  /\ WF_execVars(part = "exec" /\ Kill)
  /\ WF_execVars(part = "exec" /\ Wait)
  /\ WF_execVars(part = "exec" /\ Return)

ServicesSpec == ServicesInit /\ [][ServicesNext]_AllVars /\ ServicesFairness

-----------------------------------------------------------------------------
\* GoalLoop: every loop that is started ends, cleared or not.
GoalEnds ==
  \A l \in Goal!Loops : (part = "goal" /\ Goal!Alive(l)) ~> ~(part = "goal" /\ Goal!Alive(l))

\* AgentLoop: a cancelled run ends even under a provider that never says another
\* word, and any run ends whose provider closes its streams.
LoopEnds ==
  /\ (part = "loop" /\ cancelled) ~> pc = "done"
  /\ WF_LoopVars(part = "loop" /\ (Loop!StreamClose \/ Loop!StreamError))
       => (part = "loop" ~> pc = "done")

\* Both loops end (PursueGoal, Run).
LoopsEnd == GoalEnds /\ LoopEnds

\* Scheduler: a schedule that is due in the daemon's store runs, or the daemon ends.
DueIsRun ==
  \A i \in {"r", "o"} :
    (part = "sched" /\ IsDue(i)) ~> (part = "sched" /\ (~store.open \/ flights[i].pc = "running"))

\* McpStdio and Executor: a call to a server that never answers ends with its
\* context and lets the next one in, unless a message waits in the pipe for a
\* server that never reads; and Run returns when its context or timeout ends, an
\* inherited output aside.
CallsReturn ==
  /\ \A c \in Callers :
       (part = "mcp" /\ calls[c].pc = "locking")
         ~> (part = "mcp" /\ (calls[c].pc = "done" \/ WritesUnread))
  /\ (part = "exec" /\ (late \/ stopped)) ~> (part = "exec" /\ (report # Unreported \/ heir))
=============================================================================
