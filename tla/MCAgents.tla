----------------------------- MODULE MCAgents -----------------------------
(***************************************************************************)
(* The agent seen by its users and its tools: the guardrails, the goals,   *)
(* the terminal interface, the Telegram bot, the grants of the daemon, the *)
(* edits of files and the names of MCP tools.  A behaviour is one of a     *)
(* single part, the part it starts with; the variables of the others stay  *)
(* as they start.                                                          *)
(***************************************************************************)
EXTENDS Guardrails, PermissionGrants, TelegramBot, McpManager, GoalLoop, Tui, FileEdits, EditLadder, TLC

CONSTANTS k1, k2, ann, bob, eve, here, there

VARIABLE part

\* Checklists of a single item, and of the objective.
MCLists == {[a |-> FALSE], [a |-> TRUE]}
MCWhole == [g |-> FALSE]

\* Ann and Bob may write to the bot, Eve may not.
MCChats   == {ann, bob, eve}
MCAllowed == {ann, bob}

\* Two runs of a session, one of them a bot's, and two tools with two targets, one of
\* them in two spellings: "a " is a command with an empty last argument.
BotRun   == [client |-> "telegram:1", session |-> "s1"]
LocalRun == [client |-> "", session |-> "s1"]
MCRuns     == {BotRun, LocalRun}
Wants(tool, target) == [tool |-> tool, target |-> target]
MCRequests == {Wants("shell", "a"), Wants("shell", "b"), Wants("shell", "a "), Wants("write", "a")}
MCTrim     == [t \in {"s1", "shell", "write", "a", "b", "a "} |-> IF t = "a " THEN "a" ELSE t]
MCChannel  == BotRun :> "telegram" @@ LocalRun :> "cli"
Prompting  == [telegram |-> "prompt", cli |-> "prompt"]
MCTiers    == {Prompting, [telegram |-> "read_only", cli |-> "trusted"]}

\* What the bot is asked to do: one tool on two targets.
MCActs     == {Wants("shell", here), Wants("shell", there)}

\* Lines of files, of old_string and of new_string: what they are indented with,
\* what they say, in typographic characters or not, and what follows it.
Line(i, t, f, p, e) == [ind |-> i, txt |-> t, fancy |-> f, pad |-> p, eol |-> e]
Arg(i, t, p)        == [ind |-> i, txt |-> t, fancy |-> FALSE, pad |-> p]
FileLines ==
  {Line(i, t, FALSE, 0, "lf") : i \in {<<>>, <<"t">>, <<"t", "s">>}, t \in {"a", "b"}}
    \cup {Line(<<>>, "", FALSE, 0, "crlf"), Line(<<>>, "a", TRUE, 1, "lf")}
ArgLines == {Arg(i, t, 0) : i \in {<<>>, <<"s">>}, t \in {"a", "b"}}
Plain(t) == Arg(<<>>, t, 0)
OneLine   == <<Plain("a")>>
MCFiles   == {<<l, m, n>> : l \in FileLines, m \in FileLines, n \in FileLines}
MCNeedles == {<<l>> : l \in ArgLines \cup {Arg(<<>>, "a", 1)}} \cup (ArgLines \X ArgLines)
               \cup {<<Plain("a"), Plain("z"), Plain("b")>>}
MCNews    == {<<Plain("")>>, <<Plain("a"), Arg(<<"s", "s">>, "c", 0), Plain("b")>>}

\* Two servers, with tools whose names collide once they are sanitized and joined.
Setting(p, t, r) == [part |-> p, tools |-> t, lists |-> TRUE, resources |-> r]
Settings ==
  {Setting(p, t, r) : p \in {<<"a">>, <<"a", "b">>}, r \in BOOLEAN,
     t \in {<<>>, <<<<"c">>, <<"read", "resource">>>>, <<<<"b", "c">>>>,
            <<<<"read", "resource">>, <<"read", "resource", 2>>>>}}
    \cup {[part |-> <<"a">>, tools |-> <<>>, lists |-> FALSE, resources |-> TRUE]}
MCConfigs == Settings \X Settings
QuietServer == Setting(<<"a">>, <<>>, FALSE)

MCKeys   == {k1, k2}
Symmetry == Permutations(MCKeys) \cup Permutations({ann, bob}) \cup Permutations({here, there})

-----------------------------------------------------------------------------
GoalOff == GoalInit /\ budget = 0
BotOff == BotInit /\ ~daemonMode
GrantsOff == GrantsInit /\ ~stored /\ tiers = Prompting
LadderOff ==
  /\ LadderInit /\ file = [i \in 1 .. 3 |-> Line(<<>>, "b", FALSE, 0, "lf")]
  /\ needle = OneLine /\ new = <<Plain("")>> /\ ~all /\ ~escaped
ServersOff == ManagerInit /\ configs = <<QuietServer, QuietServer>>

AllVars == <<part, vars, goalVars, tuiVars, botVars, grantVars, ladderVars, fileVars, managerVars>>

AgentsInit ==
  \/ part = "guard" /\ Init /\ GoalOff /\ TuiInit /\ BotOff /\ GrantsOff /\ LadderOff /\ FilesInit /\ ServersOff
  \/ part = "goal" /\ Init /\ GoalInit /\ TuiInit /\ BotOff /\ GrantsOff /\ LadderOff /\ FilesInit /\ ServersOff
  \/ part = "ui" /\ Init /\ GoalOff /\ TuiInit /\ BotOff /\ GrantsOff /\ LadderOff /\ FilesInit /\ ServersOff
  \/ part = "bot" /\ Init /\ GoalOff /\ TuiInit /\ BotInit /\ GrantsOff /\ LadderOff /\ FilesInit /\ ServersOff
  \/ part = "grants" /\ Init /\ GoalOff /\ TuiInit /\ BotOff /\ GrantsInit /\ LadderOff /\ FilesInit /\ ServersOff
  \/ part = "ladder" /\ Init /\ GoalOff /\ TuiInit /\ BotOff /\ GrantsOff /\ LadderInit /\ FilesInit /\ ServersOff
  \/ part = "files" /\ Init /\ GoalOff /\ TuiInit /\ BotOff /\ GrantsOff /\ LadderOff /\ FilesInit /\ ServersOff
  \/ part = "servers" /\ Init /\ GoalOff /\ TuiInit /\ BotOff /\ GrantsOff /\ LadderOff /\ FilesInit /\ ManagerInit

GuardNext == part = "guard" /\ Next /\ UNCHANGED <<part, goalVars, tuiVars, botVars, grantVars, ladderVars, fileVars, managerVars>>
GoalStep == part = "goal" /\ GoalNext /\ UNCHANGED <<part, vars, tuiVars, botVars, grantVars, ladderVars, fileVars, managerVars>>
UiNext == part = "ui" /\ TuiNext /\ UNCHANGED <<part, vars, goalVars, botVars, grantVars, ladderVars, fileVars, managerVars>>
BotStep == part = "bot" /\ BotNext /\ UNCHANGED <<part, vars, goalVars, tuiVars, grantVars, ladderVars, fileVars, managerVars>>
GrantsStep == part = "grants" /\ GrantsNext /\ UNCHANGED <<part, vars, goalVars, tuiVars, botVars, ladderVars, fileVars, managerVars>>
LadderPart == part = "ladder" /\ LadderNext /\ UNCHANGED <<part, vars, goalVars, tuiVars, botVars, grantVars, fileVars, managerVars>>
FilesStep == part = "files" /\ FilesNext /\ UNCHANGED <<part, vars, goalVars, tuiVars, botVars, grantVars, ladderVars, managerVars>>
ServersNext == part = "servers" /\ ManagerNext /\ UNCHANGED <<part, vars, goalVars, tuiVars, botVars, grantVars, ladderVars, fileVars>>

AgentsNext ==
  GuardNext \/ GoalStep \/ UiNext \/ BotStep \/ GrantsStep \/ LadderPart \/ FilesStep \/ ServersNext
AgentsSpec == AgentsInit /\ [][AgentsNext]_AllVars
=============================================================================
