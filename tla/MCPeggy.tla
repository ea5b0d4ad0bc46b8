------------------------------ MODULE MCPeggy ------------------------------
(***************************************************************************)
(* The assistant and the daemon that serves it: a run of the agent loop,   *)
(* the permission requests of a run, the daemons with their clients, the   *)
(* stores, the curated memories, the MCP servers and the settings.  A      *)
(* behaviour is one of a single part, the part it starts with; the         *)
(* variables of the others stay as they start.                             *)
(***************************************************************************)
EXTENDS AgentLoop, DaemonRun, DaemonClient, SessionStore, Memories, McpCalls, PeggySetup, TLC

CONSTANTS gated, ungated, typo, a1, a2, k1, p1, p2, p3

VARIABLE part

\* Calls, one gated, one ungated, one invalid.
MCCalls == {gated, ungated, typo}

\* Two daemons, one with every catalog and one with only its tools.
MCCatalogs == 1 :> {"tools", "skills", "memories"} @@ 2 :> {"tools"}

\* Two callers in the daemon, one a command; a foreign backup says one thing twice.
MCProcess  == 1 :> 1 @@ 2 :> 1 @@ 3 :> 2
MCNorm     == "a" :> "a" @@ "A" :> "a" @@ "b" :> "b"
MCForeign  == <<[id |-> -2, content |-> "A"], [id |-> -1, content |-> "a"]>>

\* Pairs of servers with one or two pages, an item that is malformed, or a cursor
\* that loops; what a wire carries; results of up to two parts.
McpServer(e, v, h, f, p, l) == [enabled |-> e, valid |-> v, http |-> h, has |-> f, pages |-> p, loops |-> l]
Servers ==
  {McpServer(TRUE, TRUE, h, f, p, FALSE) : h \in BOOLEAN,
     f \in {{}, {"resources"}, {"resources", "prompts"}}, p \in {<<<<1>>>>, <<<<1>>, <<2, 3>>>>, <<<<1>>, <<0>>>>}}
    \cup {McpServer(e, v, TRUE, {"prompts"}, <<<<1>>>>, TRUE) : e \in BOOLEAN, v \in BOOLEAN}
MCSettings == {<<>>} \cup {<<s>> : s \in Servers} \cup (Servers \X Servers)
MCWires    == {<<"own">>, <<"note", "own">>, <<"other">>, <<"error">>, <<"garbage">>, <<>>}
Parts      == {<<"text", "a">>, <<"text", "b">>, <<"image">>, <<"garbled">>}
MCResults  == [parts : {<<>>} \cup {<<p>> : p \in Parts} \cup (Parts \X Parts), structured : BOOLEAN, isError : BOOLEAN]

\* Settings: stores, providers, tools and servers; context, memory and schedules; tiers.
FileOf(st, pr, co, pa, cx, ti, re, sc, sv, b) ==
  [store |-> st, spelled |-> "plain", provider |-> pr, coding |-> co, path |-> pa, context |-> cx, default |-> "",
   tiers |-> ti, remember |-> re, schedules |-> sc, servers |-> sv, bot |-> b]
Spelled(f) == {[f EXCEPT !.spelled = h] : h \in {"plain", "cased", "spaced"}}
Tiered(f)  == {[f EXCEPT !.default = t] : t \in {"", "trusted", "bogus"}}
Codings  == {"no", "ok", "missing"}
Spelling(s, c, t) == [spelling |-> s, channel |-> c, tier |-> t]
Tiers    == {Spelling("cli", "cli", "read_only"), Spelling("CLI", "cli", "trusted"),
             Spelling("telegram", "telegram", "prompt"), Spelling("x", "x", "bogus")}
MCFiles ==
  UNION {Spelled(FileOf(st, pr, co, pa, "", {}, "", "", sv, "none")) : st \in {"", "sqlite", "file", "other"},
              pr \in {"", "other"}, co \in {"no", "missing"}, pa \in BOOLEAN, sv \in {"none", "good", "bad", "unnamed"}}
      \cup {FileOf("", "", "ok", FALSE, cx, {}, re, sc, "none", b) : cx \in {"", "missing", "broken"},
              re \in {"", "off", "path"}, sc \in {"", "off", "path"}, b \in {"none", "good", "incomplete"}}
      \cup UNION {Tiered(FileOf("", "", co, FALSE, "", t, "", "", "good", "good")) : co \in Codings, t \in SUBSET Tiers}

SameKey   == [a \in Asks |-> k1]

-----------------------------------------------------------------------------
LoopOff  == Init /\ ~parallel
StoreOff == StoreInit /\ backend = "file"
McpOff   == CallsInit /\ servers = <<>>
SetupOff ==
  SetupInit /\ file = {} /\ soul = "none" /\ ~login /\ ~flag /\ faults = {}

AllVars  == <<part, vars, daemonVars, clientVars, storeVars, memoryVars, callVars, setupVars>>

PeggyInit ==
  \/ part = "loop" /\ Init /\ DaemonInit /\ ClientInit /\ StoreOff /\ MemoryInit /\ McpOff /\ SetupOff
  \/ part = "run" /\ LoopOff /\ DaemonInit /\ ClientInit /\ StoreOff /\ MemoryInit /\ McpOff /\ SetupOff
  \/ part = "client" /\ LoopOff /\ DaemonInit /\ ClientInit /\ StoreOff /\ MemoryInit /\ McpOff /\ SetupOff
  \/ part = "store" /\ LoopOff /\ DaemonInit /\ ClientInit /\ StoreInit /\ MemoryInit /\ McpOff /\ SetupOff
  \/ part = "memory" /\ LoopOff /\ DaemonInit /\ ClientInit /\ StoreOff /\ MemoryInit /\ McpOff /\ SetupOff
  \/ part = "mcp" /\ LoopOff /\ DaemonInit /\ ClientInit /\ StoreOff /\ MemoryInit /\ CallsInit /\ SetupOff
  \/ part = "setup" /\ LoopOff /\ DaemonInit /\ ClientInit /\ StoreOff /\ MemoryInit /\ McpOff /\ SetupInit

LoopPart   == /\ part = "loop" /\ Next
              /\ UNCHANGED <<part, daemonVars, clientVars, storeVars, memoryVars, callVars, setupVars>>
RunPart    == /\ part = "run" /\ DaemonNext
              /\ UNCHANGED <<part, vars, clientVars, storeVars, memoryVars, callVars, setupVars>>
ClientPart == /\ part = "client" /\ ClientNext
              /\ UNCHANGED <<part, vars, daemonVars, storeVars, memoryVars, callVars, setupVars>>
StorePart  == /\ part = "store" /\ StoreNext
              /\ UNCHANGED <<part, vars, daemonVars, clientVars, memoryVars, callVars, setupVars>>
MemoryPart == /\ part = "memory" /\ MemoryNext
              /\ UNCHANGED <<part, vars, daemonVars, clientVars, storeVars, callVars, setupVars>>
CallsPart  == /\ part = "mcp" /\ CallsNext
              /\ UNCHANGED <<part, vars, daemonVars, clientVars, storeVars, memoryVars, setupVars>>
SetupPart  == /\ part = "setup" /\ SetupNext
              /\ UNCHANGED <<part, vars, daemonVars, clientVars, storeVars, memoryVars, callVars>>

PeggyNext == LoopPart \/ RunPart \/ ClientPart \/ StorePart \/ MemoryPart \/ CallsPart \/ SetupPart
PeggySpec == PeggyInit /\ [][PeggyNext]_AllVars

=============================================================================
