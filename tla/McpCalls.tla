------------------------------ MODULE McpCalls ------------------------------
(***************************************************************************)
(* What is asked of the MCP servers once they are set up: the peggy mcp     *)
(* commands (agents/peggy/runner.go, mcp.go), the catalogs and reads of the *)
(* manager, the tool calls of a turn (tools/mcp/tools.go), and the messages *)
(* an HTTP server answers with (http.go).                                  *)
(***************************************************************************)
EXTENDS Naturals, Sequences, SequencesExt, Selection

CONSTANTS
  Settings,     \* settings: sequences of servers [enabled, valid, http, has, pages, loops]
  Wires,        \* what a server answers with: sequences of "own", "note", "other", "error", "garbage"
  Results,      \* results of tools: [parts, structured, isError]
  MaxRequests   \* requests that are answered within the timeout of a listing

\* A catalog has a page at least.
ASSUME CallsAssumption ==
  /\ Settings \subseteq Seq([enabled : BOOLEAN, valid : BOOLEAN, http : BOOLEAN, has : SUBSET STRING,
                             pages : Seq(Seq(Nat)) \ {<<>>}, loops : BOOLEAN])
  /\ Results \subseteq [parts : Seq(Seq(STRING)), structured : BOOLEAN, isError : BOOLEAN]

VARIABLES
  servers,    \* the settings, in the order of the names
  cmd,        \* the command, the server it names, and whether a daemon runs it
  step,       \* "idle", "configs", "connect", "none", "ask", "done"
  position,   \* the server that is asked
  page,       \* the cursor: the page that is asked for
  requests,   \* requests made under one timeout
  catalog,    \* what was listed or read: [server, item]
  running,    \* servers with a process or a connection
  exit,       \* 0, 1, or 2 before the end
  shown       \* the result a tool call gave the model, with the result it got

callVars == <<servers, cmd, step, position, page, requests, catalog, running, exit, shown>>

NoCommand == [kind |-> "none", name |-> 0, host |-> FALSE]
NoCall   == [got |-> <<>>, content |-> <<>>, error |-> FALSE]
CallsInit ==
  /\ servers \in Settings /\ cmd = NoCommand /\ step = "idle" /\ position = 1 /\ page = 1
  /\ requests = 0 /\ catalog = <<>> /\ running = {} /\ exit = 2 /\ shown = NoCall

-----------------------------------------------------------------------------
(* The commands. *)

Begin(kind, name) ==
  /\ step = "idle" /\ shown = NoCall /\ step' = "configs" /\ cmd' = [kind |-> kind, name |-> name, host |-> FALSE]
  /\ UNCHANGED <<servers, position, page, requests, catalog, running, exit, shown>>
Named == 1 .. Len(servers) + 1  \* a name of the settings, or one they do not have

RunTools     == Begin("tools", 0)
RunResources == Begin("resources", 0)
RunPrompts   == Begin("prompts", 0)
RunRead      == \E n \in Named : Begin("read", n)
RunPrompt    == \E n \in Named : Begin("prompt", n)

Enabled == {s \in 1 .. Len(servers) : servers[s].enabled}

\* A daemon asks the manager it was built with, if there are servers.
HostAsks(kind, name) ==
  /\ step = "idle" /\ shown = NoCall /\ \A s \in Enabled : servers[s].valid
  /\ step' = (IF Enabled = {} THEN "none" ELSE "ask") /\ running' = Enabled
  /\ cmd' = [kind |-> kind, name |-> name, host |-> TRUE]
  /\ UNCHANGED <<servers, position, page, requests, catalog, exit, shown>>

\* The manager of a command is closed whether it worked or not.
LeaveCall(code) == step' = "done" /\ exit' = code /\ running' = IF cmd.host THEN running ELSE {}

One     == cmd.kind \in {"read", "prompt"}

\* MCPServerConfigs: a server that is enabled has a command, or a URL and headers
\* whose variables are set. Without servers a catalog is empty; what names a
\* server goes on to a manager without any.
Configs ==
  /\ step = "configs"
  /\ IF \E s \in Enabled : ~servers[s].valid THEN LeaveCall(1)
     ELSE IF Enabled = {} /\ ~One THEN LeaveCall(0)
     ELSE step' = "connect" /\ UNCHANGED <<running, exit>>
  /\ UNCHANGED <<servers, cmd, position, page, requests, catalog, shown>>

\* NewManager starts them all, or none (McpManager). The tools are listed with it.
Connect ==
  /\ step = "connect"
  /\ \/ LeaveCall(1)
     \/ IF cmd.kind = "tools" THEN LeaveCall(0) ELSE step' = "ask" /\ running' = Enabled /\ UNCHANGED exit
  /\ UNCHANGED <<servers, cmd, position, page, requests, catalog, shown>>

\* A daemon without servers has an empty catalog, and nothing to read.
HostHasNone ==
  /\ step = "none" /\ LeaveCall(IF One THEN 1 ELSE 0)
  /\ UNCHANGED <<servers, cmd, position, page, requests, catalog, shown>>

-----------------------------------------------------------------------------
(* A request: what its wire carries is the answer, or none. *)

\* Mutant: a catalog without a next page is returned before its page is added.
GatheredLate(old, new, last) == IF last THEN old ELSE old \o new
Gathered(old, new, last) == old \o new

\* The first message of an event stream is taken for the response, also if it is a
\* notification; over standard input and output notifications are skipped.
Heard(s, wire) ==
  LET said == IF servers[s].http THEN wire ELSE Select(wire, {k \in DOMAIN wire : wire[k] # "note"})
  IN  IF said = <<>> THEN "none" ELSE said[1]
\* validateResponse: the response has the id of the request and no error.
AnswersOwn(s, wire) == Heard(s, wire) = "own"

\* The kind of a catalog entry and of what one reads, as servers advertise it.
Feature == IF cmd.kind \in {"resources", "read"} THEN "resources" ELSE "prompts"
Offers(s) == Feature \in servers[s].has

\* mapResource, mapPrompt: item 0 lacks its URI or its name.
Sound(items) == \A k \in 1 .. Len(items) : items[k] # 0
On(s, items) == [k \in 1 .. Len(items) |-> [server |-> s, item |-> items[k]]]

Refused == LeaveCall(1) /\ UNCHANGED <<position, page, requests, catalog>>

\* Resources and Prompts: the servers in order, those without the feature are
\* left out.
Skips ==
  /\ step = "ask" /\ ~One
  /\ IF position > Len(servers) THEN LeaveCall(0) /\ UNCHANGED <<position, page, requests>>
     ELSE /\ position \notin Enabled \/ ~Offers(position)
          /\ position' = position + 1 /\ page' = 1 /\ requests' = 0 /\ UNCHANGED <<step, running, exit>>
  /\ UNCHANGED <<servers, cmd, catalog, shown>>

\* listResources, listPrompts: page after page, under one timeout. A server that
\* gives its cursor again is asked again until then.
ListsPage(wire) ==
  /\ step = "ask" /\ ~One /\ position \in Enabled /\ Offers(position)
  /\ LET s == servers[position]
         items == s.pages[page]
         last == page = Len(s.pages) /\ ~s.loops
     IN IF requests = MaxRequests \/ ~AnswersOwn(position, wire) \/ ~Sound(items) THEN Refused
        ELSE /\ catalog' = Gathered(catalog, On(position, items), last)
             /\ IF last THEN position' = position + 1 /\ page' = 1 /\ requests' = 0
                ELSE /\ page' = (IF page = Len(s.pages) THEN page ELSE page + 1)
                     /\ requests' = requests + 1 /\ UNCHANGED position
             /\ UNCHANGED <<step, running, exit>>
  /\ UNCHANGED <<servers, cmd, shown>>

\* ReadResource, GetPrompt: the server must be enabled and offer the feature.
Reads(wire) ==
  /\ step = "ask" /\ One
  /\ IF /\ cmd.name \in Enabled /\ Offers(cmd.name)
        /\ AnswersOwn(cmd.name, wire) /\ Sound(servers[cmd.name].pages[1])
       THEN /\ catalog' = On(cmd.name, servers[cmd.name].pages[1]) /\ LeaveCall(0)
            /\ UNCHANGED <<position, page, requests>>
       ELSE Refused
  /\ UNCHANGED <<servers, cmd, shown>>

AskFails == step = "ask" /\ Refused /\ UNCHANGED <<servers, cmd, shown>>  \* the transport, the timeout

-----------------------------------------------------------------------------
(* A tool call of a turn. *)

Texts(result)  == Select(result.parts, {k \in DOMAIN result.parts : result.parts[k][1] = "text"})
Others(result) == Select(result.parts, {k \in DOMAIN result.parts : result.parts[k][1] # "text"})

\* fallbackContent: the structured content, else what is not text as one JSON text.
Fallback(result) ==
  IF result.structured THEN <<<<"structured">>>>
  ELSE IF Others(result) = <<>> THEN <<>> ELSE <<<<"json">> \o Others(result)>>

\* remoteTool.mapResult: text in its order; what is not text is left to the metadata
\* if there is any text.
ToContent(result) == IF Texts(result) # <<>> THEN Texts(result) ELSE Fallback(result)

\* remoteTool.execute: an error of the server and one of the transport both end up
\* as the text of an error result, the latter in the loop.
CallReturns(result) ==
  /\ step = "idle" /\ shown = NoCall
  /\ shown' = [got |-> <<result>>, content |-> ToContent(result), error |-> result.isError]
  /\ UNCHANGED <<servers, cmd, step, position, page, requests, catalog, running, exit>>
\* resourceReadTool.mapResult: the contents in their order, a line for what is no text.
ReadContent(parts) ==
  [k \in 1 .. Len(parts) |-> IF parts[k][1] = "text" THEN parts[k] ELSE <<"blob">> \o parts[k]]
ReadReturns(result) ==
  /\ step = "idle" /\ shown = NoCall
  /\ shown' = [got |-> <<[result EXCEPT !.structured = FALSE, !.isError = FALSE]>>,
               content |-> ReadContent(result.parts), error |-> FALSE]
  /\ UNCHANGED <<servers, cmd, step, position, page, requests, catalog, running, exit>>
CallFails ==
  /\ step = "idle" /\ shown = NoCall
  /\ shown' = [got |-> <<>>, content |-> <<<<"error">>>>, error |-> TRUE]
  /\ UNCHANGED <<servers, cmd, step, position, page, requests, catalog, running, exit>>

CallsNext ==
  \/ \E k \in {"resources", "prompts"} : HostAsks(k, 0)
  \/ \E k \in {"read", "prompt"}, n \in Named : HostAsks(k, n)
  \/ HostHasNone
  \/ RunTools \/ RunResources \/ RunPrompts \/ RunRead \/ RunPrompt \/ Configs \/ Connect \/ Skips
  \/ \E w \in Wires : ListsPage(w) \/ Reads(w)
  \/ AskFails \/ CallFails \/ \E r \in Results : CallReturns(r) \/ ReadReturns(r)

CallsSpec == CallsInit /\ [][CallsNext]_callVars

-----------------------------------------------------------------------------
\* All that server s lists, in order, and all that the first n servers list which
\* are enabled and offer it.
Offered(s) == On(s, FlattenSeq(servers[s].pages))
WholeOf(n)   == FlattenSeq([s \in 1 .. n |-> IF s \in Enabled /\ Offers(s) THEN Offered(s) ELSE <<>>])

\* A command that ends well printed all that the servers hold which are enabled and
\* offer it, page by page and server by server, nothing twice and nothing malformed,
\* whatever answers failed on the way; a command leaves no server behind, and a
\* daemon's request leaves them all
\* (Manager.Resources, Manager.Prompts, listResources, listPrompts, Manager.Close).
CatalogIsWhole ==
  step = "done" =>
    /\ running = IF cmd.host THEN Enabled ELSE {}
    /\ exit = 0 /\ cmd.kind \in {"resources", "prompts"} =>
         /\ catalog = WholeOf(Len(servers))
         /\ \A k \in 1 .. Len(catalog) : catalog[k].item # 0
    /\ exit = 0 /\ One => cmd.name \in Enabled /\ Offers(cmd.name)

\* The model is told what the tool returned: all its text, or, without any, all the
\* rest; an empty content means that nothing came, and an error is marked as one
\* (remoteTool.mapResult, resourceReadTool.mapResult).
ResultsAreTold ==
  IF shown.got = <<>> THEN shown = NoCall \/ (shown.error /\ shown.content # <<>>)
  ELSE LET result == shown.got[1]
       IN /\ shown.error = result.isError
          /\ shown.content = <<>> => result.parts = <<>> /\ ~result.structured
          /\ \A k \in 1 .. Len(result.parts) :
               result.parts[k][1] = "text" => Contains(shown.content, result.parts[k])

\* What the users and the models of MCP servers are told.
CallsAreSound == CatalogIsWhole /\ ResultsAreTold

-----------------------------------------------------------------------------
(***************************************************************************)
(* The inductive strengthening: what is listed so far is all of the servers *)
(* before the one that is asked, and the pages of that one before the page  *)
(* that is asked for.                                                      *)
(***************************************************************************)
Asked   == position \in Enabled /\ Offers(position)
\* The pages of the server that is asked, so far.
Started == IF page = 1 THEN <<>> ELSE On(position, FlattenSeq(SubSeq(servers[position].pages, 1, page - 1)))

CallsTypeOK ==
  /\ servers \in Settings
  /\ catalog \in Seq([server : Nat, item : Nat])
  /\ position \in 1 .. Len(servers) + 1
  /\ page \in 1 .. (IF Asked THEN Len(servers[position].pages) ELSE 1)

ManagerOK ==
  /\ step \in {"idle", "configs", "connect"} => ~cmd.host /\ running = {}
  /\ step = "none" => cmd.host /\ Enabled = {} /\ running = {}
  /\ step = "ask" => running = Enabled

ListedInv ==
  /\ step \in {"idle", "configs", "connect", "none"} => position = 1 /\ page = 1 /\ catalog = <<>>
  /\ step = "ask" /\ ~One =>
       /\ \A k \in 1 .. Len(catalog) : catalog[k].item # 0
       /\ (Asked => ~servers[position].loops) => catalog = WholeOf(position - 1) \o Started

CallsInv == CallsTypeOK /\ ManagerOK /\ ListedInv /\ CallsAreSound
=============================================================================
