----------------------------- MODULE McpManager -----------------------------
(***************************************************************************)
(* NewManager (tools/mcp/tools.go): the servers of the settings are started *)
(* one after the other, their tools get names in one namespace, and any     *)
(* failure closes what was started.                                        *)
(*                                                                         *)
(* A sanitized name is the sequence of its words between underscores, so    *)
(* that server <<"a">> with tool <<"b","c">> and server <<"a","b">> with    *)
(* tool <<"c">> meet, as their texts do.                                   *)
(***************************************************************************)
EXTENDS Naturals, Sequences

CONSTANTS
  Configs   \* settings: sequences of [part, tools, lists, resources]

\* The servers, the tools of one and the words of a name stand in an order.
IsSequence(s) == Len(s) \in Nat /\ s = [i \in 1 .. Len(s) |-> s[i]]
ASSUME ManagerAssumption ==
  \A c \in Configs :
    /\ IsSequence(c)
    /\ \A i \in 1 .. Len(c) : /\ IsSequence(c[i].part) /\ IsSequence(c[i].tools)
                              /\ \A t \in 1 .. Len(c[i].tools) : IsSequence(c[i].tools[t])

VARIABLES
  configs,   \* the settings
  position,  \* the server being started
  step,      \* "start", "list", "map", "resources", "done", "failed"
  mapped,    \* tools of it that were mapped
  started,   \* servers with a process
  names,     \* names that are taken
  tools      \* the tools so far: [name, server, tool]

managerVars == <<configs, position, step, mapped, started, names, tools>>

ManagerInit ==
  /\ configs \in Configs /\ position = 1 /\ step = "start" /\ mapped = 0
  /\ started = {} /\ names = {} /\ tools = <<>>

Server == configs[position]
Generated == <<"read", "resource">>

\* Every failure closes the servers that are in the manager; NewClient closes
\* the one that does not complete its initialization.
Unwind == step' = "failed" /\ started' = {} /\ UNCHANGED <<configs, position, mapped, names, tools>>

Start ==
  /\ step = "start"
  /\ IF position > Len(configs) THEN step' = "done" /\ UNCHANGED started
     ELSE started' = started \cup {position} /\ step' = IF Server.lists THEN "list" ELSE "resources"
  /\ UNCHANGED <<configs, position, mapped, names, tools>>
StartFails == step = "start" /\ position <= Len(configs) /\ Unwind

List      == step = "list" /\ step' = "map" /\ mapped' = 0 /\ UNCHANGED <<configs, position, started, names, tools>>
ListFails == step = "list" /\ Unwind

AddTool(name, tool) ==
  /\ names' = names \cup {name}
  /\ tools' = Append(tools, [name |-> name, server |-> position, tool |-> tool])

\* mapTool: a tool whose name is taken fails the manager, and so does one without a
\* name or with a schema that is no object.
Name == Server.part \o Server.tools[mapped + 1]
InUse(name) == name \in names
Map ==
  /\ step = "map"
  /\ IF mapped = Len(Server.tools) THEN step' = "resources" /\ UNCHANGED <<mapped, names, tools>>
     ELSE /\ ~InUse(Name) /\ AddTool(Name, Server.tools[mapped + 1])
          /\ mapped' = mapped + 1 /\ UNCHANGED step
  /\ UNCHANGED <<configs, position, started>>
MapFails == step = "map" /\ mapped < Len(Server.tools) /\ Unwind

\* Mutant: the base, even if a tool of the server is called the same.
ReservedBase(base) == base
\* reserveGeneratedToolName: the base or the first free number from 2 on.
Reserved(base) ==
  IF base \notin names THEN base
  ELSE LET free == {n \in 2 .. Len(tools) + 2 : base \o <<n>> \notin names}
       IN  base \o <<CHOOSE n \in free : \A k \in free : n <= k>>
ReadTool ==
  /\ step = "resources"
  /\ IF Server.resources THEN AddTool(Reserved(Server.part \o Generated), Generated) ELSE UNCHANGED <<names, tools>>
  /\ position' = position + 1 /\ step' = "start"
  /\ UNCHANGED <<configs, mapped, started>>

ManagerNext == Start \/ StartFails \/ List \/ ListFails \/ Map \/ MapFails \/ ReadTool

ManagerSpec == ManagerInit /\ [][ManagerNext]_managerVars

-----------------------------------------------------------------------------
\* The name of a tool is all that the model and the permission keys have: it
\* leads to one tool of one server, in whatever order servers and generated tools
\* take their names, and a manager that could not be made leaves no process.
NamesAreUnambiguous ==
  /\ \A j, k \in 1 .. Len(tools) : tools[j].name = tools[k].name => j = k
  /\ step = "failed" => started = {}
  /\ step = "done" => started = 1 .. Len(configs)

-----------------------------------------------------------------------------
(* The strengthening of NamesAreUnambiguous that is inductive. *)

\* The map `seen` of NewManager holds the names of the tools, each once.
NamesInv ==
  /\ IsSequence(tools) /\ names = {tools[k].name : k \in 1 .. Len(tools)}
  /\ \A j, k \in 1 .. Len(tools) : tools[j].name = tools[k].name => j = k

\* The servers before the one at hand run, it too once it was started, until
\* a failure closes all of them.
StartedInv ==
  /\ configs \in Configs /\ position \in 1 .. Len(configs) + 1 /\ mapped \in Nat
  /\ step \in {"start", "list", "map", "resources", "done", "failed"}
  /\ step = "start" => started = 1 .. position - 1
  /\ step \in {"list", "map", "resources"} => position <= Len(configs) /\ started = 1 .. position
  /\ step = "map" => mapped <= Len(Server.tools)
  /\ step = "done" => started = 1 .. Len(configs)
  /\ step = "failed" => started = {}

ManagerInv == NamesInv /\ StartedInv
=============================================================================
