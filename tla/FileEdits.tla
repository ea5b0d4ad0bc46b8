----------------------------- MODULE FileEdits ------------------------------
(***************************************************************************)
(* read_file, edit_file and write_file on one file (tools/fs/read.go,        *)
(* edit.go, write.go) with the ReadLedger they share (tools/coding), while   *)
(* other programs change the file. The calls of a session follow each other; *)
(* those of several sessions of an agent, which share the ledger, do not.    *)
(*                                                                         *)
(* Every change gives the file a new time of modification, which also names  *)
(* the change; `text` says which changes the file contains. A read returns a *)
(* page, which shows any of them, but records the time of the whole file.    *)
(***************************************************************************)
EXTENDS Naturals, FiniteSets

CONSTANTS
  Sessions,    \* sessions of the agent
  MaxCalls,    \* bound: tool calls
  MaxForeign   \* bound: changes other programs make

VARIABLES
  mtime,   \* time of the last modification
  text,    \* changes that are in the file
  ledger,  \* ReadLedger.seen of the file, 0 if it has none
  running, \* per session: its tool call, where it is and what it took from the file
  begun,   \* tool calls so far
  \* History.
  foreign, \* changes other programs made while no tool was changing the file
  made,    \* changes other programs made
  looked,  \* changes in what some session read a page of, which need not show them
  since    \* the time the ledger was first given

fileVars == <<mtime, text, ledger, running, begun, foreign, made, looked, since>>

Tools == {"read_file", "edit_file", "write_file"}
NoTool == [pc |-> "idle"]
FilesInit ==
  /\ mtime = 1 /\ text = {} /\ ledger = 0 /\ running = [s \in Sessions |-> NoTool] /\ begun = 0
  /\ foreign = {} /\ made = 0 /\ looked = {} /\ since = 0

Changing == {s \in Sessions : running[s] # NoTool /\ running[s].tool # "read_file"}

\* An editor, a formatter, git.
ForeignChange ==
  /\ made < MaxForeign /\ made' = made + 1
  /\ mtime' = mtime + 1 /\ text' = text \cup {mtime'}
  /\ foreign' = IF Changing = {} THEN foreign \cup {mtime'} ELSE foreign
  /\ UNCHANGED <<ledger, running, begun, looked, since>>

\* ReadLedger.Stale.
Stale(time) == ledger # 0 /\ ledger # time

\* os.Stat in read_file, os.Lstat in the others; edit_file asks the ledger, and
\* refuses the file if it is stale.
Stat(s, tool) ==
  /\ running[s] = NoTool /\ begun < MaxCalls /\ begun' = begun + 1
  /\ IF tool = "edit_file" /\ Stale(mtime) THEN UNCHANGED running
     ELSE running' = [running EXCEPT ![s] =
            [tool |-> tool, time |-> mtime, data |-> {}, pc |-> IF tool = "write_file" THEN "rename" ELSE "data"]]
  /\ UNCHANGED <<mtime, text, ledger, foreign, made, looked, since>>

\* os.ReadFile in read_file and edit_file.
Data(s) ==
  /\ running[s].pc = "data"
  /\ running' = [running EXCEPT ![s].data = text,
                               ![s].pc = IF running[s].tool = "read_file" THEN "record" ELSE "rename"]
  /\ UNCHANGED <<mtime, text, ledger, begun, foreign, made, looked, since>>

\* Any refusal or error before the rename: nothing is changed, nothing recorded.
Refuse(s) ==
  /\ running[s].pc \in {"data", "rename"} /\ running' = [running EXCEPT ![s] = NoTool]
  /\ UNCHANGED <<mtime, text, ledger, begun, foreign, made, looked, since>>

\* atomicWriteFile: the temporary file replaces the file.
Rename(s) ==
  /\ running[s].pc = "rename" /\ mtime' = mtime + 1
  /\ text' = running[s].data \cup {mtime'}
  /\ running' = [running EXCEPT ![s].pc = "stat"]
  /\ UNCHANGED <<ledger, begun, foreign, made, looked, since>>

\* The time the tool records, taken after its rename.
StatAgain(s) ==
  /\ running[s].pc = "stat" /\ running' = [running EXCEPT ![s].pc = "record", ![s].time = mtime]
  /\ UNCHANGED <<mtime, text, ledger, begun, foreign, made, looked, since>>

\* Mutant: the time of now is recorded, not that of before the data were read.
RecordNow(s) ==
  /\ running[s].pc = "record" /\ ledger' = mtime
  /\ since' = IF ledger = 0 THEN ledger' ELSE since
  /\ looked' = IF running[s].tool = "read_file" THEN looked \cup running[s].data ELSE looked
  /\ running' = [running EXCEPT ![s] = NoTool]
  /\ UNCHANGED <<mtime, text, begun, foreign, made>>

\* ReadLedger.Record, of the whole file whatever page of it is returned, and the end of
\* the call.
Record(s) ==
  /\ running[s].pc = "record" /\ ledger' = running[s].time
  /\ since' = IF ledger = 0 THEN ledger' ELSE since
  /\ looked' = IF running[s].tool = "read_file" THEN looked \cup running[s].data ELSE looked
  /\ running' = [running EXCEPT ![s] = NoTool]
  /\ UNCHANGED <<mtime, text, begun, foreign, made>>

FilesNext ==
  \/ ForeignChange
  \/ \E s \in Sessions :
       (\E tool \in Tools : Stat(s, tool)) \/ Data(s) \/ Refuse(s) \/ Rename(s) \/ StatAgain(s) \/ Record(s)

FilesSpec == FilesInit /\ [][FilesNext]_fileVars

-----------------------------------------------------------------------------
\* For one session: when the ledger lets an edit of the file through, the session read
\* some page of the file with every change that other programs made to it since it was
\* first recorded, except those that fell within an edit or a write (ReadLedger: files
\* that changed on disk since the model read them, tools/fs/ledger.go:8-12). That the page
\* shows the change nothing checks (pageLines).
EditsAreInformed ==
  ledger # 0 /\ ledger = mtime => {f \in foreign \cap text : f > since} \subseteq looked

-----------------------------------------------------------------------------
(* The inductive invariant of EditsAreInformed. *)

OneSession == \A s, t \in Sessions : s = t

ToolCalls == [tool : Tools, time : 1 .. mtime, data : SUBSET (1 .. mtime),
          pc : {"data", "rename", "stat", "record"}]
FilesTypeOK ==
  /\ mtime \in Nat /\ mtime > 0 /\ begun \in Nat /\ made \in Nat
  /\ text \subseteq 1 .. mtime /\ foreign \subseteq 1 .. mtime /\ looked \subseteq 1 .. mtime
  /\ ledger \in 0 .. mtime /\ since \in 0 .. mtime
  /\ running \in [Sessions -> {NoTool} \cup ToolCalls]

\* Who reads t knows the changes of others since the ledger was first given.
Informed(t) == {f \in foreign \cap t : f > since} \subseteq looked

\* What a call under way has of the file.
CallInv(c) ==
  /\ c.tool = "read_file" => c.pc \in {"data", "record"}
  /\ c.tool = "read_file" /\ c.pc = "record" /\ c.time = mtime => text \subseteq c.data
  /\ c.tool # "read_file" /\ ledger # 0 => Informed(IF c.pc = "rename" THEN c.data ELSE text)
  /\ c.tool # "read_file" /\ c.pc = "record" /\ ledger = 0 => \A f \in foreign : f <= c.time

FilesInv ==
  /\ FilesTypeOK /\ EditsAreInformed
  /\ \A s \in Sessions : running[s] # NoTool => CallInv(running[s])
=============================================================================
