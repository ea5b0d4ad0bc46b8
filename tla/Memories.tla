------------------------------ MODULE Memories ------------------------------
(***************************************************************************)
(* Peggy's curated memories (agents/peggy/memory.go, memory_backup.go): a   *)
(* list in the session __memories__ of the store, which AddMemory,         *)
(* ForgetMemory and ImportMemoryBackup load, change and save under a mutex *)
(* of their process.  The daemon and the commands `peggy memories ...` are *)
(* processes of their own, with callers that run at the same time; any may *)
(* end at any step.                                                        *)
(*                                                                         *)
(* A memory is its id, a number as times are, and its content.  Contents   *)
(* that differ in case or spacing only are one to an import.               *)
(***************************************************************************)
EXTENDS Integers, Sequences, FiniteSets

CONSTANTS
  Callers, Process, \* Process[c]: the process caller c is in
  Contents, Norm,   \* Norm[x]: content x in lower case, its spaces folded
  Foreign,          \* a valid backup of another store: distinct ids, below 0
  MaxOps, MaxFailures \* bounds: operations begun; failed saves and ends of processes

\* A memory, and a list of them with an id each (ValidateMemoryBackup).
Notes     == [id : Int, content : DOMAIN Norm]
IsList(s) == s \in Seq(Notes) /\ \A i, j \in DOMAIN s : i # j => s[i].id # s[j].id

ASSUME MemoryAssumption ==
  /\ Contents \subseteq DOMAIN Norm
  /\ IsList(Foreign) /\ \A i \in DOMAIN Foreign : Foreign[i].id < 0
  /\ {MaxOps, MaxFailures} \subseteq Nat

VARIABLES
  memories, \* the messages of __memories__ in the store
  edit,     \* per caller: its operation, and the list it loaded
  backup,   \* the file of the latest export, whether it is whole
  next,     \* the time, which the next id is made of
  ops, failures,
  kept,     \* ids whose addition was reported and whose removal was not begun
  gone,     \* ids whose removal was reported
  crossed   \* a process saved between the load and the save of another

memoryVars == <<memories, edit, backup, next, ops, failures, kept, gone, crossed>>

NoEdit == [pc |-> "idle"]

MemoryInit ==
  /\ memories = <<>> /\ edit = [c \in Callers |-> NoEdit] /\ backup = [whole |-> FALSE, list |-> <<>>]
  /\ next = 1 /\ ops = 0 /\ failures = 0
  /\ kept = {} /\ gone = {} /\ crossed = FALSE

IdsOf(s) == {s[i].id : i \in DOMAIN s}
Says(s)  == {Norm[s[i].content] : i \in DOMAIN s}

\* Mutant: a mutex of the caller's own.
HeldAlone(c) == edit[c].pc = "loaded"
\* memoryWriteMu of the process of c.
Held(c) == \E d \in Callers : Process[d] = Process[c] /\ edit[d].pc = "loaded"

\* The mutex is taken and the list loaded.
Loads(c, o, x) ==
  /\ edit[c].pc = "idle" /\ ~Held(c) /\ ops < MaxOps /\ ops' = ops + 1
  /\ edit' = [edit EXCEPT ![c] = [pc |-> "loaded", op |-> o, arg |-> x, list |-> memories]]

Add(c, x) ==
  /\ Loads(c, "add", [id |-> next, content |-> x]) /\ next' = next + 1
  /\ UNCHANGED <<memories, backup, failures, kept, gone, crossed>>
Forget(c, id) ==
  /\ Loads(c, "forget", id) /\ kept' = kept \ {id}
  /\ UNCHANGED <<memories, backup, next, failures, gone, crossed>>
Import(c, b) ==
  /\ Loads(c, "import", b)
  /\ UNCHANGED <<memories, backup, next, failures, kept, gone, crossed>>

-----------------------------------------------------------------------------
(* What an operation saves. *)

\* The members of s at the indexes in I, in their order.
Nth(I, n)    == CHOOSE i \in I : Cardinality({j \in I : j <= i}) = n
Picked(s, I) == [n \in 1 .. Cardinality(I) |-> s[Nth(I, n)]]

Without(s, id) == Picked(s, {i \in DOMAIN s : s[i].id # id})

\* The memories of a backup an import appends: the first of those that are equal,
\* when it has neither the id nor the content of a memory that is there.
News(s, b) ==
  {i \in DOMAIN b : /\ b[i].id \notin IdsOf(s) /\ Norm[b[i].content] \notin Says(s)
                    /\ \A j \in 1 .. i - 1 : Norm[b[j].content] # Norm[b[i].content]}
Taken(s, b) == Picked(b, News(s, b))

Result(k) ==
  CASE k.op = "add"    -> Append(k.list, k.arg)
    [] k.op = "forget" -> Without(k.list, k.arg)
    [] k.op = "import" -> k.list \o Taken(k.list, k.arg)

\* An operation that has nothing to save ends in an error, or with a report.
Nothing(c) ==
  /\ edit[c].pc = "loaded" /\ Result(edit[c]) = edit[c].list
  /\ edit' = [edit EXCEPT ![c] = NoEdit]
  /\ UNCHANGED <<memories, backup, next, ops, failures, kept, gone, crossed>>

Save(c) ==
  /\ edit[c].pc = "loaded" /\ Result(edit[c]) # edit[c].list
  /\ memories' = Result(edit[c])
  /\ edit' = [edit EXCEPT ![c] = NoEdit]
  /\ crossed' = (crossed \/ \E d \in Callers : Process[d] # Process[c] /\ edit[d].pc = "loaded")
  /\ CASE edit[c].op = "add"    -> kept' = kept \cup {edit[c].arg.id} /\ UNCHANGED gone
       [] edit[c].op = "forget" -> gone' = gone \cup {edit[c].arg} /\ UNCHANGED kept
       [] edit[c].op = "import" ->
            LET ids == IdsOf(Taken(edit[c].list, edit[c].arg))
            IN kept' = kept \cup ids /\ gone' = gone \ ids
  /\ UNCHANGED <<backup, next, ops, failures>>

\* The save fails, or the process ends.
SaveFails(c) ==
  /\ edit[c].pc = "loaded" /\ failures < MaxFailures /\ failures' = failures + 1
  /\ \E who \in {{c}, {d \in Callers : Process[d] = Process[c]}} :
       edit' = [d \in Callers |-> IF d \in who THEN NoEdit ELSE edit[d]]
  /\ UNCHANGED <<memories, backup, next, ops, kept, gone, crossed>>

-----------------------------------------------------------------------------
(* peggy memories export: the list is read without the mutex, ordered by its *)
(* times, and written over the file of the export before.                  *)

InOrder(s) == [n \in DOMAIN s |-> s[CHOOSE i \in DOMAIN s : s[i].id = Nth(IdsOf(s), n)]]

Export(c) ==
  /\ edit[c].pc = "idle" /\ ops < MaxOps /\ ops' = ops + 1
  /\ \/ backup' = [whole |-> TRUE, list |-> InOrder(memories)] /\ UNCHANGED failures
     \/ backup' = [whole |-> FALSE, list |-> <<>>] /\ failures < MaxFailures /\ failures' = failures + 1
  /\ UNCHANGED <<memories, edit, next, kept, gone, crossed>>

\* DecodeMemoryBackup refuses a file that is cut off.
Decoded == IF backup.whole THEN {backup.list} ELSE {}

MemoryNext ==
  \E c \in Callers :
    \/ \E x \in Contents : Add(c, x)
    \/ \E id \in 1 .. MaxOps : id < next /\ Forget(c, id)
    \/ \E b \in Decoded \cup {Foreign} : Import(c, b)
    \/ Nothing(c) \/ Save(c) \/ SaveFails(c) \/ Export(c)

MemorySpec == MemoryInit /\ [][MemoryNext]_memoryVars

-----------------------------------------------------------------------------
\* A memory whose addition was reported is there until its removal is asked for, and
\* one whose removal was reported is not there again unless an import brings it back
\* (AddMemory, ForgetMemory) - as long as no two processes were in an operation at
\* the same time, which the mutex of a process does not order.
MemoriesAreKept ==
  ~crossed => kept \subseteq IdsOf(memories) /\ gone \cap IdsOf(memories) = {}

\* No two memories share an id, and an import adds no content twice ("duplicates by
\* stable id or normalized content are skipped"): a content that is there twice was
\* added twice (ImportMemoryBackup).
ImportsAddNoDuplicates ==
  \A i, j \in DOMAIN memories : i # j =>
    /\ memories[i].id # memories[j].id
    /\ memories[i].id < 0 /\ memories[j].id < 0 => Norm[memories[i].content] # Norm[memories[j].content]

MemoriesAreSound == MemoriesAreKept /\ ImportsAddNoDuplicates

-----------------------------------------------------------------------------
(* The inductive invariant of MemoriesAreSound. *)

\* What is loaded or stored at n, and a backup of it.
Below(s, n) == \A i \in DOMAIN s : s[i].id < n
Stored(s, n) ==
  /\ IsList(s) /\ Below(s, n)
  /\ \A i, j \in DOMAIN s : i # j /\ s[i].id < 0 /\ s[j].id < 0 => Norm[s[i].content] # Norm[s[j].content]

ListsInv ==
  /\ next \in Nat \ {0} /\ kept \subseteq Int /\ gone \subseteq Int
  /\ \A i \in kept \cup gone : i < next
  /\ Stored(memories, next) /\ backup.whole \in BOOLEAN
  /\ backup.whole => IsList(backup.list) /\ Below(backup.list, next)

\* An operation is alone in its process; the id of what it adds came after its list.
EditsInv ==
  /\ DOMAIN edit = Callers
  /\ \A c \in Callers : edit[c].pc \in {"idle", "loaded"}
  /\ \A c \in Callers : edit[c].pc = "loaded" =>
       /\ edit[c].op \in {"add", "forget", "import"} /\ Stored(edit[c].list, next)
       /\ edit[c].op = "add" =>
            edit[c].arg \in Notes /\ edit[c].arg.id \in 1 .. next - 1 /\ Below(edit[c].list, edit[c].arg.id)
       /\ edit[c].op = "import" => IsList(edit[c].arg) /\ Below(edit[c].arg, next)
       /\ \A d \in Callers \ {c} : edit[d].pc = "loaded" => Process[d] # Process[c]

\* As long as no two processes crossed, what was loaded is what is stored.
LoadedInv ==
  ~crossed => \A c \in Callers : edit[c].pc = "loaded" =>
    /\ edit[c].list = memories
    /\ edit[c].op = "add" => edit[c].arg.id \notin gone
    /\ edit[c].op = "forget" => edit[c].arg \notin kept

MemoryInv == ListsInv /\ EditsInv /\ LoadedInv /\ MemoriesAreKept
=============================================================================
