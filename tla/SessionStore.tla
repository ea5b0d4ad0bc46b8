---------------------------- MODULE SessionStore ----------------------------
(***************************************************************************)
(* The stores of sessions: a directory of JSON files (stores/file) and a   *)
(* SQLite database with a full-text index (stores/sqlite), used by several *)
(* workers - goroutines or processes - of which any may end at any step.   *)
(*                                                                         *)
(* A state is the number of the Save that wrote it; 0 is none.  Its header *)
(* (the sessions row), its messages and their index are told apart, since  *)
(* SQLite keeps them in three tables.                                      *)
(***************************************************************************)
EXTENDS Integers, FiniteSets

CONSTANTS
  Ids,      \* session ids
  Workers,
  MaxSaves  \* bound: saves that begin

VARIABLES
  backend,  \* "file" or "sqlite"
  store,    \* per session: the saves its header, its messages and their index are of
  saves,    \* how many saves have begun
  op,       \* per worker: the operation it is in
  current   \* per worker and session: the states it had since that operation began

storeVars == <<backend, store, saves, op, current>>

Idle     == [pc |-> "idle"]
Absent     == [head |-> 0, msgs |-> 0, index |-> 0]
Whole(v) == [head |-> v, msgs |-> v, index |-> IF backend = "sqlite" THEN v ELSE 0]

StoreInit ==
  /\ backend \in {"file", "sqlite"}
  /\ store = [i \in Ids |-> Absent] /\ saves = 0
  /\ op = [w \in Workers |-> Idle]
  /\ current = [w \in Workers |-> [i \in Ids |-> {}]]

Begins(w, o) ==
  /\ op[w].pc = "idle"
  /\ op' = [op EXCEPT ![w] = o]
  /\ current' = [current EXCEPT ![w] = [i \in Ids |-> {store[i].head}]]

Stores(i, new) ==
  /\ store' = [store EXCEPT ![i] = new]
  /\ current' = [w \in Workers |-> [current[w] EXCEPT ![i] = @ \cup {new.head}]]

-----------------------------------------------------------------------------
(* Save: a temporary file that is renamed, or one transaction. *)

Writing == {w \in Workers : op[w].pc = "save"}

BeginSave(w, i) ==
  /\ saves < MaxSaves /\ (backend = "sqlite" => Writing = {})
  /\ saves' = saves + 1
  /\ Begins(w, [pc |-> "save", id |-> i, new |-> saves + 1])
  /\ UNCHANGED <<backend, store>>

\* Mutant: the file itself is written, the header before the messages.
InPlace(w) ==
  /\ op[w].pc = "save"
  /\ LET i == op[w].id
         v == op[w].new
     IN IF store[i].head # v
          THEN Stores(i, [store[i] EXCEPT !.head = v, !.msgs = 0]) /\ UNCHANGED op
          ELSE Stores(i, Whole(v)) /\ op' = [op EXCEPT ![w] = Idle]
  /\ UNCHANGED <<backend, saves>>

\* The rename or the commit.
EndSave(w) ==
  /\ op[w].pc = "save"
  /\ Stores(op[w].id, Whole(op[w].new))
  /\ op' = [op EXCEPT ![w] = Idle]
  /\ UNCHANGED <<backend, saves>>

\* An error, a cancelled context, or the end of the worker: the file is removed or
\* left under its temporary name, the transaction is rolled back.
Abandon(w) ==
  /\ op[w].pc # "idle"
  /\ op' = [op EXCEPT ![w] = Idle]
  /\ UNCHANGED <<backend, store, saves, current>>

\* A statement, whose cascade and triggers take the messages and the index along.
Delete(w, i) ==
  /\ op[w].pc = "idle" /\ (backend = "sqlite" => Writing = {})
  /\ Stores(i, Absent)
  /\ UNCHANGED <<backend, saves, op>>

-----------------------------------------------------------------------------
(* Load: one file, or two statements. *)

Got(i, head, msgs) == [pc |-> "got", id |-> i, head |-> head, msgs |-> msgs]

BeginLoad(w, i) ==
  /\ Begins(w, IF backend = "file" \/ store[i].head = 0
                 THEN Got(i, store[i].head, store[i].msgs)
                 ELSE [pc |-> "rows", id |-> i, head |-> store[i].head])
  /\ UNCHANGED <<backend, store, saves>>

LoadRows(w) ==
  /\ op[w].pc = "rows"
  /\ op' = [op EXCEPT ![w] = Got(@.id, @.head, store[@.id].msgs)]
  /\ UNCHANGED <<backend, store, saves, current>>

-----------------------------------------------------------------------------
(* ListSessions: one statement, or the names in the directory and then file by *)
(* file, where one that is gone by then is passed over.                    *)

Present == {i \in Ids : store[i].head # 0}

\* What is listed of a session.
Entry(i) == IF i \in Present THEN {[id |-> i, of |-> store[i].head]} ELSE {}

BeginList(w) ==
  /\ Begins(w, IF backend = "file" THEN [pc |-> "list", todo |-> Present, found |-> {}]
                ELSE [pc |-> "list", todo |-> {}, found |-> UNION {Entry(i) : i \in Ids}])
  /\ UNCHANGED <<backend, store, saves>>

ListFile(w) ==
  /\ op[w].pc = "list"
  /\ \E i \in op[w].todo :
       op' = [op EXCEPT ![w] = [pc |-> "list", todo |-> @.todo \ {i}, found |-> @.found \cup Entry(i)]]
  /\ UNCHANGED <<backend, store, saves, current>>

\* Search: the index gives messages, which are joined with their rows.
Hits == {i \in Ids : store[i].index # 0 /\ store[i].msgs # 0}

StoreNext ==
  \E w \in Workers :
    \/ \E i \in Ids : BeginSave(w, i) \/ Delete(w, i) \/ BeginLoad(w, i)
    \/ EndSave(w) \/ Abandon(w) \/ LoadRows(w) \/ BeginList(w) \/ ListFile(w)

StoreSpec == StoreInit /\ [][StoreNext]_storeVars

-----------------------------------------------------------------------------
\* What a load or a listing returns is a state the session had while it ran, never
\* a part of one ("Save must be atomic against partial writes"): both halves of a
\* file are of one save; SQLite reads the header and the messages apart, and each
\* is whole (Store.Load, Store.ListSessions).
ReadsAreOfSaves ==
  \A w \in Workers :
    /\ op[w].pc = "got" =>
         /\ op[w].head \in current[w][op[w].id]
         /\ op[w].msgs \in current[w][op[w].id]
         /\ backend = "file" => op[w].head = op[w].msgs
    /\ op[w].pc = "list" => \A f \in op[w].found : f.of \in current[w][f.id] \ {0}

\* Outside a transaction the messages of SQLite and their index are those of the
\* sessions there are: a search finds no message of a session that is gone
\* (schemaSQL, Store.Delete, Store.Search).
SearchFindsWhatIsStored ==
  backend = "sqlite" =>
    \A i \in Ids : store[i].msgs = store[i].head /\ store[i].index = store[i].msgs /\ (i \in Hits <=> i \in Present)

\* Over any order of the statements and file operations of any workers, however
\* they end: reads are of saves, and a search is of what is stored.
StoresAreTrue == ReadsAreOfSaves /\ SearchFindsWhatIsStored

-----------------------------------------------------------------------------
(***************************************************************************)
(* The inductive strengthening: between two steps a session is one save as *)
(* a whole, and the state it has is one that every operation under way saw. *)
(***************************************************************************)
Operations ==
  {Idle} \cup [pc : {"save"}, id : Ids, new : Nat \ {0}]
         \cup [pc : {"rows"}, id : Ids, head : Nat]
         \cup [pc : {"got"}, id : Ids, head : Nat, msgs : Nat]
         \cup [pc : {"list"}, todo : SUBSET Ids, found : SUBSET [id : Ids, of : Nat]]

StoreTypeOK ==
  /\ backend \in {"file", "sqlite"} /\ saves \in Nat
  /\ store \in [Ids -> [head : Nat, msgs : Nat, index : Nat]]
  /\ op \in [Workers -> Operations]
  /\ current \in [Workers -> [Ids -> SUBSET Nat]]

WholeInv == \A i \in Ids : store[i] = Whole(store[i].head)

CurrentInv ==
  \A w \in Workers : op[w].pc # "idle" => \A i \in Ids : store[i].head \in current[w][i]

RowsInv ==
  \A w \in Workers : op[w].pc = "rows" => backend = "sqlite" /\ op[w].head \in current[w][op[w].id]

StoreInv == StoreTypeOK /\ WholeInv /\ CurrentInv /\ RowsInv /\ StoresAreTrue
=============================================================================
