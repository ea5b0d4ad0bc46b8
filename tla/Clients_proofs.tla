--------------------------- MODULE Clients_proofs ---------------------------
(***************************************************************************)
(* Proofs about what several clients share: the stores of sessions, for any *)
(* sessions and workers (SessionStore), the daemons, for any daemons and    *)
(* clients (DaemonClient), the curated memories, for any callers in any     *)
(* processes (Memories), and the setup of Peggy, for any settings files     *)
(* (PeggySetup).                                                           *)
(***************************************************************************)
EXTENDS SessionStore, DaemonClient, Memories, PeggySetup, FunctionTheorems, FiniteSetTheorems,
        SequenceTheorems, TLAPS

-----------------------------------------------------------------------------
(* SessionStore. *)

\* What every operation under way has seen.
Seen(w) == \A i \in Ids : store[i].head \in current[w][i]
Reads(w) ==
  /\ op[w].pc = "rows" => backend = "sqlite" /\ op[w].head \in current[w][op[w].id]
  /\ op[w].pc = "got" =>
       /\ op[w].head \in current[w][op[w].id]
       /\ op[w].msgs \in current[w][op[w].id]
       /\ backend = "file" => op[w].head = op[w].msgs
  /\ op[w].pc = "list" => \A f \in op[w].found : f.of \in current[w][f.id] \ {0}

\* StoreInv, with what is said of a worker together.
StoreParts ==
  /\ StoreTypeOK /\ WholeInv
  /\ \A w \in Workers : (op[w].pc # "idle" => Seen(w)) /\ Reads(w)

LEMMA WholeState ==
  ASSUME WholeInv, NEW i \in Ids
  PROVE  store[i].msgs = store[i].head /\ store[i].index = IF backend = "sqlite" THEN store[i].head ELSE 0
<1> DEFINE h == store[i].head
<1>1. store[i] = [head |-> h, msgs |-> h, index |-> IF backend = "sqlite" THEN h ELSE 0]
  BY DEF WholeInv, Whole
<1> HIDE DEF h
<1>2. store[i].msgs = h /\ store[i].index = IF backend = "sqlite" THEN h ELSE 0 BY <1>1
<1> QED BY <1>2 DEF h

LEMMA SearchFinds == WholeInv => SearchFindsWhatIsStored
<1> SUFFICES ASSUME WholeInv, backend = "sqlite", NEW i \in Ids
             PROVE  store[i].msgs = store[i].head /\ store[i].index = store[i].msgs /\ (i \in Hits <=> i \in Present)
  BY DEF SearchFindsWhatIsStored
<1>1. store[i].msgs = store[i].head /\ store[i].index = store[i].head BY WholeState
<1> QED BY <1>1 DEF Hits, Present

LEMMA PartsOfStore == StoreParts => StoreInv
BY SearchFinds DEF StoreParts, StoreInv, Seen, Reads, CurrentInv, RowsInv, StoresAreTrue, ReadsAreOfSaves

LEMMA StoreStart == StoreInit => StoreParts
<1> SUFFICES ASSUME StoreInit PROVE StoreParts OBVIOUS
<1> USE DEF StoreInit
<1>1. StoreTypeOK BY DEF StoreTypeOK, Absent, Operations
<1>2. WholeInv BY DEF WholeInv, Whole, Absent
<1>3. \A w \in Workers : op[w].pc = "idle" BY DEF Idle
<1> QED BY <1>1, <1>2, <1>3 DEF StoreParts, Reads

\* What an operation is, by its program counter.
LEMMA OpTyped ==
  ASSUME StoreTypeOK, NEW w \in Workers
  PROVE  /\ op[w] \in Operations
         /\ op[w].pc = "save" => op[w].id \in Ids /\ op[w].new \in Nat \ {0}
         /\ op[w].pc = "rows" => op[w].id \in Ids /\ op[w].head \in Nat
         /\ op[w].pc = "got" => op[w].id \in Ids
         /\ op[w].pc = "list" => op[w].todo \subseteq Ids /\ op[w].found \subseteq [id : Ids, of : Nat]
<1>1. op[w] \in Operations BY DEF StoreTypeOK
<1>2. op[w].pc = "save" => op[w].id \in Ids /\ op[w].new \in Nat \ {0} BY <1>1 DEF Operations, Idle
<1>3. op[w].pc = "rows" => op[w].id \in Ids /\ op[w].head \in Nat BY <1>1 DEF Operations, Idle
<1>4. op[w].pc = "got" => op[w].id \in Ids BY <1>1 DEF Operations, Idle
<1>5. op[w].pc = "list" => op[w].todo \subseteq Ids /\ op[w].found \subseteq [id : Ids, of : Nat]
  BY <1>1 DEF Operations, Idle
<1> QED BY <1>1, <1>2, <1>3, <1>4, <1>5

\* A rename, a commit or a deletion: a whole state takes the place of another, and
\* every operation under way has seen it too.
LEMMA StoresWhole ==
  ASSUME StoreTypeOK, WholeInv, NEW i \in Ids, NEW h \in Nat, Stores(i, Whole(h)), backend' = backend
  PROVE  /\ store' \in [Ids -> [head : Nat, msgs : Nat, index : Nat]]
         /\ current' \in [Workers -> [Ids -> SUBSET Nat]]
         /\ WholeInv'
         /\ \A w \in Workers : (Seen(w) => Seen(w)') /\ \A j \in Ids : current[w][j] \subseteq current'[w][j]
<1>1. Whole(h) \in [head : Nat, msgs : Nat, index : Nat] /\ Whole(h).head = h BY DEF Whole
<1>2. /\ store' = [store EXCEPT ![i] = Whole(h)]
      /\ current' = [w \in Workers |-> [current[w] EXCEPT ![i] = @ \cup {h}]]
  BY <1>1 DEF Stores
<1>3. store' \in [Ids -> [head : Nat, msgs : Nat, index : Nat]] BY <1>1, <1>2 DEF StoreTypeOK
<1>4. current' \in [Workers -> [Ids -> SUBSET Nat]] BY <1>2 DEF StoreTypeOK
<1>5. WholeInv'
  <2>1. ASSUME NEW j \in Ids PROVE store'[j] = Whole(store'[j].head)
    <3>1. CASE j = i BY <1>1, <1>2, <3>1 DEF StoreTypeOK
    <3>2. CASE j # i
      <4>1. store'[j] = store[j] BY <1>2, <3>2 DEF StoreTypeOK
      <4> QED BY <4>1 DEF WholeInv
    <3> QED BY <3>1, <3>2
  <2> QED BY <2>1 DEF WholeInv, Whole
<1>6. ASSUME NEW w \in Workers
      PROVE  (Seen(w) => Seen(w)') /\ \A j \in Ids : current[w][j] \subseteq current'[w][j]
  <2>1. \A j \in Ids : current'[w][j] = IF j = i THEN current[w][j] \cup {h} ELSE current[w][j]
    BY <1>2 DEF StoreTypeOK
  <2>2. \A j \in Ids : store'[j].head = IF j = i THEN h ELSE store[j].head
    BY <1>1, <1>2 DEF StoreTypeOK
  <2> QED BY <2>1, <2>2 DEF Seen
<1> QED BY <1>3, <1>4, <1>5, <1>6

\* An operation that another worker has gone on with stays true of what was seen.
LEMMA OthersRead ==
  ASSUME StoreTypeOK, NEW w \in Workers, Reads(w), op'[w] = op[w], backend' = backend,
         \A j \in Ids : current[w][j] \subseteq current'[w][j]
  PROVE  Reads(w)'
<1>1. op[w].pc \in {"rows", "got"} => op[w].id \in Ids BY OpTyped
<1>2. op[w].pc = "list" => op[w].found \subseteq [id : Ids, of : Nat] BY OpTyped
<1>3. op'[w].pc = "rows" => backend' = "sqlite" /\ op'[w].head \in current'[w][op'[w].id]
  BY <1>1 DEF Reads
<1>4. op'[w].pc = "got" =>
        /\ op'[w].head \in current'[w][op'[w].id]
        /\ op'[w].msgs \in current'[w][op'[w].id]
        /\ backend' = "file" => op'[w].head = op'[w].msgs
  BY <1>1 DEF Reads
<1>5. op'[w].pc = "list" => \A f \in op'[w].found : f.of \in current'[w][f.id] \ {0}
  <2> SUFFICES ASSUME op[w].pc = "list", NEW f \in op[w].found PROVE f.of \in current'[w][f.id] \ {0}
    OBVIOUS
  <2>1. f.id \in Ids BY <1>2
  <2> QED BY <2>1 DEF Reads
<1> QED BY <1>3, <1>4, <1>5 DEF Reads

\* An operation begins.
LEMMA BeginsStep ==
  ASSUME StoreParts, NEW w \in Workers, NEW o \in Operations, Begins(w, o),
         backend' = backend, store' = store, saves' \in Nat,
         Seen(w)' => Reads(w)'
  PROVE  StoreParts'
<1>1. /\ op' = [op EXCEPT ![w] = o]
      /\ current' = [current EXCEPT ![w] = [i \in Ids |-> {store[i].head}]]
  BY DEF Begins
<1>2. StoreTypeOK /\ WholeInv BY DEF StoreParts
<1>3. \A i \in Ids : store[i].head \in Nat BY <1>2 DEF StoreTypeOK
<1>4. StoreTypeOK'
  <2>1. current' \in [Workers -> [Ids -> SUBSET Nat]] BY <1>1, <1>2, <1>3 DEF StoreTypeOK
  <2>2. op' \in [Workers -> Operations] BY <1>1, <1>2 DEF StoreTypeOK
  <2> QED BY <1>2, <2>1, <2>2 DEF StoreTypeOK
<1>5. WholeInv' BY <1>2 DEF WholeInv, Whole
<1>6. ASSUME NEW v \in Workers PROVE (op'[v].pc # "idle" => Seen(v)') /\ Reads(v)'
  <2>1. CASE v = w
    <3>1. current'[w] = [i \in Ids |-> {store[i].head}] BY <1>1, <1>2 DEF StoreTypeOK
    <3>2. Seen(w)' BY <3>1 DEF Seen
    <3> QED BY <2>1, <3>2
  <2>2. CASE v # w
    <3>1. op'[v] = op[v] /\ current'[v] = current[v] BY <1>1, <1>2, <2>2 DEF StoreTypeOK
    <3>2. Reads(v)' BY <1>2, <3>1, OthersRead DEF StoreParts
    <3>3. op'[v].pc # "idle" => Seen(v)' BY <3>1 DEF StoreParts, Seen
    <3> QED BY <3>2, <3>3
  <2> QED BY <2>1, <2>2
<1> QED BY <1>4, <1>5, <1>6 DEF StoreParts

\* An operation goes on, without the store.
LEMMA GoesOnStep ==
  ASSUME StoreParts, NEW w \in Workers, NEW o \in Operations, op' = [op EXCEPT ![w] = o],
         UNCHANGED <<backend, store, saves, current>>,
         o.pc # "idle" => op[w].pc # "idle", Reads(w)'
  PROVE  StoreParts'
<1>1. StoreTypeOK /\ WholeInv BY DEF StoreParts
<1>2. StoreTypeOK' BY <1>1 DEF StoreTypeOK
<1>3. WholeInv' BY <1>1 DEF WholeInv, Whole
<1>4. ASSUME NEW v \in Workers PROVE (op'[v].pc # "idle" => Seen(v)') /\ Reads(v)'
  <2>1. Seen(v) => Seen(v)' BY DEF Seen
  <2>2. CASE v = w
    <3>1. op'[w] = o BY <1>1 DEF StoreTypeOK
    <3> QED BY <2>1, <2>2, <3>1 DEF StoreParts
  <2>3. CASE v # w
    <3>1. op'[v] = op[v] /\ current'[v] = current[v] BY <1>1, <2>3 DEF StoreTypeOK
    <3> QED BY <1>1, <2>1, <3>1, OthersRead DEF StoreParts
  <2> QED BY <2>2, <2>3
<1> QED BY <1>2, <1>3, <1>4 DEF StoreParts

\* The store changes, and an operation ends with it or none does.
LEMMA ChangesStep ==
  ASSUME StoreParts, NEW i \in Ids, NEW h \in Nat, Stores(i, Whole(h)),
         UNCHANGED <<backend, saves>>, NEW w \in Workers,
         op' = op \/ op' = [op EXCEPT ![w] = Idle]
  PROVE  StoreParts'
<1>1. StoreTypeOK /\ WholeInv BY DEF StoreParts
<1>2. /\ store' \in [Ids -> [head : Nat, msgs : Nat, index : Nat]]
      /\ current' \in [Workers -> [Ids -> SUBSET Nat]]
      /\ WholeInv'
      /\ \A v \in Workers : (Seen(v) => Seen(v)') /\ \A j \in Ids : current[v][j] \subseteq current'[v][j]
  BY <1>1, StoresWhole
<1>3. Idle \in Operations BY DEF Operations
<1>4. StoreTypeOK' BY <1>1, <1>2, <1>3 DEF StoreTypeOK
<1>5. ASSUME NEW v \in Workers PROVE (op'[v].pc # "idle" => Seen(v)') /\ Reads(v)'
  <2>1. op'[v] = op[v] \/ op'[v] = Idle BY <1>1 DEF StoreTypeOK
  <2>2. CASE op'[v] = op[v] BY <1>1, <1>2, <2>2, OthersRead DEF StoreParts
  <2>3. CASE op'[v] = Idle BY <2>3 DEF Reads, Idle
  <2> QED BY <2>1, <2>2, <2>3
<1> QED BY <1>2, <1>4, <1>5 DEF StoreParts

LEMMA BeginSaveStep ==
  ASSUME StoreParts, NEW w \in Workers, NEW i \in Ids, BeginSave(w, i)
  PROVE  StoreParts'
<1> DEFINE o == [pc |-> "save", id |-> i, new |-> saves + 1]
<1>1. saves \in Nat /\ saves' = saves + 1 BY DEF StoreParts, StoreTypeOK, BeginSave
<1>2. o \in Operations BY <1>1 DEF Operations
<1>3. Begins(w, o) /\ backend' = backend /\ store' = store BY DEF BeginSave
<1>4. op'[w] = o BY <1>3 DEF Begins, StoreParts, StoreTypeOK
<1>5. Reads(w)' BY <1>4 DEF Reads
<1> HIDE DEF o
<1> QED BY <1>1, <1>2, <1>3, <1>5, BeginsStep

LEMMA EndSaveStep ==
  ASSUME StoreParts, NEW w \in Workers, EndSave(w)
  PROVE  StoreParts'
<1>1. op[w].id \in Ids /\ op[w].new \in Nat BY OpTyped DEF StoreParts, EndSave
<1> QED BY <1>1, ChangesStep DEF EndSave

LEMMA DeleteStep ==
  ASSUME StoreParts, NEW w \in Workers, NEW i \in Ids, Delete(w, i)
  PROVE  StoreParts'
<1>1. Absent = Whole(0) BY DEF Absent, Whole
<1>2. Stores(i, Whole(0)) /\ UNCHANGED <<backend, saves, op>> BY <1>1 DEF Delete
<1> QED BY <1>2, ChangesStep

LEMMA AbandonStep ==
  ASSUME StoreParts, NEW w \in Workers, Abandon(w)
  PROVE  StoreParts'
<1>1. Idle \in Operations /\ Idle.pc = "idle" BY DEF Operations, Idle
<1>2. op' = [op EXCEPT ![w] = Idle] /\ UNCHANGED <<backend, store, saves, current>> BY DEF Abandon
<1>3. op'[w] = Idle BY <1>2 DEF StoreParts, StoreTypeOK
<1>4. Reads(w)' BY <1>1, <1>3 DEF Reads
<1> QED BY <1>1, <1>2, <1>4, GoesOnStep

\* Load: the file is whole; of SQLite the header is read, and the messages with it
\* only if there is no session.
LEMMA BeginLoadStep ==
  ASSUME StoreParts, NEW w \in Workers, NEW i \in Ids, BeginLoad(w, i)
  PROVE  StoreParts'
<1> DEFINE o == IF backend = "file" \/ store[i].head = 0
                  THEN Got(i, store[i].head, store[i].msgs)
                  ELSE [pc |-> "rows", id |-> i, head |-> store[i].head]
<1>1. StoreTypeOK /\ WholeInv BY DEF StoreParts
<1>2. store[i].head \in Nat /\ store[i].msgs \in Nat BY <1>1 DEF StoreTypeOK
<1>3. o \in Operations BY <1>2 DEF Operations, Got
<1>4. Begins(w, o) /\ UNCHANGED <<backend, store, saves>> BY DEF BeginLoad
<1>5. op'[w] = o BY <1>1, <1>4 DEF Begins, StoreTypeOK
<1>6. store[i].msgs = store[i].head BY <1>1, WholeState
<1>7. Seen(w)' => Reads(w)'
  <2> SUFFICES ASSUME Seen(w)' PROVE Reads(w)' OBVIOUS
  <2>1. store[i].head \in current'[w][i] BY <1>4 DEF Seen
  <2>2. CASE backend = "file" \/ store[i].head = 0
    BY <1>4, <1>5, <1>6, <2>1, <2>2 DEF Reads, Got
  <2>3. CASE ~(backend = "file" \/ store[i].head = 0)
    <3>1. op'[w] = [pc |-> "rows", id |-> i, head |-> store[i].head] BY <1>5, <2>3
    <3>2. backend = "sqlite" BY <1>1, <2>3 DEF StoreTypeOK
    <3> QED BY <1>4, <2>1, <3>1, <3>2 DEF Reads
  <2> QED BY <2>2, <2>3
<1>8. saves' \in Nat BY <1>1, <1>4 DEF StoreTypeOK
<1> HIDE DEF o
<1> QED BY <1>3, <1>4, <1>7, <1>8, BeginsStep

\* The second statement sees a whole state too, not always that of the first.
LEMMA LoadRowsStep ==
  ASSUME StoreParts, NEW w \in Workers, LoadRows(w)
  PROVE  StoreParts'
<1> DEFINE o == Got(op[w].id, op[w].head, store[op[w].id].msgs)
<1>1. StoreTypeOK /\ WholeInv BY DEF StoreParts
<1>2. op[w].pc = "rows" /\ op[w].id \in Ids /\ op[w].head \in Nat BY <1>1, OpTyped DEF LoadRows
<1>3. store[op[w].id].msgs \in Nat /\ store[op[w].id].msgs = store[op[w].id].head
  BY <1>1, <1>2, WholeState DEF StoreTypeOK
<1>4. o \in Operations BY <1>2, <1>3 DEF Operations, Got
<1>5. op' = [op EXCEPT ![w] = o] /\ UNCHANGED <<backend, store, saves, current>> BY <1>1 DEF LoadRows, StoreTypeOK
<1>6. op'[w] = o BY <1>1, <1>5 DEF StoreTypeOK
<1>7. Reads(w) /\ Seen(w) BY <1>2 DEF StoreParts
<1>8. backend = "sqlite" /\ op[w].head \in current[w][op[w].id] BY <1>2, <1>7 DEF Reads
<1>9. store[op[w].id].msgs \in current[w][op[w].id] BY <1>2, <1>3, <1>7 DEF Seen
<1>10. Reads(w)' BY <1>5, <1>6, <1>8, <1>9 DEF Reads, Got
<1> HIDE DEF o
<1> QED BY <1>2, <1>4, <1>5, <1>10, GoesOnStep

\* What is listed of a session is a state it has.
LEMMA EntriesAreStates ==
  ASSUME StoreTypeOK, NEW i \in Ids
  PROVE  /\ Entry(i) \subseteq [id : Ids, of : Nat]
         /\ \A f \in Entry(i) : f.id = i /\ f.of = store[i].head /\ f.of # 0
<1>1. store[i].head \in Nat BY DEF StoreTypeOK
<1>2. i \in Present => store[i].head # 0 BY DEF Present
<1> QED BY <1>1, <1>2 DEF Entry

LEMMA BeginListStep ==
  ASSUME StoreParts, NEW w \in Workers, BeginList(w)
  PROVE  StoreParts'
<1> DEFINE all == UNION {Entry(i) : i \in Ids}
           o   == IF backend = "file" THEN [pc |-> "list", todo |-> Present, found |-> {}]
                  ELSE [pc |-> "list", todo |-> {}, found |-> all]
<1>1. StoreTypeOK BY DEF StoreParts
<1>2. \A f \in all : f \in [id : Ids, of : Nat] /\ f.of = store[f.id].head /\ f.of # 0
  <2> SUFFICES ASSUME NEW i \in Ids, NEW f \in Entry(i)
               PROVE  f \in [id : Ids, of : Nat] /\ f.of = store[f.id].head /\ f.of # 0
    OBVIOUS
  <2> QED BY <1>1, EntriesAreStates
<1>3. all \subseteq [id : Ids, of : Nat] BY <1>2
<1>4. Begins(w, o) /\ UNCHANGED <<backend, store, saves>> BY DEF BeginList
<1> HIDE DEF all
<1>5. Present \subseteq Ids BY DEF Present
<1>6. o \in Operations BY <1>3, <1>5 DEF Operations
<1>7. op'[w] = o BY <1>1, <1>4 DEF Begins, StoreTypeOK
<1>8. Seen(w)' => Reads(w)'
  <2> SUFFICES ASSUME Seen(w)' PROVE Reads(w)' OBVIOUS
  <2>1. op'[w].pc = "list" /\ op'[w].found \subseteq all BY <1>7
  <2>2. \A f \in op'[w].found : f.of \in current'[w][f.id] \ {0} BY <1>2, <1>4, <2>1 DEF Seen
  <2> QED BY <2>1, <2>2 DEF Reads
<1>9. saves' \in Nat BY <1>1, <1>4 DEF StoreTypeOK
<1> HIDE DEF o
<1> QED BY <1>4, <1>6, <1>8, <1>9, BeginsStep

\* A listing of files: each is read whole, or is gone by then.
LEMMA ListFileStep ==
  ASSUME StoreParts, NEW w \in Workers, ListFile(w)
  PROVE  StoreParts'
<1>1. StoreTypeOK BY DEF StoreParts
<1>2. PICK i \in op[w].todo :
        op' = [op EXCEPT ![w] = [pc |-> "list", todo |-> op[w].todo \ {i}, found |-> op[w].found \cup Entry(i)]]
  BY DEF ListFile
<1>3. op[w].pc = "list" /\ UNCHANGED <<backend, store, saves, current>> BY DEF ListFile
<1>4. /\ i \in Ids /\ op[w].todo \subseteq Ids
      /\ op[w].found \subseteq [id : Ids, of : Nat]
  BY <1>1, <1>2, <1>3, OpTyped
<1> DEFINE new == op[w].found \cup Entry(i)
           o   == [pc |-> "list", todo |-> op[w].todo \ {i}, found |-> new]
<1>5. new \subseteq [id : Ids, of : Nat] BY <1>1, <1>4, EntriesAreStates
<1>6. Reads(w) /\ Seen(w) BY <1>3 DEF StoreParts
<1>7. \A f \in new : f.of \in current[w][f.id] \ {0}
  <2> SUFFICES ASSUME NEW f \in new PROVE f.of \in current[w][f.id] \ {0} OBVIOUS
  <2>1. CASE f \in op[w].found BY <1>3, <1>6, <2>1 DEF Reads
  <2>2. CASE f \in Entry(i)
    <3>1. f.id = i /\ f.of = store[i].head /\ f.of # 0 BY <1>1, <1>4, <2>2, EntriesAreStates
    <3> QED BY <1>4, <1>6, <3>1 DEF Seen
  <2> QED BY <2>1, <2>2
<1> HIDE DEF new
<1>8. o \in Operations BY <1>4, <1>5 DEF Operations
<1>9. op' = [op EXCEPT ![w] = o] BY <1>2 DEF new
<1>10. op'[w] = o BY <1>1, <1>9 DEF StoreTypeOK
<1>11. Reads(w)' BY <1>3, <1>7, <1>10 DEF Reads
<1> HIDE DEF o
<1> QED BY <1>3, <1>8, <1>9, <1>11, GoesOnStep

LEMMA StoreStutter ==
  ASSUME StoreParts, UNCHANGED storeVars
  PROVE  StoreParts'
BY DEF StoreParts, storeVars, StoreTypeOK, WholeInv, Whole, Seen, Reads

LEMMA StoreStep == StoreParts /\ [StoreNext]_storeVars => StoreParts'
<1> SUFFICES ASSUME StoreParts, [StoreNext]_storeVars PROVE StoreParts' OBVIOUS
<1>1. ASSUME NEW w \in Workers, NEW i \in Ids, BeginSave(w, i) \/ Delete(w, i) \/ BeginLoad(w, i)
      PROVE  StoreParts'
  BY <1>1, BeginSaveStep, DeleteStep, BeginLoadStep
<1>2. ASSUME NEW w \in Workers, EndSave(w) \/ Abandon(w) \/ LoadRows(w) PROVE StoreParts'
  BY <1>2, EndSaveStep, AbandonStep, LoadRowsStep
<1>3. ASSUME NEW w \in Workers, BeginList(w) \/ ListFile(w) PROVE StoreParts'
  BY <1>3, BeginListStep, ListFileStep
<1>4. CASE UNCHANGED storeVars BY <1>4, StoreStutter
<1> QED BY <1>1, <1>2, <1>3, <1>4 DEF StoreNext

\* A session is the whole of one save between any two steps of the stores, and every
\* operation under way has seen the states it had (Store.Save, Store.Delete).
THEOREM StoreInductive == StoreSpec => []StoreInv
<1>1. StoreSpec => []StoreParts BY StoreStart, StoreStep, PTL DEF StoreSpec
<1> QED BY <1>1, PartsOfStore, PTL

\* Loads and listings return states that were saved, each part whole, and a search
\* finds what is stored, whatever the workers do to each other and wherever one ends
\* (Store.Load, Store.ListSessions, Store.Search).
THEOREM StoresStayTrue == StoreSpec => []StoresAreTrue
<1>1. StoreInv => StoresAreTrue BY DEF StoreInv
<1> QED BY <1>1, StoreInductive, PTL

-----------------------------------------------------------------------------
(* DaemonClient: what is answered. *)

Answers == {"ok", "internal", "invalid", "not found", "unauthorized", "unreachable"}
Broken  == {"unreachable", "unauthorized", "internal", "interrupted"}

LEMMA RepliesTyped ==
  ASSUME NEW a, NEW t, NEW q
  PROVE  /\ ReplyTo(a, t, q) \subseteq Answers
         /\ q \in Inspected => ReplyTo(a, t, q) \subseteq {"ok"} \cup Broken
<1>1. \A d : Handler(d, q) \subseteq Answers BY DEF Handler, Answers
<1>2. q \in Inspected => \A d : Handler(d, q) \subseteq {"ok", "internal"}
  <2>1. q \in Inspected => q \notin Demands BY DEF Inspected, Lists, Demands
  <2> QED BY <2>1 DEF Handler
<1> DEFINE part(d) == IF Authorized(d, t) THEN Handler(d, q) ELSE {"unauthorized"}
<1>3. \A x \in ReplyTo(a, t, q) : x = "unreachable" \/ \E d \in Server(a) : x \in part(d) BY DEF ReplyTo
<1>4. \A d : part(d) \subseteq Answers BY <1>1 DEF Answers
<1>5. q \in Inspected => \A d : part(d) \subseteq {"ok"} \cup Broken BY <1>2 DEF Broken
<1> HIDE DEF part
<1>6. ReplyTo(a, t, q) \subseteq Answers BY <1>3, <1>4 DEF Answers
<1>7. q \in Inspected => ReplyTo(a, t, q) \subseteq {"ok"} \cup Broken BY <1>3, <1>5 DEF Broken
<1> QED BY <1>6, <1>7

\* Of the daemons that serve at an address, each of which may refuse the token, there
\* is only one: the diagnosis is that of what a run would meet.
LEMMA Diagnosed == DaemonTypeOK /\ OneListener => DiagnosisAgrees
<1> SUFFICES ASSUME DaemonTypeOK, OneListener, NEW f \in Flags
             PROVE  Diagnosis(f) = "healthy" <=> Resolved(f) /\ \E d \in Server(Base(f)) : Authorized(d, Token(f))
  BY DEF DiagnosisAgrees
<1> DEFINE base   == Base(f)
           token  == Token(f)
           answer == ReplyTo(base, token, "diagnostics")
<1>1. DiagnosedToken(f) = token BY DEF DiagnosedToken, Token
<1>2. (IF f.base # Unset THEN f.base ELSE IF meta = Unset THEN Unset ELSE at[meta].addr) = base BY DEF Base
<1>3. Diagnosis(f) = "healthy" <=> base # Unset /\ token # Unset /\ answer = {"ok"}
  <2>1. Diagnosis(f) =
          CASE base = Unset -> "no_metadata"
            [] base # Unset /\ token = Unset -> "missing_token"
            [] OTHER -> IF "unauthorized" \in answer THEN "auth_failed"
                        ELSE IF answer = {"ok"} THEN "healthy"
                        ELSE IF meta # Unset /\ f.base = Unset THEN "stale_metadata" ELSE "unreachable"
    BY <1>1, <1>2 DEF Diagnosis
  <2> HIDE DEF base, token, answer
  <2>2. answer = {"ok"} => "unauthorized" \notin answer OBVIOUS
  <2>3. CASE base = Unset BY <2>1, <2>3
  <2>4. CASE base # Unset /\ token = Unset BY <2>1, <2>4
  <2>5. CASE base # Unset /\ token # Unset BY <2>1, <2>2, <2>5
  <2> QED BY <2>3, <2>4, <2>5
<1>4. \A d, e \in Server(base) : d = e
  <2> SUFFICES ASSUME NEW d \in Server(base), NEW e \in Server(base) PROVE d = e OBVIOUS
  <2>1. d \in Daemons /\ e \in Daemons /\ at[e].addr = base BY DEF Server
  <2>2. d \in Listening(at[e].addr) /\ e \in Listening(at[e].addr) BY <2>1 DEF Server, Listening
  <2> QED BY <2>1, <2>2 DEF OneListener
<1>5. \A d : Handler(d, "diagnostics") = {"ok"} BY DEF Handler, Lists, Demands
<1>6. answer = {"ok"} <=> \E d \in Server(base) : Authorized(d, token)
  <2>1. CASE Server(base) = {} BY <2>1 DEF ReplyTo
  <2>2. CASE Server(base) # {}
    <3>1. PICK d \in Server(base) : TRUE BY <2>2
    <3>2. Server(base) = {d} BY <1>4, <3>1
    <3>3. answer = UNION {IF Authorized(e, token) THEN Handler(e, "diagnostics") ELSE {"unauthorized"} : e \in {d}}
      BY <2>2, <3>2 DEF ReplyTo
    <3>4. answer = IF Authorized(d, token) THEN Handler(d, "diagnostics") ELSE {"unauthorized"}
      <4> DEFINE one == IF Authorized(d, token) THEN Handler(d, "diagnostics") ELSE {"unauthorized"}
      <4>1. {IF Authorized(e, token) THEN Handler(e, "diagnostics") ELSE {"unauthorized"} : e \in {d}} = {one}
        OBVIOUS
      <4>2. answer = UNION {one} BY <3>3, <4>1
      <4> HIDE DEF one, answer
      <4> QED BY <4>2 DEF one
    <3> HIDE DEF answer
    <3> QED BY <1>5, <3>2, <3>4
  <2> QED BY <2>1, <2>2
<1>7. Resolved(f) <=> base # Unset /\ token # Unset BY DEF Resolved
<1> HIDE DEF answer
<1> QED BY <1>3, <1>6, <1>7

-----------------------------------------------------------------------------
(* DaemonClient: the parts of the invariant. *)

\* Told, apart: the run, and the call.
RunOK(c, r) ==
  /\ r \in FollowedRuns
  /\ r.pc = "none" \/ r.on \in Daemons
  /\ r.conn = "closed" => r.cancelled
  /\ Logged(r, "done") => r.pc \in {"over", "lost"}
  /\ r.pc = "failed" \/ Logged(r, "error") => r.pc # "none" /\ Recorded(c, r.on)
CallOK(c, call, r) ==
  /\ call \in ClientCalls
  /\ call.pc \in {"idle", "config", "inspect"} => call.result = ""
  /\ call.todo # {} => call.pc \in {"inspect", "over"}
  /\ call.todo # {} /\ call.pc = "over" => call.result \in Broken
  /\ call.result = "done" => r.pc \in {"over", "lost"}
  /\ call.result = "failed" => r.pc # "none" /\ Recorded(c, r.on)
LEMMA ToldParts == \A c, call, r : Told(c, call, r) <=> RunOK(c, r) /\ CallOK(c, call, r)
<1> SUFFICES ASSUME NEW c, NEW call, NEW r
             PROVE  Told(c, call, r) <=> RunOK(c, r) /\ CallOK(c, call, r)
  OBVIOUS
<1>1. Told(c, call, r) => RunOK(c, r) BY DEF Told, RunOK
<1>2. Told(c, call, r) => CallOK(c, call, r) BY DEF Told, CallOK, Broken
<1>3. RunOK(c, r) /\ CallOK(c, call, r) => Told(c, call, r) BY DEF Told, RunOK, CallOK, Broken
<1> QED BY <1>1, <1>2, <1>3

ClientCore ==
  /\ DaemonTypeOK /\ OneListener
  /\ run \in [Clients -> FollowedRuns] /\ client \in [Clients -> ClientCalls]
  /\ \A c \in Clients : RunOK(c, run[c]) /\ CallOK(c, client[c], run[c])

LEMMA CoreIsInv == ClientCore => ClientInv
<1> SUFFICES ASSUME ClientCore PROVE ClientInv OBVIOUS
<1>1. \A c \in Clients : Told(c, client[c], run[c]) BY ToldParts DEF ClientCore
<1>2. DiagnosisAgrees BY Diagnosed DEF ClientCore
<1>3. InspectionsAreAnswered BY <1>1 DEF Told, InspectionsAreAnswered
<1>4. FailuresAreRecorded BY <1>1 DEF Told, Recorded, FailuresAreRecorded
<1>5. LeftRunsAreCancelled BY <1>1 DEF Told, LeftRunsAreCancelled
<1> QED BY <1>1, <1>2, <1>3, <1>4, <1>5 DEF ClientCore, ClientInv, ClientsAreToldTheTruth

LEMMA NoRunTyped == NoRun \in FollowedRuns /\ NoRun.conn = "none" /\ NoRun.log = <<>>
<1>1. <<>> \in Seq({"ask", "done", "error"}) BY EmptySeq
<1>2. NoRun \in FollowedRuns BY <1>1 DEF NoRun, FollowedRuns
<1> QED BY <1>2 DEF NoRun

LEMMA ClientStart == ClientInit => ClientCore
<1> SUFFICES ASSUME ClientInit PROVE ClientCore OBVIOUS
<1>1. <<>> \in Seq(Clients \cup {0}) /\ <<>> \in Seq({"ask", "done", "error"}) BY EmptySeq
<1>2. DaemonTypeOK BY <1>1 DEF ClientInit, DaemonTypeOK, Addresses
<1>3. OneListener BY DEF ClientInit, OneListener, Listening
<1> DEFINE call == [kind |-> "", pc |-> "idle", addr |-> Unset, token |-> Unset, seen |-> 0, todo |-> {}, result |-> ""]
<1>4. NoRun \in FollowedRuns BY NoRunTyped
<1>5. call \in ClientCalls BY DEF ClientCalls, Addresses, ClientOutcomes
<1>6. run = [c \in Clients |-> NoRun] /\ client = [c \in Clients |-> call] BY DEF ClientInit
<1>7. \A c : RunOK(c, NoRun)
  <2>1. NoRun.pc = "none" /\ NoRun.conn = "none" /\ NoRun.log = <<>> BY DEF NoRun
  <2>2. \A e : ~Logged(NoRun, e) BY <2>1 DEF Logged
  <2> QED BY <1>4, <2>1, <2>2 DEF RunOK
<1>8. \A c, r : CallOK(c, call, r) BY <1>5 DEF CallOK
<1> HIDE DEF call
<1> QED BY <1>2, <1>3, <1>4, <1>5, <1>6, <1>7, <1>8 DEF ClientCore

-----------------------------------------------------------------------------
(* DaemonClient: how one client, or one daemon, goes on. *)

\* Nothing that was on record is lost.
RecordsStay == \A c \in Clients, d \in Daemons : Recorded(c, d) => Recorded(c, d)'

LEMMA StaysOK ==
  ASSUME RecordsStay, NEW c \in Clients, NEW r, NEW x, RunOK(c, r), CallOK(c, x, r)
  PROVE  RunOK(c, r)' /\ CallOK(c, x, r)'
<1>1. r.pc # "none" /\ Recorded(c, r.on) => Recorded(c, r.on)'
  BY DEF RunOK, RecordsStay
<1> QED BY <1>1 DEF RunOK, CallOK, Logged

LEMMA OneClientStep ==
  ASSUME ClientCore, DaemonTypeOK', OneListener', RecordsStay,
         NEW c \in Clients, NEW x, NEW r,
         client' = [client EXCEPT ![c] = x], run' = [run EXCEPT ![c] = r],
         RunOK(c, r)', CallOK(c, x, r)'
  PROVE  ClientCore'
<1>1. x \in ClientCalls /\ r \in FollowedRuns BY DEF RunOK, CallOK
<1>2. run' \in [Clients -> FollowedRuns] /\ client' \in [Clients -> ClientCalls] BY <1>1 DEF ClientCore
<1>3. ASSUME NEW e \in Clients PROVE (RunOK(e, run[e]) /\ CallOK(e, client[e], run[e]))'
  <2>1. CASE e = c
    <3>1. run'[e] = r /\ client'[e] = x BY <2>1 DEF ClientCore
    <3> QED BY <2>1, <3>1 DEF RunOK, CallOK, Recorded, Logged
  <2>2. CASE e # c
    <3>1. run'[e] = run[e] /\ client'[e] = client[e] BY <2>2 DEF ClientCore
    <3> DEFINE s == run[e]
               y == client[e]
    <3>2. RunOK(e, s) /\ CallOK(e, y, s) BY DEF ClientCore
    <3>3. PICK s1, y1 : s1 = s /\ y1 = y OBVIOUS
    <3>4. RunOK(e, s1)' /\ CallOK(e, y1, s1)' BY <3>2, <3>3, StaysOK
    <3>5. run'[e] = s1 /\ client'[e] = y1 BY <3>1, <3>3
    <3>6. RunOK(e, run[e])' BY <3>4, <3>5 DEF RunOK, Recorded, Logged
    <3>7. CallOK(e, client[e], run[e])' BY <3>4, <3>5 DEF CallOK, Recorded
    <3> QED BY <3>6, <3>7
  <2> QED BY <2>1, <2>2
<1> QED BY <1>2, <1>3 DEF ClientCore

\* The daemons stay as they are.
DaemonsStay == UNCHANGED <<life, at, tmp, meta, errors>>

LEMMA DaemonsStayOK ==
  ASSUME ClientCore, DaemonsStay
  PROVE  DaemonTypeOK' /\ OneListener' /\ RecordsStay
BY DEF ClientCore, DaemonsStay, DaemonTypeOK, OneListener, Listening, RecordsStay, Recorded

\* A client and its run go on.
LEMMA CallAndRunStep ==
  ASSUME ClientCore, DaemonsStay, NEW c \in Clients, NEW x, NEW r,
         client' = [client EXCEPT ![c] = x], run' = [run EXCEPT ![c] = r],
         RunOK(c, r), CallOK(c, x, r)
  PROVE  ClientCore'
<1>1. DaemonTypeOK' /\ OneListener' /\ RecordsStay BY DaemonsStayOK
<1>2. RunOK(c, r)' /\ CallOK(c, x, r)' BY <1>1, StaysOK
<1> QED BY <1>1, <1>2, OneClientStep

\* The client alone goes on, or the run.
LEMMA CallStep ==
  ASSUME ClientCore, DaemonsStay, NEW c \in Clients, NEW x,
         client' = [client EXCEPT ![c] = x], run' = run, CallOK(c, x, run[c])
  PROVE  ClientCore'
<1>1. PICK r : r = run[c] OBVIOUS
<1>2. run' = [run EXCEPT ![c] = r] BY <1>1 DEF ClientCore
<1>3. RunOK(c, r) /\ CallOK(c, x, r) BY <1>1 DEF ClientCore
<1> QED BY <1>2, <1>3, CallAndRunStep

LEMMA RunStep ==
  ASSUME ClientCore, DaemonsStay, NEW c \in Clients, NEW r,
         client' = client, run' = [run EXCEPT ![c] = r], RunOK(c, r), CallOK(c, client[c], r)
  PROVE  ClientCore'
<1>1. PICK x : x = client[c] OBVIOUS
<1>2. client' = [client EXCEPT ![c] = x] BY <1>1 DEF ClientCore
<1>3. CallOK(c, x, r) BY <1>1
<1> QED BY <1>2, <1>3, CallAndRunStep

-----------------------------------------------------------------------------
(* DaemonClient: queries and inspections. *)

LEMMA CoreTyped ==
  ASSUME ClientCore, NEW c \in Clients
  PROVE  /\ client[c] \in ClientCalls /\ run[c] \in FollowedRuns
         /\ RunOK(c, run[c]) /\ CallOK(c, client[c], run[c])
         /\ client[c].pc \notin {"inspect", "over"} => client[c].todo = {}
<1>1. RunOK(c, run[c]) /\ CallOK(c, client[c], run[c]) BY DEF ClientCore
<1>2. client[c].todo # {} => client[c].pc \in {"inspect", "over"} BY <1>1 DEF CallOK
<1> QED BY <1>1, <1>2 DEF ClientCore

LEMMA EndedCall ==
  ASSUME NEW c, NEW r, NEW x \in ClientCalls, NEW result \in ClientOutcomes \ {"done", "failed"},
         x.todo # {} => result \in Broken
  PROVE  CallOK(c, [x EXCEPT !.pc = "over", !.result = result], r)
<1> DEFINE y == [x EXCEPT !.pc = "over", !.result = result]
<1>1. y \in ClientCalls BY DEF ClientCalls
<1>2. y.pc = "over" /\ y.result = result /\ y.todo = x.todo BY DEF ClientCalls
<1> HIDE DEF y
<1>3. CallOK(c, y, r) BY <1>1, <1>2 DEF CallOK
<1> QED BY <1>3 DEF y

\* The call ends with what it was answered.
LEMMA EndStep ==
  ASSUME ClientCore, DaemonsStay, run' = run, NEW c \in Clients,
         NEW result \in ClientOutcomes \ {"done", "failed"}, End(c, result),
         client[c].todo # {} => result \in Broken
  PROVE  ClientCore'
<1>1. PICK x : x = client[c] OBVIOUS
<1>2. x \in ClientCalls BY <1>1, CoreTyped
<1>3. client' = [client EXCEPT ![c] = [x EXCEPT !.pc = "over", !.result = result]] BY <1>1 DEF End
<1>4. CallOK(c, [x EXCEPT !.pc = "over", !.result = result], run[c]) BY <1>1, <1>2, EndedCall
<1> QED BY <1>3, <1>4, CallStep

LEMMA AnswersAreOutcomes == Answers \subseteq ClientOutcomes \ {"done", "failed"} /\ Broken \subseteq ClientOutcomes \ {"done", "failed"}
BY DEF Answers, ClientOutcomes, Broken

LEMMA BasesTyped ==
  ASSUME DaemonTypeOK, NEW f \in Flags
  PROVE  Base(f) \in Addresses /\ Token(f) \in Addresses
<1>1. f.base \in {Unset, 0} /\ f.token \in {Unset} \cup {0} \cup Daemons BY DEF Flags
<1>2. meta # Unset => at[meta].addr \in Addresses /\ at[meta].token \in Addresses BY DEF DaemonTypeOK
<1>3. Unset \in Addresses /\ 0 \in Addresses BY DEF Addresses
<1>4. Base(f) \in Addresses BY <1>1, <1>2, <1>3 DEF Base
<1>5. Token(f) \in Addresses BY <1>1, <1>2, <1>3 DEF Token, Addresses
<1> QED BY <1>4, <1>5

LEMMA ConfigureStep ==
  ASSUME ClientCore, NEW c \in Clients, NEW kind \in {"cli", "telegram"}, NEW f \in Flags, Configure(c, kind, f)
  PROVE  ClientCore'
<1>1. PICK x : x = client[c] OBVIOUS
<1>2. /\ x \in ClientCalls /\ x.pc = "idle" /\ x.todo = {} /\ x.result = ""
  BY <1>1, CoreTyped DEF Configure, CallOK
<1>3. Base(f) \in Addresses /\ Token(f) \in Addresses BY BasesTyped DEF ClientCore
<1> DEFINE y == IF Resolved(f) THEN [x EXCEPT !.kind = kind, !.pc = "config", !.addr = Base(f), !.token = Token(f)]
                ELSE [x EXCEPT !.kind = kind, !.pc = "over", !.result = "unconfigured"]
<1>4. client' = [client EXCEPT ![c] = y] /\ run' = run /\ DaemonsStay
  BY <1>1 DEF Configure, DaemonsStay
<1>5. CallOK(c, y, run[c])
  <2>1. CASE Resolved(f)
    <3> DEFINE z == [x EXCEPT !.kind = kind, !.pc = "config", !.addr = Base(f), !.token = Token(f)]
    <3>1. z \in ClientCalls BY <1>2, <1>3 DEF ClientCalls
    <3>2. z.pc = "config" /\ z.todo = {} /\ z.result = "" BY <1>2 DEF ClientCalls
    <3>3. y = z BY <2>1
    <3> HIDE DEF y, z
    <3> QED BY <3>1, <3>2, <3>3 DEF CallOK
  <2>2. CASE ~Resolved(f)
    <3> DEFINE z == [x EXCEPT !.kind = kind, !.pc = "over", !.result = "unconfigured"]
    <3>1. z \in ClientCalls BY <1>2 DEF ClientCalls, ClientOutcomes
    <3>2. z.pc = "over" /\ z.todo = {} /\ z.result = "unconfigured" BY <1>2 DEF ClientCalls
    <3>3. y = z BY <2>2
    <3> HIDE DEF y, z
    <3> QED BY <3>1, <3>2, <3>3 DEF CallOK
  <2> QED BY <2>1, <2>2
<1> HIDE DEF y
<1> QED BY <1>4, <1>5, CallStep

LEMMA RequestStep ==
  ASSUME ClientCore, NEW c \in Clients, NEW kind, NEW q, Request(c, kind, q)
  PROVE  ClientCore'
<1>1. PICK reply \in ReplyTo(client[c].addr, client[c].token, q) : End(c, reply) BY DEF Request
<1>2. reply \in ClientOutcomes \ {"done", "failed"} BY RepliesTyped, AnswersAreOutcomes
<1>3. client[c].todo = {} BY CoreTyped DEF Request
<1> QED BY <1>1, <1>2, <1>3, EndStep DEF Request, DaemonsStay

LEMMA InspectStep ==
  ASSUME ClientCore, NEW c \in Clients, Inspect(c)
  PROVE  ClientCore'
<1>1. PICK reply \in ReplyTo(client[c].addr, client[c].token, "status") :
        IF reply = "ok"
          THEN \E d \in Server(client[c].addr) :
                 client' = [client EXCEPT ![c] = [@ EXCEPT !.pc = "inspect", !.todo = Capable(d) \cap Inspected]]
          ELSE End(c, reply)
  BY DEF Inspect
<1>2. client[c].pc = "config" /\ run' = run /\ DaemonsStay BY DEF Inspect, DaemonsStay
<1>3. CASE reply = "ok"
  <2>1. PICK x : x = client[c] OBVIOUS
  <2>2. x \in ClientCalls /\ x.result = "" BY <1>2, <2>1, CoreTyped DEF CallOK
  <2>3. PICK d \in Server(client[c].addr) :
          client' = [client EXCEPT ![c] = [client[c] EXCEPT !.pc = "inspect", !.todo = Capable(d) \cap Inspected]]
    BY <1>1, <1>3
  <2> DEFINE y == [x EXCEPT !.pc = "inspect", !.todo = Capable(d) \cap Inspected]
  <2>4. client' = [client EXCEPT ![c] = y] BY <2>1, <2>3
  <2>5. y \in ClientCalls BY <2>2 DEF ClientCalls
  <2>6. y.pc = "inspect" /\ y.result = "" BY <2>2 DEF ClientCalls
  <2> HIDE DEF y
  <2>7. CallOK(c, y, run[c]) BY <2>5, <2>6 DEF CallOK
  <2> QED BY <1>2, <2>4, <2>7, CallStep
<1>4. CASE reply # "ok"
  <2>1. reply \in ClientOutcomes \ {"done", "failed"} BY RepliesTyped, AnswersAreOutcomes
  <2>2. client[c].todo = {} BY <1>2, CoreTyped
  <2> QED BY <1>1, <1>2, <1>4, <2>1, <2>2, EndStep
<1> QED BY <1>3, <1>4

LEMMA ListedStep ==
  ASSUME ClientCore, NEW c \in Clients, NEW q \in Inspected, Listed(c, q)
  PROVE  ClientCore'
<1>1. PICK reply \in ReplyTo(client[c].addr, client[c].token, q) :
        IF reply = "ok" THEN client' = [client EXCEPT ![c].todo = @ \ {q}] ELSE End(c, reply)
  BY DEF Listed
<1>2. client[c].pc = "inspect" /\ run' = run /\ DaemonsStay BY DEF Listed, DaemonsStay
<1>3. CASE reply = "ok"
  <2>1. PICK x : x = client[c] OBVIOUS
  <2>2. x \in ClientCalls /\ x.result = "" /\ x.pc = "inspect" BY <1>2, <2>1, CoreTyped DEF CallOK
  <2> DEFINE y == [x EXCEPT !.todo = x.todo \ {q}]
  <2>3. client' = [client EXCEPT ![c] = y] BY <1>1, <1>3, <2>1
  <2>4. y \in ClientCalls BY <2>2 DEF ClientCalls
  <2>5. y.pc = "inspect" /\ y.result = "" BY <2>2 DEF ClientCalls
  <2> HIDE DEF y
  <2>6. CallOK(c, y, run[c]) BY <2>4, <2>5 DEF CallOK
  <2> QED BY <1>2, <2>3, <2>6, CallStep
<1>4. CASE reply # "ok"
  <2>1. reply \in Broken BY <1>4, RepliesTyped
  <2>2. reply \in ClientOutcomes \ {"done", "failed"} BY <2>1, AnswersAreOutcomes
  <2> QED BY <1>1, <1>2, <1>4, <2>1, <2>2, EndStep
<1> QED BY <1>3, <1>4

LEMMA InspectionStep ==
  ASSUME ClientCore, NEW c \in Clients, Inspection(c)
  PROVE  ClientCore'
<1>1. "inspected" \in ClientOutcomes \ {"done", "failed"} BY DEF ClientOutcomes
<1>2. client[c].todo = {} /\ End(c, "inspected") /\ run' = run /\ DaemonsStay BY DEF Inspection, DaemonsStay
<1> QED BY <1>1, <1>2, EndStep

-----------------------------------------------------------------------------
(* DaemonClient: runs. *)

Happenings == {"ask", "done", "error"}

\* What a call may be told depends on how far its run is and on what is in its log.
LEMMA SameRun ==
  ASSUME NEW c, NEW r, RunOK(c, r), NEW s \in FollowedRuns,
         s.pc = r.pc, s.on = r.on, s.log = r.log, s.conn = "closed" => s.cancelled
  PROVE  RunOK(c, s) /\ \A x : CallOK(c, x, r) => CallOK(c, x, s)
<1>1. \A e : Logged(s, e) <=> Logged(r, e) BY DEF Logged
<1>2. RunOK(c, s) BY <1>1 DEF RunOK
<1>3. ASSUME NEW x, CallOK(c, x, r) PROVE CallOK(c, x, s) BY <1>3 DEF CallOK
<1> QED BY <1>2, <1>3

\* An event is added to the log.
LEMMA LogsMore ==
  ASSUME NEW r \in FollowedRuns, NEW s \in FollowedRuns, NEW e \in Happenings, s.log = Append(r.log, e), NEW f
  PROVE  Logged(s, f) <=> Logged(r, f) \/ f = e
<1>1. r.log \in Seq(Happenings) BY DEF FollowedRuns, Happenings
<1>2. /\ s.log \in Seq(Happenings) /\ Len(s.log) = Len(r.log) + 1
      /\ \A i \in 1 .. Len(r.log) : s.log[i] = r.log[i]
      /\ s.log[Len(r.log) + 1] = e
  BY <1>1, AppendProperties
<1>3. /\ DOMAIN r.log = 1 .. Len(r.log) /\ DOMAIN s.log = 1 .. Len(s.log)
      /\ Len(r.log) \in Nat
  BY <1>1, <1>2, LenProperties
<1>4. Logged(r, f) => Logged(s, f) BY <1>2, <1>3 DEF Logged
<1>5. f = e => Logged(s, f) BY <1>2, <1>3 DEF Logged
<1>6. ASSUME NEW i \in DOMAIN s.log, s.log[i] = f PROVE Logged(r, f) \/ f = e
  <2>1. i \in 1 .. Len(r.log) \/ i = Len(r.log) + 1 BY <1>2, <1>3
  <2>2. CASE i \in 1 .. Len(r.log) BY <1>2, <1>3, <1>6, <2>2 DEF Logged
  <2>3. CASE i = Len(r.log) + 1 BY <1>2, <1>6, <2>3
  <2> QED BY <2>1, <2>2, <2>3
<1>7. Logged(s, f) => Logged(r, f) \/ f = e BY <1>6 DEF Logged
<1> QED BY <1>4, <1>5, <1>7

LEMMA AsksPermissionStep ==
  ASSUME ClientCore, NEW c \in Clients, AsksPermission(c)
  PROVE  ClientCore'
<1>1. PICK r : r = run[c] OBVIOUS
<1>2. r \in FollowedRuns /\ RunOK(c, r) /\ CallOK(c, client[c], r) /\ r.pc = "prompt"
  BY <1>1, CoreTyped DEF AsksPermission
<1> DEFINE s == [r EXCEPT !.ask = TRUE, !.asks = r.asks + 1, !.log = Append(r.log, "ask")]
<1>3. run' = [run EXCEPT ![c] = s] /\ client' = client /\ DaemonsStay BY <1>1 DEF AsksPermission, DaemonsStay
<1>4. r.log \in Seq(Happenings) BY <1>2 DEF FollowedRuns, Happenings
<1>5. Append(r.log, "ask") \in Seq(Happenings) BY <1>4, AppendProperties DEF Happenings
<1>6. s \in FollowedRuns
  <2>1. r.asks + 1 \in Nat BY <1>2 DEF FollowedRuns
  <2> QED BY <1>2, <1>5, <2>1 DEF FollowedRuns, Happenings
<1>7. s.pc = "prompt" /\ s.on = r.on /\ s.conn = r.conn /\ s.cancelled = r.cancelled /\ s.log = Append(r.log, "ask")
  BY <1>2 DEF FollowedRuns
<1> HIDE DEF s
<1>8. \A f : Logged(s, f) <=> Logged(r, f) \/ f = "ask" BY <1>2, <1>6, <1>7, LogsMore DEF Happenings
<1>9. RunOK(c, s) BY <1>2, <1>6, <1>7, <1>8 DEF RunOK
<1>10. CallOK(c, client[c], s) BY <1>2, <1>7 DEF CallOK
<1> QED BY <1>3, <1>9, <1>10, RunStep

LEMMA ExpiresStep ==
  ASSUME ClientCore, NEW c \in Clients, Expires(c)
  PROVE  ClientCore'
<1>1. PICK r : r = run[c] OBVIOUS
<1>2. r \in FollowedRuns /\ RunOK(c, r) /\ CallOK(c, client[c], r) BY <1>1, CoreTyped
<1> DEFINE s == [r EXCEPT !.ask = FALSE]
<1>3. run' = [run EXCEPT ![c] = s] /\ client' = client /\ DaemonsStay BY <1>1 DEF Expires, DaemonsStay
<1>4. s \in FollowedRuns BY <1>2 DEF FollowedRuns
<1>5. s.pc = r.pc /\ s.on = r.on /\ s.conn = r.conn /\ s.cancelled = r.cancelled /\ s.log = r.log
  BY <1>2 DEF FollowedRuns
<1> HIDE DEF s
<1>6. RunOK(c, s) /\ CallOK(c, client[c], s)
  <2>1. s.conn = "closed" => s.cancelled BY <1>2, <1>5 DEF RunOK
  <2> QED BY <1>2, <1>4, <1>5, <2>1, SameRun
<1> QED BY <1>3, <1>6, RunStep

LEMMA NoticesStep ==
  ASSUME ClientCore, NEW c \in Clients, Notices(c)
  PROVE  ClientCore'
<1>1. PICK r : r = run[c] OBVIOUS
<1>2. r \in FollowedRuns /\ RunOK(c, r) /\ CallOK(c, client[c], r) BY <1>1, CoreTyped
<1> DEFINE s == [r EXCEPT !.conn = "closed", !.cancelled = TRUE]
<1>3. run' = [run EXCEPT ![c] = s] /\ client' = client /\ DaemonsStay BY <1>1 DEF Notices, DaemonsStay
<1>4. s \in FollowedRuns BY <1>2 DEF FollowedRuns
<1>5. s.pc = r.pc /\ s.on = r.on /\ s.cancelled /\ s.log = r.log BY <1>2 DEF FollowedRuns
<1> HIDE DEF s
<1>6. RunOK(c, s) /\ CallOK(c, client[c], s) BY <1>2, <1>4, <1>5, SameRun
<1> QED BY <1>3, <1>6, RunStep

\* The last event of a run that ends well, or of one whose failure is recorded.
LEMMA LastEvent ==
  ASSUME ClientCore, NEW c \in Clients, NEW e \in {"done", "error"},
         run[c].pc = IF e = "done" THEN "prompt" ELSE "failed",
         run' = [run EXCEPT ![c] = [run[c] EXCEPT !.pc = "over", !.log = Append(run[c].log, e)]],
         client' = client, DaemonsStay
  PROVE  ClientCore'
<1>1. PICK r : r = run[c] OBVIOUS
<1>2. r \in FollowedRuns /\ RunOK(c, r) /\ CallOK(c, client[c], r) BY <1>1, CoreTyped
<1> DEFINE s == [r EXCEPT !.pc = "over", !.log = Append(r.log, e)]
<1>3. run' = [run EXCEPT ![c] = s] BY <1>1
<1>4. r.log \in Seq(Happenings) BY <1>2 DEF FollowedRuns, Happenings
<1>5. Append(r.log, e) \in Seq(Happenings) BY <1>4, AppendProperties DEF Happenings
<1>6. s \in FollowedRuns BY <1>2, <1>5 DEF FollowedRuns, Happenings
<1>7. s.pc = "over" /\ s.on = r.on /\ s.conn = r.conn /\ s.cancelled = r.cancelled /\ s.log = Append(r.log, e)
  BY <1>2 DEF FollowedRuns
<1> HIDE DEF s
<1>8. \A f : Logged(s, f) <=> Logged(r, f) \/ f = e BY <1>2, <1>6, <1>7, LogsMore DEF Happenings
<1>9. r.pc # "none" /\ r.on \in Daemons BY <1>1, <1>2 DEF RunOK
<1>10. e = "error" => Recorded(c, r.on) BY <1>1, <1>2 DEF RunOK
<1>11. RunOK(c, s) BY <1>2, <1>6, <1>7, <1>8, <1>9, <1>10 DEF RunOK
<1>12. CallOK(c, client[c], s) BY <1>2, <1>7 DEF CallOK
<1> QED BY <1>3, <1>11, <1>12, RunStep

LEMMA SucceedsStep == ASSUME ClientCore, NEW c \in Clients, Succeeds(c) PROVE ClientCore'
<1>1. run' = [run EXCEPT ![c] = [run[c] EXCEPT !.pc = "over", !.log = Append(run[c].log, "done")]] BY DEF Succeeds
<1>2. run[c].pc = "prompt" /\ client' = client /\ DaemonsStay BY DEF Succeeds, DaemonsStay
<1> QED BY <1>1, <1>2, LastEvent

LEMMA FailsStep == ASSUME ClientCore, NEW c \in Clients, Fails(c) PROVE ClientCore'
<1>1. run' = [run EXCEPT ![c] = [run[c] EXCEPT !.pc = "over", !.log = Append(run[c].log, "error")]] BY DEF Fails
<1>2. run[c].pc = "failed" /\ client' = client /\ DaemonsStay BY DEF Fails, DaemonsStay
<1> QED BY <1>1, <1>2, LastEvent

\* recordError: an error is put first, and the oldest beyond the limit dropped.
LEMMA NewestKeeps ==
  ASSUME NEW S, NEW s \in Seq(S), NEW x \in S
  PROVE  LET t == Newest(<<x>> \o s)
         IN /\ t \in Seq(S)
            /\ (\E i \in DOMAIN t : t[i] = x) \/ Len(t) = maxRecentErrors
            /\ \A y : (\E i \in DOMAIN s : s[i] = y) \/ Len(s) = maxRecentErrors
                        => (\E i \in DOMAIN t : t[i] = y) \/ Len(t) = maxRecentErrors
<1> DEFINE u == <<x>> \o s
           t == Newest(u)
<1>1. <<x>> \in Seq(S) /\ Len(<<x>>) = 1 /\ <<x>>[1] = x OBVIOUS
<1>2. maxRecentErrors \in Nat /\ Len(s) \in Nat /\ DOMAIN s = 1 .. Len(s) BY ClientAssumption, LenProperties
<1>3. /\ u \in Seq(S) /\ Len(u) = Len(s) + 1
      /\ \A i \in 1 .. Len(s) + 1 : u[i] = IF i <= 1 THEN x ELSE s[i - 1]
  BY <1>1, ConcatProperties
<1> HIDE DEF u
<1>4. u[1] = x /\ \A i \in 1 .. Len(s) : u[i + 1] = s[i] BY <1>2, <1>3
<1>5. DOMAIN u = 1 .. Len(u) BY <1>3, LenProperties
<1>6. CASE Len(u) <= maxRecentErrors
  <2>1. t = u BY <1>2, <1>3, <1>6 DEF Newest
  <2>2. \E i \in DOMAIN t : t[i] = x BY <1>2, <1>3, <1>4, <1>5, <2>1
  <2>3. ASSUME NEW y, (\E i \in DOMAIN s : s[i] = y) \/ Len(s) = maxRecentErrors PROVE \E i \in DOMAIN t : t[i] = y
    <3>1. Len(s) # maxRecentErrors
      <4>1. Len(u) = Len(s) + 1 /\ Len(s) \in Nat /\ maxRecentErrors \in Nat BY <1>2, <1>3
      <4> QED BY <1>6, <4>1
    <3>2. \E i \in 1 .. Len(s) : s[i] = y BY <1>2, <2>3, <3>1
    <3>3. PICK i \in 1 .. Len(s) : s[i] = y BY <3>2
    <3>4. i + 1 \in DOMAIN t /\ t[i + 1] = y BY <1>2, <1>3, <1>4, <1>5, <2>1, <3>3
    <3> QED BY <3>4
  <2> HIDE DEF t
  <2> QED BY <1>3, <2>1, <2>2, <2>3 DEF t, u
<1>7. CASE Len(u) > maxRecentErrors
  <2>1. t = SubSeq(u, 1, maxRecentErrors) BY <1>7 DEF Newest
  <2>2. \A i \in 1 .. maxRecentErrors : i \in 1 .. Len(u) /\ u[i] \in S BY <1>2, <1>3, <1>7, ElementOfSeq
  <2>3. t \in Seq(S) /\ Len(t) = IF 1 <= maxRecentErrors THEN maxRecentErrors - 1 + 1 ELSE 0
    BY <1>2, <2>1, <2>2, SubSeqProperties
  <2>4. Len(t) = maxRecentErrors BY <1>2, <2>3
  <2> QED BY <2>3, <2>4 DEF u
<1>8. Len(u) <= maxRecentErrors \/ Len(u) > maxRecentErrors BY <1>2, <1>3
<1> QED BY <1>6, <1>7, <1>8

\* What is recorded, of any run, keeps what was.
LEMMA RecordsGrow ==
  ASSUME ClientCore, NEW d \in Daemons, NEW x \in Clients \cup {0},
         errors' = [errors EXCEPT ![d] = Newest(<<x>> \o errors[d])], UNCHANGED <<life, at, tmp, meta>>
  PROVE  /\ DaemonTypeOK' /\ OneListener' /\ RecordsStay
         /\ x \in Clients => Recorded(x, d)'
<1> DEFINE new == Newest(<<x>> \o errors[d])
<1>1. errors \in [Daemons -> Seq(Clients \cup {0})] BY DEF ClientCore, DaemonTypeOK
<1>2. /\ new \in Seq(Clients \cup {0})
      /\ (\E i \in DOMAIN new : new[i] = x) \/ Len(new) = maxRecentErrors
      /\ \A y : (\E i \in DOMAIN errors[d] : errors[d][i] = y) \/ Len(errors[d]) = maxRecentErrors
                  => (\E i \in DOMAIN new : new[i] = y) \/ Len(new) = maxRecentErrors
  BY <1>1, NewestKeeps
<1>3. errors' = [errors EXCEPT ![d] = new] OBVIOUS
<1> HIDE DEF new
<1>4. errors'[d] = new /\ \A e \in Daemons : e # d => errors'[e] = errors[e] BY <1>1, <1>3
<1>5. DaemonTypeOK' BY <1>1, <1>2, <1>3 DEF ClientCore, DaemonTypeOK
<1>6. OneListener' BY DEF ClientCore, OneListener, Listening
<1>7. Recorded(x, d)' BY <1>2, <1>4 DEF Recorded
<1>8. ASSUME NEW c \in Clients, NEW e \in Daemons, Recorded(c, e) PROVE Recorded(c, e)'
  <2>1. CASE e = d
    <3>1. (\E i \in DOMAIN errors[d] : errors[d][i] = c) \/ Len(errors[d]) = maxRecentErrors
      BY <1>8, <2>1 DEF Recorded
    <3>2. (\E i \in DOMAIN new : new[i] = c) \/ Len(new) = maxRecentErrors BY <1>2, <3>1
    <3> QED BY <1>4, <2>1, <3>2 DEF Recorded
  <2>2. CASE e # d BY <1>4, <1>8, <2>2 DEF Recorded
  <2> QED BY <2>1, <2>2
<1> QED BY <1>5, <1>6, <1>7, <1>8 DEF RecordsStay

LEMMA RecordErrorStep ==
  ASSUME ClientCore, NEW c \in Clients, RecordError(c)
  PROVE  ClientCore'
<1>1. PICK r, x : r = run[c] /\ x = client[c] OBVIOUS
<1>2. r \in FollowedRuns /\ RunOK(c, r) /\ CallOK(c, x, r) /\ r.pc = "prompt" BY <1>1, CoreTyped DEF RecordError
<1>3. r.on \in Daemons BY <1>2 DEF RunOK
<1>4. PICK d \in Daemons : d = r.on BY <1>3
<1>5. /\ errors' = [errors EXCEPT ![d] = Newest(<<c>> \o errors[d])]
      /\ UNCHANGED <<life, at, tmp, meta, client>>
  BY <1>1, <1>4 DEF RecordError
<1>6. DaemonTypeOK' /\ OneListener' /\ RecordsStay /\ Recorded(c, d)' BY <1>5, RecordsGrow
<1> DEFINE s == [r EXCEPT !.pc = "failed"]
<1>7. run' = [run EXCEPT ![c] = s] BY <1>1 DEF RecordError
<1>8. s \in FollowedRuns BY <1>2 DEF FollowedRuns
<1>9. s.pc = "failed" /\ s.on = d /\ s.conn = r.conn /\ s.cancelled = r.cancelled /\ s.log = r.log
  BY <1>2, <1>4 DEF FollowedRuns
<1>10. client' = [client EXCEPT ![c] = x] BY <1>1, <1>5 DEF ClientCore
<1> HIDE DEF s
<1>11. RunOK(c, s)' BY <1>2, <1>6, <1>8, <1>9 DEF RunOK, Logged
<1>12. CallOK(c, x, s)' BY <1>2, <1>6, <1>9 DEF CallOK
<1> QED BY <1>6, <1>7, <1>10, <1>11, <1>12, OneClientStep

\* A run is accepted, and the answer may be lost.
LEMMA PostRunStep ==
  ASSUME ClientCore, NEW c \in Clients, PostRun(c)
  PROVE  ClientCore'
<1>1. PICK x : x = client[c] OBVIOUS
<1>2. x \in ClientCalls /\ x.pc = "config" /\ x.result = "" /\ x.todo = {}
  BY <1>1, CoreTyped DEF PostRun, CallOK
<1>3. DaemonsStay BY DEF PostRun, DaemonsStay
<1>4. \A o \in {"unreachable", "unauthorized", "invalid", "internal"} : o \in ClientOutcomes \ {"done", "failed"}
  BY DEF ClientOutcomes
<1>5. CASE Server(client[c].addr) = {} BY <1>1, <1>2, <1>3, <1>4, <1>5, EndStep DEF PostRun
<1>6. CASE Server(client[c].addr) # {}
  <2>1. PICK d \in Server(client[c].addr) :
          IF ~Authorized(d, client[c].token) THEN End(c, "unauthorized") /\ run' = run
          ELSE \/ \E refusal \in {"invalid", "internal"} : End(c, refusal) /\ run' = run
               \/ /\ Accepts(c, d)
                  /\ client' = [client EXCEPT ![c].pc = "started"] \/ End(c, "unreachable")
    BY <1>6 DEF PostRun
  <2>2. d \in Daemons BY DEF Server
  <2>3. CASE ~Authorized(d, client[c].token) BY <1>1, <1>2, <1>3, <1>4, <2>1, <2>3, EndStep
  <2>5. CASE \E refusal \in {"invalid", "internal"} : End(c, refusal) /\ run' = run
    <3>1. PICK refusal \in {"invalid", "internal"} : End(c, refusal) /\ run' = run BY <2>5
    <3> QED BY <1>1, <1>2, <1>3, <1>4, <3>1, EndStep
  <2>4. CASE Accepts(c, d) /\ (client' = [client EXCEPT ![c].pc = "started"] \/ End(c, "unreachable"))
    <3> DEFINE r == [NoRun EXCEPT !.on = d, !.pc = "prompt"]
    <3>1. run' = [run EXCEPT ![c] = r] BY <2>4 DEF Accepts
    <3>2. PICK q : q = NoRun OBVIOUS
    <3>3. q \in FollowedRuns /\ q.conn = "none" /\ q.log = <<>> BY <3>2, NoRunTyped
    <3>4. r \in FollowedRuns BY <2>2, <3>2, <3>3 DEF FollowedRuns
    <3>5. r.pc = "prompt" /\ r.on = d /\ r.conn = "none" /\ r.log = <<>> BY <3>2, <3>3 DEF FollowedRuns
    <3> HIDE DEF r
    <3>6. RunOK(c, r) BY <2>2, <3>4, <3>5 DEF RunOK, Logged
    <3>7. CASE client' = [client EXCEPT ![c].pc = "started"]
      <4> DEFINE y == [x EXCEPT !.pc = "started"]
      <4>1. client' = [client EXCEPT ![c] = y] BY <1>1, <3>7
      <4>2. y \in ClientCalls BY <1>2 DEF ClientCalls
      <4>3. y.pc = "started" /\ y.result = "" /\ y.todo = {} BY <1>2 DEF ClientCalls
      <4> HIDE DEF y
      <4>4. CallOK(c, y, r) BY <4>2, <4>3 DEF CallOK
      <4> QED BY <1>3, <3>1, <3>6, <4>1, <4>4, CallAndRunStep
    <3>8. CASE End(c, "unreachable")
      <4> DEFINE y == [x EXCEPT !.pc = "over", !.result = "unreachable"]
      <4>1. client' = [client EXCEPT ![c] = y] BY <1>1, <3>8 DEF End
      <4>2. CallOK(c, y, r) BY <1>2, <1>4, EndedCall
      <4> HIDE DEF y
      <4> QED BY <1>3, <3>1, <3>6, <4>1, <4>2, CallAndRunStep
    <3> QED BY <2>4, <3>7, <3>8
  <2> QED BY <2>1, <2>3, <2>4, <2>5
<1> QED BY <1>5, <1>6

\* The program counter of a call, and the connection of its run, change.
LEMMA MovesStep ==
  ASSUME ClientCore, DaemonsStay, NEW c \in Clients, client[c].pc \in {"started", "stream", "asked"},
         NEW pc \in {"stream", "asked"}, NEW r \in FollowedRuns,
         client' = [client EXCEPT ![c].pc = pc], run' = [run EXCEPT ![c] = r],
         r.pc = run[c].pc, r.on = run[c].on, r.log = run[c].log, r.conn = "closed" => r.cancelled
  PROVE  ClientCore'
<1>1. PICK x : x = client[c] OBVIOUS
<1>2. x \in ClientCalls /\ CallOK(c, x, run[c]) /\ x.todo = {} BY <1>1, CoreTyped
<1>3. RunOK(c, r) /\ CallOK(c, x, r) BY <1>2, CoreTyped, SameRun
<1> DEFINE y == [x EXCEPT !.pc = pc]
<1>4. client' = [client EXCEPT ![c] = y] BY <1>1
<1>5. y \in ClientCalls BY <1>2 DEF ClientCalls
<1>6. y.pc = pc /\ y.result = x.result /\ y.todo = {} BY <1>2 DEF ClientCalls
<1> HIDE DEF y
<1>7. CallOK(c, y, r) BY <1>3, <1>5, <1>6 DEF CallOK
<1> QED BY <1>3, <1>4, <1>7, CallAndRunStep

\* The call ends with what is not the end of its run.
LEMMA LeavesStep ==
  ASSUME ClientCore, DaemonsStay, NEW c \in Clients, NEW result \in ClientOutcomes \ {"done", "failed"},
         NEW r \in FollowedRuns, End(c, result), run' = [run EXCEPT ![c] = r],
         client[c].todo # {} => result \in Broken,
         r.pc = run[c].pc, r.on = run[c].on, r.log = run[c].log, r.conn = "closed" => r.cancelled
  PROVE  ClientCore'
<1>1. PICK x : x = client[c] OBVIOUS
<1>2. x \in ClientCalls BY <1>1, CoreTyped
<1>3. RunOK(c, r) BY CoreTyped, SameRun
<1> DEFINE y == [x EXCEPT !.pc = "over", !.result = result]
<1>4. client' = [client EXCEPT ![c] = y] BY <1>1 DEF End
<1>5. CallOK(c, y, r) BY <1>1, <1>2, EndedCall
<1> HIDE DEF y
<1> QED BY <1>3, <1>4, <1>5, CallAndRunStep

LEMMA SubscribeStep ==
  ASSUME ClientCore, NEW c \in Clients, Subscribe(c)
  PROVE  ClientCore'
<1>1. DaemonsStay /\ client[c].pc = "started" BY DEF Subscribe, DaemonsStay
<1>2. CASE Reached(c) # {}
  <2>1. PICK q : q = run[c] OBVIOUS
  <2>2. q \in FollowedRuns BY <2>1, CoreTyped
  <2> DEFINE r == [q EXCEPT !.conn = "open"]
  <2>3. run' = [run EXCEPT ![c] = r] /\ client' = [client EXCEPT ![c].pc = "stream"] BY <1>2, <2>1 DEF Subscribe
  <2>4. r \in FollowedRuns BY <2>2 DEF FollowedRuns
  <2>5. r.pc = q.pc /\ r.on = q.on /\ r.log = q.log /\ r.conn = "open" BY <2>2 DEF FollowedRuns
  <2> HIDE DEF r
  <2> QED BY <1>1, <2>1, <2>3, <2>4, <2>5, MovesStep
<1>3. CASE Reached(c) = {}
  <2>1. PICK reply \in {"unreachable", "unauthorized", "not found"} : End(c, reply) BY <1>3 DEF Subscribe
  <2>2. reply \in ClientOutcomes \ {"done", "failed"} BY DEF ClientOutcomes
  <2>3. client[c].todo = {} BY <1>1, CoreTyped
  <2>4. run' = run BY <1>3 DEF Subscribe
  <2> QED BY <1>1, <2>1, <2>2, <2>3, <2>4, EndStep
<1> QED BY <1>2, <1>3

\* The next event: a request, or the end of the run, which is told as it was logged.
LEMMA DeliverStep ==
  ASSUME ClientCore, NEW c \in Clients, Deliver(c)
  PROVE  ClientCore'
<1>1. PICK q, x : q = run[c] /\ x = client[c] OBVIOUS
<1>2. /\ q \in FollowedRuns /\ x \in ClientCalls /\ RunOK(c, q) /\ CallOK(c, x, q)
      /\ x.pc = "stream" /\ x.todo = {} /\ q.conn = "open" /\ x.seen < Len(q.log)
  BY <1>1, CoreTyped DEF Deliver
<1> DEFINE n     == x.seen + 1
           event == q.log[n]
<1>3. q.log \in Seq(Happenings) /\ x.seen \in Nat BY <1>2 DEF FollowedRuns, Happenings, ClientCalls
<1>4. n \in DOMAIN q.log /\ event \in Happenings /\ n \in Nat
  <2>1. Len(q.log) \in Nat /\ DOMAIN q.log = 1 .. Len(q.log) BY <1>3, LenProperties
  <2>2. n \in 1 .. Len(q.log) BY <1>2, <1>3, <2>1
  <2> QED BY <1>3, <2>1, <2>2, ElementOfSeq
<1>5. DaemonsStay BY DEF Deliver, DaemonsStay
<1>6. run' = [run EXCEPT ![c].conn = IF client'[c].pc = "over" THEN "broken" ELSE run[c].conn] BY DEF Deliver
<1>7. PICK conn : conn = IF client'[c].pc = "over" THEN "broken" ELSE "open" OBVIOUS
<1> DEFINE r == [q EXCEPT !.conn = conn]
<1>8. run' = [run EXCEPT ![c] = r] BY <1>1, <1>2, <1>6, <1>7
<1>9. conn \in {"open", "broken"} BY <1>7
<1>10. r \in FollowedRuns BY <1>2, <1>9 DEF FollowedRuns
<1>11. r.pc = q.pc /\ r.on = q.on /\ r.log = q.log /\ r.conn # "closed" BY <1>2, <1>9 DEF FollowedRuns
<1> HIDE DEF r
<1>12. RunOK(c, r) /\ CallOK(c, x, r) BY <1>2, <1>10, <1>11, SameRun
<1>13. Logged(q, event) BY <1>4 DEF Logged
<1>14. CASE event = "ask"
  <2> DEFINE pc == IF x.kind = "cli" THEN "asked" ELSE "stream"
             y  == [x EXCEPT !.seen = n, !.pc = pc]
  <2>1. client' = [client EXCEPT ![c] = y] BY <1>1, <1>14 DEF Deliver
  <2>2. y \in ClientCalls BY <1>2, <1>4 DEF ClientCalls
  <2>3. y.pc \in {"asked", "stream"} /\ y.result = x.result /\ y.todo = {} BY <1>2 DEF ClientCalls
  <2> HIDE DEF y
  <2>4. CallOK(c, y, r) BY <1>12, <2>2, <2>3 DEF CallOK
  <2> QED BY <1>5, <1>8, <1>12, <2>1, <2>4, CallAndRunStep
<1>15. CASE event # "ask"
  <2> DEFINE result == IF event = "done" THEN "done" ELSE "failed"
             y      == [x EXCEPT !.seen = n, !.pc = "over", !.result = result]
  <2>1. client' = [client EXCEPT ![c] = y] BY <1>1, <1>15 DEF Deliver
  <2>2. y \in ClientCalls BY <1>2, <1>4 DEF ClientCalls, ClientOutcomes
  <2>3. y.pc = "over" /\ y.result = result /\ y.todo = {} BY <1>2 DEF ClientCalls
  <2>4. event = "done" \/ event = "error" BY <1>4, <1>15 DEF Happenings
  <2>5. event = "done" => r.pc \in {"over", "lost"} BY <1>2, <1>11, <1>13 DEF RunOK
  <2>6. event = "error" => r.pc # "none" /\ Recorded(c, r.on) BY <1>2, <1>11, <1>13 DEF RunOK
  <2> HIDE DEF y, event
  <2>7. CallOK(c, y, r) BY <2>2, <2>3, <2>4, <2>5, <2>6 DEF CallOK
  <2> QED BY <1>5, <1>8, <1>12, <2>1, <2>7, CallAndRunStep
<1> QED BY <1>14, <1>15

LEMMA CutStep ==
  ASSUME ClientCore, NEW c \in Clients, Cut(c)
  PROVE  ClientCore'
<1>1. PICK result \in {"cut", "partial"} : End(c, result) BY DEF Cut
<1>2. result \in ClientOutcomes \ {"done", "failed"} BY DEF ClientOutcomes
<1>3. client[c].todo = {} /\ run' = run /\ DaemonsStay BY CoreTyped DEF Cut, DaemonsStay
<1> QED BY <1>1, <1>2, <1>3, EndStep

LEMMA LeftConnection ==
  ASSUME ClientCore, NEW c \in Clients
  PROVE  /\ Left(c) \in {"none", "open", "broken", "closed"}
         /\ Left(c) = "closed" => run[c].cancelled
<1>1. RunOK(c, run[c]) /\ run[c].conn \in {"none", "open", "broken", "closed"} BY CoreTyped DEF FollowedRuns
<1> QED BY <1>1 DEF Left, RunOK

LEMMA AnswerStep ==
  ASSUME ClientCore, NEW c \in Clients, Answer(c)
  PROVE  ClientCore'
<1>1. DaemonsStay /\ client[c].pc \in {"stream", "asked"} BY DEF Answer, DaemonsStay
<1>2. PICK q : q = run[c] OBVIOUS
<1>3. q \in FollowedRuns /\ RunOK(c, q) BY <1>2, CoreTyped
<1>4. CASE Reached(c) # {} /\ run[c].ask
  <2> DEFINE r == [q EXCEPT !.ask = FALSE]
  <2>1. run' = [run EXCEPT ![c] = r] /\ client' = [client EXCEPT ![c].pc = "stream"] BY <1>2, <1>4 DEF Answer
  <2>2. r \in FollowedRuns BY <1>3 DEF FollowedRuns
  <2>3. r.pc = q.pc /\ r.on = q.on /\ r.log = q.log /\ r.conn = q.conn /\ r.cancelled = q.cancelled
    BY <1>3 DEF FollowedRuns
  <2> HIDE DEF r
  <2>4. r.conn = "closed" => r.cancelled BY <1>3, <2>3 DEF RunOK
  <2> QED BY <1>1, <1>2, <2>1, <2>2, <2>3, <2>4, MovesStep
<1>5. CASE ~(Reached(c) # {} /\ run[c].ask)
  <2>1. PICK conn : conn = Left(c) OBVIOUS
  <2> DEFINE r == [q EXCEPT !.conn = conn]
  <2>2. run' = [run EXCEPT ![c] = r] /\ End(c, "undecided") BY <1>2, <1>5, <2>1 DEF Answer
  <2>3. conn \in {"none", "open", "broken", "closed"} /\ (conn = "closed" => q.cancelled)
    BY <1>2, <2>1, LeftConnection
  <2>4. r \in FollowedRuns BY <1>3, <2>3 DEF FollowedRuns
  <2>5. r.pc = q.pc /\ r.on = q.on /\ r.log = q.log /\ r.conn = conn /\ r.cancelled = q.cancelled
    BY <1>3 DEF FollowedRuns
  <2> HIDE DEF r
  <2>6. r.conn = "closed" => r.cancelled BY <2>3, <2>5
  <2>7. "undecided" \in ClientOutcomes \ {"done", "failed"} BY DEF ClientOutcomes
  <2>8. client[c].todo = {} BY <1>1, CoreTyped
  <2> QED BY <1>1, <1>2, <2>2, <2>4, <2>5, <2>6, <2>7, <2>8, LeavesStep
<1> QED BY <1>4, <1>5

LEMMA InterruptStep ==
  ASSUME ClientCore, NEW c \in Clients, Interrupt(c)
  PROVE  ClientCore'
<1>1. DaemonsStay /\ End(c, "interrupted") BY DEF Interrupt, DaemonsStay
<1>2. PICK q, conn : q = run[c] /\ conn = Left(c) OBVIOUS
<1>3. q \in FollowedRuns /\ RunOK(c, q) BY <1>2, CoreTyped
<1>4. conn \in {"none", "open", "broken", "closed"} /\ (conn = "closed" => q.cancelled)
  BY <1>2, LeftConnection
<1>5. "interrupted" \in ClientOutcomes \ {"done", "failed"} /\ "interrupted" \in Broken BY DEF ClientOutcomes, Broken
<1>6. CASE run' = [run EXCEPT ![c].conn = Left(c)]
  <2> DEFINE r == [q EXCEPT !.conn = conn]
  <2>1. run' = [run EXCEPT ![c] = r] BY <1>2, <1>6
  <2>2. r \in FollowedRuns BY <1>3, <1>4 DEF FollowedRuns
  <2>3. r.pc = q.pc /\ r.on = q.on /\ r.log = q.log /\ r.conn = conn /\ r.cancelled = q.cancelled
    BY <1>3 DEF FollowedRuns
  <2> HIDE DEF r
  <2>4. r.conn = "closed" => r.cancelled BY <1>4, <2>3
  <2> QED BY <1>1, <1>2, <1>5, <2>1, <2>2, <2>3, <2>4, LeavesStep
<1>7. CASE run' = [run EXCEPT ![c] = [@ EXCEPT !.conn = Left(c), !.cancelled = TRUE]]
  <2> DEFINE r == [q EXCEPT !.conn = conn, !.cancelled = TRUE]
  <2>1. run' = [run EXCEPT ![c] = r] BY <1>2, <1>7
  <2>2. r \in FollowedRuns BY <1>3, <1>4 DEF FollowedRuns
  <2>3. r.pc = q.pc /\ r.on = q.on /\ r.log = q.log /\ r.conn = conn /\ r.cancelled BY <1>3 DEF FollowedRuns
  <2> HIDE DEF r
  <2> QED BY <1>1, <1>2, <1>5, <2>1, <2>2, <2>3, LeavesStep
<1> QED BY <1>6, <1>7 DEF Interrupt

-----------------------------------------------------------------------------
(* DaemonClient: the daemons. *)

Alive == {"bound", "written", "serving"}

\* A daemon goes on, or ends, at the address it has.
LEMMA DaemonGoesOn ==
  ASSUME ClientCore, NEW d \in Daemons, NEW s \in {"written", "serving", "stopping", "dead"},
         s \in Alive => life[d] \in Alive, life' = [life EXCEPT ![d] = s],
         UNCHANGED <<at, errors>>, tmp' \in {Unset} \cup Daemons, meta' \in {Unset} \cup Daemons
  PROVE  DaemonTypeOK' /\ OneListener' /\ RecordsStay
<1>1. DaemonTypeOK' BY DEF ClientCore, DaemonTypeOK
<1>2. \A e \in Daemons : life'[e] \in Alive => life[e] \in Alive BY DEF ClientCore, DaemonTypeOK
<1>3. \A e, a : e \in Listening(a)' => e \in Listening(a) BY <1>2 DEF Listening, Alive
<1>4. ASSUME NEW e \in Daemons, NEW f \in Daemons,
             e \in Listening(at[f].addr)', f \in Listening(at[f].addr)'
      PROVE  e = f
  <2>1. PICK a : a = at[f].addr OBVIOUS
  <2>2. e \in Listening(a)' /\ f \in Listening(a)' BY <1>4, <2>1 DEF Listening
  <2>3. e \in Listening(a) /\ f \in Listening(a) BY <1>3, <2>2
  <2> QED BY <2>1, <2>3 DEF ClientCore, OneListener
<1>5. OneListener' BY <1>4 DEF OneListener
<1> QED BY <1>1, <1>5 DEF RecordsStay, Recorded

\* What the daemons do to themselves leaves every client and run as they are.
LEMMA DaemonAlone ==
  ASSUME ClientCore, DaemonTypeOK', OneListener', RecordsStay, UNCHANGED <<run, client>>
  PROVE  ClientCore'
<1>1. ASSUME NEW c \in Clients PROVE (RunOK(c, run[c]) /\ CallOK(c, client[c], run[c]))'
  <2>1. PICK r, x : r = run[c] /\ x = client[c] OBVIOUS
  <2>2. RunOK(c, r) /\ CallOK(c, x, r) BY <2>1 DEF ClientCore
  <2>3. RunOK(c, r)' /\ CallOK(c, x, r)' BY <2>2, StaysOK
  <2> QED BY <2>1, <2>3 DEF RunOK, CallOK, Recorded, Logged
<1> QED BY <1>1 DEF ClientCore

\* A daemon listens only where none does.
LEMMA StartStep ==
  ASSUME ClientCore, NEW d \in Daemons, NEW a \in {0, d}, NEW t \in {0, d}, NEW named \in BOOLEAN,
         Start(d, a, t, named)
  PROVE  ClientCore'
<1> DEFINE s == IF Listening(a) # {} THEN "dead" ELSE IF named THEN "bound" ELSE "serving"
<1>1. /\ life' = [life EXCEPT ![d] = s]
      /\ at' = [at EXCEPT ![d] = [addr |-> a, token |-> t, named |-> named]]
      /\ life[d] = "new" /\ UNCHANGED <<tmp, meta, errors, run, client>>
  BY DEF Start
<1>2. s \in {"dead", "bound", "serving"} /\ (s # "dead" => Listening(a) = {}) OBVIOUS
<1> HIDE DEF s
<1>3. a \in Addresses /\ t \in Addresses BY DEF Addresses
<1>4. DaemonTypeOK' BY <1>1, <1>2, <1>3 DEF ClientCore, DaemonTypeOK
<1>5. life'[d] = s /\ at'[d].addr = a BY <1>1 DEF ClientCore, DaemonTypeOK
<1>6. \A e \in Daemons : e # d => life'[e] = life[e] /\ at'[e] = at[e] BY <1>1 DEF ClientCore, DaemonTypeOK
<1>7. ASSUME NEW e \in Daemons, NEW f \in Daemons, life'[e] \in Alive, life'[f] \in Alive, at'[e].addr = at'[f].addr
      PROVE  e = f
  <2>1. CASE e # d /\ f # d
    <3>1. e \in Listening(at[f].addr) /\ f \in Listening(at[f].addr) BY <1>6, <1>7, <2>1 DEF Listening, Alive
    <3> QED BY <3>1 DEF ClientCore, OneListener
  <2>2. CASE e = d /\ f # d
    <3>1. f \in Listening(a) BY <1>5, <1>6, <1>7, <2>2 DEF Listening, Alive
    <3>2. s # "dead" BY <1>5, <1>7, <2>2 DEF Alive
    <3> QED BY <1>2, <3>1, <3>2
  <2>3. CASE e # d /\ f = d
    <3>1. e \in Listening(a) BY <1>5, <1>6, <1>7, <2>3 DEF Listening, Alive
    <3>2. s # "dead" BY <1>5, <1>7, <2>3 DEF Alive
    <3> QED BY <1>2, <3>1, <3>2
  <2> QED BY <2>1, <2>2, <2>3
<1>8. OneListener' BY <1>7 DEF OneListener, Listening, Alive
<1>9. RecordsStay BY <1>1 DEF RecordsStay, Recorded
<1> QED BY <1>1, <1>4, <1>8, <1>9, DaemonAlone

LEMMA ServeStep ==
  ASSUME ClientCore, NEW d \in Daemons, WriteTmp(d) \/ Rename(d) \/ Stop(d)
  PROVE  ClientCore'
<1>1. UNCHANGED <<at, errors, run, client>> BY DEF WriteTmp, Rename, Stop
<1>2. tmp \in {Unset} \cup Daemons /\ meta \in {Unset} \cup Daemons BY DEF ClientCore, DaemonTypeOK
<1>3. tmp' \in {Unset} \cup Daemons /\ meta' \in {Unset} \cup Daemons BY <1>2 DEF WriteTmp, Rename, Stop
<1>4. PICK s \in {"written", "serving", "stopping", "dead"} :
        life' = [life EXCEPT ![d] = s] /\ (s \in Alive => life[d] \in Alive)
  BY DEF WriteTmp, Rename, Stop, Alive
<1>5. DaemonTypeOK' /\ OneListener' /\ RecordsStay BY <1>1, <1>3, <1>4, DaemonGoesOn
<1> QED BY <1>1, <1>5, DaemonAlone

\* The runs of a daemon end with it.
LEMMA DieStep ==
  ASSUME ClientCore, NEW d \in Daemons, Die(d)
  PROVE  ClientCore'
<1>1. tmp \in {Unset} \cup Daemons /\ meta \in {Unset} \cup Daemons BY DEF ClientCore, DaemonTypeOK
<1>2. /\ life' = [life EXCEPT ![d] = "dead"] /\ UNCHANGED <<at, tmp, meta, errors, client>>
      /\ run' = [c \in Clients |-> IF run[c].on = d THEN [run[c] EXCEPT !.pc = "lost"] ELSE run[c]]
  BY DEF Die
<1>3. DaemonTypeOK' /\ OneListener' /\ RecordsStay BY <1>1, <1>2, DaemonGoesOn DEF Alive
<1>4. ASSUME NEW c \in Clients
      PROVE  run'[c] \in FollowedRuns /\ (RunOK(c, run[c]) /\ CallOK(c, client[c], run[c]))'
  <2>1. PICK q, x : q = run[c] /\ x = client[c] OBVIOUS
  <2>2. q \in FollowedRuns /\ RunOK(c, q) /\ CallOK(c, x, q) BY <2>1, CoreTyped
  <2>3. PICK r : r = run'[c] OBVIOUS
  <2>4. r = q \/ (r = [q EXCEPT !.pc = "lost"] /\ q.on = d) BY <1>2, <2>1, <2>3
  <2>5. r \in FollowedRuns /\ RunOK(c, r) /\ CallOK(c, x, r)
    <3>1. CASE r = q BY <2>2, <3>1
    <3>2. CASE r = [q EXCEPT !.pc = "lost"] /\ q.on = d
      <4>1. r \in FollowedRuns BY <2>2, <3>2 DEF FollowedRuns
      <4>2. r.pc = "lost" /\ r.on = q.on /\ r.log = q.log /\ r.conn = q.conn /\ r.cancelled = q.cancelled
        BY <2>2, <3>2 DEF FollowedRuns
      <4>3. r.on \in Daemons BY <3>2, <4>2
      <4>4. \A e : Logged(r, e) <=> Logged(q, e) BY <4>2 DEF Logged
      <4>5. RunOK(c, r) BY <2>2, <4>1, <4>2, <4>3, <4>4 DEF RunOK
      <4>6. CallOK(c, x, r) BY <2>2, <4>2 DEF CallOK
      <4> QED BY <4>1, <4>5, <4>6
    <3> QED BY <2>4, <3>1, <3>2
  <2>6. RunOK(c, r)' /\ CallOK(c, x, r)' BY <1>3, <2>5, StaysOK
  <2>7. x = client'[c] BY <1>2, <2>1
  <2> QED BY <2>3, <2>5, <2>6, <2>7 DEF RunOK, CallOK, Recorded, Logged
<1>5. run' \in [Clients -> FollowedRuns]
  <2>1. run' = [c \in Clients |-> run'[c]] BY <1>2
  <2> QED BY <1>4, <2>1
<1> QED BY <1>2, <1>3, <1>4, <1>5 DEF ClientCore

LEMMA AnotherFailsStep ==
  ASSUME ClientCore, NEW d \in Daemons, AnotherFails(d)
  PROVE  ClientCore'
<1>1. errors' = [errors EXCEPT ![d] = Newest(<<0>> \o errors[d])] /\ UNCHANGED <<life, at, tmp, meta, run, client>>
  BY DEF AnotherFails
<1>2. DaemonTypeOK' /\ OneListener' /\ RecordsStay BY <1>1, RecordsGrow
<1> QED BY <1>1, <1>2, DaemonAlone

-----------------------------------------------------------------------------
LEMMA ClientStutter ==
  ASSUME ClientCore, UNCHANGED clientVars
  PROVE  ClientCore'
BY DEF ClientCore, clientVars, DaemonTypeOK, OneListener, Listening, RunOK, CallOK, Recorded, Logged

LEMMA ClientsStep == ClientCore /\ [ClientNext]_clientVars => ClientCore'
<1> SUFFICES ASSUME ClientCore, [ClientNext]_clientVars PROVE ClientCore' OBVIOUS
<1>1. ASSUME NEW d \in Daemons, Daemon(d) PROVE ClientCore'
  BY <1>1, StartStep, ServeStep, DieStep, AnotherFailsStep DEF Daemon
<1>2. ASSUME NEW c \in Clients, FollowedStep(c) PROVE ClientCore'
  BY <1>2, AsksPermissionStep, ExpiresStep, SucceedsStep, RecordErrorStep, FailsStep, NoticesStep DEF FollowedStep
<1>3. ASSUME NEW c \in Clients, ClientStep(c) PROVE ClientCore'
  <2>1. CASE \E kind \in {"cli", "telegram"}, f \in Flags : Configure(c, kind, f) BY <2>1, ConfigureStep
  <2>2. CASE QueryCatalog(c) \/ QueryMemory(c) \/ Command(c)
    BY <2>2, RequestStep DEF QueryCatalog, QueryMemory, Command
  <2>3. CASE \E q \in Inspected : Listed(c, q) BY <2>3, ListedStep
  <2>4. CASE Inspect(c) \/ Inspection(c) BY <2>4, InspectStep, InspectionStep
  <2>5. CASE PostRun(c) \/ Subscribe(c) BY <2>5, PostRunStep, SubscribeStep
  <2>6. CASE Deliver(c) \/ Cut(c) BY <2>6, DeliverStep, CutStep
  <2>7. CASE Answer(c) \/ Interrupt(c) BY <2>7, AnswerStep, InterruptStep
  <2> QED BY <1>3, <2>1, <2>2, <2>3, <2>4, <2>5, <2>6, <2>7 DEF ClientStep
<1>4. CASE UNCHANGED clientVars BY <1>4, ClientStutter
<1> QED BY <1>1, <1>2, <1>3, <1>4 DEF ClientNext

\* One daemon listens at an address, and for every client the log of its run, the
\* recent errors and what it was told agree, whenever daemons start, stop and die
\* (ServeLocal, executeRun, handleRunEvents, streamDaemonRun).
THEOREM ClientInductive == ClientSpec => []ClientInv
<1>1. ClientSpec => []ClientCore BY ClientStart, ClientsStep, PTL DEF ClientSpec
<1> QED BY <1>1, CoreIsInv, PTL

\* A diagnosis agrees with what a run would meet, an inspection fails for nothing a
\* host does not have, a failure that is told is on record, and a run that is left is
\* cancelled (diagnoseDaemon, runConnectInspect, recordError, handleRunEvents).
THEOREM ClientsStayTold == ClientSpec => []ClientsAreToldTheTruth
<1>1. ClientInv => ClientsAreToldTheTruth BY DEF ClientInv
<1> QED BY <1>1, ClientInductive, PTL
-----------------------------------------------------------------------------
(* Lists of memories: a part of a list in its order. *)

\* Of two members of a finite set of numbers the greater has more below it.
LEMMA RanksDiffer ==
  ASSUME NEW I \in SUBSET Int, IsFiniteSet(I), NEW i \in I, NEW j \in I, i < j
  PROVE  Cardinality({k \in I : k <= i}) # Cardinality({k \in I : k <= j})
<1> DEFINE A == {k \in I : k <= i}
           B == {k \in I : k <= j}
<1>0. i \in Int /\ j \in Int /\ (\A k \in I : k \in Int) OBVIOUS
<1>6. \A k \in I : k <= i => k <= j BY <1>0
<1>7. j <= j /\ ~(j <= i) BY <1>0
<1>1. A \subseteq B /\ j \in B /\ j \notin A BY <1>6, <1>7
<1>2. IsFiniteSet(B) BY FS_Subset
<1>3. A # B BY <1>1
<1> HIDE DEF A, B
<1>4. Cardinality(B) = Cardinality(A) => B = A BY <1>1, <1>2, FS_Subset
<1>5. Cardinality(A) # Cardinality(B) BY <1>3, <1>4
<1> QED BY <1>5 DEF A, B

LEMMA NthIs ==
  ASSUME NEW I \in SUBSET Int, IsFiniteSet(I)
  PROVE  /\ Cardinality(I) \in Nat
         /\ \A n \in 1 .. Cardinality(I) : Nth(I, n) \in I /\ Cardinality({k \in I : k <= Nth(I, n)}) = n
         /\ \A i \in I : \E n \in 1 .. Cardinality(I) : Nth(I, n) = i
<1> DEFINE R(i) == Cardinality({k \in I : k <= i})
           f == [i \in I |-> R(i)]
<1>1. PICK m \in Nat : m = Cardinality(I) BY FS_CardinalityType
<1>2. \A i \in I : R(i) \in 1 .. m
  <2> TAKE i \in I
  <2>1. PICK A : A = {k \in I : k <= i} OBVIOUS
  <2>2. A \in SUBSET I /\ A # {} BY <2>1
  <2>3. IsFiniteSet(A) /\ Cardinality(A) <= m BY <1>1, <2>2, FS_Subset
  <2>4. Cardinality(A) \in Nat /\ Cardinality(A) # 0 BY <2>2, <2>3, FS_CardinalityType, FS_EmptySet
  <2> QED BY <2>1, <2>3, <2>4
<1>3. \A i, j \in I : R(i) = R(j) => i = j
  <2> TAKE i, j \in I
  <2>1. i \in Int /\ j \in Int OBVIOUS
  <2>2. i < j => R(i) # R(j) BY RanksDiffer
  <2>3. j < i => R(i) # R(j) BY RanksDiffer
  <2> QED BY <2>1, <2>2, <2>3
<1> HIDE DEF R
<1>4. f \in [I -> 1 .. m] /\ \A i, j \in I : f[i] = f[j] => i = j BY <1>2, <1>3
<1>5. f \in Injection(I, 1 .. m) BY <1>4, Fun_IsInj
<1>6. IsFiniteSet(1 .. m) /\ Cardinality(1 .. m) = m BY FS_Interval
<1>7. f \in Surjection(I, 1 .. m) BY <1>1, <1>5, <1>6, FS_Injection
<1>8. \A n \in 1 .. m : \E i \in I : R(i) = n BY <1>7 DEF Surjection
<1>9. \A n \in 1 .. m : Nth(I, n) \in I /\ R(Nth(I, n)) = n BY <1>8 DEF Nth, R
<1>10. ASSUME NEW i \in I PROVE \E n \in 1 .. m : Nth(I, n) = i
  <2>1. PICK n \in 1 .. m : n = R(i) BY <1>2
  <2>2. Nth(I, n) \in I /\ R(Nth(I, n)) = R(i) BY <1>9, <2>1
  <2>3. Nth(I, n) = i BY <1>3, <2>2
  <2> QED BY <2>3
<1> QED BY <1>1, <1>9, <1>10 DEF R

LEMMA PickedIs ==
  ASSUME NEW S, NEW s \in Seq(S), NEW I \in SUBSET DOMAIN s
  PROVE  /\ Picked(s, I) \in Seq(S)
         /\ \A n \in DOMAIN Picked(s, I) : \E i \in I : Picked(s, I)[n] = s[i]
         /\ \A n, m \in DOMAIN Picked(s, I) : n # m =>
              \E i, j \in I : i # j /\ Picked(s, I)[n] = s[i] /\ Picked(s, I)[m] = s[j]
         /\ \A i \in I : \E n \in DOMAIN Picked(s, I) : Picked(s, I)[n] = s[i]
<1>1. Len(s) \in Nat /\ DOMAIN s = 1 .. Len(s) /\ \A i \in DOMAIN s : s[i] \in S
  BY LenProperties, ElementOfSeq
<1>2. I \in SUBSET Int /\ I \in SUBSET (1 .. Len(s)) BY <1>1
<1>3. IsFiniteSet(I)
  <2>1. PICK k \in Nat : k = Len(s) BY <1>1
  <2>2. IsFiniteSet(1 .. k) BY FS_Interval
  <2> QED BY <1>2, <2>1, <2>2, FS_Subset
<1>4. PICK m \in Nat : m = Cardinality(I) BY <1>2, <1>3, NthIs
<1>5. /\ \A n \in 1 .. m : Nth(I, n) \in I /\ Cardinality({k \in I : k <= Nth(I, n)}) = n
      /\ \A i \in I : \E n \in 1 .. m : Nth(I, n) = i
  BY <1>2, <1>3, <1>4, NthIs
<1>6. PICK p : p = Picked(s, I) OBVIOUS
<1>7. p = [n \in 1 .. m |-> s[Nth(I, n)]] BY <1>4, <1>6 DEF Picked
<1>8. DOMAIN p = 1 .. m /\ \A n \in 1 .. m : p[n] = s[Nth(I, n)] BY <1>7
<1>9. p \in Seq(S)
  <2>1. \A n \in 1 .. m : s[Nth(I, n)] \in S BY <1>1, <1>5
  <2> QED BY <1>7, <2>1, IsASeq
<1>10. \A n, k \in 1 .. m : n # k => Nth(I, n) # Nth(I, k) BY <1>5
<1>11. \A n \in DOMAIN p : \E i \in I : p[n] = s[i] BY <1>5, <1>8
<1>12. \A n, k \in DOMAIN p : n # k => \E i, j \in I : i # j /\ p[n] = s[i] /\ p[k] = s[j]
  <2> TAKE n, k \in DOMAIN p
  <2> HAVE n # k
  <2>1. Nth(I, n) \in I /\ Nth(I, k) \in I /\ Nth(I, n) # Nth(I, k) BY <1>5, <1>8, <1>10
  <2>2. p[n] = s[Nth(I, n)] /\ p[k] = s[Nth(I, k)] BY <1>8
  <2> QED BY <2>1, <2>2
<1>13. \A i \in I : \E n \in DOMAIN p : p[n] = s[i] BY <1>5, <1>8
<1> QED BY <1>6, <1>9, <1>11, <1>12, <1>13

-----------------------------------------------------------------------------
(* What an operation saves. *)

\* The ids and the contents of a list.
LEMMA Members ==
  ASSUME NEW s
  PROVE  /\ \A v : v \in IdsOf(s) <=> \E i \in DOMAIN s : s[i].id = v
         /\ \A i \in DOMAIN s : Norm[s[i].content] \in Says(s)
BY DEF IdsOf, Says

LEMMA StoredLater ==
  ASSUME NEW s, NEW n \in Int, NEW m \in Int, n <= m
  PROVE  /\ IsList(s) /\ Below(s, n) => Below(s, m)
         /\ Stored(s, n) => Stored(s, m)
<1>1. ASSUME IsList(s), Below(s, n) PROVE Below(s, m)
  <2>1. \A i \in DOMAIN s : s[i].id \in Int
    <3>1. s \in Seq(Notes) BY <1>1 DEF IsList
    <3>2. \A i \in DOMAIN s : s[i] \in Notes BY <3>1, LenProperties, ElementOfSeq
    <3> QED BY <3>2 DEF Notes
  <2> QED BY <1>1, <2>1 DEF Below
<1> QED BY <1>1 DEF Stored

LEMMA ListTyped ==
  ASSUME NEW s, IsList(s)
  PROVE  /\ s \in Seq(Notes) /\ Len(s) \in Nat /\ DOMAIN s = 1 .. Len(s)
         /\ \A i \in DOMAIN s : s[i] \in Notes /\ s[i].id \in Int
         /\ \A i, j \in DOMAIN s : i # j => s[i].id # s[j].id
<1>1. s \in Seq(Notes) /\ \A i, j \in DOMAIN s : i # j => s[i].id # s[j].id BY DEF IsList
<1>2. \A i \in DOMAIN s : s[i] \in Notes BY <1>1, LenProperties, ElementOfSeq
<1>3. Len(s) \in Nat /\ DOMAIN s = 1 .. Len(s) BY <1>1, LenProperties
<1> QED BY <1>1, <1>2, <1>3 DEF Notes

\* AddMemory appends.
LEMMA AddedIs ==
  ASSUME NEW s, NEW n \in Int, Stored(s, n), NEW x \in Notes, x.id \in 1 .. n - 1, Below(s, x.id)
  PROVE  Stored(Append(s, x), n) /\ IdsOf(Append(s, x)) = IdsOf(s) \cup {x.id}
<1>1. IsList(s) /\ Below(s, n) BY DEF Stored
<1>2. PICK k \in Nat : k = Len(s) /\ DOMAIN s = 1 .. k BY <1>1, ListTyped
<1>3. PICK t : t = Append(s, x) OBVIOUS
<1>4. /\ t \in Seq(Notes) /\ DOMAIN t = 1 .. k + 1
      /\ \A i \in 1 .. k : t[i] = s[i]
      /\ t[k + 1] = x
  BY <1>1, <1>2, <1>3, ListTyped, AppendProperties, LenProperties
<1>5. \A i \in 1 .. k + 1 : i \in 1 .. k \/ i = k + 1 BY <1>2
<1>6. \A i \in 1 .. k : s[i].id \in Int /\ s[i].id < x.id /\ s[i].id < n BY <1>1, <1>2, ListTyped DEF Below
<1>7. \A i, j \in DOMAIN t : i # j => t[i].id # t[j].id
  BY <1>1, <1>2, <1>4, <1>5, <1>6, ListTyped
<1>8. Below(t, n) BY <1>4, <1>5, <1>6 DEF Below
<1>9. \A i, j \in DOMAIN t :
        i # j /\ t[i].id < 0 /\ t[j].id < 0 => Norm[t[i].content] # Norm[t[j].content]
  <2>1. ~(x.id < 0) OBVIOUS
  <2> QED BY <1>2, <1>4, <1>5, <2>1 DEF Stored
<1>10. Stored(t, n) BY <1>4, <1>7, <1>8, <1>9 DEF Stored, IsList
<1>11. \A v : v \in IdsOf(t) <=> v \in IdsOf(s) \/ v = x.id
  <2> TAKE v
  <2>1. v \in IdsOf(t) <=> \E i \in 1 .. k + 1 : t[i].id = v BY <1>4, Members
  <2>2. v \in IdsOf(s) <=> \E i \in 1 .. k : s[i].id = v BY <1>2, Members
  <2>3. k + 1 \in 1 .. k + 1 /\ \A i \in 1 .. k : i \in 1 .. k + 1 BY <1>2
  <2> QED BY <1>4, <1>5, <2>1, <2>2, <2>3
<1> QED BY <1>3, <1>10, <1>11

\* ForgetMemory leaves all the others.
LEMMA WithoutIs ==
  ASSUME NEW s, NEW n \in Int, Stored(s, n), NEW v
  PROVE  Stored(Without(s, v), n) /\ IdsOf(Without(s, v)) = IdsOf(s) \ {v}
<1>1. IsList(s) /\ Below(s, n) BY DEF Stored
<1>2. PICK I \in SUBSET DOMAIN s : I = {i \in DOMAIN s : s[i].id # v} OBVIOUS
<1>3. PICK t : t = Without(s, v) OBVIOUS
<1>4. t = Picked(s, I) BY <1>2, <1>3 DEF Without
<1>5. s \in Seq(Notes) BY <1>1, ListTyped
<1>6. /\ t \in Seq(Notes)
      /\ \A k \in DOMAIN t : \E i \in I : t[k] = s[i]
      /\ \A k, m \in DOMAIN t : k # m => \E i, j \in I : i # j /\ t[k] = s[i] /\ t[m] = s[j]
      /\ \A i \in I : \E k \in DOMAIN t : t[k] = s[i]
  BY <1>4, <1>5, PickedIs
<1>7. Below(t, n) BY <1>1, <1>6 DEF Below
<1>8. \A k, m \in DOMAIN t : k # m =>
        /\ t[k].id # t[m].id
        /\ t[k].id < 0 /\ t[m].id < 0 => Norm[t[k].content] # Norm[t[m].content]
  <2> TAKE k, m \in DOMAIN t
  <2> HAVE k # m
  <2>1. PICK i \in I, j \in I : i # j /\ t[k] = s[i] /\ t[m] = s[j] BY <1>6
  <2>2. i \in DOMAIN s /\ j \in DOMAIN s OBVIOUS
  <2>3. s[i].id # s[j].id BY <1>1, <2>1, <2>2, ListTyped
  <2>4. s[i].id < 0 /\ s[j].id < 0 => Norm[s[i].content] # Norm[s[j].content] BY <2>1, <2>2 DEF Stored
  <2> QED BY <2>1, <2>3, <2>4
<1>9. Stored(t, n) BY <1>6, <1>7, <1>8 DEF Stored, IsList
<1>10. \A w : w \in IdsOf(t) <=> w \in IdsOf(s) /\ w # v
  <2> TAKE w
  <2>1. w \in IdsOf(t) <=> \E k \in DOMAIN t : t[k].id = w BY Members
  <2>2. w \in IdsOf(s) <=> \E i \in DOMAIN s : s[i].id = w BY Members
  <2> QED BY <1>2, <1>6, <2>1, <2>2
<1> QED BY <1>3, <1>9, <1>10

\* ForgetMemory finds the id in what it changes.
LEMMA NoneIsTaken ==
  ASSUME NEW s, IsList(s), NEW v, v \notin IdsOf(s)
  PROVE  Without(s, v) = s
<1>1. PICK k \in Nat : k = Len(s) /\ DOMAIN s = 1 .. k /\ s \in Seq(Notes) BY ListTyped
<1>2. PICK I \in SUBSET Int : I = 1 .. k OBVIOUS
<1>3. {i \in DOMAIN s : s[i].id # v} = I BY <1>1, <1>2, Members
<1>4. IsFiniteSet(I) /\ Cardinality(I) = k BY <1>2, FS_Interval
<1>5. ASSUME NEW n \in 1 .. k PROVE Nth(I, n) = n
  <2>1. PICK x \in 1 .. k : x = Nth(I, n) /\ Cardinality({j \in I : j <= x}) = n BY <1>2, <1>4, NthIs
  <2>2. {j \in I : j <= x} = 1 .. x BY <1>2
  <2>3. Cardinality(1 .. x) = x BY FS_Interval
  <2> QED BY <2>1, <2>2, <2>3
<1>6. Without(s, v) = [n \in 1 .. k |-> s[Nth(I, n)]] BY <1>3, <1>4 DEF Without, Picked
<1>7. Without(s, v) = [n \in 1 .. k |-> s[n]] BY <1>5, <1>6
<1>8. s = [n \in 1 .. k |-> s[n]] BY <1>1, LenProperties
<1> QED BY <1>7, <1>8

\* ImportMemoryBackup appends what is new in id and in content.
LEMMA ImportedIs ==
  ASSUME NEW s, NEW n \in Int, Stored(s, n), NEW b, IsList(b), Below(b, n)
  PROVE  Stored(s \o Taken(s, b), n) /\ IdsOf(s \o Taken(s, b)) = IdsOf(s) \cup IdsOf(Taken(s, b))
         /\ \A v \in IdsOf(Taken(s, b)) : v \in Int /\ v < n
<1>1. IsList(s) /\ Below(s, n) BY DEF Stored
<1>2. PICK I \in SUBSET DOMAIN b : I = News(s, b) BY DEF News
<1>3. PICK t : t = Taken(s, b) OBVIOUS
<1>4. t = Picked(b, I) BY <1>2, <1>3 DEF Taken
<1>5. b \in Seq(Notes) /\ \A i \in DOMAIN b : b[i] \in Notes /\ b[i].id \in Int BY ListTyped
<1>6. /\ t \in Seq(Notes)
      /\ \A k \in DOMAIN t : \E i \in I : t[k] = b[i]
      /\ \A k, m \in DOMAIN t : k # m => \E i, j \in I : i # j /\ t[k] = b[i] /\ t[m] = b[j]
  BY <1>4, <1>5, PickedIs
<1>7. \A i \in I : b[i].id \notin IdsOf(s) /\ Norm[b[i].content] \notin Says(s) BY <1>2 DEF News
<1>8. \A i, j \in I : i # j => Norm[b[i].content] # Norm[b[j].content]
  <2> TAKE i, j \in I
  <2>1. i \in Nat \ {0} /\ j \in Nat \ {0} BY ListTyped
  <2>2. i < j => i \in 1 .. j - 1 BY <2>1
  <2>3. j < i => j \in 1 .. i - 1 BY <2>1
  <2>4. /\ \A k \in 1 .. j - 1 : Norm[b[k].content] # Norm[b[j].content]
        /\ \A k \in 1 .. i - 1 : Norm[b[k].content] # Norm[b[i].content]
    BY <1>2 DEF News
  <2> QED BY <2>1, <2>2, <2>3, <2>4
<1>9. \A k, m \in DOMAIN t : k # m =>
        t[k].id # t[m].id /\ Norm[t[k].content] # Norm[t[m].content]
  <2> TAKE k, m \in DOMAIN t
  <2> HAVE k # m
  <2>1. PICK i \in I, j \in I : i # j /\ t[k] = b[i] /\ t[m] = b[j] BY <1>6
  <2>2. b[i].id # b[j].id BY <2>1, ListTyped
  <2> QED BY <1>8, <2>1, <2>2
<1>10. \A k \in DOMAIN t : /\ t[k].id \in Int /\ t[k].id < n /\ t[k].id \notin IdsOf(s)
                           /\ Norm[t[k].content] \notin Says(s)
  BY <1>5, <1>6, <1>7 DEF Below
<1>11. PICK x \in Nat, y \in Nat : x = Len(s) /\ DOMAIN s = 1 .. x /\ y = Len(t) /\ DOMAIN t = 1 .. y
  BY <1>1, <1>6, ListTyped, LenProperties
<1>12. PICK u : u = s \o t OBVIOUS
<1>13. /\ u \in Seq(Notes) /\ DOMAIN u = 1 .. x + y
       /\ \A i \in 1 .. x + y : u[i] = IF i <= x THEN s[i] ELSE t[i - x]
  BY <1>1, <1>6, <1>11, <1>12, ListTyped, ConcatProperties, LenProperties
<1>14. \A i \in 1 .. x + y : (i \in 1 .. x /\ u[i] = s[i]) \/ (i - x \in 1 .. y /\ ~(i <= x) /\ u[i] = t[i - x])
  BY <1>11, <1>13
<1>15. \A i \in 1 .. x : s[i].id \in IdsOf(s) /\ Norm[s[i].content] \in Says(s) /\ s[i].id < n
  BY <1>1, <1>11, Members DEF Below
<1>16. \A i, j \in DOMAIN u : i # j =>
         /\ u[i].id # u[j].id
         /\ u[i].id < 0 /\ u[j].id < 0 => Norm[u[i].content] # Norm[u[j].content]
  <2> TAKE i, j \in DOMAIN u
  <2> HAVE i # j
  <2>1. i \in 1 .. x + y /\ j \in 1 .. x + y BY <1>13
  <2>2. CASE i \in 1 .. x /\ u[i] = s[i] /\ j \in 1 .. x /\ u[j] = s[j]
    BY <1>1, <1>11, <2>2, ListTyped DEF Stored
  <2>3. CASE i \in 1 .. x /\ u[i] = s[i] /\ j - x \in 1 .. y /\ u[j] = t[j - x]
    BY <1>10, <1>11, <1>15, <2>3
  <2>4. CASE i - x \in 1 .. y /\ u[i] = t[i - x] /\ j \in 1 .. x /\ u[j] = s[j]
    BY <1>10, <1>11, <1>15, <2>4
  <2>5. CASE i - x \in 1 .. y /\ u[i] = t[i - x] /\ j - x \in 1 .. y /\ u[j] = t[j - x]
    <3>1. i - x # j - x BY <1>11, <2>1
    <3> QED BY <1>9, <1>11, <2>5, <3>1
  <2> QED BY <1>14, <2>1, <2>2, <2>3, <2>4, <2>5
<1>17. Below(u, n)
  <2>1. ASSUME NEW i \in 1 .. x + y PROVE u[i].id < n
    <3>1. CASE i \in 1 .. x /\ u[i] = s[i] BY <1>15, <3>1
    <3>2. CASE i - x \in 1 .. y /\ u[i] = t[i - x]
      <4>1. i - x \in DOMAIN t BY <1>11, <3>2
      <4>2. t[i - x].id < n BY <1>10, <4>1
      <4> QED BY <3>2, <4>2
    <3> QED BY <1>14, <3>1, <3>2
  <2>2. DOMAIN u = 1 .. x + y BY <1>13
  <2> QED BY <2>1, <2>2 DEF Below
<1>18. Stored(u, n) BY <1>13, <1>16, <1>17 DEF Stored, IsList
<1>19. \A v : v \in IdsOf(u) <=> v \in IdsOf(s) \/ v \in IdsOf(t)
  <2> TAKE v
  <2>1. v \in IdsOf(u) <=> \E i \in 1 .. x + y : u[i].id = v BY <1>13, Members
  <2>2. v \in IdsOf(s) <=> \E i \in 1 .. x : s[i].id = v BY <1>11, Members
  <2>3. v \in IdsOf(t) <=> \E i \in 1 .. y : t[i].id = v BY <1>11, Members
  <2>4. ASSUME NEW i \in 1 .. y PROVE x + i \in 1 .. x + y /\ u[x + i] = t[i]
    <3>1. x + i \in 1 .. x + y /\ ~(x + i <= x) /\ (x + i) - x = i BY <1>11
    <3> QED BY <1>13, <3>1
  <2>5. ASSUME NEW i \in 1 .. x PROVE i \in 1 .. x + y /\ u[i] = s[i] BY <1>11, <1>13
  <2> QED BY <1>14, <2>1, <2>2, <2>3, <2>4, <2>5
<1>20. \A v \in IdsOf(t) : v \in Int /\ v < n BY <1>10, Members
<1> QED BY <1>3, <1>12, <1>18, <1>19, <1>20

\* ExportMemoryBackup: a list in the order of its ids has the same members.
LEMMA InOrderIs ==
  ASSUME NEW s, IsList(s), NEW n \in Int, Below(s, n)
  PROVE  IsList(InOrder(s)) /\ Below(InOrder(s), n)
<1>1. PICK k \in Nat : k = Len(s) /\ DOMAIN s = 1 .. k BY ListTyped
<1>2. PICK V : V = IdsOf(s) OBVIOUS
<1>3. V \in SUBSET Int BY <1>2, ListTyped DEF IdsOf
<1>4. PICK f : f = [i \in 1 .. k |-> s[i].id] OBVIOUS
<1>5. f \in [1 .. k -> V] BY <1>1, <1>2, <1>4 DEF IdsOf
<1>6. f \in Injection(1 .. k, V)
  <2>1. \A i, j \in 1 .. k : f[i] = f[j] => i = j BY <1>1, <1>4, ListTyped
  <2> QED BY <1>5, <2>1, Fun_IsInj
<1>7. f \in Surjection(1 .. k, V)
  <2>1. \A v \in V : \E i \in 1 .. k : f[i] = v BY <1>1, <1>2, <1>4 DEF IdsOf
  <2> QED BY <1>5, <2>1, Fun_IsSurj
<1>8. IsFiniteSet(1 .. k) /\ Cardinality(1 .. k) = k BY FS_Interval
<1>9. IsFiniteSet(V) /\ Cardinality(V) = k BY <1>6, <1>7, <1>8, FS_Surjection
<1>10. \A m \in 1 .. k : Nth(V, m) \in V /\ Cardinality({v \in V : v <= Nth(V, m)}) = m BY <1>3, <1>9, NthIs
<1>11. \A m, j \in 1 .. k : m # j => Nth(V, m) # Nth(V, j) BY <1>10
<1>12. PICK t : t = InOrder(s) OBVIOUS
<1>20. \A v \in V : \E i \in 1 .. k : s[i].id = v BY <1>1, <1>2, Members
<1>13. \A m \in 1 .. k : \E i \in 1 .. k : s[i].id = Nth(V, m) BY <1>10, <1>20
<1>14. DOMAIN t = 1 .. k /\ \A m \in 1 .. k : t[m] = s[CHOOSE i \in 1 .. k : s[i].id = Nth(V, m)]
  BY <1>1, <1>2, <1>12 DEF InOrder
<1>15. \A m \in 1 .. k : \E i \in 1 .. k : t[m] = s[i] /\ s[i].id = Nth(V, m) BY <1>13, <1>14
<1>21. \A i \in 1 .. k : s[i] \in Notes /\ s[i].id < n BY <1>1, ListTyped DEF Below
<1>16. \A m \in 1 .. k : t[m] \in Notes /\ t[m].id < n BY <1>15, <1>21
<1>17. t = [m \in 1 .. k |-> t[m]] BY <1>1, <1>12, <1>14 DEF InOrder
<1>18. t \in Seq(Notes) BY <1>16, <1>17, IsASeq
<1>19. \A m, j \in 1 .. k : m # j => t[m].id # t[j].id BY <1>11, <1>15
<1> QED BY <1>12, <1>14, <1>16, <1>18, <1>19 DEF IsList, Below
-----------------------------------------------------------------------------
(* The operations. *)

\* What EditsInv says of an operation that has its list, at n.
Editing(k, n) ==
  /\ k.op \in {"add", "forget", "import"} /\ Stored(k.list, n)
  /\ k.op = "add" => k.arg \in Notes /\ k.arg.id \in 1 .. n - 1 /\ Below(k.list, k.arg.id)
  /\ k.op = "import" => IsList(k.arg) /\ Below(k.arg, n)

LEMMA EditingLater ==
  ASSUME NEW k, NEW n \in Nat, NEW m \in Nat, n <= m, Editing(k, n)
  PROVE  Editing(k, m)
<1>1. k.op = "add" => k.arg.id \in 1 .. m - 1 BY DEF Editing
<1>2. Stored(k.list, m) BY StoredLater DEF Editing
<1>3. k.op = "import" => Below(k.arg, m) BY StoredLater DEF Editing
<1> QED BY <1>1, <1>2, <1>3 DEF Editing

LEMMA EditsAre ==
  EditsInv <=>
    /\ DOMAIN edit = Callers
    /\ \A c \in Callers : edit[c].pc \in {"idle", "loaded"}
    /\ \A c \in Callers : edit[c].pc = "loaded" =>
         /\ Editing(edit[c], next)
         /\ \A d \in Callers \ {c} : edit[d].pc = "loaded" => Process[d] # Process[c]
BY DEF EditsInv, Editing

\* The mutex is taken and the list loaded.
LEMMA LoadStep ==
  ASSUME MemoryInv, NEW c \in Callers, NEW o, NEW x, Loads(c, o, x), next' \in Nat, next <= next',
         Editing([pc |-> "loaded", op |-> o, arg |-> x, list |-> memories], next')
  PROVE  /\ EditsInv'
         /\ edit'[c].list = memories /\ edit'[c].op = o /\ edit'[c].arg = x
         /\ \A d \in Callers \ {c} : edit'[d] = edit[d]
<1>0. ListsInv /\ EditsInv BY DEF MemoryInv
<1>1. PICK r : r = [pc |-> "loaded", op |-> o, arg |-> x, list |-> memories] OBVIOUS
<1>2. edit' = [edit EXCEPT ![c] = r] /\ ~Held(c) BY <1>1 DEF Loads
<1>3. /\ DOMAIN edit' = Callers
      /\ \A d \in Callers : edit'[d] = IF d = c THEN r ELSE edit[d]
  BY <1>0, <1>2 DEF EditsInv
<1>4. r.pc = "loaded" /\ r.op = o /\ r.arg = x /\ r.list = memories /\ Editing(r, next') BY <1>1
<1>5. \A d \in Callers : Process[d] = Process[c] => edit[d].pc # "loaded" BY <1>2 DEF Held
<1>6. next \in Nat BY <1>0 DEF ListsInv
<1>7. ASSUME NEW d \in Callers, edit'[d].pc = "loaded"
      PROVE  /\ Editing(edit'[d], next')
             /\ \A e \in Callers \ {d} : edit'[e].pc = "loaded" => Process[e] # Process[d]
  <2>1. CASE d = c
    <3>1. \A e \in Callers \ {c} : edit'[e] = edit[e] BY <1>3
    <3> QED BY <1>3, <1>4, <1>5, <2>1, <3>1
  <2>2. CASE d # c
    <3>1. edit'[d] = edit[d] BY <1>3, <2>2
    <3>2. /\ Editing(edit[d], next)
          /\ \A e \in Callers \ {d} : edit[e].pc = "loaded" => Process[e] # Process[d]
      BY <1>0, <1>7, <3>1, EditsAre
    <3>3. Editing(edit[d], next') BY <1>6, <3>2, EditingLater
    <3>4. Process[d] # Process[c] BY <1>5, <1>7, <3>1
    <3> QED BY <1>3, <3>1, <3>2, <3>3, <3>4
  <2> QED BY <2>1, <2>2
<1>8. \A d \in Callers : edit'[d].pc \in {"idle", "loaded"} BY <1>0, <1>3, <1>4, EditsAre
<1>9. EditsInv'
  <2>1. EditsInv' <=>
          /\ DOMAIN edit' = Callers
          /\ \A d \in Callers : edit'[d].pc \in {"idle", "loaded"}
          /\ \A d \in Callers : edit'[d].pc = "loaded" =>
               /\ Editing(edit'[d], next')
               /\ \A e \in Callers \ {d} : edit'[e].pc = "loaded" => Process[e] # Process[d]
    BY DEF EditsInv, Editing
  <2> QED BY <1>3, <1>7, <1>8, <2>1
<1> QED BY <1>3, <1>4, <1>9

LEMMA ListsRest ==
  ASSUME ListsInv, UNCHANGED <<memories, backup, gone>>, kept' \subseteq kept, next' \in Nat \ {0}, next <= next'
  PROVE  ListsInv'
<1>1. PICK n \in Nat \ {0} : n = next BY DEF ListsInv
<1>2. PICK m \in Nat \ {0} : m = next' /\ n <= m BY <1>1
<1>3. kept \subseteq Int /\ gone \subseteq Int /\ \A i \in kept \cup gone : i < n BY <1>1 DEF ListsInv
<1>4. \A i \in kept' \cup gone' : i \in Int /\ i < m BY <1>2, <1>3
<1>5. Stored(memories, m) BY <1>1, <1>2, StoredLater DEF ListsInv
<1>6. backup.whole => IsList(backup.list) /\ Below(backup.list, m) BY <1>1, <1>2, StoredLater DEF ListsInv
<1>7. backup.whole \in BOOLEAN BY DEF ListsInv
<1> QED BY <1>2, <1>4, <1>5, <1>6, <1>7 DEF ListsInv

LEMMA AddStep == ASSUME MemoryInv, NEW c \in Callers, NEW x \in Contents, Add(c, x) PROVE MemoryInv'
<1>0. ListsInv /\ EditsInv /\ LoadedInv /\ MemoriesAreKept BY DEF MemoryInv
<1>1. PICK n \in Nat \ {0} : n = next BY <1>0 DEF ListsInv
<1>2. PICK a : a = [id |-> n, content |-> x] OBVIOUS
<1>3. /\ Loads(c, "add", a) /\ next' = n + 1
      /\ UNCHANGED <<memories, backup, failures, kept, gone, crossed>>
  BY <1>1, <1>2 DEF Add
<1>4. a \in Notes /\ a.id = n BY <1>2, MemoryAssumption DEF Notes
<1>5. Stored(memories, n + 1) /\ Below(memories, n) BY <1>0, <1>1, StoredLater DEF ListsInv, Stored
<1>6. Editing([pc |-> "loaded", op |-> "add", arg |-> a, list |-> memories], n + 1)
  BY <1>4, <1>5 DEF Editing
<1>7. /\ EditsInv'
      /\ edit'[c].list = memories /\ edit'[c].op = "add" /\ edit'[c].arg = a
      /\ \A d \in Callers \ {c} : edit'[d] = edit[d]
  BY <1>1, <1>3, <1>6, LoadStep
<1>8. ListsInv' BY <1>0, <1>1, <1>3, ListsRest
<1>9. n \notin gone
  <2>1. \A i \in gone : i \in Int /\ i < n BY <1>0, <1>1 DEF ListsInv
  <2> QED BY <1>1, <2>1
<1>10. LoadedInv'
  <2>1. ASSUME ~crossed, NEW d \in Callers, edit'[d].pc = "loaded"
        PROVE  /\ edit'[d].list = memories
               /\ edit'[d].op = "add" => edit'[d].arg.id \notin gone
               /\ edit'[d].op = "forget" => edit'[d].arg \notin kept
    <3>1. CASE d = c BY <1>4, <1>7, <1>9, <3>1
    <3>2. CASE d # c
      <4>1. edit'[d] = edit[d] BY <1>7, <3>2
      <4> QED BY <1>0, <2>1, <4>1 DEF LoadedInv
    <3> QED BY <3>1, <3>2
  <2> QED BY <1>3, <2>1 DEF LoadedInv
<1>11. MemoriesAreKept' BY <1>0, <1>3 DEF MemoriesAreKept
<1> QED BY <1>7, <1>8, <1>10, <1>11 DEF MemoryInv

LEMMA ForgetStep == ASSUME MemoryInv, NEW c \in Callers, NEW v, Forget(c, v) PROVE MemoryInv'
<1>0. ListsInv /\ EditsInv /\ LoadedInv /\ MemoriesAreKept BY DEF MemoryInv
<1>1. PICK n \in Nat \ {0} : n = next BY <1>0 DEF ListsInv
<1>3. /\ Loads(c, "forget", v) /\ kept' = kept \ {v} /\ next' = n
      /\ UNCHANGED <<memories, backup, failures, gone, crossed>>
  BY <1>1 DEF Forget
<1>6. Editing([pc |-> "loaded", op |-> "forget", arg |-> v, list |-> memories], n)
  BY <1>0, <1>1 DEF Editing, ListsInv
<1>7. /\ EditsInv'
      /\ edit'[c].list = memories /\ edit'[c].op = "forget" /\ edit'[c].arg = v
      /\ \A d \in Callers \ {c} : edit'[d] = edit[d]
  BY <1>1, <1>3, <1>6, LoadStep
<1>8. ListsInv' BY <1>0, <1>1, <1>3, ListsRest
<1>10. LoadedInv'
  <2>1. ASSUME ~crossed, NEW d \in Callers, edit'[d].pc = "loaded"
        PROVE  /\ edit'[d].list = memories
               /\ edit'[d].op = "add" => edit'[d].arg.id \notin gone
               /\ edit'[d].op = "forget" => edit'[d].arg \notin kept'
    <3>1. CASE d = c BY <1>3, <1>7, <3>1
    <3>2. CASE d # c
      <4>1. edit'[d] = edit[d] BY <1>7, <3>2
      <4> QED BY <1>0, <1>3, <2>1, <4>1 DEF LoadedInv
    <3> QED BY <3>1, <3>2
  <2> QED BY <1>3, <2>1 DEF LoadedInv
<1>11. MemoriesAreKept' BY <1>0, <1>3 DEF MemoriesAreKept
<1> QED BY <1>7, <1>8, <1>10, <1>11 DEF MemoryInv

LEMMA ImportStep ==
  ASSUME MemoryInv, NEW c \in Callers, NEW b \in Decoded \cup {Foreign}, Import(c, b)
  PROVE  MemoryInv'
<1>0. ListsInv /\ EditsInv /\ LoadedInv /\ MemoriesAreKept BY DEF MemoryInv
<1>1. PICK n \in Nat \ {0} : n = next BY <1>0 DEF ListsInv
<1>2. IsList(b) /\ Below(b, n)
  <2>1. CASE b \in Decoded BY <1>0, <1>1, <2>1 DEF Decoded, ListsInv
  <2>2. CASE b = Foreign
    <3>1. IsList(Foreign) /\ Below(Foreign, 0) BY MemoryAssumption DEF Below
    <3> QED BY <1>1, <2>2, <3>1, StoredLater
  <2> QED BY <2>1, <2>2
<1>3. /\ Loads(c, "import", b) /\ next' = n
      /\ UNCHANGED <<memories, backup, failures, kept, gone, crossed>>
  BY <1>1 DEF Import
<1>6. Editing([pc |-> "loaded", op |-> "import", arg |-> b, list |-> memories], n)
  BY <1>0, <1>1, <1>2 DEF Editing, ListsInv
<1>7. /\ EditsInv'
      /\ edit'[c].list = memories /\ edit'[c].op = "import" /\ edit'[c].arg = b
      /\ \A d \in Callers \ {c} : edit'[d] = edit[d]
  BY <1>1, <1>3, <1>6, LoadStep
<1>8. ListsInv' BY <1>0, <1>1, <1>3, ListsRest
<1>10. LoadedInv'
  <2>1. ASSUME ~crossed, NEW d \in Callers, edit'[d].pc = "loaded"
        PROVE  /\ edit'[d].list = memories
               /\ edit'[d].op = "add" => edit'[d].arg.id \notin gone
               /\ edit'[d].op = "forget" => edit'[d].arg \notin kept
    <3>1. CASE d = c BY <1>7, <3>1
    <3>2. CASE d # c
      <4>1. edit'[d] = edit[d] BY <1>7, <3>2
      <4> QED BY <1>0, <2>1, <4>1 DEF LoadedInv
    <3> QED BY <3>1, <3>2
  <2> QED BY <1>3, <2>1 DEF LoadedInv
<1>11. MemoriesAreKept' BY <1>0, <1>3 DEF MemoriesAreKept
<1> QED BY <1>7, <1>8, <1>10, <1>11 DEF MemoryInv

\* Operations that end, with or without a save, leave the others as they are.
LEMMA EditsEnd ==
  ASSUME EditsInv, next' = next, DOMAIN edit' = Callers,
         \A c \in Callers : edit'[c] = edit[c] \/ edit'[c] = NoEdit
  PROVE  EditsInv'
<1>1. NoEdit.pc = "idle" BY DEF NoEdit
<1>2. \A c \in Callers : edit'[c].pc = "loaded" => edit'[c] = edit[c] BY <1>1
<1>3. \A c \in Callers : edit'[c].pc \in {"idle", "loaded"} BY <1>1, EditsAre
<1>4. \A c \in Callers : edit'[c].pc = "loaded" =>
        /\ Editing(edit'[c], next')
        /\ \A d \in Callers \ {c} : edit'[d].pc = "loaded" => Process[d] # Process[c]
  BY <1>2, EditsAre
<1>5. EditsInv' <=>
        /\ DOMAIN edit' = Callers
        /\ \A d \in Callers : edit'[d].pc \in {"idle", "loaded"}
        /\ \A d \in Callers : edit'[d].pc = "loaded" =>
             /\ Editing(edit'[d], next')
             /\ \A e \in Callers \ {d} : edit'[e].pc = "loaded" => Process[e] # Process[d]
  BY DEF EditsInv, Editing
<1> QED BY <1>3, <1>4, <1>5

LEMMA LoadedRests ==
  ASSUME LoadedInv, UNCHANGED <<memories, kept, gone, crossed>>,
         \A c \in Callers : edit'[c] = edit[c] \/ edit'[c] = NoEdit
  PROVE  LoadedInv'
<1>1. NoEdit.pc = "idle" BY DEF NoEdit
<1>2. \A c \in Callers : edit'[c].pc = "loaded" => edit'[c] = edit[c] BY <1>1
<1> QED BY <1>2 DEF LoadedInv

LEMMA NothingStep == ASSUME MemoryInv, NEW c \in Callers, Nothing(c) PROVE MemoryInv'
<1>0. ListsInv /\ EditsInv /\ LoadedInv /\ MemoriesAreKept BY DEF MemoryInv
<1>1. /\ edit' = [edit EXCEPT ![c] = NoEdit]
      /\ UNCHANGED <<memories, backup, next, ops, failures, kept, gone, crossed>>
  BY DEF Nothing
<1>2. DOMAIN edit' = Callers /\ \A d \in Callers : edit'[d] = edit[d] \/ edit'[d] = NoEdit
  BY <1>0, <1>1 DEF EditsInv
<1>3. EditsInv' BY <1>0, <1>1, <1>2, EditsEnd
<1>4. LoadedInv' BY <1>0, <1>1, <1>2, LoadedRests
<1>5. ListsInv' /\ MemoriesAreKept' BY <1>0, <1>1 DEF ListsInv, MemoriesAreKept
<1> QED BY <1>3, <1>4, <1>5 DEF MemoryInv

LEMMA SaveFailsStep == ASSUME MemoryInv, NEW c \in Callers, SaveFails(c) PROVE MemoryInv'
<1>0. ListsInv /\ EditsInv /\ LoadedInv /\ MemoriesAreKept BY DEF MemoryInv
<1>1. PICK who : edit' = [d \in Callers |-> IF d \in who THEN NoEdit ELSE edit[d]] BY DEF SaveFails
<1>2. UNCHANGED <<memories, backup, next, ops, kept, gone, crossed>> BY DEF SaveFails
<1>3. DOMAIN edit' = Callers /\ \A d \in Callers : edit'[d] = edit[d] \/ edit'[d] = NoEdit BY <1>1
<1>4. EditsInv' BY <1>0, <1>2, <1>3, EditsEnd
<1>5. LoadedInv' BY <1>0, <1>2, <1>3, LoadedRests
<1>6. ListsInv' /\ MemoriesAreKept' BY <1>0, <1>2 DEF ListsInv, MemoriesAreKept
<1> QED BY <1>4, <1>5, <1>6 DEF MemoryInv

LEMMA ExportStep == ASSUME MemoryInv, NEW c \in Callers, Export(c) PROVE MemoryInv'
<1>0. ListsInv /\ EditsInv /\ LoadedInv /\ MemoriesAreKept BY DEF MemoryInv
<1>1. /\ \/ backup' = [whole |-> TRUE, list |-> InOrder(memories)]
         \/ backup' = [whole |-> FALSE, list |-> <<>>]
      /\ UNCHANGED <<memories, edit, next, kept, gone, crossed>>
  BY DEF Export
<1>2. PICK n \in Nat \ {0} : n = next BY <1>0 DEF ListsInv
<1>3. IsList(memories) /\ Below(memories, n) BY <1>0, <1>2 DEF ListsInv, Stored
<1>4. IsList(InOrder(memories)) /\ Below(InOrder(memories), n) BY <1>2, <1>3, InOrderIs
<1>5. backup'.whole \in BOOLEAN /\ (backup'.whole => IsList(backup'.list) /\ Below(backup'.list, n))
  <2>1. CASE backup' = [whole |-> TRUE, list |-> InOrder(memories)] BY <1>4, <2>1
  <2>2. CASE backup' = [whole |-> FALSE, list |-> <<>>] BY <2>2
  <2> QED BY <1>1, <2>1, <2>2
<1>6. ListsInv' BY <1>0, <1>1, <1>2, <1>5 DEF ListsInv
<1>7. EditsInv' BY <1>0, <1>1 DEF EditsInv
<1>8. LoadedInv' /\ MemoriesAreKept' BY <1>0, <1>1 DEF LoadedInv, MemoriesAreKept
<1> QED BY <1>6, <1>7, <1>8 DEF MemoryInv

\* A save; if no other process has its list, nobody else has one.
LEMMA SaveStep == ASSUME MemoryInv, NEW c \in Callers, Save(c) PROVE MemoryInv'
<1>0. ListsInv /\ EditsInv /\ LoadedInv /\ MemoriesAreKept BY DEF MemoryInv
<1>1. PICK n \in Nat \ {0} : n = next BY <1>0 DEF ListsInv
<1>2. PICK k : k = edit[c] OBVIOUS
<1>3. PICK s : s = k.list OBVIOUS
<1>4. PICK a : a = k.arg OBVIOUS
<1>5. /\ k.pc = "loaded" /\ memories' = Result(k) /\ edit' = [edit EXCEPT ![c] = NoEdit]
      /\ crossed' = (crossed \/ \E d \in Callers : Process[d] # Process[c] /\ edit[d].pc = "loaded")
      /\ UNCHANGED <<backup, next, ops, failures>>
  BY <1>2 DEF Save
<1>6. Editing(k, n) BY <1>0, <1>1, <1>2, <1>5, EditsAre
<1>7. Stored(s, n) /\ k.op \in {"add", "forget", "import"} BY <1>3, <1>6 DEF Editing
<1>8. PICK t : t = memories' OBVIOUS
<1>9. /\ Stored(t, n)
      /\ \A i \in kept' \cup gone' : i \in Int /\ i < n
      /\ ~crossed => kept' \subseteq IdsOf(t) /\ gone' \cap IdsOf(t) = {}
  <2>1. \A i \in kept \cup gone : i \in Int /\ i < n BY <1>0, <1>1 DEF ListsInv
  <2>2. ~crossed => /\ kept \subseteq IdsOf(s) /\ gone \cap IdsOf(s) = {}
                    /\ k.op = "add" => a.id \notin gone
                    /\ k.op = "forget" => a \notin kept
    BY <1>0, <1>2, <1>3, <1>4, <1>5 DEF LoadedInv, MemoriesAreKept
  <2>3. CASE k.op = "add"
    <3>1. t = Append(s, a) /\ kept' = kept \cup {a.id} /\ gone' = gone
      BY <1>2, <1>3, <1>4, <1>5, <1>8, <2>3 DEF Result, Save
    <3>2. a \in Notes /\ a.id \in 1 .. n - 1 /\ Below(s, a.id) BY <1>3, <1>4, <1>6, <2>3 DEF Editing
    <3>3. Stored(t, n) /\ IdsOf(t) = IdsOf(s) \cup {a.id} BY <1>7, <3>1, <3>2, AddedIs
    <3>4. a.id \in Int /\ a.id < n BY <3>2
    <3> QED BY <2>1, <2>2, <2>3, <3>1, <3>3, <3>4
  <2>4. CASE k.op = "forget"
    <3>1. t = Without(s, a) /\ gone' = gone \cup {a} /\ kept' = kept
      BY <1>2, <1>3, <1>4, <1>5, <1>8, <2>4 DEF Result, Save
    <3>2. Stored(t, n) /\ IdsOf(t) = IdsOf(s) \ {a} BY <1>7, <3>1, WithoutIs
    <3>3. a \in IdsOf(s)
      <4>1. t # s BY <1>2, <1>3, <1>8 DEF Save
      <4>2. IsList(s) BY <1>7 DEF Stored
      <4> QED BY <3>1, <4>1, <4>2, NoneIsTaken
    <3>4. a \in Int /\ a < n BY <1>7, <3>3, ListTyped, Members DEF Stored, Below
    <3> QED BY <2>1, <2>2, <2>4, <3>1, <3>2, <3>4
  <2>5. CASE k.op = "import"
    <3>1. t = s \o Taken(s, a) /\ kept' = kept \cup IdsOf(Taken(s, a)) /\ gone' = gone \ IdsOf(Taken(s, a))
      BY <1>2, <1>3, <1>4, <1>5, <1>8, <2>5 DEF Result, Save
    <3>2. IsList(a) /\ Below(a, n) BY <1>4, <1>6, <2>5 DEF Editing
    <3>3. /\ Stored(t, n) /\ IdsOf(t) = IdsOf(s) \cup IdsOf(Taken(s, a))
          /\ \A v \in IdsOf(Taken(s, a)) : v \in Int /\ v < n
      BY <1>7, <3>1, <3>2, ImportedIs
    <3> QED BY <2>1, <2>2, <3>1, <3>3
  <2> QED BY <1>7, <2>3, <2>4, <2>5
<1>10. ListsInv'
  <2>1. backup.whole \in BOOLEAN /\ (backup.whole => IsList(backup.list) /\ Below(backup.list, n))
    BY <1>0, <1>1 DEF ListsInv
  <2> QED BY <1>1, <1>5, <1>8, <1>9, <2>1 DEF ListsInv
<1>11. DOMAIN edit' = Callers /\ \A d \in Callers : edit'[d] = IF d = c THEN NoEdit ELSE edit[d]
  BY <1>0, <1>5 DEF EditsInv
<1>12. EditsInv' BY <1>0, <1>5, <1>11, EditsEnd
<1>13. ~crossed' => ~crossed /\ \A d \in Callers : edit'[d].pc # "loaded"
  <2>1. NoEdit.pc = "idle" BY DEF NoEdit
  <2>2. \A d \in Callers \ {c} : edit[d].pc = "loaded" => Process[d] # Process[c]
    BY <1>0, <1>2, <1>5, EditsAre
  <2> QED BY <1>5, <1>11, <2>1, <2>2
<1>14. LoadedInv' BY <1>13 DEF LoadedInv
<1>15. MemoriesAreKept' BY <1>8, <1>9, <1>13 DEF MemoriesAreKept
<1> QED BY <1>10, <1>12, <1>14, <1>15 DEF MemoryInv

LEMMA MemoryStutter == ASSUME MemoryInv, UNCHANGED memoryVars PROVE MemoryInv'
<1>0. ListsInv /\ EditsInv /\ LoadedInv /\ MemoriesAreKept BY DEF MemoryInv
<1>1. UNCHANGED <<memories, edit, backup, next, ops, failures, kept, gone, crossed>> BY DEF memoryVars
<1>2. ListsInv' BY <1>0, <1>1 DEF ListsInv
<1>3. EditsInv' BY <1>0, <1>1 DEF EditsInv
<1>4. LoadedInv' /\ MemoriesAreKept' BY <1>0, <1>1 DEF LoadedInv, MemoriesAreKept
<1> QED BY <1>2, <1>3, <1>4 DEF MemoryInv

LEMMA MemoryStart == ASSUME MemoryInit PROVE MemoryInv
<1>1. /\ memories = <<>> /\ edit = [c \in Callers |-> NoEdit] /\ backup = [whole |-> FALSE, list |-> <<>>]
      /\ next = 1 /\ kept = {} /\ gone = {} /\ crossed = FALSE
  BY DEF MemoryInit
<1>2. memories \in Seq(Notes) /\ DOMAIN memories = {} BY <1>1
<1>3. Stored(memories, 1) BY <1>2 DEF Stored, IsList, Below
<1>4. ListsInv BY <1>1, <1>3 DEF ListsInv
<1>5. \A c \in Callers : edit[c].pc = "idle" BY <1>1 DEF NoEdit
<1>6. EditsInv BY <1>1, <1>5 DEF EditsInv
<1>7. LoadedInv /\ MemoriesAreKept BY <1>1, <1>5 DEF LoadedInv, MemoriesAreKept
<1> QED BY <1>4, <1>6, <1>7 DEF MemoryInv

LEMMA MemoryNextStep == ASSUME MemoryInv, [MemoryNext]_memoryVars PROVE MemoryInv'
BY AddStep, ForgetStep, ImportStep, NothingStep, SaveStep, SaveFailsStep, ExportStep, MemoryStutter
   DEF MemoryNext

\* The invariant of the curated memories, for any callers in any processes, contents and
\* foreign backups, and any number of operations and failures (memory.go, memory_backup.go).
THEOREM MemoryInductive == MemorySpec => []MemoryInv
<1>1. MemoryInit => MemoryInv BY MemoryStart
<1>2. MemoryInv /\ [MemoryNext]_memoryVars => MemoryInv' BY MemoryNextStep
<1> QED BY <1>1, <1>2, PTL DEF MemorySpec

\* A memory whose addition was reported is kept until its removal is asked for, a removed
\* one does not come back but by an import, and an import adds no id or content twice
\* (AddMemory, ForgetMemory, ImportMemoryBackup).
THEOREM MemoriesStaySound == MemorySpec => []MemoriesAreSound
<1>1. ASSUME MemoryInv PROVE MemoriesAreSound
  <2>1. Stored(memories, next) /\ MemoriesAreKept BY <1>1 DEF MemoryInv, ListsInv
  <2>2. ImportsAddNoDuplicates BY <2>1 DEF Stored, IsList, ImportsAddNoDuplicates
  <2> QED BY <2>1, <2>2 DEF MemoriesAreSound
<1> QED BY <1>1, MemoryInductive, PTL

-----------------------------------------------------------------------------
(* PeggySetup. *)

LEMMA TheSettings ==
  ASSUME SettingsInv, settings # {}
  PROVE  Current \in settings /\ \A s \in settings : s = Current
<1>1. PICK s \in settings : TRUE OBVIOUS
<1>2. \A t \in settings : t = s BY <1>1 DEF SettingsInv
<1>3. Current \in settings BY <1>1 DEF Current
<1> QED BY <1>2, <1>3

\* The defaults leave the tiers as they are.
LEMMA DefaultsKeep ==
  ASSUME NEW f \in Files
  PROVE  /\ FillDefaults(f).tiers = f.tiers
         /\ FillDefaults(f).default = Or(f.default, "prompt")
<1>1. {"tiers", "default"} \subseteq DOMAIN f BY SetupAssumption
<1> QED BY <1>1 DEF FillDefaults

\* What the two fillings-in of the defaults keep.
LEMMA LoadedKeeps ==
  ASSUME NEW f \in Files, NEW t
  PROVE  LET s == WithFlags([Loaded(f) EXCEPT !.tiers = t])
         IN  /\ s.tiers = t /\ s.default = Or(f.default, "prompt")
             /\ s.remember # "" <=> f.remember # "off"
             /\ s.schedules # "off" <=> f.schedules # "off"
<1> DEFINE d == FillDefaults(f)
           l == Loaded(f)
           m == [l EXCEPT !.tiers = t]
           s == WithFlags(m)
           fields == {"tiers", "default", "remember", "schedules", "coding"}
<1>1. fields \subseteq DOMAIN f BY SetupAssumption
<1>2. /\ fields \subseteq DOMAIN d
      /\ d.remember = IF f.remember = "" THEN "default" ELSE f.remember
      /\ d.schedules = IF f.schedules = "" THEN "default" ELSE f.schedules
  BY <1>1 DEF FillDefaults, Or
<1>7. d.default = Or(f.default, "prompt") BY DefaultsKeep
<1>3. /\ fields \subseteq DOMAIN l /\ l.schedules = d.schedules /\ l.default = d.default
      /\ l.remember = IF d.remember = "off" THEN "" ELSE d.remember
  <2>1. l = [d EXCEPT !.remember = IF d.remember = "off" THEN "" ELSE d.remember] BY <1>2 DEF Loaded, Disable
  <2> HIDE DEF l, d
  <2> QED BY <2>1, <1>2
<1> HIDE DEF l, d
<1>4. /\ fields \subseteq DOMAIN m /\ m.tiers = t /\ m.remember = l.remember /\ m.schedules = l.schedules
      /\ m.default = l.default
  BY <1>3
<1> HIDE DEF m
<1>5. s.tiers = t /\ s.remember = l.remember /\ s.schedules = l.schedules /\ s.default = l.default
  BY <1>4 DEF WithFlags
<1> HIDE DEF s
<1>6. /\ s.tiers = t /\ s.default = Or(f.default, "prompt")
      /\ s.remember # "" <=> f.remember # "off"
      /\ s.schedules # "off" <=> f.schedules # "off"
  BY <1>2, <1>3, <1>5, <1>7
<1> QED BY <1>6 DEF s, m, l

LEMMA BlankTiers == WithFlags(FillDefaults(Blank)).tiers = {} /\ WithFlags(FillDefaults(Blank)).default = "prompt"
<1> DEFINE d == FillDefaults(Blank)
           fields == {"tiers", "default", "remember", "schedules", "coding"}
<1>1. fields \subseteq DOMAIN Blank /\ Blank.tiers = {} /\ Blank.default = "" BY DEF Blank, File
<1>2. fields \subseteq DOMAIN d /\ d.tiers = {} /\ d.default = "prompt" BY <1>1 DEF FillDefaults, Or
<1> HIDE DEF d
<1>3. WithFlags(d).tiers = {} /\ WithFlags(d).default = "prompt" BY <1>2 DEF WithFlags
<1> QED BY <1>3 DEF d

LEMMA SetupStarts == ASSUME SetupInit PROVE SetupInv
<1>1. file \in {{}} \cup {{f} : f \in Files} /\ settings = {} /\ open = {} /\ stage = "idle" /\ why = "none"
  BY DEF SetupInit
<1> QED BY <1>1 DEF SetupInv, SetupTypeOK, SettingsInv, OpenInv, DoctorIsRight

\* A step that leaves the settings and what follows from them.
LEMMA SetupStutter == ASSUME SetupInv, UNCHANGED setupVars PROVE SetupInv'
<1>1. UNCHANGED <<file, soul, login, flag, faults, command, stage, settings, open, asker, ready, why, exitCode>>
  BY DEF setupVars
<1>2. SetupTypeOK' BY <1>1 DEF SetupInv, SetupTypeOK
<1>3. SettingsInv' BY <1>1 DEF SetupInv, SettingsInv
<1>4. Current' = Current BY <1>1 DEF Current
<1>5. OpenInv' BY <1>1, <1>4 DEF SetupInv, OpenInv, HasTools, Tier, Channel, Schedules
<1>6. DoctorIsRight' BY <1>1, <1>4 DEF SetupInv, DoctorIsRight, Ready, Credentials
<1> QED BY <1>1, <1>2, <1>3, <1>5, <1>6 DEF SetupInv

LEMMA StartCommandStep ==
  ASSUME SetupInv, NEW c \in {"doctor", "status"} \cup Agents, StartCommand(c) PROVE SetupInv'
<1>1. /\ stage = "idle" /\ stage' = "load"
      /\ UNCHANGED <<file, soul, login, flag, faults, settings, open, asker, ready, why, exitCode>>
  BY DEF StartCommand
<1>2. SetupTypeOK' BY <1>1 DEF SetupInv, SetupTypeOK
<1>3. SettingsInv' BY <1>1 DEF SetupInv, SettingsInv
<1>4. OpenInv' BY <1>1 DEF SetupInv, OpenInv
<1>5. DoctorIsRight' BY <1>1, <1>4 DEF OpenInv, DoctorIsRight
<1> QED BY <1>1, <1>2, <1>3, <1>4, <1>5 DEF SetupInv

LEMMA LoadSettingsStep == ASSUME SetupInv, Load PROVE SetupInv'
<1>1. /\ stage = "load" /\ UNCHANGED <<file, soul, login, flag, faults, command, open, asker, ready, why>>
  BY DEF Load
<1>2. settings = {} /\ open = {} /\ why = "none" /\ SetupTypeOK
  BY <1>1 DEF SetupInv, SettingsInv, OpenInv
<1>3. CASE stage' = "done" /\ UNCHANGED settings
  <2>1. SetupTypeOK' BY <1>1, <1>2, <1>3 DEF SetupTypeOK
  <2>2. SettingsInv' BY <1>2, <1>3 DEF SettingsInv
  <2>3. OpenInv' /\ DoctorIsRight' BY <1>1, <1>2, <1>3 DEF OpenInv, DoctorIsRight
  <2> QED BY <1>1, <1>2, <2>1, <2>2, <2>3 DEF SetupInv
<1>4. CASE /\ stage' = "loaded" /\ \A f \in file : TiersValid(FillDefaults(f))
           /\ \/ file = {} /\ settings' = {WithFlags(FillDefaults(Blank))}
              \/ \E f \in file : \E t \in Normalized(f.tiers) : settings' = {WithFlags([Loaded(f) EXCEPT !.tiers = t])}
  <2>1. \E s : settings' = {s} /\ (\A f \in file : Keeps(s, f)) /\ (file = {} => s.tiers = {} /\ s.default = "prompt")
    <3>1. CASE file = {} /\ settings' = {WithFlags(FillDefaults(Blank))} BY <3>1, BlankTiers
    <3>2. CASE \E f \in file : \E t \in Normalized(f.tiers) : settings' = {WithFlags([Loaded(f) EXCEPT !.tiers = t])}
      <4>1. PICK f \in file : \E t \in Normalized(f.tiers) : settings' = {WithFlags([Loaded(f) EXCEPT !.tiers = t])}
        BY <3>2
      <4>2. PICK t \in Normalized(f.tiers) : settings' = {WithFlags([Loaded(f) EXCEPT !.tiers = t])} BY <4>1
      <4>3. f \in Files /\ \A g \in file : g = f BY <1>2 DEF SetupTypeOK
      <4> DEFINE s == WithFlags([Loaded(f) EXCEPT !.tiers = t])
      <4>5. /\ s.tiers = t /\ s.default = Or(f.default, "prompt")
            /\ s.remember # "" <=> f.remember # "off"
            /\ s.schedules # "off" <=> f.schedules # "off"
        BY <4>3, LoadedKeeps
      <4> HIDE DEF s
      <4>8. ValidTier(s.default) /\ \A c \in f.tiers : ValidTier(c.tier)
        BY <1>4, <4>3, <4>5, DefaultsKeep DEF TiersValid
      <4>6. Keeps(s, f) BY <4>2, <4>5, <4>8 DEF Keeps
      <4>7. settings' = {s} BY <4>2 DEF s
      <4> QED BY <4>3, <4>5, <4>6, <4>7
    <3> QED BY <1>4, <3>1, <3>2
  <2>2. PICK s : settings' = {s} /\ (\A f \in file : Keeps(s, f)) /\ (file = {} => s.tiers = {} /\ s.default = "prompt")
    BY <2>1
  <2>3. SetupTypeOK' BY <1>1, <1>2, <2>2 DEF SetupTypeOK
  <2>4. SettingsInv'
    <3>1. settings' # {} /\ \A t, u \in settings' : t = u BY <2>2
    <3>2. \A t \in settings', f \in file' : Keeps(t, f) BY <1>1, <2>2
    <3>3. \A t \in settings' : file' = {} => t.tiers = {} /\ t.default = "prompt" BY <1>1, <2>2
    <3> QED BY <1>4, <3>1, <3>2, <3>3 DEF SettingsInv
  <2>5. OpenInv' /\ DoctorIsRight' BY <1>1, <1>2, <1>4 DEF OpenInv, DoctorIsRight
  <2> QED BY <1>1, <1>4, <2>3, <2>4, <2>5 DEF SetupInv
<1>5. \/ stage' = "done" /\ UNCHANGED settings
      \/ /\ stage' = "loaded" /\ \A f \in file : TiersValid(FillDefaults(f))
         /\ \/ file = {} /\ settings' = {WithFlags(FillDefaults(Blank))}
            \/ \E f \in file : \E t \in Normalized(f.tiers) : settings' = {WithFlags([Loaded(f) EXCEPT !.tiers = t])}
  BY DEF Load, LeaveSetup
<1> QED BY <1>3, <1>4, <1>5

\* Doctor and Status end with what they started with.
LEMMA CheckStep == ASSUME SetupInv, Doctor \/ Status PROVE SetupInv'
<1>1. /\ stage = "loaded" /\ stage' = "done" /\ UNCHANGED <<file, settings, open, why>>
  BY DEF Doctor, Status, LeaveSetup
<1>2. open = {} /\ why = "none" BY <1>1 DEF SetupInv, OpenInv
<1>3. SetupTypeOK' BY <1>1 DEF SetupInv, SetupTypeOK
<1>4. SettingsInv' BY <1>1 DEF SetupInv, SettingsInv
<1> QED BY <1>1, <1>2, <1>3, <1>4 DEF SetupInv, OpenInv, DoctorIsRight

\* Where New refuses what the doctor passes.
LEMMA StoreRefused ==
  ASSUME ~StoreKnown(Current), Ready(Current)
  PROVE  Current.spelled = "spaced" /\ Or(Current.store, "sqlite") = "sqlite"
<1>1. Current.path /\ Or(Current.store, "sqlite") = "sqlite" BY DEF Ready, StoreHolds
<1> QED BY <1>1 DEF StoreKnown, StoreType

LEMMA BuildPeggyStep == ASSUME SetupInv, Build PROVE SetupInv'
<1>1. /\ stage = "loaded" /\ command \in Agents /\ AsksUser
      /\ UNCHANGED <<file, soul, login, flag, faults, command, settings, ready>>
  BY DEF Build
<1>2. open = {} /\ why = "none" /\ settings # {} BY <1>1 DEF SetupInv, OpenInv, SettingsInv
<1>3. Current' = Current BY <1>1 DEF Current
<1> DEFINE stored == Grants \cup IF StoreType(Current) = "sqlite" THEN {"store"} ELSE {}
           excused == \/ ~Ready(Current)
                      \/ Current.spelled = "spaced" /\ Or(Current.store, "sqlite") = "sqlite"
                      \/ Current.servers = "unnamed"
<1>4. \/ /\ stage' = "done" /\ why' \in {"settings", "world"} /\ open' \subseteq {"grants", "store"}
         /\ why' = "settings" => excused
      \/ /\ stage' = "built" /\ why' = why
         /\ open' \subseteq Grants \cup {"store", "servers"} /\ Grants \subseteq open'
  <2>1. Grants \subseteq {"grants"} /\ stored \subseteq {"grants", "store"} BY DEF Grants
  <2> HIDE DEF stored
  <2>2. CASE /\ ~KnownProvider(Current) \/ ~StoreKnown(Current)
             /\ Opens(Grants) /\ why' = "settings" /\ LeaveSetup(1)
    <3>1. open' \subseteq {"grants", "store"} /\ stage' = "done" /\ why' = "settings"
      BY <1>2, <2>1, <2>2 DEF Opens, LeaveSetup
    <3>2. ~KnownProvider(Current) => ~Ready(Current) BY DEF Ready
    <3>3. excused BY <2>2, <3>2, StoreRefused
    <3> QED BY <3>1, <3>3
  <2>3. CASE Opens(Grants) /\ why' = "world" /\ LeaveSetup(1)
    BY <1>2, <2>1, <2>3 DEF Opens, LeaveSetup
  <2>4. CASE /\ Current.coding = "missing" \/ ~ServersKnown(Current)
             /\ Opens(stored) /\ why' = "settings" /\ LeaveSetup(1)
    <3>1. open' \subseteq {"grants", "store"} /\ stage' = "done" /\ why' = "settings"
      BY <1>2, <2>1, <2>4 DEF Opens, LeaveSetup
    <3>2. Ready(Current) => Current.coding # "missing" /\ Current.servers # "bad"
      BY DEF Ready, CodingHolds, ServersHold
    <3>3. excused BY <2>4, <3>2 DEF ServersKnown
    <3> QED BY <3>1, <3>3
  <2>5. CASE Opens(stored) /\ why' = "world" /\ LeaveSetup(1)
    BY <1>2, <2>1, <2>5 DEF Opens, LeaveSetup
  <2>6. CASE /\ Opens(stored \cup IF Current.servers = "good" THEN {"servers"} ELSE {})
             /\ stage' = "built" /\ UNCHANGED <<why, exitCode>>
    BY <1>2, <2>6 DEF Opens, stored
  <2>7. \/ /\ ~KnownProvider(Current) \/ ~StoreKnown(Current)
           /\ Opens(Grants) /\ why' = "settings" /\ LeaveSetup(1)
        \/ Opens(Grants) /\ why' = "world" /\ LeaveSetup(1)
        \/ /\ Current.coding = "missing" \/ ~ServersKnown(Current)
           /\ Opens(stored) /\ why' = "settings" /\ LeaveSetup(1)
        \/ Opens(stored) /\ why' = "world" /\ LeaveSetup(1)
        \/ /\ Opens(stored \cup IF Current.servers = "good" THEN {"servers"} ELSE {})
           /\ stage' = "built" /\ UNCHANGED <<why, exitCode>>
    BY Zenon DEF Build, stored
  <2> HIDE DEF excused
  <2> QED BY <2>2, <2>3, <2>4, <2>5, <2>6, <2>7
<1>5. SetupTypeOK'
  <2>1. Grants \subseteq {"grants"} BY DEF Grants
  <2>2. open' \subseteq {"store", "servers", "scheduler", "grants"} BY <1>4, <2>1
  <2> QED BY <1>1, <2>2 DEF SetupInv, SetupTypeOK
<1>6. SettingsInv' BY <1>1, <1>2, <1>4 DEF SetupInv, SettingsInv
<1>7. DoctorIsRight'
  <2>1. SUFFICES ASSUME why' = "settings" PROVE DoctorIsRight' BY DEF DoctorIsRight
  <2>2. excused BY <1>2, <1>4, <2>1
  <2>3. Ready(Current)' = Ready(Current) BY <1>1, <1>3 DEF Ready, Credentials
  <2> QED BY <1>3, <2>2, <2>3 DEF DoctorIsRight
<1> HIDE DEF excused
<1>8. OpenInv'
  <2>1. SUFFICES ASSUME stage' = "built" PROVE OpenInv' BY <1>4 DEF OpenInv
  <2>2. why' = "none" /\ open' \subseteq Grants \cup {"store", "servers"} /\ Grants \subseteq open' BY <1>2, <1>4, <2>1
  <2>3. command' = "serve" => ("grants" \in open' <=> Current'.remember # "") BY <1>1, <1>3, <2>2 DEF Grants
  <2>4. command' # "serve" => asker' = IF HasTools' THEN Tier(Channel)' ELSE "none"
    BY <1>1, <1>3 DEF AsksUser, HasTools, Tier, Channel
  <2>5. "scheduler" \notin open' BY <2>2 DEF Grants
  <2> QED BY <2>1, <2>2, <2>3, <2>4, <2>5 DEF OpenInv
<1> QED BY <1>2, <1>4, <1>5, <1>6, <1>7, <1>8 DEF SetupInv

LEMMA RunCommandStep == ASSUME SetupInv, Run PROVE SetupInv'
<1>1. /\ stage = "built"
      /\ UNCHANGED <<file, soul, login, flag, faults, command, settings, asker, ready, why>>
  BY DEF Run
<1>2. Current' = Current BY <1>1 DEF Current
<1>3. /\ open \subseteq {"store", "servers", "scheduler", "grants"} /\ "scheduler" \notin open /\ why = "none"
  BY <1>1 DEF SetupInv, SetupTypeOK, OpenInv
<1>4. \/ open' = open \ (Closed \cup {"grants"}) /\ stage' = "done"
      \/ /\ stage' = "running"
         /\ open' = open \cup IF command = "serve" /\ Schedules THEN {"scheduler"} ELSE {}
  BY DEF Run, LeaveSetup
<1>5. SetupTypeOK' BY <1>1, <1>3, <1>4 DEF SetupInv, SetupTypeOK
<1>6. SettingsInv' BY <1>1, <1>4 DEF SetupInv, SettingsInv
<1>7. DoctorIsRight' BY <1>1, <1>3 DEF DoctorIsRight
<1>8. CASE open' = open \ (Closed \cup {"grants"}) /\ stage' = "done"
  <2>1. open' = {} BY <1>3, <1>8 DEF Closed
  <2> QED BY <1>5, <1>6, <1>7, <1>8, <2>1 DEF SetupInv, OpenInv
<1>9. CASE /\ stage' = "running"
           /\ open' = open \cup IF command = "serve" /\ Schedules THEN {"scheduler"} ELSE {}
  <2>1. OpenInv' BY <1>1, <1>2, <1>3, <1>9 DEF SetupInv, OpenInv, HasTools, Tier, Channel, Schedules
  <2> QED BY <1>5, <1>6, <1>7, <1>9, <2>1 DEF SetupInv
<1> QED BY <1>4, <1>8, <1>9

LEMMA BreaksStep == ASSUME SetupInv, Breaks PROVE SetupInv'
<1>1. UNCHANGED <<file, soul, login, flag, command, stage, settings, open, asker, ready, why, exitCode>>
  BY DEF Breaks
<1>2. Current' = Current BY <1>1 DEF Current
<1>3. SetupTypeOK' BY <1>1 DEF SetupInv, SetupTypeOK
<1>4. SettingsInv' BY <1>1 DEF SetupInv, SettingsInv
<1>5. OpenInv' BY <1>1, <1>2 DEF SetupInv, OpenInv, HasTools, Tier, Channel, Schedules
<1>6. DoctorIsRight' BY <1>1, <1>2 DEF SetupInv, DoctorIsRight, Ready, Credentials
<1> QED BY <1>1, <1>3, <1>4, <1>5, <1>6 DEF SetupInv

LEMMA EndCommandStep == ASSUME SetupInv, NEW code, EndCommand(code) PROVE SetupInv'
<1>1. /\ stage = "running" /\ stage' = "done" /\ open' = open \ (Closed \cup {"scheduler", "grants"})
      /\ UNCHANGED <<file, soul, login, flag, faults, command, settings, asker, ready, why>>
  BY DEF EndCommand, LeaveSetup
<1>2. why = "none" BY <1>1 DEF SetupInv, OpenInv
<1>3. SetupTypeOK' /\ open' = {} BY <1>1 DEF SetupInv, SetupTypeOK, Closed
<1>4. SettingsInv' BY <1>1 DEF SetupInv, SettingsInv
<1> QED BY <1>1, <1>2, <1>3, <1>4 DEF SetupInv, OpenInv, DoctorIsRight

\* The settings are those of the file until the end, and what is open and who is
\* asked follow from them, for any settings files (LoadSettings, New, Close).
THEOREM SetupInductive == SetupSpec => []SetupInv
<1>1. SetupInit => SetupInv BY SetupStarts
<1>2. SetupInv /\ [SetupNext]_setupVars => SetupInv'
  BY StartCommandStep, LoadSettingsStep, CheckStep, BuildPeggyStep, RunCommandStep, BreaksStep, EndCommandStep, SetupStutter DEF SetupNext
<1> QED BY <1>1, <1>2, PTL DEF SetupSpec

\* The tier of a channel is one the file gives it.
LEMMA TierIsOwn ==
  ASSUME SetupTypeOK, SettingsInv, settings # {}, NEW f \in file, NEW channel, NEW c \in f.tiers, c.channel = channel
  PROVE  \E d \in f.tiers : d.channel = channel /\ d.tier = Tier(channel)
<1> DEFINE own == {d \in Current.tiers : d.channel = channel}
<1>1. Current.tiers \in Normalized(f.tiers) BY TheSettings DEF SettingsInv, Keeps
<1>2. channel \in {d.channel : d \in Current.tiers} BY <1>1 DEF Normalized
<1>3. own # {} BY <1>2
<1>4. PICK d \in own : d = CHOOSE e \in own : TRUE BY <1>3
<1>5. d \in {[channel |-> e.channel, tier |-> e.tier] : e \in f.tiers} BY <1>1 DEF Normalized
<1>6. PICK e \in f.tiers : d = [channel |-> e.channel, tier |-> e.tier] BY <1>5
<1>7. Tier(channel) = d.tier BY <1>3, <1>4 DEF Tier
<1> QED BY <1>6, <1>7

\* The tier of a channel the file gives none is the one for all.
LEMMA TierIsDefault ==
  ASSUME SetupTypeOK, SettingsInv, settings # {}, NEW f \in file, NEW channel, \A c \in f.tiers : c.channel # channel
  PROVE  Tier(channel) = Or(f.default, "prompt")
<1> DEFINE own == {d \in Current.tiers : d.channel = channel}
<1>1. Current.tiers \in Normalized(f.tiers) /\ Current.default = Or(f.default, "prompt")
  BY TheSettings DEF SettingsInv, Keeps
<1>2. {c.channel : c \in Current.tiers} = {c.channel : c \in f.tiers} BY <1>1 DEF Normalized
<1>3. own = {}
  <2>1. SUFFICES ASSUME NEW d \in own PROVE FALSE OBVIOUS
  <2>2. channel \in {c.channel : c \in f.tiers} BY <1>2, <2>1
  <2> QED BY <2>2
<1> QED BY <1>1, <1>3 DEF Tier

\* No tier is "none".
LEMMA TierAsks ==
  ASSUME SetupTypeOK, SettingsInv, settings # {}, NEW channel PROVE Tier(channel) # "none"
<1> DEFINE own == {d \in Current.tiers : d.channel = channel}
<1>1. CASE file = {}
  <2>1. Current.tiers = {} /\ Current.default = "prompt" BY <1>1, TheSettings DEF SettingsInv
  <2> QED BY <2>1 DEF Tier
<1>2. CASE file # {}
  <2>1. PICK f \in file : TRUE BY <1>2
  <2>2. /\ ValidTier(Current.default) /\ Current.default = Or(f.default, "prompt")
        /\ \A c \in f.tiers : ValidTier(c.tier)
    BY TheSettings DEF SettingsInv, Keeps
  <2>3. CASE \A c \in f.tiers : c.channel # channel
    <3>1. Tier(channel) = Or(f.default, "prompt") BY <2>3, TierIsDefault
    <3> QED BY <2>2, <3>1 DEF ValidTier
  <2>4. CASE \E c \in f.tiers : c.channel = channel
    <3>1. PICK g \in f.tiers : g.channel = channel /\ g.tier = Tier(channel) BY <2>4, TierIsOwn
    <3> QED BY <2>2, <3>1 DEF ValidTier
  <2> QED BY <2>3, <2>4
<1> QED BY <1>1, <1>2

\* What a setup keeps of its settings, for any settings files, flags, logins and faults:
\* the doctor is right but for a store type with a space and a server without a usable name, what is off stays off and what is on stays on, tools that can do
\* harm come with somebody to ask in the tier of the file, and nothing is left open
\* (buildDoctorReport, fillDefaults, cliPermissionForSettings, Close).
THEOREM SetupsAreSound == SetupSpec => []SetupIsSound
<1>1. ASSUME SetupInv PROVE SetupIsSound
  <2>1. SetupTypeOK /\ SettingsInv /\ OpenInv /\ DoctorIsRight BY <1>1 DEF SetupInv
  <2>2. OffStaysOff
    <3>1. SUFFICES ASSUME stage = "running", command = "serve", NEW f \in file
                   PROVE  /\ "grants" \in open <=> f.remember # "off"
                          /\ "scheduler" \in open <=> f.schedules # "off"
      BY DEF OffStaysOff
    <3>2. Keeps(Current, f) BY <2>1, <3>1, TheSettings DEF SettingsInv
    <3> QED BY <2>1, <3>1, <3>2 DEF Keeps, OpenInv, Schedules
  <2>3. NobodyActsUnasked
    <3>1. ASSUME stage = "running", HasTools, command # "serve"
          PROVE  /\ asker # "none"
                 /\ \A f \in file :
                      IF \E c \in f.tiers : c.channel = Channel
                      THEN \E c \in f.tiers : c.channel = Channel /\ c.tier = asker
                      ELSE asker = Or(f.default, "prompt")
      <4>1. asker = Tier(Channel) /\ settings # {} BY <2>1, <3>1 DEF OpenInv, SettingsInv
      <4> QED BY <2>1, <4>1, TierAsks, TierIsOwn, TierIsDefault
    <3> QED BY <1>1, <3>1 DEF NobodyActsUnasked, SetupInv
  <2> QED BY <2>1, <2>2, <2>3 DEF SetupIsSound
<1> QED BY <1>1, SetupInductive, PTL
=============================================================================
