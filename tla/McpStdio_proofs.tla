--------------------------- MODULE McpStdio_proofs ---------------------------
(***************************************************************************)
(* Proofs about McpStdio, for any number of callers, pipes of any size and *)
(* any server: answers stay in step with the requests, and a request that  *)
(* succeeds has its own, but for the numbers a server gives of its own.    *)
(* And about Executor, for output of any size cut in any way: what Run     *)
(* reports is what was printed. And about Scheduler, for any schedules,    *)
(* intervals and processes: the cadence, and what a command reported.      *)
(***************************************************************************)
EXTENDS McpStdio, Executor, Scheduler, SequenceTheorems, WellFoundedInduction, TLAPS

-----------------------------------------------------------------------------
(* Pipes. *)

\* What is read is the first message; the others move up.
LEMMA Popped ==
  ASSUME NEW S, NEW s \in Seq(S), s # <<>>
  PROVE  /\ Tail(s) \in Seq(S) /\ Head(s) = s[1] /\ 1 \in DOMAIN s /\ Head(s) \in S
         /\ \A k \in DOMAIN Tail(s) : k + 1 \in DOMAIN s /\ k + 1 # 1 /\ Tail(s)[k] = s[k + 1] /\ k \in Int
<1>1. /\ Head(s) \in S /\ Tail(s) \in Seq(S) /\ Len(Tail(s)) = Len(s) - 1
      /\ \A i \in 1 .. Len(Tail(s)) : Tail(s)[i] = s[i + 1]
  BY HeadTailProperties
<1>2. Len(s) \in Nat /\ DOMAIN s = 1 .. Len(s) /\ DOMAIN Tail(s) = 1 .. Len(Tail(s)) /\ Len(s) # 0
  BY <1>1, LenProperties, EmptySeq
<1>3. Head(s) = s[1] BY <1>2, HeadTailProperties
<1> QED BY <1>1, <1>2, <1>3

\* What is written comes last.
LEMMA Pushed ==
  ASSUME NEW S, NEW s \in Seq(S), NEW x \in S
  PROVE  /\ Append(s, x) \in Seq(S)
         /\ \A k \in DOMAIN s : k \in DOMAIN Append(s, x) /\ Append(s, x)[k] = s[k]
         /\ \A k \in DOMAIN Append(s, x) : k \in DOMAIN s \/ (k = Len(s) + 1 /\ Append(s, x)[k] = x)
         /\ Len(s) + 1 \in DOMAIN Append(s, x) /\ Append(s, x)[Len(s) + 1] = x /\ Len(s) + 1 \notin DOMAIN s
<1>1. /\ Append(s, x) \in Seq(S) /\ Len(Append(s, x)) = Len(s) + 1
      /\ \A i \in 1 .. Len(s) : Append(s, x)[i] = s[i] /\ Append(s, x)[Len(s) + 1] = x
      /\ Append(s, x)[Len(s) + 1] = x
  BY AppendProperties
<1>2. /\ Len(s) \in Nat /\ DOMAIN s = 1 .. Len(s)
      /\ DOMAIN Append(s, x) = 1 .. Len(Append(s, x))
  BY <1>1, LenProperties
<1> QED BY <1>1, <1>2

-----------------------------------------------------------------------------
(* Steps keep the types, the lock and the numbers. *)

Records == [pc : Stages, kind : {"request", "notify"}, large : BOOLEAN, id : Nat,
            out : {"none", "sent", "ok", "mismatch", "error", "cancelled"}, of : Callers \cup {Nobody}]
Items == [id : Nat, of : Callers \cup {Nobody}, text : Texts]

\* A message is written, or part of it, or the rest, or no more of it.
Writes(c) == Encode(c) \/ Takes(c) \/ WriteFails(c)
Answers(c) == \E text \in {"message", "misshapen"} : Answer(c, text)
Sends(id)  == \E text \in Texts : Unasked(id, text)

\* Only the call of c is touched.
Only(c) == /\ calls' \in [Callers -> Records] /\ \A d \in Callers \ {c} : calls'[d] = calls[d]

LEMMA Steps ==
  ASSUME [Next]_mcpVars
  PROVE  \/ \E c \in Callers : \E kind \in {"request", "notify"}, large \in BOOLEAN : Begin(c, kind, large)
         \/ \E c \in Callers : Acquire(c)
         \/ \E c \in Callers : Writes(c)
         \/ \E c \in Callers : Skip(c)
         \/ \E c \in Callers : Receive(c)
         \/ \E c \in Callers : ReadFails(c)
         \/ \E c \in Callers : Cancel(c)
         \/ \E c \in Callers : Closes(c)
         \/ \E c \in Callers : Answers(c)
         \/ Shut \/ Exit \/ (\E id \in 0 .. 2 : Sends(id))
         \/ UNCHANGED mcpVars
BY Zenon DEF Next, Writes, Answers, Sends

\* What a call goes through, one record at a time.
LEMMA CallMoves ==
  ASSUME TypeOK, NEW c \in Callers
  PROVE  /\ \A kind \in {"request", "notify"}, large \in BOOLEAN : Begin(c, kind, large) =>
              /\ Only(c) /\ calls[c].pc = "idle" /\ calls'[c].pc = "locking"
              /\ calls'[c].id = calls[c].id /\ calls'[c].out = calls[c].out /\ calls'[c].of = calls[c].of
         /\ Acquire(c) =>
              /\ Only(c) /\ calls[c].pc = "locking" /\ calls'[c].pc = "encoding"
              /\ calls'[c].kind = calls[c].kind
              /\ calls'[c].out = calls[c].out /\ calls'[c].of = calls[c].of
              /\ IF calls[c].kind = "request" THEN nextID' = nextID + 1 /\ calls'[c].id = nextID'
                 ELSE nextID' = nextID /\ calls'[c].id = calls[c].id
         /\ Writes(c) =>
              /\ Only(c) /\ calls[c].pc \in {"encoding", "writing"} /\ calls'[c].kind = calls[c].kind
              /\ calls'[c].id = calls[c].id /\ calls'[c].of = calls[c].of
              /\ UNCHANGED <<nextID, stdout, server, closed, unasked>>
              /\ \/ calls'[c].pc = "done" /\ calls'[c].out = "error" /\ lock' = Nobody /\ stdin' = stdin
                 \/ calls'[c].pc = "writing" /\ calls'[c].out = calls[c].out /\ lock' = lock /\ stdin' = stdin
                 \/ /\ stdin' = Append(stdin, c) /\ server = "up" /\ calls[c].kind = "notify"
                    /\ calls'[c].pc = "done" /\ calls'[c].out = "sent" /\ lock' = Nobody
                 \/ /\ stdin' = Append(stdin, c) /\ server = "up" /\ calls[c].kind = "request"
                    /\ calls'[c].pc = "reading" /\ calls'[c].out = calls[c].out /\ lock' = lock
         /\ Receive(c) =>
              /\ Only(c) /\ calls[c].pc = "reading" /\ calls'[c].pc = "done"
              /\ calls'[c].kind = calls[c].kind /\ calls'[c].id = calls[c].id
              /\ calls'[c].out = Verdict(c, Head(stdout)) /\ calls'[c].of = Head(stdout).of
         /\ ReadFails(c) \/ Cancel(c) \/ Closes(c) =>
              /\ Only(c) /\ calls[c].pc \in {"reading", "closing"} /\ calls'[c].pc \in {"done", "closing"}
              /\ calls'[c].kind = calls[c].kind /\ calls'[c].id = calls[c].id
              /\ calls'[c].of = calls[c].of /\ calls'[c].out \in {calls[c].out, "error", "cancelled"}
              /\ calls'[c].pc = "closing" => calls'[c].out = calls[c].out
<1>1. /\ calls \in [Callers -> Records] /\ calls[c] \in Records /\ nextID \in Nat
      /\ stdout \in Seq(Items)
  BY DEF TypeOK, Records, Items
<1>2. ASSUME NEW r \in Records, calls' = [calls EXCEPT ![c] = r]
      PROVE  Only(c) /\ calls'[c] = r
  BY <1>1, <1>2 DEF Only
<1>3. ASSUME NEW kind \in {"request", "notify"}, NEW large \in BOOLEAN, Begin(c, kind, large)
      PROVE  /\ Only(c) /\ calls[c].pc = "idle" /\ calls'[c].pc = "locking"
             /\ calls'[c].id = calls[c].id /\ calls'[c].out = calls[c].out /\ calls'[c].of = calls[c].of
  <2> DEFINE r == [calls[c] EXCEPT !.pc = "locking", !.kind = kind, !.large = large]
  <2>1. calls' = [calls EXCEPT ![c] = r] /\ calls[c].pc = "idle" BY <1>1, <1>3 DEF Begin
  <2>2. /\ r \in Records /\ r.pc = "locking" /\ r.id = calls[c].id /\ r.out = calls[c].out
        /\ r.of = calls[c].of
    BY <1>1 DEF Records, Stages
  <2> HIDE DEF r
  <2> QED BY <1>2, <2>1, <2>2
<1>4. ASSUME Acquire(c)
      PROVE  /\ Only(c) /\ calls[c].pc = "locking" /\ calls'[c].pc = "encoding"
             /\ calls'[c].kind = calls[c].kind
             /\ calls'[c].out = calls[c].out /\ calls'[c].of = calls[c].of
             /\ IF calls[c].kind = "request" THEN nextID' = nextID + 1 /\ calls'[c].id = nextID'
                ELSE nextID' = nextID /\ calls'[c].id = calls[c].id
  <2> DEFINE n == IF calls[c].kind = "request" THEN nextID' ELSE calls[c].id
             r == [calls[c] EXCEPT !.pc = "encoding", !.id = n]
  <2>1. /\ calls' = [calls EXCEPT ![c] = r] /\ calls[c].pc = "locking"
        /\ IF calls[c].kind = "request" THEN nextID' = nextID + 1 ELSE nextID' = nextID
    BY <1>1, <1>4 DEF Acquire, Set, Records
  <2>2. n \in Nat BY <1>1, <2>1 DEF Records
  <2>3. n = IF calls[c].kind = "request" THEN nextID' ELSE calls[c].id OBVIOUS
  <2> HIDE DEF n
  <2>4. /\ r \in Records /\ r.pc = "encoding" /\ r.id = n /\ r.out = calls[c].out
        /\ r.of = calls[c].of /\ r.kind = calls[c].kind
    BY <1>1, <2>2 DEF Records, Stages
  <2> HIDE DEF r
  <2> QED BY <1>2, <2>1, <2>3, <2>4
<1>6. ASSUME NEW pc \in Stages, Set(c, pc)
      PROVE  /\ Only(c) /\ calls'[c].pc = pc /\ calls'[c].out = calls[c].out /\ calls'[c].of = calls[c].of
             /\ calls'[c].kind = calls[c].kind /\ calls'[c].id = calls[c].id
  <2> DEFINE r == [calls[c] EXCEPT !.pc = pc]
  <2>1. calls' = [calls EXCEPT ![c] = r] BY <1>1, <1>6 DEF Set
  <2>2. /\ r \in Records /\ r.pc = pc /\ r.id = calls[c].id /\ r.out = calls[c].out
        /\ r.of = calls[c].of /\ r.kind = calls[c].kind
    BY <1>1 DEF Records
  <2> HIDE DEF r
  <2> QED BY <1>2, <2>1, <2>2
<1>7. ASSUME NEW out \in {"sent", "error", "cancelled"}, Done(c, out)
      PROVE  /\ Only(c) /\ calls'[c].pc = "done" /\ calls'[c].out = out /\ calls'[c].of = calls[c].of
             /\ calls'[c].kind = calls[c].kind /\ calls'[c].id = calls[c].id
  <2> DEFINE r == [calls[c] EXCEPT !.pc = "done", !.out = out]
  <2>1. calls' = [calls EXCEPT ![c] = r] BY <1>1, <1>7 DEF Done
  <2>2. /\ r \in Records /\ r.pc = "done" /\ r.id = calls[c].id /\ r.out = out
        /\ r.of = calls[c].of /\ r.kind = calls[c].kind
    BY <1>1 DEF Records, Stages
  <2> HIDE DEF r
  <2> QED BY <1>2, <2>1, <2>2
<1>8. {"writing", "reading", "closing", "encoding", "done"} \subseteq Stages BY DEF Stages
<1>12. ASSUME Sent(c)
       PROVE  /\ Only(c) /\ calls'[c].kind = calls[c].kind
              /\ calls'[c].id = calls[c].id /\ calls'[c].of = calls[c].of /\ stdin' = Append(stdin, c)
              /\ \/ calls[c].kind = "notify" /\ calls'[c].pc = "done" /\ calls'[c].out = "sent" /\ lock' = Nobody
                 \/ calls[c].kind = "request" /\ calls'[c].pc = "reading" /\ calls'[c].out = calls[c].out /\ lock' = lock
  <2>1. calls[c].kind \in {"request", "notify"} BY <1>1 DEF Records
  <2>2. CASE calls[c].kind = "notify"
    <3>1. stdin' = Append(stdin, c) /\ Done(c, "sent") /\ lock' = Nobody BY <1>12, <2>2 DEF Sent
    <3> QED BY <1>7, <2>2, <3>1
  <2>3. CASE calls[c].kind = "request"
    <3>1. stdin' = Append(stdin, c) /\ Set(c, "reading") /\ lock' = lock BY <1>12, <2>3 DEF Sent
    <3> QED BY <1>6, <1>8, <2>3, <3>1
  <2> QED BY <2>1, <2>2, <2>3
<1>9. ASSUME Writes(c)
      PROVE  /\ Only(c) /\ calls[c].pc \in {"encoding", "writing"} /\ calls'[c].kind = calls[c].kind
             /\ calls'[c].id = calls[c].id /\ calls'[c].of = calls[c].of
             /\ UNCHANGED <<nextID, stdout, server, closed, unasked>>
             /\ \/ calls'[c].pc = "done" /\ calls'[c].out = "error" /\ lock' = Nobody /\ stdin' = stdin
                \/ calls'[c].pc = "writing" /\ calls'[c].out = calls[c].out /\ lock' = lock /\ stdin' = stdin
                \/ /\ stdin' = Append(stdin, c) /\ server = "up" /\ calls[c].kind = "notify"
                   /\ calls'[c].pc = "done" /\ calls'[c].out = "sent" /\ lock' = Nobody
                \/ /\ stdin' = Append(stdin, c) /\ server = "up" /\ calls[c].kind = "request"
                   /\ calls'[c].pc = "reading" /\ calls'[c].out = calls[c].out /\ lock' = lock
  <2>1. calls[c].pc \in {"encoding", "writing"} BY <1>9 DEF Writes, Encode, Takes, WriteFails
  <2>2. UNCHANGED <<nextID, stdout, server, closed, unasked>> BY <1>9 DEF Writes, Encode, Takes, WriteFails
  <2>3. \/ Done(c, "error") /\ lock' = Nobody /\ stdin' = stdin
        \/ Set(c, "writing") /\ lock' = lock /\ stdin' = stdin
        \/ Sent(c) /\ server = "up"
    BY <1>9 DEF Writes, Encode, Takes, WriteFails
  <2>4. CASE Done(c, "error") /\ lock' = Nobody /\ stdin' = stdin BY <1>7, <2>1, <2>2, <2>4
  <2>5. CASE Set(c, "writing") /\ lock' = lock /\ stdin' = stdin BY <1>6, <1>8, <2>1, <2>2, <2>5
  <2>6. CASE Sent(c) /\ server = "up" BY <1>12, <2>1, <2>2, <2>6
  <2> QED BY <2>3, <2>4, <2>5, <2>6
<1>10. ASSUME Receive(c)
       PROVE  /\ Only(c) /\ calls[c].pc = "reading" /\ calls'[c].pc = "done"
              /\ calls'[c].kind = calls[c].kind /\ calls'[c].id = calls[c].id
              /\ calls'[c].out = Verdict(c, Head(stdout)) /\ calls'[c].of = Head(stdout).of
  <2>1. /\ calls[c].pc = "reading" /\ stdout # <<>>
        /\ calls' = [calls EXCEPT ![c].pc = "done", ![c].out = Verdict(c, Head(stdout)), ![c].of = Head(stdout).of]
    BY <1>10 DEF Receive
  <2>2. Head(stdout) \in Items BY <1>1, <2>1, Popped
  <2>3. Head(stdout).of \in Callers \cup {Nobody} BY <2>2 DEF Items
  <2>4. Verdict(c, Head(stdout)) \in {"ok", "mismatch"} BY DEF Verdict
  <2> DEFINE v == Verdict(c, Head(stdout))
             o == Head(stdout).of
  <2>5. calls' = [calls EXCEPT ![c].pc = "done", ![c].out = v, ![c].of = o] BY <2>1
  <2> HIDE DEF v, o
  <2>6. calls' = [calls EXCEPT ![c] = [calls[c] EXCEPT !.pc = "done", !.out = v, !.of = o]]
    BY <1>1, <2>5
  <2>7. v \in {"ok", "mismatch"} /\ o \in Callers \cup {Nobody} BY <2>3, <2>4 DEF v, o
  <2>8. /\ Only(c) /\ calls'[c].pc = "done" /\ calls'[c].out = v /\ calls'[c].of = o
        /\ calls'[c].kind = calls[c].kind /\ calls'[c].id = calls[c].id
    <3> DEFINE r == [calls[c] EXCEPT !.pc = "done", !.out = v, !.of = o]
    <3>1. calls' = [calls EXCEPT ![c] = r] BY <2>6
    <3>2. /\ r \in Records /\ r.pc = "done" /\ r.id = calls[c].id /\ r.out = v
          /\ r.of = o /\ r.kind = calls[c].kind
      BY <1>1, <1>8, <2>7 DEF Records
    <3> HIDE DEF r
    <3> QED BY <1>2, <3>1, <3>2
  <2> QED BY <2>1, <2>8 DEF v, o
<1>11. ASSUME ReadFails(c) \/ Cancel(c) \/ Closes(c)
       PROVE  /\ Only(c) /\ calls[c].pc \in {"reading", "closing"} /\ calls'[c].pc \in {"done", "closing"}
              /\ calls'[c].kind = calls[c].kind /\ calls'[c].id = calls[c].id
              /\ calls'[c].of = calls[c].of /\ calls'[c].out \in {calls[c].out, "error", "cancelled"}
              /\ calls'[c].pc = "closing" => calls'[c].out = calls[c].out
  <2>1. CASE ReadFails(c) BY <1>7, <2>1 DEF ReadFails
  <2>2. CASE Cancel(c) BY <1>6, <1>8, <2>2 DEF Cancel
  <2>3. CASE Closes(c) BY <1>7, <2>3 DEF Closes
  <2> QED BY <1>11, <2>1, <2>2, <2>3
<1> QED BY <1>3, <1>4, <1>9, <1>10, <1>11

-----------------------------------------------------------------------------
LEMMA TypeStep ==
  ASSUME TypeOK, [Next]_mcpVars
  PROVE  TypeOK'
<1>1. /\ lock \in Callers \cup {Nobody} /\ nextID \in Nat /\ calls \in [Callers -> Records]
      /\ stdin \in Seq(Callers) /\ stdout \in Seq(Items)
      /\ server \in {"up", "gone"} /\ closed \in BOOLEAN /\ unasked \in Seq(Nat)
  BY Zenon DEF TypeOK, Records, Items
<1> SUFFICES /\ lock' \in Callers \cup {Nobody} /\ nextID' \in Nat /\ calls' \in [Callers -> Records]
             /\ stdin' \in Seq(Callers) /\ stdout' \in Seq(Items)
             /\ server' \in {"up", "gone"} /\ closed' \in BOOLEAN /\ unasked' \in Seq(Nat)
  BY Zenon DEF TypeOK, Records, Items
<1>2. ASSUME NEW c \in Callers, NEW kind \in {"request", "notify"}, NEW large \in BOOLEAN, Begin(c, kind, large)
      PROVE  /\ lock' \in Callers \cup {Nobody} /\ nextID' \in Nat /\ calls' \in [Callers -> Records]
             /\ stdin' \in Seq(Callers) /\ stdout' \in Seq(Items)
             /\ server' \in {"up", "gone"} /\ closed' \in BOOLEAN /\ unasked' \in Seq(Nat)
  <2>1. Only(c) BY <1>2, CallMoves
  <2> QED BY <1>1, <1>2, <2>1 DEF Begin, Only
<1>3. ASSUME NEW c \in Callers, Acquire(c)
      PROVE  /\ lock' \in Callers \cup {Nobody} /\ nextID' \in Nat /\ calls' \in [Callers -> Records]
             /\ stdin' \in Seq(Callers) /\ stdout' \in Seq(Items)
             /\ server' \in {"up", "gone"} /\ closed' \in BOOLEAN /\ unasked' \in Seq(Nat)
  <2>1. Only(c) BY <1>3, CallMoves
  <2> QED BY <1>1, <1>3, <2>1 DEF Acquire, Only
<1>4. ASSUME NEW c \in Callers, Writes(c)
      PROVE  /\ lock' \in Callers \cup {Nobody} /\ nextID' \in Nat /\ calls' \in [Callers -> Records]
             /\ stdin' \in Seq(Callers) /\ stdout' \in Seq(Items)
             /\ server' \in {"up", "gone"} /\ closed' \in BOOLEAN /\ unasked' \in Seq(Nat)
  <2>1. /\ Only(c) /\ (stdin' = stdin \/ stdin' = Append(stdin, c)) /\ lock' \in {lock, Nobody}
        /\ UNCHANGED <<nextID, stdout, server, closed, unasked>>
    BY <1>4, CallMoves
  <2>2. Append(stdin, c) \in Seq(Callers) BY <1>1, Pushed
  <2> QED BY <1>1, <2>1, <2>2 DEF Only
<1>5. ASSUME NEW c \in Callers, Skip(c)
      PROVE  /\ lock' \in Callers \cup {Nobody} /\ nextID' \in Nat /\ calls' \in [Callers -> Records]
             /\ stdin' \in Seq(Callers) /\ stdout' \in Seq(Items)
             /\ server' \in {"up", "gone"} /\ closed' \in BOOLEAN /\ unasked' \in Seq(Nat)
  <2>1. stdout # <<>> /\ stdout' = Tail(stdout) BY <1>5 DEF Skip
  <2>2. Tail(stdout) \in Seq(Items) BY <1>1, <2>1, Popped
  <2> QED BY <1>1, <1>5, <2>1, <2>2 DEF Skip
<1>6. ASSUME NEW c \in Callers, Receive(c)
      PROVE  /\ lock' \in Callers \cup {Nobody} /\ nextID' \in Nat /\ calls' \in [Callers -> Records]
             /\ stdin' \in Seq(Callers) /\ stdout' \in Seq(Items)
             /\ server' \in {"up", "gone"} /\ closed' \in BOOLEAN /\ unasked' \in Seq(Nat)
  <2>1. Only(c) /\ stdout # <<>> /\ stdout' = Tail(stdout) BY <1>6, CallMoves DEF Receive
  <2>2. Tail(stdout) \in Seq(Items) BY <1>1, <2>1, Popped
  <2> QED BY <1>1, <1>6, <2>1, <2>2 DEF Receive, Only
<1>7. ASSUME NEW c \in Callers, ReadFails(c) \/ Cancel(c) \/ Closes(c)
      PROVE  /\ lock' \in Callers \cup {Nobody} /\ nextID' \in Nat /\ calls' \in [Callers -> Records]
             /\ stdin' \in Seq(Callers) /\ stdout' \in Seq(Items)
             /\ server' \in {"up", "gone"} /\ closed' \in BOOLEAN /\ unasked' \in Seq(Nat)
  <2>1. Only(c) BY <1>7, CallMoves
  <2>2. CASE ReadFails(c)
    <3>1. /\ lock' = Nobody /\ UNCHANGED <<nextID, stdin, server, closed, unasked>>
          /\ stdout' = stdout \/ (stdout # <<>> /\ stdout' = Tail(stdout))
      BY <2>2 DEF ReadFails
    <3>2. stdout # <<>> => Tail(stdout) \in Seq(Items) BY <1>1, Popped
    <3> QED BY <1>1, <2>1, <3>1, <3>2 DEF Only
  <2>3. CASE Cancel(c) \/ Closes(c) BY <1>1, <2>1, <2>3 DEF Cancel, Closes, Only
  <2> QED BY <1>7, <2>2, <2>3
<1>8. ASSUME NEW c \in Callers, Answers(c)
      PROVE  /\ lock' \in Callers \cup {Nobody} /\ nextID' \in Nat /\ calls' \in [Callers -> Records]
             /\ stdin' \in Seq(Callers) /\ stdout' \in Seq(Items)
             /\ server' \in {"up", "gone"} /\ closed' \in BOOLEAN /\ unasked' \in Seq(Nat)
  <2>5. PICK text \in {"message", "misshapen"} : Answer(c, text) BY <1>8 DEF Answers
  <2> DEFINE it == [id |-> calls[c].id, of |-> c, text |-> text]
  <2>1. /\ stdin # <<>> /\ stdin' = Tail(stdin)
        /\ (stdout' = stdout \/ stdout' = Append(stdout, it))
    BY <2>5 DEF Answer
  <2>2. Tail(stdin) \in Seq(Callers) BY <1>1, <2>1, Popped
  <2>3. it \in Items BY <1>1 DEF Items, Records, Texts
  <2> HIDE DEF it
  <2>4. Append(stdout, it) \in Seq(Items) BY <1>1, <2>3, Pushed
  <2> QED BY <1>1, <2>5, <2>1, <2>2, <2>4 DEF Answer
<1>9. ASSUME NEW id \in 0 .. 2, Sends(id)
      PROVE  /\ lock' \in Callers \cup {Nobody} /\ nextID' \in Nat /\ calls' \in [Callers -> Records]
             /\ stdin' \in Seq(Callers) /\ stdout' \in Seq(Items)
             /\ server' \in {"up", "gone"} /\ closed' \in BOOLEAN /\ unasked' \in Seq(Nat)
  <2>4. PICK text \in Texts : Unasked(id, text) BY <1>9 DEF Sends
  <2> DEFINE it == [id |-> id, of |-> Nobody, text |-> text]
  <2>1. id \in Nat /\ it \in Items BY DEF Items
  <2>5. stdout' = Append(stdout, it) BY <2>4 DEF Unasked
  <2> HIDE DEF it
  <2>2. Append(stdout, it) \in Seq(Items) BY <1>1, <2>1, Pushed
  <2>3. Append(unasked, id) \in Seq(Nat) BY <1>1, <2>1, Pushed
  <2> QED BY <1>1, <2>4, <2>5, <2>2, <2>3 DEF Unasked
<1>10. CASE Shut \/ Exit \/ UNCHANGED mcpVars BY <1>1, <1>10 DEF Shut, Exit, mcpVars
<1> QED BY Steps, <1>2, <1>3, <1>4, <1>5, <1>6, <1>7, <1>8, <1>9, <1>10

\* The lock is taken when it is free, and given up by who has it.
LEMMA LockStep ==
  ASSUME TypeOK, LockInv, [Next]_mcpVars
  PROVE  LockInv'
<1>1. calls \in [Callers -> Records] BY Zenon DEF TypeOK, Records
<1> SUFFICES \A d \in Callers : lock' = d <=> calls'[d].pc \in {"encoding", "writing", "reading", "closing"} BY DEF LockInv
<1>2. \A d \in Callers : (lock = d <=> calls[d].pc \in {"encoding", "writing", "reading", "closing"}) /\ d # Nobody
  BY McpAssumption DEF LockInv
<1>3. ASSUME NEW c \in Callers, NEW kind \in {"request", "notify"}, NEW large \in BOOLEAN, Begin(c, kind, large)
      PROVE  \A d \in Callers : lock' = d <=> calls'[d].pc \in {"encoding", "writing", "reading", "closing"}
  <2>1. Only(c) /\ calls[c].pc = "idle" /\ calls'[c].pc = "locking" BY <1>3, CallMoves
  <2> QED BY <1>2, <1>3, <2>1 DEF Begin, Only
<1>4. ASSUME NEW c \in Callers, Acquire(c)
      PROVE  \A d \in Callers : lock' = d <=> calls'[d].pc \in {"encoding", "writing", "reading", "closing"}
  <2>1. Only(c) /\ calls'[c].pc = "encoding" BY <1>4, CallMoves
  <2> QED BY <1>2, <1>4, <2>1 DEF Acquire, Only
<1>5. ASSUME NEW c \in Callers, Writes(c)
      PROVE  \A d \in Callers : lock' = d <=> calls'[d].pc \in {"encoding", "writing", "reading", "closing"}
  <2>1. /\ Only(c) /\ calls[c].pc \in {"encoding", "writing"}
        /\ \/ calls'[c].pc = "done" /\ lock' = Nobody
           \/ calls'[c].pc \in {"writing", "reading"} /\ lock' = lock
    BY <1>5, CallMoves
  <2> QED BY <1>2, <2>1 DEF Only
<1>6. ASSUME NEW c \in Callers, Receive(c)
      PROVE  \A d \in Callers : lock' = d <=> calls'[d].pc \in {"encoding", "writing", "reading", "closing"}
  <2>1. Only(c) /\ calls[c].pc = "reading" /\ calls'[c].pc = "done" BY <1>6, CallMoves
  <2> QED BY <1>2, <1>6, <2>1 DEF Receive, Only
<1>7. ASSUME NEW c \in Callers, ReadFails(c) \/ Cancel(c) \/ Closes(c)
      PROVE  \A d \in Callers : lock' = d <=> calls'[d].pc \in {"encoding", "writing", "reading", "closing"}
  <2>1. Only(c) /\ calls[c].pc \in {"reading", "closing"} BY <1>7, CallMoves
  <2>2. (calls'[c].pc = "done" /\ lock' = Nobody) \/ (calls'[c].pc = "closing" /\ lock' = lock)
    BY <1>1, <1>7 DEF ReadFails, Cancel, Closes, Done, Set, Records
  <2> QED BY <1>2, <2>1, <2>2 DEF Only
<1>8. CASE /\ UNCHANGED <<lock, calls>> BY <1>2, <1>8
<1>9. ASSUME \/ \E c \in Callers : Skip(c) \/ Answers(c)
             \/ Shut \/ Exit \/ (\E id \in 0 .. 2 : Sends(id)) \/ UNCHANGED mcpVars
      PROVE  UNCHANGED <<lock, calls>>
  BY <1>9 DEF Skip, Answers, Answer, Shut, Exit, Sends, Unasked, mcpVars
<1> QED BY Steps, <1>3, <1>4, <1>5, <1>6, <1>7, <1>8, <1>9

\* A request that left stays as it was sent.
LEMMA LeftStays ==
  ASSUME TypeOK, [Next]_mcpVars, NEW d \in Callers, Left(d)
  PROVE  /\ calls'[d].pc \in {"reading", "closing", "done"}
         /\ calls'[d].kind = calls[d].kind /\ calls'[d].id = calls[d].id
<1>1. calls[d].pc \in {"reading", "closing", "done"} BY DEF Left
<1>2. ASSUME NEW c \in Callers, NEW kind \in {"request", "notify"}, NEW large \in BOOLEAN, Begin(c, kind, large)
      PROVE  calls'[d] = calls[d]
  <2>1. Only(c) /\ calls[c].pc = "idle" BY <1>2, CallMoves
  <2> QED BY <1>1, <2>1 DEF Only
<1>3. ASSUME NEW c \in Callers, Acquire(c)
      PROVE  calls'[d] = calls[d]
  <2>1. Only(c) /\ calls[c].pc = "locking" BY <1>3, CallMoves
  <2> QED BY <1>1, <2>1 DEF Only
<1>4. ASSUME NEW c \in Callers, Writes(c)
      PROVE  calls'[d] = calls[d]
  <2>1. Only(c) /\ calls[c].pc \in {"encoding", "writing"} BY <1>4, CallMoves
  <2> QED BY <1>1, <2>1 DEF Only
<1>5. ASSUME NEW c \in Callers, Receive(c) \/ ReadFails(c) \/ Cancel(c) \/ Closes(c)
      PROVE  \/ calls'[d] = calls[d]
             \/ /\ calls'[d].pc \in {"reading", "closing", "done"}
                /\ calls'[d].kind = calls[d].kind /\ calls'[d].id = calls[d].id
  <2>1. /\ Only(c) /\ calls'[c].pc \in {"closing", "done"}
        /\ calls'[c].kind = calls[c].kind /\ calls'[c].id = calls[c].id
    BY <1>5, CallMoves
  <2> QED BY <2>1 DEF Only
<1>6. ASSUME \/ \E c \in Callers : Skip(c) \/ Answers(c)
             \/ Shut \/ Exit \/ (\E id \in 0 .. 2 : Sends(id)) \/ UNCHANGED mcpVars
      PROVE  calls' = calls
  BY <1>6 DEF Skip, Answers, Answer, Shut, Exit, Sends, Unasked, mcpVars
<1> QED BY Steps, <1>1, <1>2, <1>3, <1>4, <1>5, <1>6

LEMMA IdsStep ==
  ASSUME TypeOK, IdsInv, [Next]_mcpVars
  PROVE  IdsInv'
<1> DEFINE Numbered(k, n, c) ==
             /\ k[c].id <= n
             /\ k[c].pc # "done" => k[c].out = "none"
             /\ k[c].kind = "request" /\ k[c].pc \notin {"idle", "locking"} => k[c].id # 0
             /\ \A d \in Callers : k[c].id = k[d].id /\ k[c].id # 0 => c = d
<1>1. \A c \in Callers : calls[c].id \in Nat BY DEF TypeOK
<1>2. nextID \in Nat /\ \A c \in Callers : Numbered(calls, nextID, c) BY DEF TypeOK, IdsInv
<1> SUFFICES ASSUME NEW e \in Callers PROVE Numbered(calls', nextID', e) BY DEF IdsInv
<1>3. ASSUME NEW c \in Callers, NEW kind \in {"request", "notify"}, NEW large \in BOOLEAN, Begin(c, kind, large)
      PROVE  Numbered(calls', nextID', e)
  <2>1. /\ Only(c) /\ calls[c].pc = "idle" /\ calls'[c].pc = "locking"
        /\ calls'[c].id = calls[c].id /\ calls'[c].out = calls[c].out /\ nextID' = nextID
    BY <1>3, CallMoves DEF Begin
  <2> QED BY <1>2, <2>1 DEF Only
<1>4. ASSUME NEW c \in Callers, Acquire(c)
      PROVE  Numbered(calls', nextID', e)
  <2>1. /\ Only(c) /\ calls[c].pc = "locking" /\ calls'[c].pc = "encoding"
        /\ calls'[c].kind = calls[c].kind /\ calls'[c].out = calls[c].out
        /\ IF calls[c].kind = "request" THEN nextID' = nextID + 1 /\ calls'[c].id = nextID'
           ELSE nextID' = nextID /\ calls'[c].id = calls[c].id
    BY <1>4, CallMoves
  <2>2. \A d \in Callers : calls[d].id <= nextID BY <1>2
  <2> QED BY <1>1, <1>2, <2>1, <2>2 DEF Only
<1>5. ASSUME NEW c \in Callers, Writes(c) \/ Receive(c)
      PROVE  Numbered(calls', nextID', e)
  <2>1. /\ Only(c) /\ calls[c].pc \in {"encoding", "writing", "reading"}
        /\ calls'[c].pc = "done" \/ (calls'[c].pc \in {"writing", "reading"} /\ calls'[c].out = calls[c].out)
        /\ calls'[c].kind = calls[c].kind /\ calls'[c].id = calls[c].id /\ nextID' = nextID
    BY <1>5, CallMoves DEF Receive
  <2> QED BY <1>2, <2>1 DEF Only
<1>6. ASSUME NEW c \in Callers, ReadFails(c) \/ Cancel(c) \/ Closes(c)
      PROVE  Numbered(calls', nextID', e)
  <2>1. /\ Only(c) /\ calls[c].pc \in {"reading", "closing"}
        /\ calls'[c].pc = "done" \/ (calls'[c].pc = "closing" /\ calls'[c].out = calls[c].out)
        /\ calls'[c].kind = calls[c].kind /\ calls'[c].id = calls[c].id /\ nextID' = nextID
    BY <1>6, CallMoves DEF ReadFails, Cancel, Closes
  <2> QED BY <1>2, <2>1 DEF Only
<1>7. ASSUME \/ \E c \in Callers : Skip(c) \/ Answers(c)
             \/ Shut \/ Exit \/ (\E id \in 0 .. 2 : Sends(id)) \/ UNCHANGED mcpVars
      PROVE  calls' = calls /\ nextID' = nextID
  BY <1>7 DEF Skip, Answers, Answer, Shut, Exit, Sends, Unasked, mcpVars
<1>8. CASE calls' = calls /\ nextID' = nextID BY <1>2, <1>8
<1> QED BY Steps, <1>3, <1>4, <1>5, <1>6, <1>7, <1>8

-----------------------------------------------------------------------------
(* The pipes. *)

\* What two pipes hold of the calls cs, after the messages un of the server's own.
Gone(c, cs) == cs[c].pc \in {"reading", "closing", "done"}
Requests(in, cs) ==
  /\ \A k \in DOMAIN in : Gone(in[k], cs)
  /\ \A j, k \in DOMAIN in : in[j] = in[k] => j = k
Replied(k, in, out, cs, un) ==
  IF out[k].of = Nobody
  THEN (\E n \in DOMAIN un : un[n] = out[k].id) /\ (out[k].id = 0 => out[k].text = "message")
  ELSE /\ out[k].text # "junk" /\ Gone(out[k].of, cs) /\ cs[out[k].of].kind = "request"
       /\ out[k].id = cs[out[k].of].id
       /\ \A j \in DOMAIN in : in[j] # out[k].of
       /\ \A j \in DOMAIN out : out[j].of = out[k].of => j = k
Replies(in, out, cs, un) == \A k \in DOMAIN out : Replied(k, in, out, cs, un)

LEMMA Wires == WireInv <=> Requests(stdin, calls) /\ Replies(stdin, stdout, calls, unasked)
BY DEF WireInv, Requests, Replies, Replied, Gone, Left

LEMMA WireStep ==
  ASSUME TypeOK, WireInv, [Next]_mcpVars
  PROVE  WireInv'
<1>1. /\ stdin \in Seq(Callers) /\ stdout \in Seq(Items) /\ unasked \in Seq(Nat)
      /\ \A k \in DOMAIN stdin : stdin[k] \in Callers
      /\ \A k \in DOMAIN stdout : stdout[k].of \in Callers \cup {Nobody}
  <2>1. stdin \in Seq(Callers) /\ stdout \in Seq(Items) /\ unasked \in Seq(Nat) BY DEF TypeOK, Items
  <2>2. /\ \A k \in DOMAIN stdin : stdin[k] \in Callers
        /\ \A k \in DOMAIN stdout : stdout[k] \in Items
    BY <2>1, ElementOfSeq, LenProperties
  <2> QED BY <2>1, <2>2 DEF Items
<1>2. Requests(stdin, calls) /\ Replies(stdin, stdout, calls, unasked) BY Wires
<1>3. \A d \in Callers : Gone(d, calls) => /\ Gone(d, calls')
                                          /\ calls'[d].kind = calls[d].kind /\ calls'[d].id = calls[d].id
  BY LeftStays DEF Left, Gone
<1>4. Requests(stdin, calls') /\ Replies(stdin, stdout, calls', unasked)
  BY <1>1, <1>2, <1>3 DEF Requests, Replies, Replied
<1> SUFFICES Requests(stdin', calls') /\ Replies(stdin', stdout', calls', unasked')
  BY DEF WireInv, Requests, Replies, Replied, Gone, Left
<1>5. ASSUME NEW c \in Callers, Writes(c), stdin' = Append(stdin, c)
      PROVE  Requests(stdin', calls') /\ Replies(stdin', stdout', calls', unasked')
  <2>1. /\ calls[c].pc \in {"encoding", "writing"} /\ calls'[c].pc \in {"done", "reading"}
        /\ stdout' = stdout /\ unasked' = unasked
    <3>1. /\ calls[c].pc \in {"encoding", "writing"} /\ stdout' = stdout /\ unasked' = unasked
          /\ calls'[c].pc \in {"done", "reading"} \/ stdin' = stdin
      BY <1>5, CallMoves
    <3>2. stdin # Append(stdin, c)
      <4>1. Len(Append(stdin, c)) = Len(stdin) + 1 /\ Len(stdin) \in Nat BY <1>1, AppendProperties, LenProperties
      <4> QED BY <4>1
    <3> QED BY <1>5, <3>1, <3>2
  <2>2. ~Gone(c, calls) /\ Gone(c, calls') BY <2>1 DEF Gone
  <2>3. /\ \A k \in DOMAIN stdin : stdin[k] # c
        /\ \A k \in DOMAIN stdout : stdout[k].of # c
    BY <1>2, <2>2, McpAssumption DEF Requests, Replies, Replied
  <2>4. /\ \A k \in DOMAIN stdin : k \in DOMAIN stdin' /\ stdin'[k] = stdin[k]
        /\ \A k \in DOMAIN stdin' : k \in DOMAIN stdin \/ (k = Len(stdin) + 1 /\ stdin'[k] = c)
    BY <1>1, <1>5, Pushed
  <2>5. Requests(stdin', calls') BY <1>4, <2>2, <2>3, <2>4 DEF Requests
  <2>6. Replies(stdin', stdout, calls', unasked) BY <1>4, <2>3, <2>4 DEF Replies, Replied
  <2> QED BY <2>1, <2>5, <2>6
<1>6. ASSUME NEW c \in Callers, Skip(c) \/ Receive(c) \/ ReadFails(c), stdout' # stdout
      PROVE  Requests(stdin', calls') /\ Replies(stdin', stdout', calls', unasked')
  <2>1. stdout # <<>> /\ stdout' = Tail(stdout) /\ stdin' = stdin /\ unasked' = unasked
    BY <1>6 DEF Skip, Receive, ReadFails
  <2>2. \A k \in DOMAIN stdout' : k + 1 \in DOMAIN stdout /\ stdout'[k] = stdout[k + 1] /\ k \in Int
    BY <1>1, <2>1, Popped
  <2>3. Replies(stdin, stdout', calls', unasked)
    <3> SUFFICES ASSUME NEW k \in DOMAIN stdout' PROVE Replied(k, stdin, stdout', calls', unasked) BY DEF Replies
    <3>1. Replied(k + 1, stdin, stdout, calls', unasked) /\ stdout'[k] = stdout[k + 1] BY <1>4, <2>2 DEF Replies
    <3>2. \A j \in DOMAIN stdout' : stdout[j + 1].of = stdout[k + 1].of /\ j + 1 = k + 1 => j = k BY <2>2
    <3> QED BY <2>2, <3>1, <3>2 DEF Replied
  <2> QED BY <1>4, <2>1, <2>3
<1>7. ASSUME NEW c \in Callers, Answers(c)
      PROVE  Requests(stdin', calls') /\ Replies(stdin', stdout', calls', unasked')
  <2>9. PICK text \in {"message", "misshapen"} : Answer(c, text) BY <1>7 DEF Answers
  <2> DEFINE it == [id |-> calls[c].id, of |-> c, text |-> text]
  <2>1. /\ stdin # <<>> /\ stdin' = Tail(stdin) /\ c = Head(stdin) /\ unasked' = unasked /\ calls' = calls
        /\ \/ stdout' = stdout
           \/ calls[c].kind # "notify" /\ stdout' = Append(stdout, it)
    BY <2>9 DEF Answer
  <2>2. /\ c = stdin[1] /\ 1 \in DOMAIN stdin
        /\ \A k \in DOMAIN stdin' : k + 1 \in DOMAIN stdin /\ k + 1 # 1 /\ stdin'[k] = stdin[k + 1] /\ k \in Int
    BY <1>1, <2>1, Popped
  <2>3. Requests(stdin', calls')
    <3>1. \A k \in DOMAIN stdin' : Gone(stdin'[k], calls') BY <1>4, <2>2 DEF Requests
    <3>2. ASSUME NEW j \in DOMAIN stdin', NEW k \in DOMAIN stdin', stdin'[j] = stdin'[k] PROVE j = k
      <4>1. j + 1 = k + 1 BY <1>4, <2>2, <3>2 DEF Requests
      <4> QED BY <2>2, <4>1
    <3> QED BY <3>1, <3>2 DEF Requests
  <2>4. Gone(c, calls) /\ \A k \in DOMAIN stdin' : stdin'[k] # c BY <1>2, <2>2 DEF Requests
  <2>5. \A k \in DOMAIN stdout : stdout[k].of # c BY <1>2, <2>2, McpAssumption DEF Replies, Replied
  <2>6. Replies(stdin', stdout, calls', unasked)
    BY <1>4, <2>2 DEF Replies, Replied
  <2>7. CASE stdout' = stdout BY <2>1, <2>3, <2>6, <2>7
  <2>8. CASE calls[c].kind # "notify" /\ stdout' = Append(stdout, it)
    <3>1. calls[c].kind = "request" /\ it \in Items BY <2>8 DEF TypeOK, Items, Texts
    <3>2. it.of = c /\ it.id = calls[c].id /\ it.text # "junk" OBVIOUS
    <3> HIDE DEF it
    <3>3. /\ \A k \in DOMAIN stdout : k \in DOMAIN stdout' /\ stdout'[k] = stdout[k]
          /\ \A k \in DOMAIN stdout' : k \in DOMAIN stdout \/ (k = Len(stdout) + 1 /\ stdout'[k] = it)
      BY <1>1, <2>8, <3>1, Pushed
    <3>4. ASSUME NEW k \in DOMAIN stdout', k \in DOMAIN stdout PROVE Replied(k, stdin', stdout', calls', unasked)
      <4>1. Replied(k, stdin', stdout, calls', unasked) /\ stdout'[k] = stdout[k] /\ stdout[k].of # c
        BY <2>5, <2>6, <3>3, <3>4 DEF Replies
      <4> QED BY <3>2, <3>3, <4>1 DEF Replied
    <3>5. ASSUME NEW k \in DOMAIN stdout', k = Len(stdout) + 1, stdout'[k] = it
          PROVE  Replied(k, stdin', stdout', calls', unasked)
      <4>1. \A j \in DOMAIN stdout' : stdout'[j].of = c => j = k BY <2>5, <3>3, <3>5
      <4> QED BY <2>1, <2>4, <3>1, <3>2, <3>5, <4>1, McpAssumption DEF Replied
    <3> QED BY <2>1, <2>3, <3>3, <3>4, <3>5 DEF Replies
  <2> QED BY <2>1, <2>7, <2>8
<1>8. ASSUME NEW id \in 0 .. 2, Sends(id)
      PROVE  Requests(stdin', calls') /\ Replies(stdin', stdout', calls', unasked')
  <2>6. PICK text \in Texts : Unasked(id, text) BY <1>8 DEF Sends
  <2> DEFINE it == [id |-> id, of |-> Nobody, text |-> text]
  <2>1. /\ unasked' = Append(unasked, id) /\ stdout' = Append(stdout, it) /\ stdin' = stdin
    BY <2>6 DEF Unasked
  <2>2. /\ it \in Items /\ it.of = Nobody /\ it.id = id /\ id \in Nat
        /\ it.id = 0 => it.text = "message"
    BY <2>6 DEF Items, Unasked
  <2> HIDE DEF it
  <2>3. /\ \A k \in DOMAIN stdout : k \in DOMAIN stdout' /\ stdout'[k] = stdout[k]
        /\ \A k \in DOMAIN stdout' : k \in DOMAIN stdout \/ (k = Len(stdout) + 1 /\ stdout'[k] = it)
    BY <1>1, <2>1, <2>2, Pushed
  <2>4. /\ \A k \in DOMAIN unasked : k \in DOMAIN unasked' /\ unasked'[k] = unasked[k]
        /\ \E n \in DOMAIN unasked' : unasked'[n] = id
    <3>1. /\ \A k \in DOMAIN unasked : k \in DOMAIN Append(unasked, id) /\ Append(unasked, id)[k] = unasked[k]
          /\ Len(unasked) + 1 \in DOMAIN Append(unasked, id) /\ Append(unasked, id)[Len(unasked) + 1] = id
      BY <1>1, <2>2, Pushed
    <3> QED BY <2>1, <3>1
  <2>5. ASSUME NEW k \in DOMAIN stdout' PROVE Replied(k, stdin, stdout', calls', unasked')
    <3>1. CASE k \in DOMAIN stdout /\ stdout[k].of = Nobody
      <4>1. Replied(k, stdin, stdout, calls', unasked) /\ stdout'[k] = stdout[k] BY <1>4, <2>3, <3>1 DEF Replies
      <4> QED BY <2>4, <3>1, <4>1 DEF Replied
    <3>2. CASE k \in DOMAIN stdout /\ stdout[k].of # Nobody
      <4>1. Replied(k, stdin, stdout, calls', unasked) /\ stdout'[k] = stdout[k] BY <1>4, <2>3, <3>2 DEF Replies
      <4> QED BY <2>2, <2>3, <3>2, <4>1 DEF Replied
    <3>3. CASE k = Len(stdout) + 1 /\ stdout'[k] = it BY <2>2, <2>4, <3>3 DEF Replied
    <3> QED BY <2>3, <3>1, <3>2, <3>3
  <2> QED BY <1>4, <2>1, <2>5 DEF Replies
<1>9. CASE UNCHANGED <<stdin, stdout, unasked>> BY <1>4, <1>9
<1>10. ASSUME NEW c \in Callers, Writes(c) PROVE stdin' = Append(stdin, c) \/ UNCHANGED <<stdin, stdout, unasked>>
  BY <1>10, CallMoves
<1>12. ASSUME NEW c \in Callers, Skip(c) \/ Receive(c) \/ ReadFails(c), stdout' = stdout
       PROVE  UNCHANGED <<stdin, stdout, unasked>>
  BY <1>12 DEF Skip, Receive, ReadFails
<1>11. ASSUME \/ \E c \in Callers : \E kind \in {"request", "notify"}, large \in BOOLEAN : Begin(c, kind, large)
              \/ \E c \in Callers : Acquire(c) \/ Cancel(c) \/ Closes(c)
              \/ Shut \/ Exit \/ UNCHANGED mcpVars
       PROVE  UNCHANGED <<stdin, stdout, unasked>>
  BY <1>11 DEF Begin, Acquire, Cancel, Closes, Shut, Exit, mcpVars
<1> QED BY Steps, <1>5, <1>6, <1>7, <1>8, <1>9, <1>10, <1>11, <1>12

-----------------------------------------------------------------------------
(* Answers and requests in step. *)

Quiet(un) == \A n \in DOMAIN un : un[n] = 0
Waiting(c, in, out, cs) ==
  \/ cs[c].kind = "request" /\ \E k \in DOMAIN in : in[k] = c
  \/ \E k \in DOMAIN out : out[k].of = c

LEMMA Typed ==
  ASSUME TypeOK
  PROVE  /\ stdin \in Seq(Callers) /\ stdout \in Seq(Items) /\ unasked \in Seq(Nat)
         /\ \A k \in DOMAIN stdout : stdout[k].of \in Callers \cup {Nobody}
<1>1. stdin \in Seq(Callers) /\ stdout \in Seq(Items) /\ unasked \in Seq(Nat) BY DEF TypeOK, Items
<1>2. \A k \in DOMAIN stdout : stdout[k] \in Items BY <1>1, ElementOfSeq, LenProperties
<1> QED BY <1>1, <1>2 DEF Items

\* Client.mu lets one in.
LEMMA OneHolder ==
  ASSUME LockInv, NEW c \in Callers, NEW d \in Callers,
         calls[c].pc \in {"encoding", "writing", "reading", "closing"}, calls[d].pc \in {"encoding", "writing", "reading", "closing"}
  PROVE  c = d
BY DEF LockInv

LEMMA SentBefore ==
  ASSUME TypeOK, WireInv, NEW c \in Callers, Waiting(c, stdin, stdout, calls)
  PROVE  Gone(c, calls)
BY Wires, McpAssumption DEF Waiting, Requests, Replies, Replied

\* As long as the server numbers nothing of its own, what is read is the answer to
\* who reads it, and no other is outstanding.
LEMMA OwnAnswer ==
  ASSUME TypeOK, LockInv, WireInv, InStep, Quiet(unasked), NEW c \in Callers,
         calls[c].pc = "reading", stdout # <<>>, Head(stdout).id # 0 \/ Head(stdout).text # "message"
  PROVE  /\ Head(stdout).of = c /\ Head(stdout).text # "junk" /\ Head(stdout).id = calls[c].id
         /\ \A d \in Callers : ~Waiting(d, stdin, Tail(stdout), calls)
<1>1. calls[c].pc = "reading" /\ stdout # <<>> /\ (Head(stdout).id # 0 \/ Head(stdout).text # "message") OBVIOUS
<1>2. /\ Head(stdout) = stdout[1] /\ 1 \in DOMAIN stdout
      /\ \A k \in DOMAIN Tail(stdout) : k + 1 \in DOMAIN stdout /\ k + 1 # 1 /\ Tail(stdout)[k] = stdout[k + 1]
  BY <1>1, Typed, Popped
<1>3. Replied(1, stdin, stdout, calls, unasked) BY <1>2, Wires DEF Replies
<1>4. Head(stdout).of \in Callers
  <2>1. stdout[1].of # Nobody BY <1>1, <1>2, <1>3 DEF Replied, Quiet
  <2> QED BY <1>2, <2>1, Typed
<1>5. \A d \in Callers : Waiting(d, stdin, stdout, calls) => d = c
  <2> SUFFICES ASSUME NEW d \in Callers, Waiting(d, stdin, stdout, calls) PROVE d = c OBVIOUS
  <2>1. Outstanding(d) BY DEF Outstanding, Waiting
  <2>2. calls[d].pc \in {"reading", "closing"} BY <1>1, <2>1 DEF InStep, Quiet
  <2> QED BY <1>1, <2>2, OneHolder
<1>6. Head(stdout).of = c BY <1>2, <1>4, <1>5 DEF Waiting
<1>7. Head(stdout).id = calls[c].id /\ Head(stdout).text # "junk" BY <1>2, <1>3, <1>4, <1>6, McpAssumption DEF Replied
<1>8. ASSUME NEW d \in Callers PROVE ~Waiting(d, stdin, Tail(stdout), calls)
  <2>1. Waiting(d, stdin, Tail(stdout), calls) => Waiting(d, stdin, stdout, calls) BY <1>2 DEF Waiting
  <2>2. ~Waiting(c, stdin, Tail(stdout), calls)
    <3>1. \A j \in DOMAIN stdin : stdin[j] # c BY <1>2, <1>3, <1>4, <1>6, McpAssumption DEF Replied
    <3>2. \A j \in DOMAIN stdout : stdout[j].of = c => j = 1 BY <1>2, <1>3, <1>4, <1>6, McpAssumption DEF Replied
    <3> QED BY <1>2, <3>1, <3>2 DEF Waiting
  <2> QED BY <1>5, <2>1, <2>2
<1> QED BY <1>6, <1>7, <1>8

\* A number is never taken back.
LEMMA QuietBefore ==
  ASSUME TypeOK, [Next]_mcpVars
  PROVE  /\ \A n \in DOMAIN unasked : n \in DOMAIN unasked' /\ unasked'[n] = unasked[n]
         /\ Quiet(unasked') => Quiet(unasked)
<1>1. ASSUME NEW id \in 0 .. 2, Sends(id)
      PROVE  \A n \in DOMAIN unasked : n \in DOMAIN unasked' /\ unasked'[n] = unasked[n]
  <2>1. id \in Nat /\ unasked' = Append(unasked, id) BY <1>1 DEF Sends, Unasked
  <2>2. \A n \in DOMAIN unasked : n \in DOMAIN Append(unasked, id) /\ Append(unasked, id)[n] = unasked[n]
    BY <2>1, Typed, Pushed
  <2> QED BY <2>1, <2>2
<1>2. (\A id \in 0 .. 2 : ~Sends(id)) => unasked' = unasked
  BY Steps DEF Begin, Acquire, Writes, Encode, Takes, WriteFails, Skip, Receive, ReadFails, Cancel, Closes, Answers, Answer, Shut, Exit, mcpVars
<1>3. \A n \in DOMAIN unasked : n \in DOMAIN unasked' /\ unasked'[n] = unasked[n] BY <1>1, <1>2
<1> QED BY <1>3 DEF Quiet

LEMMA InStepStep ==
  ASSUME TypeOK, LockInv, WireInv, InStep, [Next]_mcpVars
  PROVE  InStep'
<1> DEFINE Sound(c, cs, sv) == \/ cs[c].pc \in {"reading", "closing"}
                               \/ sv = "gone" /\ \A d \in Callers : cs[d].pc # "reading"
<1> SUFFICES ASSUME Quiet(unasked'), NEW e \in Callers, Waiting(e, stdin', stdout', calls')
             PROVE  Sound(e, calls', server')
  BY DEF InStep, Outstanding, Quiet, Waiting
<1>1. Quiet(unasked) BY QuietBefore
<1>2. \A c \in Callers : Waiting(c, stdin, stdout, calls) => Sound(c, calls, server)
  BY <1>1 DEF InStep, Outstanding, Quiet, Waiting
<1>3. \A c \in Callers : Waiting(c, stdin, stdout, calls) => Gone(c, calls) BY SentBefore
<1>4. ASSUME NEW c \in Callers, NEW kind \in {"request", "notify"}, NEW large \in BOOLEAN, Begin(c, kind, large)
      PROVE  Sound(e, calls', server')
  <2>1. /\ Only(c) /\ calls[c].pc = "idle" /\ calls'[c].pc = "locking"
        /\ stdin' = stdin /\ stdout' = stdout /\ server' = server
    BY <1>4, CallMoves DEF Begin
  <2>2. \A k \in DOMAIN stdin : stdin[k] # c BY <2>1, Wires DEF Requests, Gone
  <2>3. Waiting(e, stdin, stdout, calls) BY <2>1, <2>2 DEF Waiting, Only
  <2>4. e # c BY <1>3, <2>1, <2>3 DEF Gone
  <2> QED BY <1>2, <2>1, <2>3, <2>4 DEF Only
<1>5. ASSUME NEW c \in Callers, Acquire(c)
      PROVE  Sound(e, calls', server')
  <2>1. /\ Only(c) /\ calls[c].pc = "locking" /\ calls'[c].pc = "encoding" /\ calls'[c].kind = calls[c].kind
        /\ stdin' = stdin /\ stdout' = stdout /\ server' = server
    BY <1>5, CallMoves DEF Acquire
  <2>2. Waiting(e, stdin, stdout, calls) BY <2>1 DEF Waiting, Only
  <2>3. e # c BY <1>3, <2>1, <2>2 DEF Gone
  <2> QED BY <1>2, <2>1, <2>2, <2>3 DEF Only
<1>6. ASSUME NEW c \in Callers, Writes(c)
      PROVE  Sound(e, calls', server')
  <2>1. /\ Only(c) /\ calls[c].pc \in {"encoding", "writing"} /\ calls'[c].kind = calls[c].kind
        /\ stdout' = stdout /\ server' = server
        /\ \/ calls'[c].pc \in {"done", "writing"} /\ stdin' = stdin
           \/ stdin' = Append(stdin, c) /\ server = "up" /\ calls[c].kind = "notify" /\ calls'[c].pc = "done"
           \/ stdin' = Append(stdin, c) /\ server = "up" /\ calls[c].kind = "request" /\ calls'[c].pc = "reading"
    BY <1>6, CallMoves
  <2>2. \A k \in DOMAIN Append(stdin, c) : (k \in DOMAIN stdin /\ Append(stdin, c)[k] = stdin[k]) \/ Append(stdin, c)[k] = c
    BY Typed, Pushed
  <2>3. ~Waiting(c, stdin, stdout, calls) BY <1>3, <2>1 DEF Gone
  <2>4. CASE e # c
    <3>1. Waiting(e, stdin, stdout, calls) BY <2>1, <2>2, <2>4 DEF Waiting, Only
    <3>2. server = "up" => calls[e].pc \in {"reading", "closing"} BY <1>2, <3>1
    <3>3. server # "up" BY <2>1, <2>4, <3>2, OneHolder
    <3> QED BY <1>2, <2>1, <2>4, <3>1, <3>3 DEF Only
  <2>5. CASE e = c /\ calls'[c].pc # "reading" BY <2>1, <2>2, <2>3, <2>5 DEF Waiting, Only
  <2> QED BY <2>4, <2>5
<1>7. ASSUME NEW c \in Callers, Skip(c)
      PROVE  Sound(e, calls', server')
  <2>1. /\ stdout # <<>> /\ stdout' = Tail(stdout) /\ stdin' = stdin /\ calls' = calls /\ server' = server
    BY <1>7 DEF Skip
  <2>2. \A k \in DOMAIN stdout' : k + 1 \in DOMAIN stdout /\ stdout'[k] = stdout[k + 1] BY <2>1, Typed, Popped
  <2>3. Waiting(e, stdin, stdout, calls) BY <2>1, <2>2 DEF Waiting
  <2> QED BY <1>2, <2>1, <2>3
<1>8. ASSUME NEW c \in Callers, Receive(c)
      PROVE  Sound(e, calls', server')
  <2>1. /\ Only(c) /\ calls'[c].kind = calls[c].kind /\ stdin' = stdin /\ stdout' = Tail(stdout)
    BY <1>8, CallMoves DEF Receive
  <2>2. ~Waiting(e, stdin, Tail(stdout), calls)
    <3>1. calls[c].pc = "reading" /\ stdout # <<>> /\ Head(stdout).id # 0 BY <1>8 DEF Receive
    <3> QED BY <1>1, <3>1, OwnAnswer
  <2> QED BY <2>1, <2>2 DEF Waiting, Only
<1>13. ASSUME NEW c \in Callers, ReadFails(c), server # "gone"
       PROVE  Sound(e, calls', server')
  <2>1. /\ Only(c) /\ calls[c].pc = "reading" /\ calls'[c].kind = calls[c].kind /\ stdin' = stdin
        /\ stdout # <<>> /\ Head(stdout).text # "message"
        /\ Head(stdout).text # "junk" => stdout' = Tail(stdout)
    BY <1>13, CallMoves DEF ReadFails
  <2>2. stdout' = Tail(stdout) /\ ~Waiting(e, stdin, Tail(stdout), calls) BY <1>1, <2>1, OwnAnswer
  <2> QED BY <2>1, <2>2 DEF Waiting, Only
<1>9. ASSUME NEW c \in Callers, (ReadFails(c) /\ server = "gone") \/ Cancel(c) \/ Closes(c)
      PROVE  Sound(e, calls', server')
  <2>1. /\ Only(c) /\ calls[c].pc \in {"reading", "closing"} /\ calls'[c].kind = calls[c].kind
        /\ calls'[c].pc \in {"done", "closing"} /\ stdin' = stdin
        /\ stdout' = stdout \/ (stdout # <<>> /\ stdout' = Tail(stdout))
    BY <1>9, CallMoves DEF ReadFails, Cancel, Closes
  <2>2. Waiting(e, stdin, stdout, calls)
    <3>1. stdout # <<>> => \A k \in DOMAIN Tail(stdout) : k + 1 \in DOMAIN stdout /\ Tail(stdout)[k] = stdout[k + 1]
      BY Typed, Popped
    <3> QED BY <2>1, <3>1 DEF Waiting, Only
  <2>3. \A d \in Callers : calls'[d].pc # "reading" BY <2>1, OneHolder DEF Only
  <2>4. CASE (ReadFails(c) /\ server = "gone") \/ Closes(c) BY <2>3, <2>4 DEF ReadFails, Closes
  <2>5. CASE Cancel(c)
    <3>1. calls[c].pc = "reading" /\ server' = server /\ calls'[c].pc = "closing"
      <4>1. calls \in [Callers -> Records] BY DEF TypeOK, Records
      <4> QED BY <2>5, <4>1 DEF Cancel, Set, Records
    <3>2. calls[e].pc \in {"reading", "closing"} BY <1>2, <2>2, <3>1
    <3>3. e = c BY <3>1, <3>2, OneHolder
    <3> QED BY <3>1, <3>3
  <2> QED BY <1>9, <2>4, <2>5
<1>10. ASSUME NEW c \in Callers, Answers(c)
       PROVE  Sound(e, calls', server')
  <2>7. PICK text \in {"message", "misshapen"} : Answer(c, text) BY <1>10 DEF Answers
  <2> DEFINE it == [id |-> calls[c].id, of |-> c, text |-> text]
  <2>1. /\ stdin # <<>> /\ stdin' = Tail(stdin) /\ c = Head(stdin) /\ calls' = calls /\ server' = server
        /\ \/ stdout' = stdout
           \/ calls[c].kind # "notify" /\ stdout' = Append(stdout, it)
    BY <2>7 DEF Answer
  <2>2. /\ c = stdin[1] /\ 1 \in DOMAIN stdin
        /\ \A k \in DOMAIN stdin' : k + 1 \in DOMAIN stdin /\ stdin'[k] = stdin[k + 1]
    BY <2>1, Typed, Popped
  <2>3. it \in Items /\ it.of = c BY DEF TypeOK, Items, Texts
  <2> HIDE DEF it
  <2>4. \A k \in DOMAIN Append(stdout, it) : (k \in DOMAIN stdout /\ Append(stdout, it)[k] = stdout[k])
                                             \/ Append(stdout, it)[k] = it
    BY <2>3, Typed, Pushed
  <2>5. calls[c].kind # "notify" => calls[c].kind = "request" BY DEF TypeOK
  <2>6. Waiting(e, stdin, stdout, calls)
    <3>1. CASE calls'[e].kind = "request" /\ \E k \in DOMAIN stdin' : stdin'[k] = e
      BY <2>1, <2>2, <3>1 DEF Waiting
    <3>2. CASE \E k \in DOMAIN stdout' : stdout'[k].of = e
      <4>1. CASE stdout' = stdout BY <3>2, <4>1 DEF Waiting
      <4>2. CASE calls[c].kind # "notify" /\ stdout' = Append(stdout, it)
        BY <2>2, <2>3, <2>4, <2>5, <3>2, <4>2 DEF Waiting
      <4> QED BY <2>1, <4>1, <4>2
    <3> QED BY <3>1, <3>2 DEF Waiting
  <2> QED BY <1>2, <2>1, <2>6
<1>11. ASSUME NEW id \in 0 .. 2, Sends(id)
       PROVE  Sound(e, calls', server')
  <2>5. PICK text \in Texts : Unasked(id, text) BY <1>11 DEF Sends
  <2> DEFINE it == [id |-> id, of |-> Nobody, text |-> text]
  <2>1. stdout' = Append(stdout, it) /\ stdin' = stdin /\ calls' = calls /\ server' = server
    BY <2>5 DEF Unasked
  <2>2. it \in Items /\ it.of = Nobody BY DEF Items
  <2> HIDE DEF it
  <2>3. \A k \in DOMAIN stdout' : (k \in DOMAIN stdout /\ stdout'[k] = stdout[k]) \/ stdout'[k] = it
    BY <2>1, <2>2, Typed, Pushed
  <2>4. Waiting(e, stdin, stdout, calls) BY <2>1, <2>2, <2>3, McpAssumption DEF Waiting
  <2> QED BY <1>2, <2>1, <2>4
<1>12. CASE Shut \/ Exit \/ UNCHANGED mcpVars
  <2>1. /\ stdin' = stdin /\ stdout' = stdout /\ calls' = calls /\ (server = "gone" => server' = "gone")
    BY <1>12 DEF Shut, Exit, mcpVars
  <2>2. Waiting(e, stdin, stdout, calls) BY <2>1 DEF Waiting
  <2> QED BY <1>2, <2>1, <2>2
<1> QED BY Steps, <1>4, <1>5, <1>6, <1>7, <1>8, <1>9, <1>10, <1>11, <1>12, <1>13

LEMMA OwnStep ==
  ASSUME TypeOK, LockInv, IdsInv, WireInv, InStep, RepliesAreOwn, [Next]_mcpVars
  PROVE  RepliesAreOwn'
<1> DEFINE Own(c, cs, un) ==
             /\ cs[c].out = "ok" => \/ cs[c].of = c
                                    \/ cs[c].of = Nobody /\ \E k \in DOMAIN un : un[k] = cs[c].id
             /\ cs[c].out = "mismatch" => \E k \in DOMAIN un : un[k] # 0
<1>1. \A s \in Seq(Nat) : DOMAIN s = 1 .. Len(s) BY LenProperties
<1>2. unasked \in Seq(Nat) /\ unasked' \in Seq(Nat)
  <2>1. TypeOK' BY TypeStep
  <2> QED BY <2>1 DEF TypeOK
<1>3. \A c \in Callers : Own(c, calls, unasked) BY <1>1, <1>2 DEF RepliesAreOwn
<1> SUFFICES ASSUME NEW e \in Callers PROVE Own(e, calls', unasked')
  BY <1>1, <1>2 DEF RepliesAreOwn
<1>4. \A n \in DOMAIN unasked : n \in DOMAIN unasked' /\ unasked'[n] = unasked[n] BY QuietBefore
<1>5. Own(e, calls, unasked') BY <1>3, <1>4
<1>6. CASE calls'[e] = calls[e] BY <1>5, <1>6
<1>7. CASE calls'[e].out \notin {"ok", "mismatch"} BY <1>7
<1>8. ASSUME NEW c \in Callers, NEW kind \in {"request", "notify"}, NEW large \in BOOLEAN, Begin(c, kind, large)
      PROVE  calls'[e] = calls[e] \/ calls'[e].out \notin {"ok", "mismatch"}
  <2>1. Only(c) /\ calls[c].pc = "idle" /\ calls'[c].out = calls[c].out BY <1>8, CallMoves
  <2> QED BY <2>1 DEF Only, IdsInv
<1>9. ASSUME NEW c \in Callers, Acquire(c)
      PROVE  calls'[e] = calls[e] \/ calls'[e].out \notin {"ok", "mismatch"}
  <2>1. Only(c) /\ calls[c].pc = "locking" /\ calls'[c].out = calls[c].out BY <1>9, CallMoves
  <2> QED BY <2>1 DEF Only, IdsInv
<1>10. ASSUME NEW c \in Callers, Writes(c)
       PROVE  calls'[e] = calls[e] \/ calls'[e].out \notin {"ok", "mismatch"}
  <2>1. Only(c) /\ calls[c].pc \in {"encoding", "writing"} /\ calls'[c].out \in {calls[c].out, "error", "sent"}
    BY <1>10, CallMoves
  <2> QED BY <2>1 DEF Only, IdsInv
<1>11. ASSUME NEW c \in Callers, ReadFails(c) \/ Cancel(c) \/ Closes(c)
       PROVE  calls'[e] = calls[e] \/ calls'[e].out \notin {"ok", "mismatch"}
  <2>1. Only(c) /\ calls[c].pc \in {"reading", "closing"} /\ calls'[c].out \in {calls[c].out, "error", "cancelled"}
    BY <1>11, CallMoves
  <2> QED BY <2>1 DEF Only, IdsInv
<1>12. ASSUME NEW c \in Callers, Receive(c)
       PROVE  Own(e, calls', unasked')
  <2>1. /\ Only(c) /\ calls[c].pc = "reading" /\ calls'[c].id = calls[c].id
        /\ calls'[c].out = Verdict(c, Head(stdout)) /\ calls'[c].of = Head(stdout).of
        /\ stdout # <<>> /\ Head(stdout).id # 0 /\ unasked' = unasked
    BY <1>12, CallMoves DEF Receive
  <2>2. CASE e # c BY <1>6, <2>1, <2>2 DEF Only
  <2>3. 1 \in DOMAIN stdout /\ Head(stdout) = stdout[1] BY <2>1, Typed, Popped
  <2>4. Replied(1, stdin, stdout, calls, unasked) BY <2>3, Wires DEF Replies
  <2>5. ASSUME Head(stdout).id = calls[c].id, Head(stdout).of # Nobody
        PROVE  Head(stdout).of = c
    <3>1. Head(stdout).of \in Callers BY <2>3, <2>5, Typed
    <3>2. calls[Head(stdout).of].id = calls[c].id /\ calls[c].id # 0
      BY <2>1, <2>3, <2>4, <2>5 DEF Replied
    <3> QED BY <3>1, <3>2 DEF IdsInv
  <2>6. Head(stdout).of = Nobody => \E n \in DOMAIN unasked : unasked[n] = Head(stdout).id
    BY <2>3, <2>4 DEF Replied
  <2>7. Head(stdout).id # calls[c].id => ~Quiet(unasked) BY <2>1, OwnAnswer
  <2>8. CASE e = c BY <2>1, <2>5, <2>6, <2>7, <2>8 DEF Verdict, Quiet
  <2> QED BY <2>2, <2>8
<1>13. ASSUME \/ \E c \in Callers : Skip(c) \/ Answers(c)
              \/ Shut \/ Exit \/ (\E id \in 0 .. 2 : Sends(id)) \/ UNCHANGED mcpVars
       PROVE  calls'[e] = calls[e]
  BY <1>13 DEF Skip, Answers, Answer, Shut, Exit, Sends, Unasked, mcpVars
<1> QED BY Steps, <1>6, <1>7, <1>8, <1>9, <1>10, <1>11, <1>12, <1>13

-----------------------------------------------------------------------------
LEMMA McpInit == Init => IInv
<1> SUFFICES ASSUME Init PROVE IInv OBVIOUS
<1>1. /\ calls = [c \in Callers |-> NewCall] /\ NewCall \in Records /\ NewCall.pc = "idle" /\ NewCall.out = "none"
      /\ NewCall.id = 0
  BY DEF Init, NewCall, Records, Stages
<1>2. TypeOK
  <2>1. calls \in [Callers -> Records] BY <1>1
  <2>2. <<>> \in Seq(Callers) /\ <<>> \in Seq([id : Nat, of : Callers \cup {Nobody}, text : Texts]) /\ <<>> \in Seq(Nat)
    OBVIOUS
  <2>3. /\ lock \in Callers \cup {Nobody} /\ nextID \in Nat
        /\ server \in {"up", "gone"} /\ closed \in BOOLEAN
        /\ stdin = <<>> /\ stdout = <<>> /\ unasked = <<>>
    BY DEF Init
  <2> QED BY <2>1, <2>2, <2>3 DEF TypeOK, Records
<1>3. LockInv BY <1>1, McpAssumption DEF Init, LockInv
<1>4. IdsInv
  <2>1. nextID = 0 /\ \A c \in Callers : calls[c] = NewCall BY <1>1 DEF Init
  <2>2. \A c \in Callers : calls[c].id = 0 /\ calls[c].pc = "idle" /\ calls[c].out = "none" BY <1>1, <2>1
  <2>3. \A c \in Callers : calls[c].id <= nextID
    <3>1. 0 <= 0 OBVIOUS
    <3> QED BY <2>1, <2>2, <3>1, Zenon
  <2>4. \A c \in Callers : calls[c].pc \in {"idle", "locking"} BY <2>2
  <2> QED BY <2>2, <2>3, <2>4 DEF IdsInv
<1>5. WireInv BY DEF Init, WireInv
<1>6. InStep BY DEF Init, InStep, Outstanding
<1>7. RepliesAreOwn BY <1>1 DEF RepliesAreOwn
<1> QED BY <1>2, <1>3, <1>4, <1>5, <1>6, <1>7 DEF IInv

\* The answers stay in step with the requests (Client.Request holds c.mu from the
\* number to the answer or the Close; readResponse; validateResponse).
THEOREM McpInductive == Spec => []IInv
<1>1. IInv /\ [Next]_mcpVars => IInv'
  <2> SUFFICES ASSUME IInv, [Next]_mcpVars PROVE IInv' OBVIOUS
  <2>1. TypeOK /\ LockInv /\ IdsInv /\ WireInv /\ InStep /\ RepliesAreOwn BY DEF IInv
  <2>2. TypeOK' /\ LockInv' /\ IdsInv' BY <2>1, TypeStep, LockStep, IdsStep
  <2>3. WireInv' /\ InStep' /\ RepliesAreOwn' BY <2>1, WireStep, InStepStep, OwnStep
  <2> QED BY <2>2, <2>3 DEF IInv
<1> QED BY McpInit, <1>1, PTL DEF Spec

\* A request that succeeds got the answer to itself, whatever was slow, cancelled
\* or closed in between, or the number of a request of the server's own; and the
\* client reports a mismatch only if the server numbered something of its own
\* (tools/mcp Client.Request, stdioTransport, validateResponse).
THEOREM AnswersAreOwn == Spec => []RepliesAreOwn
<1>1. IInv => RepliesAreOwn BY DEF IInv
<1> QED BY McpInductive, <1>1, PTL

-----------------------------------------------------------------------------
(* The shell executor.  Its output is runs of numbers: what is kept of it, *)
(* what one write adds, and what falls out between the head and the tail.  *)

\* The two parts of the buffer make up the limit.
LEMMA Halves ==
  ASSUME limit \in Nat \ {0}
  PROVE  TailMax \in Nat /\ HeadMax \in Nat /\ HeadMax # 0
<1>1. limit \div 2 \in Nat /\ 2 * (limit \div 2) <= limit BY SMT
<1> QED BY <1>1 DEF TailMax, HeadMax

\* The bytes from one to another, in order.
InOrder(s, from, len) == s \in Seq(Int) /\ Len(s) = len /\ \A n \in 1 .. len : s[n] = from + n - 1

LEMMA Numbered ==
  ASSUME NEW from \in Int, NEW to \in Int, from <= to + 1
  PROVE  InOrder(Numbers(from, to), from, to - from + 1)
<1> DEFINE len == to - from + 1
<1>1. len \in Nat OBVIOUS
<1>2. Numbers(from, to) \in [1 .. len -> Int] BY DEF Numbers
<1>3. Numbers(from, to) \in Seq(Int) BY <1>1, <1>2, SeqDef
<1>4. DOMAIN Numbers(from, to) = 1 .. len BY DEF Numbers
<1>5. Len(Numbers(from, to)) = len BY <1>1, <1>3, <1>4, LenProperties
<1>6. \A n \in 1 .. len : Numbers(from, to)[n] = from + n - 1 BY DEF Numbers
<1> QED BY <1>3, <1>5, <1>6 DEF InOrder

\* Nothing is printed between a byte and the next.
LEMMA NoneBetween ==
  ASSUME NEW from \in Int PROVE Numbers(from, from - 1) = <<>>
<1>1. InOrder(Numbers(from, from - 1), from, (from - 1) - from + 1)
  <2>1. from - 1 \in Int /\ from <= (from - 1) + 1 OBVIOUS
  <2> QED BY <2>1, Numbered
<1>2. Numbers(from, from - 1) \in Seq(Int) /\ Len(Numbers(from, from - 1)) = 0 BY <1>1 DEF InOrder
<1> QED BY <1>2, EmptySeq

\* What is printed next continues what was.
LEMMA Joined ==
  ASSUME NEW from \in Int, NEW mid \in Int, NEW to \in Int, from <= mid + 1, mid <= to
  PROVE  Numbers(from, mid) \o Numbers(mid + 1, to) = Numbers(from, to)
<1> DEFINE a == Numbers(from, mid)
           b == Numbers(mid + 1, to)
           c == Numbers(from, to)
<1>1. InOrder(a, from, mid - from + 1) BY Numbered
<1>2. InOrder(b, mid + 1, to - mid)
  <2>1. mid + 1 \in Int /\ mid + 1 <= to + 1 /\ to - (mid + 1) + 1 = to - mid OBVIOUS
  <2>2. InOrder(b, mid + 1, to - (mid + 1) + 1) BY <2>1, Numbered
  <2> QED BY <2>1, <2>2
<1>3. InOrder(c, from, to - from + 1) BY Numbered
<1> HIDE DEF a, b, c
<1>4. /\ a \o b \in Seq(Int) /\ Len(a \o b) = Len(a) + Len(b)
      /\ \A n \in 1 .. Len(a) + Len(b) : (a \o b)[n] = IF n <= Len(a) THEN a[n] ELSE b[n - Len(a)]
  BY <1>1, <1>2, ConcatProperties DEF InOrder
<1>5. Len(a \o b) = to - from + 1 /\ Len(c) = to - from + 1 BY <1>1, <1>2, <1>3, <1>4 DEF InOrder
<1>6. ASSUME NEW n \in 1 .. to - from + 1 PROVE (a \o b)[n] = c[n]
  <2>1. c[n] = from + n - 1 BY <1>3 DEF InOrder
  <2>2. Len(a) = mid - from + 1 /\ Len(a) + Len(b) = to - from + 1 BY <1>1, <1>2 DEF InOrder
  <2>3. (a \o b)[n] = IF n <= Len(a) THEN a[n] ELSE b[n - Len(a)] BY <1>4, <2>2
  <2>4. CASE n <= Len(a)
    <3>1. n \in 1 .. mid - from + 1 BY <2>2, <2>4
    <3>2. a[n] = from + n - 1 BY <1>1, <3>1 DEF InOrder
    <3> QED BY <2>1, <2>3, <2>4, <3>2
  <2>5. CASE ~(n <= Len(a))
    <3>1. n - Len(a) \in 1 .. to - mid BY <2>2, <2>5
    <3>2. b[n - Len(a)] = mid + 1 + (n - Len(a)) - 1 BY <1>2, <3>1 DEF InOrder
    <3> QED BY <2>1, <2>2, <2>3, <2>5, <3>2
  <2> QED BY <2>4, <2>5
<1>7. a \o b = c BY <1>3, <1>4, <1>5, <1>6, SeqEqual DEF InOrder
<1> QED BY <1>7 DEF a, b, c

\* The last bytes of a run are a run.
LEMMA Ending ==
  ASSUME NEW from \in Int, NEW to \in Int, NEW n \in Nat, from <= to - n + 1
  PROVE  Suffix(Numbers(from, to), n) = Numbers(to - n + 1, to)
<1> DEFINE s == Numbers(from, to)
           len == to - from + 1
           m == len - n + 1
           c == Numbers(to - n + 1, to)
<1>1. InOrder(s, from, len)
  <2>1. from <= to + 1 OBVIOUS
  <2> QED BY <2>1, Numbered
<1>2. InOrder(c, to - n + 1, n)
  <2>1. to - n + 1 \in Int /\ to - n + 1 <= to + 1 /\ to - (to - n + 1) + 1 = n OBVIOUS
  <2>2. InOrder(c, to - n + 1, to - (to - n + 1) + 1) BY <2>1, Numbered
  <2> QED BY <2>1, <2>2
<1>3. Suffix(s, n) = SubSeq(s, m, len) BY <1>1 DEF Suffix, InOrder
<1> HIDE DEF s, c
<1>4. m \in Int /\ len \in Int /\ m >= 1 /\ m \in 1 .. len + 1 OBVIOUS
<1>5. \A i \in m .. len : s[i] \in Int BY <1>1, <1>4 DEF InOrder
<1>6. /\ SubSeq(s, m, len) \in Seq(Int)
      /\ Len(SubSeq(s, m, len)) = IF m <= len THEN len - m + 1 ELSE 0
      /\ \A i \in 1 .. len - m + 1 : SubSeq(s, m, len)[i] = s[m + i - 1]
  BY <1>4, <1>5, SubSeqProperties
<1>7. Len(SubSeq(s, m, len)) = n /\ len - m + 1 = n BY <1>6
<1>8. ASSUME NEW i \in 1 .. n PROVE SubSeq(s, m, len)[i] = c[i]
  <2>1. m + i - 1 \in 1 .. len BY <1>4
  <2>2. SubSeq(s, m, len)[i] = s[m + i - 1] BY <1>6, <1>7
  <2>3. s[m + i - 1] = from + (m + i - 1) - 1 BY <1>1, <2>1 DEF InOrder
  <2>4. c[i] = to - n + 1 + i - 1 BY <1>2 DEF InOrder
  <2> QED BY <2>2, <2>3, <2>4
<1>9. SubSeq(s, m, len) = c BY <1>2, <1>6, <1>7, <1>8, SeqEqual DEF InOrder
<1> QED BY <1>3, <1>9 DEF s, c

\* Behind the head: the tail moves on, and what leaves it is counted.
Rolls(t, k, m) ==
  /\ k <= TailMax /\ tail = Numbers(t - k + 1, t) /\ (omitted > 0 => k = TailMax)
  /\ Roll(Numbers(t + 1, t + m))
RollsTo(t, k, m, j) ==
  /\ j <= TailMax /\ tail' = Numbers(t + m - j + 1, t + m)
  /\ omitted' \in Nat /\ omitted' + j = omitted + k + m
  /\ omitted' > 0 => j = TailMax

LEMMA Rolled ==
  ASSUME TailMax \in Nat, omitted \in Nat, NEW t \in Nat, NEW k \in Nat, NEW m \in Nat \ {0}, Rolls(t, k, m)
  PROVE  \E j \in Nat : RollsTo(t, k, m, j)
<1> USE DEF Rolls, RollsTo
<1> DEFINE p == Numbers(t + 1, t + m)
           q == tail \o p
<1>1. Len(p) = m
  <2>1. t + 1 \in Int /\ t + m \in Int /\ t + 1 <= t + m + 1 /\ (t + m) - (t + 1) + 1 = m OBVIOUS
  <2>2. InOrder(p, t + 1, (t + m) - (t + 1) + 1) BY <2>1, Numbered
  <2> QED BY <2>1, <2>2 DEF InOrder
<1>2. Len(tail) = k
  <2>1. t - k + 1 \in Int /\ t - k + 1 <= t + 1 /\ t - (t - k + 1) + 1 = k OBVIOUS
  <2>2. InOrder(tail, t - k + 1, t - (t - k + 1) + 1) BY <2>1, Numbered
  <2> QED BY <2>1, <2>2 DEF InOrder
<1>3. q = Numbers(t - k + 1, t + m)
  <2>1. t - k + 1 \in Int /\ t \in Int /\ t + m \in Int /\ t - k + 1 <= t + 1 /\ t <= t + m OBVIOUS
  <2> QED BY <2>1, Joined
<1>4. Len(q) = k + m
  <2>1. t - k + 1 \in Int /\ t + m \in Int /\ t - k + 1 <= t + m + 1 /\ (t + m) - (t - k + 1) + 1 = k + m OBVIOUS
  <2>2. InOrder(q, t - k + 1, (t + m) - (t - k + 1) + 1) BY <1>3, <2>1, Numbered
  <2> QED BY <2>1, <2>2 DEF InOrder
<1>5. TailMax <= m => Suffix(p, TailMax) = Numbers(t + m - TailMax + 1, t + m)
  <2>1. ASSUME TailMax <= m PROVE t + 1 \in Int /\ t + m \in Int /\ t + 1 <= t + m - TailMax + 1 BY <2>1
  <2> QED BY <2>1, Ending
<1>6. TailMax <= k + m => Suffix(q, TailMax) = Numbers(t + m - TailMax + 1, t + m)
  <2>1. ASSUME TailMax <= k + m
        PROVE  t - k + 1 \in Int /\ t + m \in Int /\ t - k + 1 <= t + m - TailMax + 1
    BY <2>1
  <2>2. ASSUME TailMax <= k + m
        PROVE  Suffix(Numbers(t - k + 1, t + m), TailMax) = Numbers(t + m - TailMax + 1, t + m)
    BY <2>1, <2>2, Ending
  <2> QED BY <1>3, <2>2
<1>7. \/ m >= TailMax /\ omitted' = omitted + k + m - TailMax /\ tail' = Suffix(p, TailMax)
      \/ m < TailMax /\ k + m > TailMax /\ omitted' = omitted + (k + m - TailMax) /\ tail' = Suffix(q, TailMax)
      \/ m < TailMax /\ k + m <= TailMax /\ tail' = q /\ omitted' = omitted
  <2>1. \/ Len(p) >= TailMax /\ omitted' = omitted + Len(tail) + Len(p) - TailMax /\ tail' = Suffix(p, TailMax)
        \/ ~(Len(p) >= TailMax) /\ Len(q) - TailMax > 0 /\ omitted' = omitted + (Len(q) - TailMax) /\ tail' = Suffix(q, TailMax)
        \/ ~(Len(p) >= TailMax) /\ ~(Len(q) - TailMax > 0) /\ tail' = q /\ omitted' = omitted
    BY Zenon DEF Roll
  <2> HIDE DEF p, q
  <2> QED BY <1>1, <1>2, <1>4, <2>1
<1>8. CASE m >= TailMax /\ omitted' = omitted + k + m - TailMax /\ tail' = Suffix(p, TailMax)
  <2>1. tail' = Numbers(t + m - TailMax + 1, t + m) BY <1>5, <1>8
  <2> HIDE DEF p, q
  <2>2. TailMax <= TailMax /\ omitted' \in Nat /\ omitted' + TailMax = omitted + k + m BY <1>8
  <2> QED BY Zenon, <2>1, <2>2
<1>9. CASE m < TailMax /\ k + m > TailMax /\ omitted' = omitted + (k + m - TailMax) /\ tail' = Suffix(q, TailMax)
  <2>1. tail' = Numbers(t + m - TailMax + 1, t + m) BY <1>6, <1>9
  <2> HIDE DEF p, q
  <2>2. TailMax <= TailMax /\ omitted' \in Nat /\ omitted' + TailMax = omitted + k + m BY <1>9
  <2> QED BY Zenon, <2>1, <2>2
<1>10. CASE m < TailMax /\ k + m <= TailMax /\ tail' = q /\ omitted' = omitted
  <2>1. (t + m) - (k + m) + 1 = t - k + 1 OBVIOUS
  <2>2. tail' = Numbers((t + m) - (k + m) + 1, t + m) BY <1>3, <1>10, <2>1
  <2> HIDE DEF p, q
  <2>3. k + m \in Nat /\ omitted' \in Nat /\ omitted' + (k + m) = omitted + k + m /\ ~(omitted' > 0) BY <1>10
  <2> QED BY <1>10, <2>2, <2>3
<1> QED BY <1>7, <1>8, <1>9, <1>10

\* What is in the buffer, by the sizes of its parts.
LEMMA Held ==
  ASSUME NEW h \in Nat, NEW j \in Nat, limit \in Nat \ {0}, limit' = limit, total' \in Nat, omitted' \in Nat,
         head' = Numbers(1, h), h <= HeadMax, tail' = Numbers(total' - j + 1, total'), j <= TailMax,
         h + omitted' + j = total', h < HeadMax => j = 0 /\ omitted' = 0, omitted' > 0 => j = TailMax
  PROVE  OutputInv' /\ head' \in Seq(Int) /\ tail' \in Seq(Int)
<1>1. head' \in Seq(Int) /\ Len(head') = h
  <2>1. 1 <= h + 1 /\ h - 1 + 1 = h OBVIOUS
  <2>2. InOrder(Numbers(1, h), 1, h - 1 + 1) BY <2>1, Numbered
  <2> QED BY <2>1, <2>2 DEF InOrder
<1>2. tail' \in Seq(Int) /\ Len(tail') = j
  <2>1. PICK t \in Nat : t = total' OBVIOUS
  <2>2. t - j + 1 \in Int /\ t - j + 1 <= t + 1 /\ t - (t - j + 1) + 1 = j OBVIOUS
  <2>3. InOrder(Numbers(t - j + 1, t), t - j + 1, t - (t - j + 1) + 1) BY <2>2, Numbered
  <2> QED BY <2>1, <2>2, <2>3 DEF InOrder
<1>3. HeadMax' = HeadMax /\ TailMax' = TailMax BY DEF HeadMax, TailMax
<1>4. head' = Numbers(1, Len(head')) /\ tail' = Numbers(total' - Len(tail') + 1, total') BY <1>1, <1>2
<1>5. Len(head') < HeadMax => tail' = <<>> /\ omitted' = 0 BY <1>1, <1>2, EmptySeq
<1> QED BY <1>1, <1>2, <1>3, <1>4, <1>5 DEF OutputInv

\* Nothing of the output moves but by a write.
Resting == UNCHANGED <<limit, total, head, tail, omitted>>

LEMMA OutputRests ==
  ASSUME OutputInv, Resting PROVE OutputInv'
<1>1. HeadMax' = HeadMax /\ TailMax' = TailMax BY DEF HeadMax, TailMax, Resting
<1>2. Len(head') = Len(head) /\ Len(tail') = Len(tail) BY DEF Resting
<1>3. head' = Numbers(1, Len(head)) /\ tail' = Numbers(total - Len(tail) + 1, total) BY DEF OutputInv, Resting
<1>4. Numbers(1, Len(head')) = Numbers(1, Len(head)) BY <1>2
<1>5. Numbers(total' - Len(tail') + 1, total') = Numbers(total - Len(tail) + 1, total) BY <1>2 DEF Resting
<1> QED BY <1>1, <1>2, <1>3, <1>4, <1>5 DEF OutputInv, Resting

\* A write that reaches past the head.
LEMMA PastTheHead ==
  ASSUME NEW h \in Nat, NEW k \in Nat, NEW t \in Nat, NEW m \in Nat \ {0},
         limit \in Nat \ {0}, limit' = limit, TailMax \in Nat, omitted \in Nat, h = HeadMax, head' = Numbers(1, h),
         k <= TailMax, tail = Numbers(t - k + 1, t), Roll(Numbers(t + 1, t + m)), omitted > 0 => k = TailMax,
         h + omitted + k = t, total' = t + m
  PROVE  OutputInv' /\ head' \in Seq(Int) /\ tail' \in Seq(Int) /\ omitted' \in Nat
<1>1. PICK j \in Nat : RollsTo(t, k, m, j)
  <2>1. Rolls(t, k, m) BY DEF Rolls
  <2> QED BY <2>1, Rolled
<1>2. tail' = Numbers(total' - j + 1, total') BY <1>1 DEF RollsTo
<1>3. h + omitted' + j = total'
  <2>1. PICK w \in Nat, o \in Nat : w = omitted /\ o = omitted' /\ o + j = w + k + m BY <1>1 DEF RollsTo
  <2>2. h + w + k = t BY <2>1
  <2>3. h + (o + j) = h + (w + k + m) BY <2>1
  <2>4. h + o + j = h + (o + j) /\ h + (w + k + m) = (h + w + k) + m BY <2>1
  <2>5. h + o + j = t + m BY <2>2, <2>3, <2>4
  <2> QED BY <2>1, <2>5
<1>4. total' \in Nat /\ omitted' \in Nat /\ h <= HeadMax /\ ~(h < HeadMax)
  <2>1. omitted' \in Nat BY <1>1 DEF RollsTo
  <2> QED BY <2>1
<1>5. j <= TailMax /\ (omitted' > 0 => j = TailMax) BY <1>1 DEF RollsTo
<1> QED BY <1>2, <1>3, <1>4, <1>5, Held

\* A write fills the head and rolls the rest.
LEMMA WriteStep ==
  ASSUME ExecInv, ExecAssumption, NEW n \in 1 .. MaxChunk, Write(n) PROVE ExecInv'
<1>1. PICK h \in Nat, k \in Nat : h = Len(head) /\ k = Len(tail)
  BY LenProperties DEF ExecInv, ExecTypeOK
<1>2. /\ limit \in Nat \ {0} /\ total \in Nat /\ omitted \in Nat /\ n \in Nat \ {0}
      /\ head \in Seq(Int) /\ tail \in Seq(Int)
  BY DEF ExecInv, ExecTypeOK, ExecAssumption
<1>3. TailMax \in Nat /\ HeadMax \in Nat BY <1>2, Halves
<1>4. /\ head = Numbers(1, h) /\ h <= HeadMax /\ tail = Numbers(total - k + 1, total) /\ k <= TailMax
      /\ h + omitted + k = total /\ (h < HeadMax => tail = <<>> /\ omitted = 0)
      /\ (omitted > 0 => k = TailMax)
  BY <1>1 DEF ExecInv, OutputInv
<1>5. h < HeadMax => k = 0 /\ omitted = 0 /\ total = h
  <2>1. h < HeadMax => k = 0 BY <1>1, <1>4, EmptySeq
  <2> QED BY <1>2, <1>4, <2>1
<1>6. /\ limit' = limit /\ total' = total + n
      /\ UNCHANGED <<child, heir, stopped, late, waited, report>>
  BY DEF Write
<1>7. PICK take \in Nat, t \in Nat, m \in Nat :
        /\ t = total + take /\ t + m = total + n /\ h + take <= HeadMax /\ (m # 0 => h + take = HeadMax)
        /\ head' = head \o Numbers(total + 1, t)
        /\ IF Numbers(t + 1, t + m) = <<>> THEN UNCHANGED <<tail, omitted>> ELSE Roll(Numbers(t + 1, t + m))
  <2> DEFINE room == HeadMax - Len(head)
             fits == IF room < n THEN room ELSE n
  <2>1. PICK take \in Nat : take = fits /\ take <= n /\ h + take <= HeadMax /\ (take # n => h + take = HeadMax)
    <3>1. PICK r \in Nat, max \in Nat : max = HeadMax /\ r = max - h /\ r = room BY <1>1, <1>3, <1>4
    <3>2. CASE r < n
      <4>1. fits = r BY <3>1, <3>2
      <4>2. h + r = max /\ r <= n BY <1>2, <3>1, <3>2
      <4> QED BY <3>1, <4>1, <4>2
    <3>3. CASE ~(r < n)
      <4>1. fits = n BY <3>1, <3>3
      <4> QED BY <1>2, <3>1, <3>3, <4>1
    <3> QED BY <3>2, <3>3
  <2>2. PICK t \in Nat, m \in Nat : t = total + take /\ m = n - take
    <3>1. total + take \in Nat /\ n - take \in Nat BY <1>2, <2>1
    <3> QED BY <3>1
  <2>3. t + m = total + n /\ (m # 0 => h + take = HeadMax) BY <1>2, <2>1, <2>2
  <2>4. /\ head' = head \o Numbers(total + 1, total + fits)
        /\ IF Numbers(total + fits + 1, total + n) = <<>> THEN UNCHANGED <<tail, omitted>>
           ELSE Roll(Numbers(total + fits + 1, total + n))
    BY Zenon DEF Write
  <2> HIDE DEF fits
  <2>5. total + fits = t /\ total + fits + 1 = t + 1 BY <1>2, <2>1, <2>2
  <2>6. t = total + take /\ h + take <= HeadMax BY <2>1, <2>2
  <2>7. total + n = t + m BY <2>3
  <2>8. /\ head' = head \o Numbers(total + 1, t)
        /\ IF Numbers(t + 1, t + m) = <<>> THEN UNCHANGED <<tail, omitted>> ELSE Roll(Numbers(t + 1, t + m))
    BY <2>4, <2>5, <2>7, Zenon
  <2> QED BY <2>3, <2>6, <2>8, Zenon
<1>8. head' = Numbers(1, h + take)
  <2>1. CASE take = 0
    <3>1. total + 1 \in Int /\ t = (total + 1) - 1 BY <1>2, <1>7, <2>1
    <3>2. Numbers(total + 1, (total + 1) - 1) = <<>> BY <3>1, NoneBetween
    <3>3. head \o <<>> = head BY <1>2, ConcatEmptySeq
    <3>4. h + take = h BY <2>1
    <3> QED BY <1>4, <1>7, <3>1, <3>2, <3>3, <3>4
  <2>2. CASE take # 0
    <3>1. total = h /\ t = h + take BY <1>3, <1>5, <1>7, <2>2
    <3>2. 1 \in Int /\ h \in Int /\ h + take \in Int /\ 1 <= h + 1 /\ h <= h + take OBVIOUS
    <3>3. Numbers(1, h) \o Numbers(h + 1, h + take) = Numbers(1, h + take) BY <3>2, Joined
    <3> QED BY <1>4, <1>7, <3>1, <3>3
  <2> QED BY <2>1, <2>2
<1>9. tail = Numbers(t - k + 1, t)
  <2>1. CASE take = 0
    <3>1. t = total BY <1>2, <1>7, <2>1
    <3> QED BY <1>4, <3>1
  <2>2. CASE take # 0
    <3>1. k = 0 /\ tail = <<>> BY <1>3, <1>4, <1>5, <1>7, <2>2
    <3>2. t + 1 \in Int /\ t - k + 1 = t + 1 /\ t = (t + 1) - 1 BY <3>1
    <3>3. Numbers(t + 1, (t + 1) - 1) = <<>> BY <3>2, NoneBetween
    <3> QED BY <3>1, <3>2, <3>3
  <2> QED BY <2>1, <2>2
<1>10. Numbers(t + 1, t + m) = <<>> <=> m = 0
  <2>1. t + 1 \in Int /\ t + m \in Int /\ t + 1 <= t + m + 1 /\ (t + m) - (t + 1) + 1 = m OBVIOUS
  <2>2. InOrder(Numbers(t + 1, t + m), t + 1, (t + m) - (t + 1) + 1) BY <2>1, Numbered
  <2>3. Numbers(t + 1, t + m) \in Seq(Int) /\ Len(Numbers(t + 1, t + m)) = m BY <2>1, <2>2 DEF InOrder
  <2> QED BY <2>3, EmptySeq
<1>11. h + take \in Nat /\ h + take <= HeadMax /\ h + take + omitted + k = t
  BY <1>2, <1>4, <1>7
<1>12. OutputInv' /\ head' \in Seq(Int) /\ tail' \in Seq(Int) /\ omitted' \in Nat
  <2>1. CASE m = 0
    <3>1. tail' = tail /\ omitted' = omitted BY <1>7, <1>10, <2>1
    <3>2. total' = t BY <1>6, <1>7, <2>1
    <3>3. tail' = Numbers(total' - k + 1, total') BY <1>9, <3>1, <3>2
    <3>4. h + take + omitted' + k = total' BY <1>11, <3>1, <3>2
    <3>5. h + take < HeadMax => k = 0 /\ omitted' = 0 BY <1>3, <1>5, <3>1
    <3>6. omitted' > 0 => k = TailMax BY <1>4, <3>1
    <3>7. total' \in Nat /\ omitted' \in Nat BY <1>2, <3>1, <3>2
    <3> QED BY <1>2, <1>4, <1>6, <1>8, <1>11, <3>3, <3>4, <3>5, <3>6, <3>7, Held
  <2>2. CASE m # 0
    <3>1. Roll(Numbers(t + 1, t + m)) BY <1>7, <1>10, <2>2
    <3>2. m \in Nat \ {0} /\ total' = t + m /\ h + take = HeadMax BY <1>6, <1>7, <2>2
    <3>3. k <= TailMax /\ (omitted > 0 => k = TailMax) BY <1>4
    <3> QED BY <1>2, <1>3, <1>6, <1>8, <1>9, <1>11, <3>1, <3>2, <3>3, PastTheHead
  <2> QED BY <2>1, <2>2
<1>13. limit' \in Nat \ {0} /\ total' \in Nat BY <1>2, <1>6
<1>14. RunInv' BY <1>6 DEF ExecInv, RunInv
<1>15. child' \in {Running, Killed, Unstarted, 0, 1} /\ {heir', stopped', late', waited'} \subseteq BOOLEAN
  BY <1>6 DEF ExecInv, ExecTypeOK
<1> QED BY <1>12, <1>13, <1>14, <1>15 DEF ExecInv, ExecTypeOK

LEMMA ExecStarts == ExecInit /\ ExecAssumption => ExecInv
<1> SUFFICES ASSUME ExecInit, ExecAssumption PROVE ExecInv OBVIOUS
<1>1. limit \in Nat \ {0} BY DEF ExecInit, ExecAssumption
<1>2. <<>> \in Seq(Int) /\ Len(<<>>) = 0 BY EmptySeq
<1>3. Numbers(1, 0) = <<>>
  <2>1. Numbers(1, 1 - 1) = <<>> BY NoneBetween
  <2> QED BY <2>1
<1>4. TailMax \in Nat /\ HeadMax \in Nat BY <1>1, Halves
<1>5. OutputInv
  <2>1. head = <<>> /\ tail = <<>> /\ total = 0 /\ omitted = 0 BY DEF ExecInit
  <2>2. Len(head) = 0 /\ Len(tail) = 0 BY <1>2, <2>1
  <2>3. total - Len(tail) + 1 = 1 BY <2>1, <2>2
  <2>4. head = Numbers(1, Len(head)) /\ tail = Numbers(total - Len(tail) + 1, total) BY <1>3, <2>1, <2>2, <2>3
  <2> QED BY <1>4, <2>1, <2>2, <2>4 DEF OutputInv
<1>6. ExecTypeOK BY <1>1, <1>2 DEF ExecTypeOK, ExecInit, Running
<1>7. RunInv BY DEF ExecInit, RunInv, Running, Killed, Unreported
<1> QED BY <1>5, <1>6, <1>7 DEF ExecInv

\* Whatever else happens leaves the output alone; a report is given after
\* everyone closed it, and says why the command ended.
LEMMA RunStep ==
  ASSUME ExecInv,
         (\E code \in {0, 1} : Exits(code)) \/ HeirExits \/ Stop \/ Deadline \/ StartFails \/ Kill \/ Wait \/ Return
  PROVE  ExecInv'
<1>1. Resting BY DEF Exits, HeirExits, Stop, Deadline, StartFails, Kill, Wait, Return, Resting
<1>2. OutputInv' BY <1>1, OutputRests DEF ExecInv
<1>3. /\ limit' = limit /\ total' = total /\ omitted' = omitted /\ head' = head /\ tail' = tail
  BY <1>1 DEF Resting
<1>4. /\ child \in {Running, Killed, Unstarted, 0, 1} /\ {heir, stopped, late, waited} \subseteq BOOLEAN
      /\ RunInv /\ limit \in Nat \ {0} /\ total \in Nat /\ omitted \in Nat /\ head \in Seq(Int) /\ tail \in Seq(Int)
  BY DEF ExecInv, ExecTypeOK
<1>5. ASSUME Return PROVE ExecTypeOK' /\ RunInv'
  <2>1. PICK broken \in BOOLEAN : (child = Unstarted => broken) /\ report' = Outcome(broken) BY <1>5 DEF Return
  <2>2. /\ waited /\ waited' = waited /\ child' = child /\ heir' = heir /\ stopped' = stopped /\ late' = late
    BY <1>5 DEF Return
  <2>3. child # Running /\ (child = Killed => stopped \/ late) /\ ~heir BY <1>4, <2>2 DEF RunInv
  <2>4. /\ Outcome(broken).out = "exit" => ~stopped /\ ~late /\ ~broken /\ Outcome(broken).code = Code
        /\ Outcome(broken).out = "timeout" => Outcome(broken).code # 0
    BY <1>4 DEF Outcome
  <2>5. child \in {0, 1} => Code = child BY DEF Code, Unstarted
  <2>6. RunInv' BY <1>4, <2>1, <2>2, <2>3, <2>4, <2>5 DEF RunInv
  <2> QED BY <1>3, <1>4, <2>2, <2>6 DEF ExecTypeOK
<1>6. ASSUME (\E code \in {0, 1} : Exits(code)) \/ HeirExits \/ Stop \/ Deadline \/ StartFails \/ Kill \/ Wait
      PROVE  ExecTypeOK' /\ RunInv'
  <2>1. report' = report
    BY <1>6 DEF Exits, HeirExits, Stop, Deadline, StartFails, Kill, Wait
  <2>2. CASE \E code \in {0, 1} : Exits(code)
    <3>1. /\ child = Running /\ child' \in {0, 1} /\ heir' = heir /\ stopped' = stopped /\ late' = late /\ waited' = waited
      BY <2>2 DEF Exits
    <3> QED BY <1>3, <1>4, <2>1, <3>1 DEF ExecTypeOK, RunInv, Running, Killed
  <2>3. CASE HeirExits \/ Stop \/ Deadline
    <3>1. /\ child' = child /\ waited' = waited
          /\ (heir' => heir) /\ (stopped => stopped') /\ (late => late')
          /\ {heir', stopped', late'} \subseteq BOOLEAN
      <4>1. heir \in BOOLEAN /\ stopped \in BOOLEAN /\ late \in BOOLEAN BY <1>4
      <4>2. CASE HeirExits BY <4>1, <4>2, Zenon DEF HeirExits
      <4>3. CASE Stop BY <4>1, <4>3, Zenon DEF Stop
      <4>4. CASE Deadline BY <4>1, <4>4, Zenon DEF Deadline
      <4> QED BY <2>3, <4>2, <4>3, <4>4
    <3>2. {heir', stopped', late', waited'} \subseteq BOOLEAN BY <1>4, <3>1
    <3>3. ExecTypeOK' BY <1>3, <1>4, <3>1, <3>2 DEF ExecTypeOK
    <3>4. RunInv' BY <1>4, <2>1, <3>1 DEF RunInv
    <3> QED BY <3>3, <3>4
  <2>4. CASE StartFails
    <3>1. child' = Unstarted /\ waited' = TRUE /\ ~heir /\ heir' = heir /\ stopped' = stopped /\ late' = late
      BY <2>4 DEF StartFails
    <3> QED BY <1>3, <1>4, <2>1, <3>1 DEF ExecTypeOK, RunInv, Running, Killed, Unstarted
  <2>5. CASE Kill
    <3>1. /\ child = Running /\ child' = Killed /\ (stopped \/ late)
          /\ heir' = heir /\ stopped' = stopped /\ late' = late /\ waited' = waited
      BY <2>5 DEF Kill
    <3> QED BY <1>3, <1>4, <2>1, <3>1 DEF ExecTypeOK, RunInv, Running, Killed
  <2>6. CASE Wait
    <3>1. /\ child # Running /\ ~heir /\ waited' = TRUE
          /\ child' = child /\ heir' = heir /\ stopped' = stopped /\ late' = late
      BY <2>6 DEF Wait
    <3> QED BY <1>3, <1>4, <2>1, <3>1 DEF ExecTypeOK, RunInv
  <2> QED BY <1>6, <2>2, <2>3, <2>4, <2>5, <2>6
<1>7. ExecTypeOK' /\ RunInv' BY <1>5, <1>6
<1> QED BY <1>2, <1>7 DEF ExecInv

\* ExecInv holds in every state of an executor, for any limit and however the
\* output is cut into writes (limitedOutput.Write, LocalExecutor.Run).
THEOREM ExecInductive == ExecSpec => []ExecInv
<1>1. ExecInit => ExecInv BY ExecStarts, ExecAssumption
<1>2. ExecInv /\ [ExecNext]_execVars => ExecInv'
  <2> SUFFICES ASSUME ExecInv, [ExecNext]_execVars PROVE ExecInv' OBVIOUS
  <2>1. CASE \E n \in 1 .. MaxChunk : Write(n) BY <2>1, WriteStep, ExecAssumption
  <2>2. CASE (\E code \in {0, 1} : Exits(code)) \/ HeirExits \/ Stop \/ Deadline \/ StartFails \/ Kill \/ Wait \/ Return
    BY <2>2, RunStep
  <2>3. CASE UNCHANGED execVars
    <3>1. Resting BY <2>3 DEF execVars, Resting
    <3>2. OutputInv' BY <3>1, OutputRests DEF ExecInv
    <3>3. ExecTypeOK' BY <2>3 DEF ExecInv, ExecTypeOK, execVars
    <3>4. RunInv' BY <2>3 DEF ExecInv, RunInv, execVars
    <3> QED BY <3>2, <3>3, <3>4 DEF ExecInv
  <2> QED BY <2>1, <2>2, <2>3 DEF ExecNext
<1> QED BY <1>1, <1>2, PTL DEF ExecSpec

\* What Run reports is what was printed and how the command ended, for any
\* limit and writes of any size (ExecResult, limitedOutput.Head and Tail).
THEOREM ResultsStayTrue == ExecSpec => []ResultsAreTrue
<1>1. ExecInv => ResultsAreTrue
  <2> SUFFICES ASSUME ExecInv PROVE ResultsAreTrue OBVIOUS
  <2>1. /\ limit \in Nat \ {0} /\ total \in Nat /\ omitted \in Nat /\ Len(head) \in Nat /\ Len(tail) \in Nat
        /\ head \in Seq(Int) /\ tail \in Seq(Int)
    BY LenProperties DEF ExecInv, ExecTypeOK
  <2>2. TailMax \in Nat /\ HeadMax \in Nat BY <2>1, Halves
  <2>3. CASE omitted = 0
    <3>1. HeadOf = head \o tail /\ TailOf = <<>> BY <2>3 DEF HeadOf, TailOf
    <3>2. total - Len(tail) = Len(head) BY <2>1, <2>3 DEF ExecInv, OutputInv
    <3>3. /\ 1 \in Int /\ Len(head) \in Int /\ total \in Int /\ 1 <= Len(head) + 1 /\ Len(head) <= total
      BY <2>1, <3>2
    <3>4. Numbers(1, Len(head)) \o Numbers(Len(head) + 1, total) = Numbers(1, total) BY <3>3, Joined
    <3>5. head = Numbers(1, Len(head)) /\ tail = Numbers(Len(head) + 1, total) BY <3>2 DEF ExecInv, OutputInv
    <3>6. HeadOf = Numbers(1, total) BY <3>1, <3>4, <3>5
    <3> QED BY <2>3, <3>1, <3>6 DEF ResultsAreTrue, ExecInv, RunInv
  <2>4. CASE omitted # 0
    <3>1. omitted > 0 BY <2>1, <2>4
    <3>2. Len(tail) = TailMax /\ Len(head) = HeadMax BY <2>1, <2>2, <3>1 DEF ExecInv, OutputInv
    <3>3. HeadOf = head /\ TailOf = tail BY <2>4 DEF HeadOf, TailOf
    <3>4. head = Numbers(1, HeadMax) /\ tail = Numbers(total - TailMax + 1, total) BY <3>2 DEF ExecInv, OutputInv
    <3>5. HeadMax + omitted + TailMax = total BY <3>2 DEF ExecInv, OutputInv
    <3> QED BY <2>4, <3>3, <3>4, <3>5 DEF ResultsAreTrue, ExecInv, RunInv
  <2> QED BY <2>3, <2>4
<1> QED BY <1>1, ExecInductive, PTL
-----------------------------------------------------------------------------
(* Scheduler: multiples of an interval. *)

LEMMA DivMod ==
  ASSUME NEW e \in Nat \ {0}, NEW a \in Int
  PROVE  a \div e \in Int /\ a % e \in 0 .. e - 1 /\ a = e * (a \div e) + (a % e)
OBVIOUS

LEMMA Products ==
  ASSUME NEW e \in Nat \ {0}, NEW q \in Int
  PROVE  (e * q) % e = 0
BY SMTT(30)

LEMMA Quotient ==
  ASSUME NEW e \in Nat \ {0}, NEW a \in Int, a % e = 0
  PROVE  \E q \in Int : a = e * q
<1>1. a \div e \in Int /\ a = e * (a \div e) + (a % e) BY DivMod
<1>2. PICK q \in Int : q = a \div e BY <1>1
<1>3. PICK m \in Int : m = e * q OBVIOUS
<1>4. a = m + (a % e) BY <1>1, <1>2, <1>3
<1>5. a = m BY <1>4
<1> QED BY <1>3, <1>5

LEMMA Sums ==
  ASSUME NEW e \in Nat \ {0}, NEW a \in Int, NEW b \in Int, a % e = 0, b % e = 0
  PROVE  (a + b) % e = 0
<1>1. PICK p \in Int : a = e * p BY Quotient
<1>2. PICK q \in Int : b = e * q BY Quotient
<1>3. a + b = e * (p + q) /\ p + q \in Int BY <1>1, <1>2
<1> QED BY <1>3, Products

\* From an instant of the cadence that is not in the future there is one within
\* the next interval (the loop of Schedule.advance ends).
LEMMA OneComes ==
  ASSUME NEW i \in Ids, Every[i] \in Nat \ {0}, now \in Nat, NEW t \in Nat, t <= now
  PROVE  Coming(i, t) # {}
<1>1. PICK e \in Nat \ {0} : e = Every[i] OBVIOUS
<1>2. PICK n \in Nat : n = now OBVIOUS
<1>3. PICK d \in Int : d = n - t OBVIOUS
<1>4. PICK q \in Int, r \in 0 .. e - 1 : d = e * q + r BY DivMod
<1>5. PICK u \in Int : u = n + e - r OBVIOUS
<1>6. u \in n + 1 .. n + e + t /\ u > t BY <1>2, <1>5
<1>7. u - t = e * (q + 1) /\ q + 1 \in Int BY <1>3, <1>4, <1>5
<1>8. (u - t) % e = 0 BY <1>7, Products
<1> QED BY <1>1, <1>2, <1>6, <1>8 DEF Coming

LEMMA FirstComes ==
  ASSUME NEW i \in Ids, Every[i] \in Nat \ {0}, now \in Nat, NEW t \in Nat, t <= now
  PROVE  (CHOOSE u \in Coming(i, t) : \A v \in Coming(i, t) : u <= v) \in Coming(i, t)
<1> DEFINE C == Coming(i, t)
<1>1. C # {} BY OneComes
<1>2. C \subseteq Nat BY DEF Coming
<1> HIDE DEF C
<1>3. PICK u \in C : \A v \in C : ~(<<v, u>> \in OpToRel(<, Nat))
  BY <1>1, <1>2, WFMin, NatLessThanWellFounded
<1>7. \A v \in C : ~(v < u) BY <1>2, <1>3 DEF OpToRel
<1>4. \A v \in C : u <= v BY <1>2, <1>7
<1>5. \E w \in C : \A v \in C : w <= v BY <1>4
<1>6. (CHOOSE w \in C : \A v \in C : w <= v) \in C BY <1>5
<1> QED BY <1>6 DEF C

-----------------------------------------------------------------------------
(* Schedules. *)

\* NewSchedule.
LEMMA NewIsSound ==
  ASSUME NEW i \in Ids, now \in Nat
  PROVE  New(i, now) \in Copies /\ OnCadence(i, New(i, now))
<1>1. Every[i] \in Nat /\ Fraction[i] \in Nat BY SchedAssumption
<1>2. PICK t \in Nat : t = FirstRun(i, now)
  <2>1. PICK e \in Nat : e = Every[i] BY <1>1
  <2>2. PICK f \in Nat : f = Fraction[i] BY <1>1
  <2> QED BY <2>1, <2>2 DEF FirstRun
<1>3. PICK s : s = New(i, now) OBVIOUS
<1>4. s.next = t /\ s.first = t /\ s.last = -1 /\ s \in Copies BY <1>2, <1>3 DEF New, Copies
<1>5. CASE Every[i] > 0
  <2>1. PICK e \in Nat \ {0} : e = Every[i] BY <1>1, <1>5
  <2>2. s.next - s.first = e * 0 /\ s.next > s.last BY <1>4
  <2>3. (s.next - s.first) % e = 0 BY <2>2, Products
  <2> QED BY <1>3, <1>4, <2>1, <2>2, <2>3 DEF OnCadence
<1>6. CASE ~(Every[i] > 0) BY <1>3, <1>4, <1>6 DEF OnCadence
<1> QED BY <1>5, <1>6

Recorded(s, l, u) == [s EXCEPT !.last = l, !.next = u]
LEMMA RecordedTyped ==
  ASSUME NEW s \in Copies, NEW l \in Int, NEW u \in Nat
  PROVE  /\ Recorded(s, l, u) \in Copies /\ Recorded(s, l, u).next = u
         /\ Recorded(s, l, u).last = l /\ Recorded(s, l, u).first = s.first
BY DEF Copies, Recorded

\* advance keeps the cadence and goes past the present, or keeps the only instant.
LEMMA AdvanceIsSound ==
  ASSUME NEW i \in Ids, now \in Nat, NEW s \in Copies, OnCadence(i, s), s.next <= now
  PROVE  /\ Advance(i, s) \in Copies /\ OnCadence(i, Advance(i, s))
         /\ Every[i] = 0 => Advance(i, s).next = s.next
         /\ Every[i] # 0 => Advance(i, s).next > now
<1>1. PICK e \in Nat : e = Every[i] BY SchedAssumption
<1>2. PICK n \in Nat : n = now OBVIOUS
<1>3. s.next \in Nat /\ s.first \in Nat /\ s.last \in Int BY DEF Copies
<1>4. PICK a : a = Advance(i, s) OBVIOUS
<1>5. CASE e = 0
  <2>1. n \in Int /\ a = Recorded(s, n, s.next) BY <1>1, <1>2, <1>4, <1>5 DEF Advance, Recorded
  <2>2. a \in Copies /\ a.next = s.next BY <1>3, <2>1, RecordedTyped
  <2> QED BY <1>1, <1>4, <1>5, <2>2 DEF OnCadence
<1>6. CASE e # 0
  <2>1. PICK u : u = CHOOSE t \in Coming(i, s.next) : \A v \in Coming(i, s.next) : t <= v OBVIOUS
  <2>2. u \in Coming(i, s.next) BY <1>1, <1>3, <1>6, <2>1, FirstComes
  <2>3. u \in Nat /\ u > n /\ (u - s.next) % e = 0 BY <1>1, <1>2, <1>3, <2>2 DEF Coming
  <2>4. n \in Int /\ a = Recorded(s, n, u) BY <1>1, <1>2, <1>4, <1>6, <2>1 DEF Advance, Recorded
  <2>5. a \in Copies /\ a.next = u /\ a.last = n /\ a.first = s.first
    BY <1>2, <2>3, <2>4, RecordedTyped
  <2>6. (s.next - s.first) % e = 0 BY <1>1, <1>6 DEF OnCadence
  <2>7. u - s.first = (u - s.next) + (s.next - s.first) BY <1>3, <2>3
  <2>8. (u - s.first) % e = 0
    <3>1. PICK x \in Int : x = u - s.next BY <1>3, <2>3
    <3>2. PICK y \in Int : y = s.next - s.first BY <1>3
    <3>3. (x + y) % e = 0 BY <1>6, <2>3, <2>6, <3>1, <3>2, Sums
    <3> QED BY <2>7, <3>1, <3>2, <3>3
  <2> QED BY <1>1, <1>2, <1>4, <1>6, <2>3, <2>5, <2>8 DEF OnCadence
<1> QED BY <1>5, <1>6

-----------------------------------------------------------------------------
(* Files and stores. *)

LEMMA TableGrows ==
  ASSUME NEW f, NEW g, NEW h, IsTable(f, g), g \subseteq h
  PROVE  IsTable(f, h)
BY DEF IsTable

LEMMA WithTable ==
  ASSUME NEW f, NEW g, IsTable(f, g), NEW i \in g, NEW s \in Copies, OnCadence(i, s)
  PROVE  IsTable(With(f, i, s), g) /\ DOMAIN With(f, i, s) = DOMAIN f \cup {i}
         /\ \A j \in DOMAIN f \cup {i} : With(f, i, s)[j] = IF j = i THEN s ELSE f[j]
<1>1. PICK w : w = With(f, i, s) OBVIOUS
<1>2. DOMAIN w = DOMAIN f \cup {i} /\ \A j \in DOMAIN f \cup {i} : w[j] = IF j = i THEN s ELSE f[j]
  BY <1>1 DEF With
<1>3. \A j \in DOMAIN f : f[j] \in Copies /\ OnCadence(j, f[j]) BY DEF IsTable
<1>4. \A j \in DOMAIN w : w[j] \in Copies /\ OnCadence(j, w[j]) BY <1>2, <1>3
<1>5. w = [j \in DOMAIN w |-> w[j]] BY <1>1 DEF With
<1>6. w \in [DOMAIN w -> Copies] BY <1>4, <1>5
<1>7. DOMAIN w \subseteq g BY <1>2 DEF IsTable
<1> QED BY <1>1, <1>2, <1>4, <1>6, <1>7 DEF IsTable

LEMMA WithoutTable ==
  ASSUME NEW f, NEW g, IsTable(f, g), NEW i
  PROVE  IsTable(Without(f, i), g) /\ DOMAIN Without(f, i) = DOMAIN f \ {i}
<1>1. PICK w : w = Without(f, i) OBVIOUS
<1>2. DOMAIN w = DOMAIN f \ {i} /\ \A j \in DOMAIN f \ {i} : w[j] = f[j] BY <1>1 DEF Without
<1>3. w = [j \in DOMAIN w |-> w[j]] BY <1>1 DEF Without
<1> QED BY <1>1, <1>2, <1>3 DEF IsTable

-----------------------------------------------------------------------------
(* The state. *)

\* A store is open with a table, or closed.
LEMMA StoreIs ==
  ASSUME TablesInv
  PROVE  /\ store.open \in BOOLEAN /\ (store.open <=> store # Closed)
         /\ store.open => store = Opened(store.has) /\ IsTable(store.has, given)
         /\ \A f : Opened(f).open = TRUE /\ Opened(f).has = f
<1>1. \A f : Opened(f).open = TRUE /\ Opened(f).has = f BY DEF Opened
<1>2. Closed.open = FALSE BY DEF Closed
<1>3. CASE store = Closed BY <1>1, <1>2, <1>3
<1>4. CASE store = Opened(store.has) /\ IsTable(store.has, given)
  <2>1. store.open = TRUE BY <1>1, <1>4
  <2>2. store # Closed BY <1>2, <2>1
  <2> QED BY <1>1, <1>4, <2>1, <2>2
<1> QED BY <1>3, <1>4 DEF TablesInv

\* Time passes, and the daemon's store only moves on.
LEMMA FollowsLater ==
  ASSUME NEW i, NEW s, NEW f, NEW g, NEW t \in Nat, NEW u \in Nat, Follows(i, s, f, t), t <= u,
         i \in DOMAIN g, f[i].next \in Nat, g[i].next \in Nat, f[i].next <= g[i].next,
         Every[i] = 0 => g[i].next = f[i].next
  PROVE  Follows(i, s, g, u)
<1>1. s \in Copies /\ OnCadence(i, s) /\ s.next <= t /\ s.next <= f[i].next /\ (Every[i] = 0 => s.next = f[i].next)
  BY DEF Follows
<1>2. s.next \in Nat BY <1>1 DEF Copies
<1>3. s.next <= u /\ s.next <= g[i].next BY <1>1, <1>2
<1> QED BY <1>1, <1>3 DEF Follows

LEMMA TableTyped ==
  ASSUME NEW f, NEW g, IsTable(f, g), NEW i \in DOMAIN f
  PROVE  i \in g /\ f[i] \in Copies /\ OnCadence(i, f[i]) /\ f[i].next \in Nat
<1>1. i \in g /\ f[i] \in Copies /\ OnCadence(i, f[i]) BY DEF IsTable
<1> QED BY <1>1 DEF Copies

\* Steps that leave the files alone.
LEMMA FilesRest ==
  ASSUME CommandsInv, SameIds, LoneChangesLast,
         UNCHANGED <<file, given, removed, shared, command>>, store' = store \/ ~store'.open
  PROVE  CommandsInv' /\ SameIds' /\ LoneChangesLast'
<1>1. CommandsInv' BY DEF CommandsInv
<1>2. SameIds' BY DEF SameIds
<1>3. LoneChangesLast' BY DEF LoneChangesLast
<1> QED BY <1>1, <1>2, <1>3

-----------------------------------------------------------------------------
(* The daemon. *)

LEMMA ClockStep == ASSUME SchedInv, Clock PROVE SchedInv'
<1>0. TablesInv /\ FlightsInv /\ CommandsInv /\ SameIds /\ LoneChangesLast BY DEF SchedInv
<1>1. now' = now + 1 /\ UNCHANGED <<file, store, due, flights, command, crashes, given, removed, shared>>
  BY DEF Clock
<1>2. TablesInv' BY <1>0, <1>1 DEF TablesInv
<1>3. CommandsInv' /\ SameIds' /\ LoneChangesLast' BY <1>0, <1>1, FilesRest
<1>4. PICK n \in Nat : n = now BY <1>0 DEF TablesInv
<1>5. PICK m \in Nat : m = now' /\ n <= m BY <1>1, <1>4
<1>6. ASSUME NEW i, NEW s, Follows(i, s, store.has, n), store.open
      PROVE  Follows(i, s, store.has, m)
  <2>1. i \in DOMAIN store.has BY <1>6 DEF Follows
  <2>2. store.has[i].next \in Nat BY <1>0, <1>6, <2>1, StoreIs, TableTyped
  <2> QED BY <1>5, <1>6, <2>1, <2>2, FollowsLater
<1>7. store.open \/ ~store.open BY <1>0, StoreIs
<1>8. FlightsInv' BY <1>0, <1>1, <1>4, <1>5, <1>6, <1>7 DEF FlightsInv
<1> QED BY <1>2, <1>3, <1>8 DEF SchedInv

LEMMA ServeStep == ASSUME SchedInv, Serve PROVE SchedInv'
<1>0. TablesInv /\ FlightsInv /\ CommandsInv /\ SameIds /\ LoneChangesLast BY DEF SchedInv
<1>1. /\ store = Closed /\ store' = Opened(file)
      /\ UNCHANGED <<now, file, due, flights, command, crashes, given, removed, shared>>
  BY DEF Serve
<1>2. ~store.open /\ store'.open /\ store'.has = file BY <1>0, <1>1, StoreIs
<1>3. TablesInv' BY <1>0, <1>1, <1>2 DEF TablesInv
<1>4. FlightsInv' BY <1>0, <1>1, <1>2 DEF FlightsInv
<1>5. CommandsInv' BY <1>0, <1>1 DEF CommandsInv
<1>6. SameIds' BY <1>1, <1>2 DEF SameIds
<1>7. LoneChangesLast' BY <1>0, <1>1 DEF LoneChangesLast
<1> QED BY <1>3, <1>4, <1>5, <1>6, <1>7 DEF SchedInv

\* What is due is followed by the store it was listed from.
LEMMA TickStep == ASSUME SchedInv, Tick PROVE SchedInv'
<1>0. TablesInv /\ FlightsInv /\ CommandsInv /\ SameIds /\ LoneChangesLast BY DEF SchedInv
<1>1. /\ store.open
      /\ due' = {[id |-> i, copy |-> store.has[i]] : i \in {j \in DOMAIN store.has : Due(j, store.has[j])}}
      /\ UNCHANGED <<now, file, store, flights, command, crashes, given, removed, shared>>
  BY DEF Tick
<1>2. TablesInv' BY <1>0, <1>1 DEF TablesInv
<1>3. CommandsInv' /\ SameIds' /\ LoneChangesLast' BY <1>0, <1>1, FilesRest
<1>4. ASSUME NEW d \in due'
      PROVE  d.id \in Ids /\ Follows(d.id, d.copy, store.has, now)
  <2>1. PICK i \in DOMAIN store.has : Due(i, store.has[i]) /\ d = [id |-> i, copy |-> store.has[i]]
    BY <1>1, <1>4
  <2>2. d.id = i /\ d.copy = store.has[i] BY <2>1
  <2>3. i \in given /\ store.has[i] \in Copies /\ OnCadence(i, store.has[i]) /\ store.has[i].next \in Nat
    BY <1>0, <1>1, StoreIs, TableTyped
  <2>4. store.has[i].next <= now BY <2>1 DEF Due
  <2>5. i \in Ids BY <1>0, <2>3 DEF TablesInv
  <2> QED BY <2>2, <2>3, <2>4, <2>5 DEF Follows
<1>5. FlightsInv' BY <1>0, <1>1, <1>4 DEF FlightsInv
<1> QED BY <1>2, <1>3, <1>5 DEF SchedInv

\* tryStart.
LEMMA DispatchStep == ASSUME SchedInv, NEW d \in due, Dispatch(d) PROVE SchedInv'
<1>0. TablesInv /\ FlightsInv /\ CommandsInv /\ SameIds /\ LoneChangesLast BY DEF SchedInv
<1>1. /\ due' = due \ {d} /\ TryStart(d.id, d.copy)
      /\ UNCHANGED <<now, file, store, command, crashes, given, removed, shared>>
  BY DEF Dispatch
<1>2. TablesInv' BY <1>0, <1>1 DEF TablesInv
<1>3. CommandsInv' /\ SameIds' /\ LoneChangesLast' BY <1>0, <1>1, FilesRest
<1>4. store.open
  <2>1. ~store.open => due = {} BY <1>0 DEF FlightsInv
  <2> QED BY <2>1
<1>5. PICK k \in Ids, s \in Copies : k = d.id /\ s = d.copy /\ Follows(k, s, store.has, now)
  BY <1>0 DEF FlightsInv, Follows
<1>9. store'.open /\ store'.has = store.has /\ now' = now BY <1>1, <1>4
<1>10. \A e \in due' : e.id \in Ids /\ Follows(e.id, e.copy, store.has, now) BY <1>0, <1>1 DEF FlightsInv
<1>6. ASSUME flights' = flights PROVE FlightsInv'
  <2>1. /\ DOMAIN flights' = Ids /\ flights' = [i \in Ids |-> flights'[i]]
        /\ \A i \in Ids : flights'[i] # NoFlight =>
             /\ flights'[i] \in [pc : {"running", "updated"}, copy : Copies]
             /\ Follows(i, flights'[i].copy, store.has, now)
    BY <1>0, <1>6 DEF FlightsInv
  <2> QED BY <1>9, <1>10, <2>1 DEF FlightsInv
<1>7. ASSUME flights' = [flights EXCEPT ![k] = [pc |-> "running", copy |-> s]] PROVE FlightsInv'
  <2>1. PICK r : r = [pc |-> "running", copy |-> s] OBVIOUS
  <2>2. r \in [pc : {"running", "updated"}, copy : Copies] /\ r.copy = s BY <2>1
  <2>3. DOMAIN flights' = Ids /\ flights' = [i \in Ids |-> flights'[i]]
    BY <1>0, <1>7 DEF FlightsInv
  <2>4. \A i \in Ids : flights'[i] = IF i = k THEN r ELSE flights[i] BY <1>0, <1>7, <2>1 DEF FlightsInv
  <2>5. ASSUME NEW i \in Ids, flights'[i] # NoFlight
        PROVE  /\ flights'[i] \in [pc : {"running", "updated"}, copy : Copies]
               /\ Follows(i, flights'[i].copy, store.has, now)
    <3>1. CASE i = k BY <1>5, <2>2, <2>4, <3>1
    <3>2. CASE i # k BY <1>0, <2>4, <2>5, <3>2 DEF FlightsInv
    <3> QED BY <3>1, <3>2
  <2> QED BY <1>9, <1>10, <2>3, <2>5 DEF FlightsInv
<1>8. FlightsInv'
  <2>1. flights' = flights \/ flights' = [flights EXCEPT ![k] = [pc |-> "running", copy |-> s]]
    BY <1>1, <1>5 DEF TryStart
  <2> QED BY <1>6, <1>7, <2>1
<1> QED BY <1>2, <1>3, <1>8 DEF SchedInv

LEMMA FinishStep == ASSUME SchedInv, NEW i \in Ids, Finish(i) PROVE SchedInv'
<1>0. TablesInv /\ FlightsInv /\ CommandsInv /\ SameIds /\ LoneChangesLast BY DEF SchedInv
<1>1. /\ flights' = [flights EXCEPT ![i] = NoFlight]
      /\ UNCHANGED <<now, file, store, due, command, crashes, given, removed, shared>>
  BY DEF Finish
<1>2. TablesInv' BY <1>0, <1>1 DEF TablesInv
<1>3. CommandsInv' /\ SameIds' /\ LoneChangesLast' BY <1>0, <1>1, FilesRest
<1>4. DOMAIN flights' = Ids /\ flights' = [j \in Ids |-> flights'[j]]
  BY <1>0, <1>1 DEF FlightsInv
<1>5. \A j \in Ids : flights'[j] = IF j = i THEN NoFlight ELSE flights[j] BY <1>0, <1>1 DEF FlightsInv
<1>6. FlightsInv' BY <1>0, <1>1, <1>4, <1>5 DEF FlightsInv
<1> QED BY <1>2, <1>3, <1>6 DEF SchedInv

LEMMA CrashStep == ASSUME SchedInv, Crash PROVE SchedInv'
<1>0. TablesInv /\ FlightsInv /\ CommandsInv /\ SameIds /\ LoneChangesLast BY DEF SchedInv
<1>1. /\ crashes' = crashes + 1 /\ store' = Closed /\ due' = {} /\ flights' = [i \in Ids |-> NoFlight]
      /\ UNCHANGED <<now, file, command, given, removed, shared>>
  BY DEF Crash
<1>2. ~store'.open BY <1>1 DEF Closed
<1>3. TablesInv' BY <1>0, <1>1 DEF TablesInv
<1>4. FlightsInv' BY <1>1, <1>2 DEF FlightsInv
<1>5. CommandsInv' /\ SameIds' /\ LoneChangesLast' BY <1>0, <1>1, <1>2, FilesRest
<1> QED BY <1>3, <1>4, <1>5 DEF SchedInv

\* execute: what the store has of the schedule moves on, past every copy that is under way.
LEMMA ExecuteStep == ASSUME SchedInv, NEW i \in Ids, Execute(i) PROVE SchedInv'
<1>0. TablesInv /\ FlightsInv /\ CommandsInv /\ SameIds /\ LoneChangesLast BY DEF SchedInv
<1>1. /\ flights[i].pc = "running" /\ flights' = [flights EXCEPT ![i].pc = "updated"]
      /\ UNCHANGED <<now, due, command, given, removed, shared>>
  BY DEF Execute
<1>2. flights[i] # NoFlight BY <1>1 DEF NoFlight
<1>3. store.open BY <1>0, <1>2, StoreIs DEF FlightsInv
<1>4. PICK h : h = store.has OBVIOUS
<1>5. PICK s \in Copies : /\ s = flights[i].copy /\ Follows(i, s, h, now)
                          /\ flights[i] \in [pc : {"running", "updated"}, copy : Copies]
  BY <1>0, <1>2, <1>4 DEF FlightsInv, Follows
<1>6. PICK n \in Nat : n = now BY <1>0 DEF TablesInv
<1>7. PICK g : g \subseteq Ids /\ g = given BY <1>0 DEF TablesInv
<1>8. IsTable(h, g) /\ i \in DOMAIN h /\ i \in g
  BY <1>0, <1>3, <1>4, <1>5, <1>7, StoreIs, TableTyped DEF Follows
<1>9. OnCadence(i, s) /\ s.next <= n /\ s.next <= h[i].next /\ (Every[i] = 0 => s.next = h[i].next) /\ s.next \in Nat
  BY <1>5, <1>6 DEF Follows, Copies
<1>10. PICK a \in Copies : /\ a = Advance(i, s) /\ OnCadence(i, a) /\ a.next \in Nat
                           /\ Every[i] = 0 => a.next = s.next
                           /\ Every[i] # 0 => a.next > n
  <2>1. now \in Nat /\ s.next <= now BY <1>6, <1>9
  <2> QED BY <1>6, <1>9, <2>1, AdvanceIsSound DEF Copies
<1>11. PICK w : w = With(h, i, a) OBVIOUS
<1>12. IsTable(w, g) /\ DOMAIN w = DOMAIN h /\ \A j \in DOMAIN h : w[j] = IF j = i THEN a ELSE h[j]
  <2>1. DOMAIN h \cup {i} = DOMAIN h BY <1>8
  <2>2. /\ IsTable(w, g) /\ DOMAIN w = DOMAIN h \cup {i}
        /\ \A j \in DOMAIN h \cup {i} : w[j] = IF j = i THEN a ELSE h[j]
    <3>1. IsTable(h, g) /\ i \in g /\ a \in Copies /\ OnCadence(i, a) BY <1>8, <1>10
    <3>2. IsTable(With(h, i, a), g) /\ DOMAIN With(h, i, a) = DOMAIN h \cup {i} BY <3>1, WithTable
    <3>3. \A j \in DOMAIN h \cup {i} : w[j] = IF j = i THEN a ELSE h[j] BY <1>11 DEF With
    <3> QED BY <1>11, <3>2, <3>3
  <2> QED BY <2>1, <2>2
<1>13. Update(w) BY <1>1, <1>4, <1>5, <1>8, <1>10, <1>11 DEF Execute
<1>14. store' = Opened(w) /\ store'.open /\ store'.has = w BY <1>0, <1>13, StoreIs DEF Update
<1>15. /\ file' = w \/ file' = file
       /\ crashes' \in Nat
  BY <1>0, <1>13 DEF Update, TablesInv
<1>16. TablesInv' BY <1>0, <1>1, <1>7, <1>12, <1>14, <1>15 DEF TablesInv
<1>17. ASSUME NEW j, NEW c, Follows(j, c, h, n)
       PROVE  Follows(j, c, w, n)
  <2>1. j \in DOMAIN h /\ j \in DOMAIN w /\ h[j].next \in Nat /\ w[j].next \in Nat
    BY <1>8, <1>12, <1>17, TableTyped DEF Follows
  <2>2. CASE j # i
    <3>1. w[j] = h[j] BY <1>12, <2>1, <2>2
    <3> QED BY <1>17, <2>1, <3>1 DEF Follows
  <2>3. CASE j = i
    <3>1. w[i] = a BY <1>8, <1>12
    <3>2. c \in Copies /\ OnCadence(i, c) /\ c.next <= n /\ c.next <= h[i].next /\ (Every[i] = 0 => c.next = h[i].next)
      BY <1>17, <2>3 DEF Follows
    <3>3. c.next \in Nat BY <3>2 DEF Copies
    <3>4. Every[i] = 0 => c.next = a.next BY <1>9, <1>10, <3>2
    <3>5. c.next <= a.next BY <1>10, <3>2, <3>3, <3>4
    <3> QED BY <2>1, <2>3, <3>1, <3>2, <3>4, <3>5 DEF Follows
  <2> QED BY <2>2, <2>3
<1>18. PICK r : r = [flights[i] EXCEPT !.pc = "updated"] OBVIOUS
<1>19. r \in [pc : {"running", "updated"}, copy : Copies] /\ r.copy = s BY <1>5, <1>18
<1>20. flights' = [flights EXCEPT ![i] = r] BY <1>1, <1>18
<1>21. /\ DOMAIN flights' = Ids /\ flights' = [j \in Ids |-> flights'[j]]
       /\ \A j \in Ids : flights'[j] = IF j = i THEN r ELSE flights[j]
  BY <1>0, <1>20 DEF FlightsInv
<1>22. ASSUME NEW j \in Ids, flights'[j] # NoFlight
       PROVE  /\ flights'[j] \in [pc : {"running", "updated"}, copy : Copies]
              /\ Follows(j, flights'[j].copy, w, n)
  <2>1. CASE j = i BY <1>5, <1>6, <1>17, <1>19, <1>21, <2>1
  <2>2. CASE j # i
    <3>1. /\ flights[j] \in [pc : {"running", "updated"}, copy : Copies]
          /\ Follows(j, flights[j].copy, h, n)
      BY <1>0, <1>4, <1>6, <1>21, <1>22, <2>2 DEF FlightsInv
    <3> QED BY <1>17, <1>21, <2>2, <3>1
  <2> QED BY <2>1, <2>2
<1>23. \A d \in due : d.id \in Ids /\ Follows(d.id, d.copy, w, n)
  BY <1>0, <1>4, <1>6, <1>17 DEF FlightsInv
<1>24. FlightsInv' BY <1>1, <1>6, <1>14, <1>21, <1>22, <1>23 DEF FlightsInv
<1>25. CommandsInv' BY <1>0, <1>1 DEF CommandsInv
<1>26. \A j \in Ids \ shared : j \in DOMAIN file' <=> j \in DOMAIN file
  BY <1>0, <1>3, <1>4, <1>12, <1>15 DEF SameIds
<1>27. SameIds' BY <1>0, <1>1, <1>3, <1>4, <1>12, <1>14, <1>26 DEF SameIds
<1>28. LoneChangesLast' BY <1>0, <1>1, <1>26 DEF LoneChangesLast, TablesInv
<1> QED BY <1>16, <1>24, <1>25, <1>27, <1>28 DEF SchedInv
-----------------------------------------------------------------------------
(* The commands. *)

LEMMA ActiveIs ==
  ASSUME CommandsInv, NEW c \in Commands
  PROVE  Active(c) <=> command[c] # NoCommand
<1>1. NoCommand.pc = "none" BY DEF NoCommand
<1>2. ASSUME command[c] # NoCommand PROVE command[c].pc = "opened" BY <1>2 DEF CommandsInv
<1> QED BY <1>1, <1>2 DEF Active

\* What CommandsInv says of the command in a slot.
Entered(r, g) ==
  /\ r = [pc |-> "opened", op |-> r.op, id |-> r.id, has |-> r.has]
  /\ r.op \in {"add", "remove"} /\ r.id \in Ids /\ IsTable(r.has, g)
  /\ r.op = "remove" => r.id \in g
  /\ r.op = "add" => r.id \notin g

LEMMA CommandsAre ==
  CommandsInv <=>
    /\ DOMAIN command = Commands /\ command = [c \in Commands |-> command[c]]
    /\ \A c \in Commands : command[c] # NoCommand =>
         /\ Entered(command[c], given)
         /\ \A d \in Commands \ {c} :
              (command[d] # NoCommand /\ command[c].op = "add") => command[d].id # command[c].id
BY DEF CommandsInv, Entered

LEMMA StartCommandStep ==
  ASSUME SchedInv, NEW c \in Commands, NEW op \in {"add", "remove"}, NEW i \in Ids, StartCommand(c, op, i)
  PROVE  SchedInv'
<1>0. TablesInv /\ FlightsInv /\ CommandsInv /\ SameIds /\ LoneChangesLast BY DEF SchedInv
<1>1. /\ op = "add" => i \notin given /\ \A d \in Commands : Active(d) => command[d].id # i
      /\ op = "remove" => i \in DOMAIN file
      /\ command' = [command EXCEPT ![c] = [pc |-> "opened", op |-> op, id |-> i, has |-> file]]
      /\ UNCHANGED <<now, file, store, due, flights, crashes, given, removed, shared>>
  BY DEF StartCommand
<1>2. PICK r : r = [pc |-> "opened", op |-> op, id |-> i, has |-> file] OBVIOUS
<1>3. IsTable(file, given) BY <1>0 DEF TablesInv
<1>4. op = "remove" => i \in given BY <1>1, <1>3 DEF IsTable
<1>5. r.op = op /\ r.id = i /\ Entered(r, given) BY <1>1, <1>2, <1>3, <1>4 DEF Entered
<1>6. /\ DOMAIN command' = Commands /\ command' = [d \in Commands |-> command'[d]]
      /\ \A d \in Commands : command'[d] = IF d = c THEN r ELSE command[d]
  BY <1>0, <1>1, <1>2 DEF CommandsInv
<1>7. ASSUME NEW d \in Commands, command'[d] # NoCommand
      PROVE  /\ Entered(command'[d], given)
             /\ \A e \in Commands \ {d} :
                  (command'[e] # NoCommand /\ command'[d].op = "add") => command'[e].id # command'[d].id
  <2>1. CASE d = c
    <3>1. command'[d] = r BY <1>6, <2>1
    <3>2. ASSUME NEW e \in Commands \ {c}, command'[e] # NoCommand, op = "add" PROVE command'[e].id # i
      <4>1. command'[e] = command[e] BY <1>6
      <4>2. Active(e) BY <1>0, <3>2, <4>1, ActiveIs
      <4> QED BY <1>1, <3>2, <4>1, <4>2
    <3> QED BY <1>5, <2>1, <3>1, <3>2
  <2>2. CASE d # c
    <3>1. command'[d] = command[d] BY <1>6, <2>2
    <3>2. /\ Entered(command[d], given)
          /\ \A e \in Commands \ {d} :
               (command[e] # NoCommand /\ command[d].op = "add") => command[e].id # command[d].id
      BY <1>0, <1>7, <3>1, CommandsAre
    <3>3. ASSUME command[d].op = "add" PROVE i # command[d].id
      <4>1. Active(d) BY <1>0, <1>7, <3>1, ActiveIs
      <4>2. command[d].id \notin given BY <3>2, <3>3 DEF Entered
      <4> QED BY <1>1, <1>4, <4>1, <4>2
    <3>4. ASSUME NEW e \in Commands \ {d}, command'[e] # NoCommand, command[d].op = "add"
          PROVE  command'[e].id # command[d].id
      <4>1. CASE e = c BY <1>5, <1>6, <3>3, <3>4, <4>1
      <4>2. CASE e # c BY <1>6, <3>2, <3>4, <4>2
      <4> QED BY <4>1, <4>2
    <3> QED BY <3>1, <3>2, <3>4
  <2> QED BY <2>1, <2>2
<1>8. CommandsInv'
  <2>1. CommandsInv' <=>
          /\ DOMAIN command' = Commands /\ command' = [d \in Commands |-> command'[d]]
          /\ \A d \in Commands : command'[d] # NoCommand =>
               /\ Entered(command'[d], given')
               /\ \A e \in Commands \ {d} :
                    (command'[e] # NoCommand /\ command'[d].op = "add") => command'[e].id # command'[d].id
    BY DEF CommandsInv, Entered
  <2> QED BY <1>1, <1>6, <1>7, <2>1
<1>9. TablesInv' BY <1>0, <1>1 DEF TablesInv
<1>10. FlightsInv' BY <1>0, <1>1 DEF FlightsInv
<1>11. SameIds' /\ LoneChangesLast' BY <1>0, <1>1 DEF SameIds, LoneChangesLast
<1> QED BY <1>8, <1>9, <1>10, <1>11 DEF SchedInv

\* Add and Remove: alone, the file loses or gains the id only; else what changes is shared.
LEMMA CommitStep == ASSUME SchedInv, NEW c \in Commands, Commit(c) PROVE SchedInv'
<1>0. TablesInv /\ FlightsInv /\ CommandsInv /\ SameIds /\ LoneChangesLast BY DEF SchedInv
<1>1. PICK r : r = command[c] OBVIOUS
<1>2. /\ Active(c) /\ file' = Written(c)
      /\ given' = IF r.op = "add" THEN given \cup {r.id} ELSE given
      /\ removed' = IF r.op = "remove" THEN removed \cup {r.id} ELSE removed
      /\ shared' = IF Alone(c) /\ r.has = file THEN shared ELSE shared \cup Touched(c)
      /\ command' = [command EXCEPT ![c] = NoCommand]
      /\ UNCHANGED <<now, store, due, flights, crashes>>
  BY <1>1 DEF Commit
<1>3. r # NoCommand BY <1>0, <1>1, <1>2, ActiveIs
<1>4. Entered(r, given) BY <1>0, <1>1, <1>3, CommandsAre
<1>5. PICK k \in Ids : k = r.id BY <1>4 DEF Entered
<1>6. PICK h : h = r.has /\ IsTable(h, given) BY <1>4 DEF Entered
<1>7. /\ r.op \in {"add", "remove"}
      /\ r.op = "remove" => k \in given
      /\ r.op = "add" => k \notin given
  BY <1>4, <1>5 DEF Entered
<1>8. /\ given \subseteq given' /\ given' \subseteq Ids /\ removed' \subseteq given'
      /\ removed' \subseteq removed \cup {k} /\ given' \subseteq given \cup {k}
      /\ shared \subseteq shared' /\ shared' \subseteq Ids
  BY <1>0, <1>2, <1>5, <1>7, <1>1 DEF TablesInv, Touched
<1>9. /\ IsTable(file', given')
      /\ DOMAIN file' = IF r.op = "add" THEN DOMAIN h \cup {k} ELSE DOMAIN h \ {k}
  <2>1. IsTable(h, given') BY <1>6, <1>8, TableGrows
  <2>2. CASE r.op = "add"
    <3>1. k \in given' BY <1>2, <1>5, <2>2
    <3>2. PICK s : s = New(k, now) OBVIOUS
    <3>3. s \in Copies /\ OnCadence(k, s) BY <1>0, <3>2, NewIsSound DEF TablesInv
    <3>4. file' = With(h, k, s) BY <1>1, <1>2, <1>5, <1>6, <2>2, <3>2 DEF Written
    <3> QED BY <2>1, <2>2, <3>1, <3>3, <3>4, WithTable
  <2>3. CASE r.op = "remove"
    <3>1. file' = Without(h, k) BY <1>1, <1>2, <1>5, <1>6, <2>3 DEF Written
    <3> QED BY <2>1, <2>3, <3>1, WithoutTable
  <2> QED BY <1>7, <2>2, <2>3
<1>10. TablesInv'
  <2>1. store' = Closed \/ (store' = Opened(store'.has) /\ IsTable(store'.has, given'))
    BY <1>0, <1>2, <1>8, TableGrows DEF TablesInv
  <2> QED BY <1>0, <1>2, <1>8, <1>9, <2>1 DEF TablesInv
<1>11. FlightsInv' BY <1>0, <1>2 DEF FlightsInv
<1>12. /\ DOMAIN command' = Commands /\ command' = [d \in Commands |-> command'[d]]
       /\ \A d \in Commands : command'[d] = IF d = c THEN NoCommand ELSE command[d]
  BY <1>0, <1>2 DEF CommandsInv
<1>13. ASSUME NEW d \in Commands, command'[d] # NoCommand
       PROVE  /\ Entered(command'[d], given')
              /\ \A e \in Commands \ {d} :
                   (command'[e] # NoCommand /\ command'[d].op = "add") => command'[e].id # command'[d].id
  <2>1. d # c /\ command'[d] = command[d] BY <1>12, <1>13
  <2>2. /\ Entered(command[d], given)
        /\ \A e \in Commands \ {d} :
             (command[e] # NoCommand /\ command[d].op = "add") => command[e].id # command[d].id
    BY <1>0, <1>13, <2>1, CommandsAre
  <2>3. command[d].op = "add" => k # command[d].id BY <1>1, <1>3, <1>5, <2>1, <2>2
  <2>4. Entered(command[d], given')
    <3>1. PICK q : q = command[d] OBVIOUS
    <3>2. IsTable(q.has, given') BY <1>8, <2>2, <3>1, TableGrows DEF Entered
    <3>3. q.op = "add" => q.id \notin given' BY <1>8, <2>2, <2>3, <3>1 DEF Entered
    <3> QED BY <1>8, <2>2, <3>1, <3>2, <3>3 DEF Entered
  <2>5. \A e \in Commands \ {d} : command'[e] # NoCommand => command'[e] = command[e] BY <1>12
  <2> QED BY <2>1, <2>2, <2>4, <2>5
<1>14. CommandsInv'
  <2>1. CommandsInv' <=>
          /\ DOMAIN command' = Commands /\ command' = [d \in Commands |-> command'[d]]
          /\ \A d \in Commands : command'[d] # NoCommand =>
               /\ Entered(command'[d], given')
               /\ \A e \in Commands \ {d} :
                    (command'[e] # NoCommand /\ command'[d].op = "add") => command'[e].id # command'[d].id
    BY DEF CommandsInv, Entered
  <2> QED BY <1>12, <1>13, <2>1
<1>15. CASE Alone(c) /\ h = file
  <2>1. ~store.open /\ shared' = shared BY <1>2, <1>6, <1>15 DEF Alone
  <2>2. SameIds' BY <1>2, <2>1 DEF SameIds
  <2>3. LoneChangesLast'
    <3>1. (removed \ shared) \cap DOMAIN file = {} /\ given \ (removed \cup shared) \subseteq DOMAIN file
          /\ removed \subseteq given
      BY <1>0 DEF LoneChangesLast, TablesInv
    <3>2. CASE r.op = "add"
      <4>1. removed' = removed /\ given' = given \cup {k} /\ k \notin removed
            /\ DOMAIN file' = DOMAIN file \cup {k}
        BY <1>2, <1>5, <1>7, <1>9, <1>15, <3>1, <3>2
      <4> QED BY <2>1, <3>1, <4>1 DEF LoneChangesLast
    <3>3. CASE r.op = "remove"
      <4>1. removed' = removed \cup {k} /\ given' = given /\ DOMAIN file' = DOMAIN file \ {k}
        BY <1>2, <1>5, <1>9, <1>15, <3>3
      <4> QED BY <2>1, <3>1, <4>1 DEF LoneChangesLast
    <3> QED BY <1>7, <3>2, <3>3
  <2> QED BY <1>10, <1>11, <1>14, <2>2, <2>3 DEF SchedInv
<1>16. CASE ~(Alone(c) /\ h = file)
  <2>1. shared' = shared \cup {k} \cup {i \in Ids : ~(i \in DOMAIN file <=> i \in DOMAIN h)}
    BY <1>1, <1>2, <1>5, <1>6, <1>16 DEF Touched
  <2>2. \A i \in Ids \ shared' : i # k /\ i \notin shared /\ (i \in DOMAIN file' <=> i \in DOMAIN file)
    BY <1>7, <1>9, <2>1
  <2>3. SameIds' BY <1>0, <1>2, <2>2 DEF SameIds
  <2>4. LoneChangesLast'
    <3>1. (removed \ shared) \cap DOMAIN file = {} /\ given \ (removed \cup shared) \subseteq DOMAIN file
      BY <1>0 DEF LoneChangesLast
    <3>2. \A i \in Ids \ shared' : (i \in removed' => i \in removed) /\ (i \in given' => i \in given)
      BY <1>8, <2>2
    <3>3. removed \subseteq removed' BY <1>2
    <3>4. (removed' \ shared') \cap DOMAIN file' = {} BY <1>8, <2>2, <3>1, <3>2
    <3>5. given' \ (removed' \cup shared') \subseteq DOMAIN file' BY <1>8, <2>2, <3>1, <3>2, <3>3
    <3> QED BY <3>4, <3>5 DEF LoneChangesLast
  <2> QED BY <1>10, <1>11, <1>14, <2>3, <2>4 DEF SchedInv
<1> QED BY <1>15, <1>16

-----------------------------------------------------------------------------
(* The specification. *)

LEMMA SchedStutter == ASSUME SchedInv, UNCHANGED schedVars PROVE SchedInv'
<1>0. TablesInv /\ FlightsInv /\ CommandsInv /\ SameIds /\ LoneChangesLast BY DEF SchedInv
<1>1. UNCHANGED <<now, file, store, due, flights, command, crashes, given, removed, shared>>
  BY DEF schedVars
<1>2. TablesInv' BY <1>0, <1>1 DEF TablesInv
<1>3. FlightsInv' BY <1>0, <1>1 DEF FlightsInv
<1>4. CommandsInv' /\ SameIds' /\ LoneChangesLast' BY <1>0, <1>1, FilesRest
<1> QED BY <1>2, <1>3, <1>4 DEF SchedInv

LEMMA SchedStart == ASSUME SchedInit PROVE SchedInv
<1>1. /\ now = 0 /\ file = Nothing /\ store = Closed /\ due = {}
      /\ flights = [i \in Ids |-> NoFlight] /\ command = [c \in Commands |-> NoCommand]
      /\ crashes = 0 /\ given = {} /\ removed = {} /\ shared = {}
  BY DEF SchedInit
<1>2. DOMAIN file = {} BY <1>1 DEF Nothing
<1>3. ~store.open BY <1>1 DEF Closed
<1>4. file \in [DOMAIN file -> Copies] BY <1>1, <1>2 DEF Nothing
<1>5. TablesInv BY <1>1, <1>2, <1>4 DEF TablesInv, IsTable
<1>6. FlightsInv BY <1>1 DEF FlightsInv
<1>7. CommandsInv BY <1>1 DEF CommandsInv
<1>8. SameIds /\ LoneChangesLast BY <1>1, <1>2, <1>3 DEF SameIds, LoneChangesLast
<1> QED BY <1>5, <1>6, <1>7, <1>8 DEF SchedInv

LEMMA SchedNextStep == ASSUME SchedInv, [SchedNext]_schedVars PROVE SchedInv'
BY ClockStep, ServeStep, TickStep, CrashStep, DispatchStep, ExecuteStep, FinishStep, CommitStep,
   StartCommandStep, SchedStutter DEF SchedNext

\* The invariant of the scheduler's cadence and of what a command reported, for any
\* schedules, intervals, commands and crashes (scheduler.go, schedule_store.go).
THEOREM SchedInductive == SchedSpec => []SchedInv
<1>1. SchedInit => SchedInv BY SchedStart
<1>2. SchedInv /\ [SchedNext]_schedVars => SchedInv' BY SchedNextStep
<1> QED BY <1>1, <1>2, PTL DEF SchedSpec

LEMMA SchedKeeps == ASSUME SchedInv PROVE SchedulesAreKept
<1>0. TablesInv /\ FlightsInv /\ LoneChangesLast BY DEF SchedInv
<1>1. ASSUME store.open, NEW i \in DOMAIN store.has
      PROVE  /\ OnCadence(i, store.has[i])
             /\ flights[i] # NoFlight =>
                  flights[i].copy.next <= now /\ flights[i].copy.next <= store.has[i].next
  <2>1. OnCadence(i, store.has[i]) /\ i \in given BY <1>0, <1>1, StoreIs, TableTyped
  <2>2. i \in Ids BY <1>0, <2>1 DEF TablesInv
  <2> QED BY <1>0, <2>1, <2>2 DEF FlightsInv, Follows
<1>2. CadenceIsKept BY <1>1 DEF CadenceIsKept, OnCadence
<1> QED BY <1>0, <1>2 DEF SchedulesAreKept

\* Recurring schedules keep the instants their creation fixed, no run is early, a recorded
\* run has the next one after it, and what a command reported without another store open
\* holds of the file (advance, Due, execute, ScheduleStore).
THEOREM SchedulesStayKept == SchedSpec => []SchedulesAreKept
<1>1. SchedInv => SchedulesAreKept BY SchedKeeps
<1> QED BY <1>1, SchedInductive, PTL
=============================================================================
