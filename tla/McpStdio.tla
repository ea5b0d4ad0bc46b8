------------------------------ MODULE McpStdio ------------------------------
(***************************************************************************)
(* One MCP client over the standard streams of a server process            *)
(* (tools/mcp/client.go, stdio.go): requests and notifications from several *)
(* callers, their contexts, the two pipes, and a server that answers, is    *)
(* slow, does not read, sends notifications, requests and text of its own, *)
(* or exits.                                                               *)
(*                                                                         *)
(* A pipe holds Pipe of the server's messages; a large request does not    *)
(* fit into what is left of one, so that writing it takes a server that    *)
(* reads.                                                                  *)
(***************************************************************************)
EXTENDS Naturals, Sequences

CONSTANTS
  Callers,     \* calls of Client.Request and Client.Notify
  Nobody,      \* not a caller
  Pipe,        \* messages the server can write before the client reads
  MaxUnasked   \* bound: messages the server sends that answer nothing

ASSUME McpAssumption == Nobody \notin Callers /\ Pipe \in Nat /\ MaxUnasked \in Nat

VARIABLES
  lock,     \* who holds Client.mu
  nextID,
  calls,    \* per caller: where it is, its request, what it returned
  stdin,    \* sent and not answered: the callers, in their order
  stdout,   \* written and not read: [id, of, text], id 0 without one; of is a caller or Nobody
  server,   \* "up" or "gone"
  closed,   \* whether Close has closed stdin
  unasked   \* ids of the messages the server sent of its own

mcpVars == <<lock, nextID, calls, stdin, stdout, server, closed, unasked>>

\* What the decoder makes of it.
Texts == {"message", "misshapen", "junk"}

NewCall == [pc |-> "idle", kind |-> "request", large |-> FALSE, id |-> 0, out |-> "none", of |-> Nobody]
Set(c, pc)    == calls' = [calls EXCEPT ![c].pc = pc]
Done(c, out)  == calls' = [calls EXCEPT ![c].pc = "done", ![c].out = out]

Init ==
  /\ lock = Nobody /\ nextID = 0 /\ calls = [c \in Callers |-> NewCall]
  /\ stdin = <<>> /\ stdout = <<>> /\ server = "up" /\ closed = FALSE /\ unasked = <<>>

-----------------------------------------------------------------------------
(* A call. *)

Begin(c, kind, large) ==
  /\ calls[c].pc = "idle"
  /\ calls' = [calls EXCEPT ![c].pc = "locking", ![c].kind = kind, ![c].large = large]
  /\ UNCHANGED <<lock, nextID, stdin, stdout, server, closed, unasked>>

\* c.mu is not given up when the context ends, and a request is numbered with it.
Acquire(c) ==
  /\ calls[c].pc = "locking" /\ lock = Nobody
  /\ lock' = c
  /\ IF calls[c].kind = "request"
       THEN nextID' = nextID + 1 /\ calls' = [calls EXCEPT ![c].pc = "encoding", ![c].id = nextID']
       ELSE Set(c, "encoding") /\ UNCHANGED nextID
  /\ UNCHANGED <<stdin, stdout, server, closed, unasked>>

\* The whole message is in the pipe.
Sent(c) ==
  /\ stdin' = Append(stdin, c)
  /\ IF calls[c].kind = "notify" THEN Done(c, "sent") /\ lock' = Nobody
     ELSE Set(c, "reading") /\ UNCHANGED lock
\* A notification is not sent too late; what fits is in the pipe at once. (A
\* context of a request that ended before it is one that ends now: see Cancel.)
Encode(c) ==
  /\ calls[c].pc = "encoding"
  /\ \/ /\ closed \/ server = "gone" \/ calls[c].kind = "notify"
        /\ Done(c, "error") /\ lock' = Nobody /\ UNCHANGED stdin
     \/ ~closed /\ server = "up" /\ ~calls[c].large /\ Sent(c)
     \/ ~closed /\ server = "up" /\ calls[c].large /\ Set(c, "writing") /\ UNCHANGED <<lock, stdin>>
  /\ UNCHANGED <<nextID, stdout, server, closed, unasked>>

\* What is left of a large message goes as the server reads it: the write holds
\* the lock, and the context does not end it - a close or the exit does.
Takes(c) ==
  /\ calls[c].pc = "writing" /\ ~closed /\ server = "up"
  /\ Sent(c)
  /\ UNCHANGED <<nextID, stdout, server, closed, unasked>>
WriteFails(c) ==
  /\ calls[c].pc = "writing" /\ (closed \/ server = "gone")
  /\ Done(c, "error") /\ lock' = Nobody
  /\ UNCHANGED <<nextID, stdin, stdout, server, closed, unasked>>

\* validateResponse.
Verdict(c, message) == IF message.id = calls[c].id THEN "ok" ELSE "mismatch"

\* readResponse: what has no id is skipped, what has one is taken for the response.
Skip(c) ==
  /\ calls[c].pc = "reading" /\ stdout # <<>> /\ Head(stdout).text = "message" /\ Head(stdout).id = 0
  /\ stdout' = Tail(stdout)
  /\ UNCHANGED <<lock, nextID, calls, stdin, server, closed, unasked>>
Receive(c) ==
  /\ calls[c].pc = "reading" /\ stdout # <<>> /\ Head(stdout).text = "message" /\ Head(stdout).id # 0
  /\ stdout' = Tail(stdout) /\ lock' = Nobody
  /\ calls' = [calls EXCEPT ![c].pc = "done", ![c].out = Verdict(c, Head(stdout)), ![c].of = Head(stdout).of]
  /\ UNCHANGED <<nextID, stdin, server, closed, unasked>>

\* End of file; cmd.Wait closes the pipe, also on what was not read yet. And a
\* message of the wrong shape is read and refused, where the decoder keeps the
\* error of a text that is no JSON.
ReadFails(c) ==
  /\ calls[c].pc = "reading"
  /\ \/ server = "gone" /\ UNCHANGED stdout
     \/ stdout # <<>> /\ Head(stdout).text = "junk" /\ UNCHANGED stdout
     \/ stdout # <<>> /\ Head(stdout).text = "misshapen" /\ stdout' = Tail(stdout)
  /\ Done(c, "error") /\ lock' = Nobody
  /\ UNCHANGED <<nextID, stdin, server, closed, unasked>>

\* Mutant: the request is given up, the transport stays open.
CancelKeepsOpen(c) ==
  /\ calls[c].pc = "reading"
  /\ Done(c, "cancelled") /\ lock' = Nobody
  /\ UNCHANGED <<nextID, stdin, stdout, server, closed, unasked>>
\* The context ends first, and it does with timeoutFor(cfg): the transport is
\* closed before the lock is released.
Cancel(c) ==
  /\ calls[c].pc = "reading"
  /\ closed' = TRUE /\ Set(c, "closing")
  /\ UNCHANGED <<lock, nextID, stdin, stdout, server, unasked>>

\* Mutant: Request returns without unlocking.
ClosesLocked(c) ==
  /\ calls[c].pc = "closing"
  /\ server' = "gone" /\ Done(c, "cancelled")
  /\ UNCHANGED <<lock, nextID, stdin, stdout, closed, unasked>>
\* Close waits for the exit: two seconds, after SIGTERM two more, then it kills.
Closes(c) ==
  /\ calls[c].pc = "closing"
  /\ server' = "gone" /\ lock' = Nobody /\ Done(c, "cancelled")
  /\ UNCHANGED <<nextID, stdin, stdout, closed, unasked>>

\* Client.Close by the manager: without the lock.
Shut ==
  /\ ~closed /\ closed' = TRUE
  /\ UNCHANGED <<lock, nextID, calls, stdin, stdout, server, unasked>>

-----------------------------------------------------------------------------
(* The server. *)

Answer(c, text) ==
  /\ server = "up" /\ stdin # <<>> /\ c = Head(stdin) /\ stdin' = Tail(stdin)
  /\ IF calls[c].kind = "notify" THEN UNCHANGED stdout
     ELSE Len(stdout) < Pipe /\ stdout' = Append(stdout, [id |-> calls[c].id, of |-> c, text |-> text])
  /\ UNCHANGED <<lock, nextID, calls, server, closed, unasked>>

\* A notification (id 0), a request of the server (ping, sampling) with its own
\* number, or what does not decode, which ends a read as well and counts with them.
Unasked(id, text) ==
  /\ server = "up" /\ Len(unasked) < MaxUnasked /\ Len(stdout) < Pipe
  /\ id = 0 => text = "message"
  /\ unasked' = Append(unasked, id) /\ stdout' = Append(stdout, [id |-> id, of |-> Nobody, text |-> text])
  /\ UNCHANGED <<lock, nextID, calls, stdin, server, closed>>

Exit ==
  /\ server = "up" /\ server' = "gone"
  /\ UNCHANGED <<lock, nextID, calls, stdin, stdout, closed, unasked>>

Next ==
  \/ \E c \in Callers :
       \/ \E kind \in {"request", "notify"}, large \in BOOLEAN : Begin(c, kind, large)
       \/ Acquire(c) \/ Encode(c) \/ Takes(c) \/ WriteFails(c) \/ Skip(c) \/ Receive(c) \/ ReadFails(c)
       \/ Cancel(c) \/ Closes(c) \/ \E text \in {"message", "misshapen"} : Answer(c, text)
  \/ Shut \/ Exit \/ \E id \in 0 .. 2, text \in Texts : Unasked(id, text)

Spec == Init /\ [][Next]_mcpVars

\* The goroutines run and every context has a deadline. Nothing is assumed of the
\* server, nor that it reads.
CallProgress(c) ==
  Acquire(c) \/ Encode(c) \/ WriteFails(c) \/ Skip(c) \/ Receive(c) \/ ReadFails(c) \/ Cancel(c) \/ Closes(c)
FairSpec == Spec /\ \A c \in Callers : WF_mcpVars(CallProgress(c))

-----------------------------------------------------------------------------
\* A request that succeeds got the answer to itself, whatever was slow, cancelled
\* or sent in between - or the number of a request of the server, which is read as
\* an empty answer; and the answers get out of step with the requests only after
\* one, or after what did not decode (stdioTransport.Request, validateResponse).
RepliesAreOwn ==
  \A c \in Callers :
    /\ calls[c].out = "ok" => \/ calls[c].of = c
                              \/ calls[c].of = Nobody /\ \E k \in 1 .. Len(unasked) : unasked[k] = calls[c].id
    /\ calls[c].out = "mismatch" => \E k \in 1 .. Len(unasked) : unasked[k] # 0

\* A large message waits for a server that does not read, under Client.mu.
WritesUnread == \E c \in Callers : calls[c].pc = "writing" /\ ~closed /\ server = "up"

\* docs/adr/0011-mcp-client-integration.md:159-160: "context cancellation cancels
\* in-flight JSON-RPC requests and begins process cleanup". Not while they are
\* being written: enc.Encode looks at no context.
RequestsEnd == \A c \in Callers : calls[c].pc = "encoding" ~> calls[c].pc = "done"

-----------------------------------------------------------------------------
(***************************************************************************)
(* The inductive strengthening.  A request that left is on one pipe, once; *)
(* as long as the server numbers nothing of its own, it is the one of the  *)
(* caller that holds the lock, or the server is gone and nobody reads.     *)
(***************************************************************************)
Stages == {"idle", "locking", "encoding", "writing", "reading", "closing", "done"}

TypeOK ==
  /\ lock \in Callers \cup {Nobody} /\ nextID \in Nat
  /\ calls \in [Callers -> [pc : Stages, kind : {"request", "notify"}, large : BOOLEAN, id : Nat,
                            out : {"none", "sent", "ok", "mismatch", "error", "cancelled"},
                            of : Callers \cup {Nobody}]]
  /\ stdin \in Seq(Callers) /\ stdout \in Seq([id : Nat, of : Callers \cup {Nobody}, text : Texts])
  /\ server \in {"up", "gone"} /\ closed \in BOOLEAN /\ unasked \in Seq(Nat)

\* Client.mu is held from the number of a request to its answer or the close.
LockInv == \A c \in Callers : lock = c <=> calls[c].pc \in {"encoding", "writing", "reading", "closing"}

\* No two requests have one number, and none has its outcome before it is done.
IdsInv ==
  \A c \in Callers :
    /\ calls[c].id <= nextID
    /\ calls[c].pc # "done" => calls[c].out = "none"
    /\ calls[c].kind = "request" /\ calls[c].pc \notin {"idle", "locking"} => calls[c].id # 0
    /\ \A d \in Callers : calls[c].id = calls[d].id /\ calls[c].id # 0 => c = d

Left(c) == calls[c].pc \in {"reading", "closing", "done"}

\* What is on the pipes left once, and is answered under its number; only what the
\* server sends of its own may be no JSON, and then it counts.
WireInv ==
  /\ \A k \in DOMAIN stdin : Left(stdin[k])
  /\ \A j, k \in DOMAIN stdin : stdin[j] = stdin[k] => j = k
  /\ \A k \in DOMAIN stdout :
       IF stdout[k].of = Nobody
       THEN /\ \E n \in DOMAIN unasked : unasked[n] = stdout[k].id
            /\ stdout[k].id = 0 => stdout[k].text = "message"
       ELSE /\ stdout[k].text # "junk" /\ Left(stdout[k].of) /\ calls[stdout[k].of].kind = "request"
            /\ stdout[k].id = calls[stdout[k].of].id
            /\ \A j \in DOMAIN stdin : stdin[j] # stdout[k].of
            /\ \A j \in DOMAIN stdout : stdout[j].of = stdout[k].of => j = k

Outstanding(c) ==
  \/ calls[c].kind = "request" /\ \E k \in DOMAIN stdin : stdin[k] = c
  \/ \E k \in DOMAIN stdout : stdout[k].of = c

InStep ==
  (\A n \in DOMAIN unasked : unasked[n] = 0) =>
    \A c \in Callers : Outstanding(c) =>
      \/ calls[c].pc \in {"reading", "closing"}
      \/ server = "gone" /\ \A d \in Callers : calls[d].pc # "reading"

IInv == TypeOK /\ LockInv /\ IdsInv /\ WireInv /\ InStep /\ RepliesAreOwn
=============================================================================
