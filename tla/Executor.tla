------------------------------ MODULE Executor ------------------------------
(***************************************************************************)
(* LocalExecutor.Run (executor.go): a command with a timeout under the      *)
(* context of its caller, and limitedOutput, which keeps the head and a     *)
(* rolling tail of what it prints. A byte is its number in the output.      *)
(***************************************************************************)
EXTENDS Integers, Sequences, FiniteSets

CONSTANTS
  Limits,    \* values of MaxOutputBytes
  MaxBytes,  \* bound: bytes printed
  MaxChunk   \* bound: bytes of one write

\* A limit of 0 stands for the default (Run).
ASSUME ExecAssumption == Limits \subseteq Nat \ {0} /\ MaxBytes \in Nat /\ MaxChunk \in Nat

VARIABLES
  limit,
  total,     \* bytes printed
  head, tail, omitted,
  child,     \* the command: Running, Killed, Unstarted or an exit code
  heir,      \* whether a process it started still has its output open
  stopped,   \* the caller's context ended
  late,      \* the timeout passed
  waited,    \* c.Run returned
  report     \* [out, code] of Run

execVars == <<limit, total, head, tail, omitted, child, heir, stopped, late, waited, report>>

Running == -2
Killed  == -1
Unstarted == -3
Unreported == [out |-> "none", code |-> 0]
ExecInit ==
  /\ limit \in Limits /\ total = 0 /\ head = <<>> /\ tail = <<>> /\ omitted = 0
  /\ child = Running /\ heir \in BOOLEAN /\ stopped = FALSE /\ late = FALSE /\ waited = FALSE /\ report = Unreported

TailMax == limit \div 2
HeadMax == limit - TailMax
Numbers(from, to) == [n \in 1 .. to - from + 1 |-> from + n - 1]
Suffix(s, n) == SubSeq(s, Len(s) - n + 1, Len(s))

-----------------------------------------------------------------------------
(* limitedOutput. *)

\* Mutant: a write that fills the tail does not count what it replaces.
RollUncounted(p) ==
  IF Len(p) >= TailMax THEN omitted' = omitted + Len(p) - TailMax /\ tail' = Suffix(p, TailMax)
  ELSE LET over == Len(tail \o p) - TailMax
       IN  IF over > 0 THEN omitted' = omitted + over /\ tail' = Suffix(tail \o p, TailMax)
           ELSE tail' = tail \o p /\ UNCHANGED omitted

\* The part of a write past the head: at least the tail's size, or less.
Roll(p) ==
  IF Len(p) >= TailMax
  THEN omitted' = omitted + Len(tail) + Len(p) - TailMax /\ tail' = Suffix(p, TailMax)
  ELSE LET over == Len(tail \o p) - TailMax
       IN  IF over > 0 THEN omitted' = omitted + over /\ tail' = Suffix(tail \o p, TailMax)
           ELSE tail' = tail \o p /\ UNCHANGED omitted

\* Write, by the command or by its heir, of n bytes.
Write(n) ==
  /\ ~waited /\ (child = Running \/ heir) /\ total + n <= MaxBytes
  /\ total' = total + n
  /\ LET room == HeadMax - Len(head)
         take == IF room < n THEN room ELSE n
         rest == Numbers(total + take + 1, total + n)
     IN  /\ head' = head \o Numbers(total + 1, total + take)
         /\ IF rest = <<>> THEN UNCHANGED <<tail, omitted>> ELSE Roll(rest)
  /\ UNCHANGED <<limit, child, heir, stopped, late, waited, report>>

\* Head and Tail, as Run reads them.
HeadOf == IF omitted = 0 THEN head \o tail ELSE head
TailOf == IF omitted = 0 THEN <<>> ELSE tail

-----------------------------------------------------------------------------
(* Run. *)

Exits(code) ==
  /\ child = Running /\ child' = code
  /\ UNCHANGED <<limit, total, head, tail, omitted, heir, stopped, late, waited, report>>
HeirExits ==
  /\ heir /\ heir' = FALSE
  /\ UNCHANGED <<limit, total, head, tail, omitted, child, stopped, late, waited, report>>
Stop ==
  /\ ~stopped /\ stopped' = TRUE
  /\ UNCHANGED <<limit, total, head, tail, omitted, child, heir, late, waited, report>>
Deadline ==
  /\ ~late /\ late' = TRUE
  /\ UNCHANGED <<limit, total, head, tail, omitted, child, heir, stopped, waited, report>>

\* The command is not found or the context has ended: nothing is waited for.
StartFails ==
  /\ child = Running /\ total = 0 /\ ~heir
  /\ child' = Unstarted /\ waited' = TRUE
  /\ UNCHANGED <<limit, total, head, tail, omitted, heir, stopped, late, report>>

\* CommandContext: the command itself is killed, not what it started.
Kill ==
  /\ child = Running
  /\ stopped \/ late
  /\ child' = Killed
  /\ UNCHANGED <<limit, total, head, tail, omitted, heir, stopped, late, waited, report>>

\* c.Run waits for the output to be closed by everyone who has it.
Wait ==
  /\ child # Running /\ ~heir /\ ~waited /\ waited' = TRUE
  /\ UNCHANGED <<limit, total, head, tail, omitted, child, heir, stopped, late, report>>

\* exitCode.
Code == IF child = Unstarted THEN -1 ELSE child
\* The contexts are looked at after the command ended, whichever way it did; broken
\* is an error of c.Run that is not the exit of the command, such as of its input.
Outcome(broken) ==
  CASE stopped -> [out |-> "cancelled", code |-> Code]
    [] ~stopped /\ late -> [out |-> "timeout", code |-> IF Code = 0 THEN -1 ELSE Code]
    [] ~stopped /\ ~late -> [out |-> IF broken THEN "error" ELSE "exit", code |-> Code]
Return ==
  /\ waited /\ report = Unreported
  /\ \E broken \in BOOLEAN :
       /\ child = Unstarted => broken
       /\ broken => child \in {0, Unstarted}
       /\ report' = Outcome(broken)
  /\ UNCHANGED <<limit, total, head, tail, omitted, child, heir, stopped, late, waited>>

ExecNext ==
  \/ \E n \in 1 .. MaxChunk : Write(n)
  \/ \E code \in {0, 1} : Exits(code)
  \/ HeirExits \/ Stop \/ Deadline \/ StartFails \/ Kill \/ Wait \/ Return

ExecSpec == ExecInit /\ [][ExecNext]_execVars

\* The goroutines of os/exec and the kernel; the command itself may run for ever.
FairExec == ExecSpec /\ WF_execVars(Kill) /\ WF_execVars(Wait) /\ WF_execVars(Return)

-----------------------------------------------------------------------------
\* What Run reports is what was printed: everything, or the first HeadMax and the
\* last TailMax bytes and the number of those between them, however the writes
\* cut it; a command that was killed is not reported as one that ended, and a
\* code of 0 means that it exited with 0 and nothing stopped it
\* (limitedOutput.Write, LocalExecutor.Run).
ResultsAreTrue ==
  /\ IF omitted = 0 THEN HeadOf = Numbers(1, total) /\ TailOf = <<>>
     ELSE /\ HeadOf = Numbers(1, HeadMax) /\ TailOf = Numbers(total - TailMax + 1, total)
          /\ HeadMax + omitted + TailMax = total
  /\ report.out = "exit" => report.code \in {0, 1} /\ ~heir
  /\ report.out = "timeout" => report.code # 0

-----------------------------------------------------------------------------
(* The strengthening of ResultsAreTrue that is inductive. *)

ExecTypeOK ==
  /\ limit \in Nat \ {0} /\ total \in Nat /\ omitted \in Nat
  /\ head \in Seq(Int) /\ tail \in Seq(Int)
  /\ child \in {Running, Killed, Unstarted, 0, 1} /\ {heir, stopped, late, waited} \subseteq BOOLEAN

\* The head fills first; behind it is what was left out, and the last bytes once
\* anything was.
OutputInv ==
  /\ head = Numbers(1, Len(head)) /\ Len(head) <= HeadMax
  /\ tail = Numbers(total - Len(tail) + 1, total) /\ Len(tail) <= TailMax
  /\ Len(head) + omitted + Len(tail) = total
  /\ Len(head) < HeadMax => tail = <<>> /\ omitted = 0
  /\ omitted > 0 => Len(tail) = TailMax

\* Run waits for everyone, and only a context that ended kills.
RunInv ==
  /\ waited => child # Running /\ ~heir
  /\ child = Killed => stopped \/ late
  /\ report.out = "exit" => report.code \in {0, 1} /\ waited
  /\ report.out = "timeout" => report.code # 0

ExecInv == ExecTypeOK /\ OutputInv /\ RunInv
=============================================================================
