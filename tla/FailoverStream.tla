--------------------------- MODULE FailoverStream ---------------------------
(***************************************************************************)
(* WithFailover (failover.go): one Stream over several providers. A provider *)
(* is what it will do: refuse, or emit events and then close or hang.       *)
(***************************************************************************)
EXTENDS Naturals, Sequences

CONSTANTS
  Scripts,   \* what a provider does: [refuses, error, events, closes]
  Providers, \* how many there are
  Buffer     \* the capacity of the channel, 16 in the code

\* Without a provider Stream returns an error at once.
ASSUME FailoverAssumption ==
  /\ Providers \in Nat \ {0} /\ Buffer \in Nat \ {0}
  /\ Scripts \subseteq [refuses : BOOLEAN, error : BOOLEAN, events : Nat, closes : BOOLEAN]

VARIABLES
  scripts,   \* per provider
  trying,    \* index of the provider
  phase,     \* "trying", "draining", "forwarding", "closed" or "failed"
  taken,     \* events read from the provider
  out,       \* the buffered channel: [from, event]
  received,  \* what the consumer got
  reading,   \* whether the consumer still reads
  attempts   \* providers that were given up

failoverVars == <<scripts, trying, phase, taken, out, received, reading, attempts>>

FailoverInit ==
  /\ scripts \in [1 .. Providers -> Scripts] /\ trying = 1 /\ phase = "trying" /\ taken = 0
  /\ out = <<>> /\ received = <<>> /\ reading = TRUE /\ attempts = <<>>

Script    == scripts[trying]
Exhausted == taken = Script.events /\ Script.closes

GiveUp ==
  /\ attempts' = Append(attempts, trying) /\ taken' = 0
  /\ IF trying = Providers THEN phase' = "failed" /\ UNCHANGED trying ELSE phase' = "trying" /\ trying' = trying + 1
  /\ UNCHANGED <<scripts, out, received, reading>>

\* Stream fails, or the channel closes without an event. The wait for the first
\* event does not watch the context.
NoFirst == phase = "trying" /\ (Script.refuses \/ Exhausted) /\ GiveUp

\* Mutant: the first event is looked at and not passed on.
FirstSwallowed ==
  /\ phase = "trying" /\ ~Script.refuses /\ Script.events > 0 /\ taken' = 1
  /\ phase' = IF Script.error THEN "draining" ELSE "forwarding"
  /\ UNCHANGED <<scripts, trying, out, received, reading, attempts>>
\* The first event: an error is drained, anything else commits to the provider.
First ==
  /\ phase = "trying" /\ ~Script.refuses /\ Script.events > 0 /\ taken' = 1
  /\ IF Script.error THEN phase' = "draining" /\ UNCHANGED out
     ELSE phase' = "forwarding" /\ out' = <<[from |-> trying, event |-> 1]>>
  /\ UNCHANGED <<scripts, trying, received, reading, attempts>>

Drain ==
  /\ phase = "draining"
  /\ IF Exhausted THEN GiveUp
     ELSE taken < Script.events /\ taken' = taken + 1 /\ UNCHANGED <<scripts, trying, phase, out, received, reading, attempts>>

\* The goroutine; it sends without looking at the context.
Forward ==
  /\ phase = "forwarding" /\ taken < Script.events /\ Len(out) < Buffer
  /\ taken' = taken + 1 /\ out' = Append(out, [from |-> trying, event |-> taken'])
  /\ UNCHANGED <<scripts, trying, phase, received, reading, attempts>>
Close ==
  /\ phase = "forwarding" /\ Exhausted /\ phase' = "closed"
  /\ UNCHANGED <<scripts, trying, taken, out, received, reading, attempts>>

\* The loop: it takes events until it has its answer, or its context ends.
Consume ==
  /\ reading /\ out # <<>> /\ received' = Append(received, Head(out)) /\ out' = Tail(out)
  /\ UNCHANGED <<scripts, trying, phase, taken, reading, attempts>>
StopReading ==
  /\ reading /\ phase \in {"forwarding", "closed"} /\ reading' = FALSE
  /\ UNCHANGED <<scripts, trying, phase, taken, out, received, attempts>>

FailoverNext == NoFirst \/ First \/ Drain \/ Forward \/ Close \/ Consume \/ StopReading

FailoverSpec == FailoverInit /\ [][FailoverNext]_failoverVars

-----------------------------------------------------------------------------
Failed(s) == s.refuses \/ s.error \/ s.events = 0

\* The consumer sees one provider, all it said and in its order, and none that
\* failed before it; the others are in the error if all did (failover.go:20-23:
\* "it does not recover mid-stream").
OneProviderSpeaks ==
  LET all == received \o out
  IN  /\ \A n \in 1 .. Len(all) : all[n] = [from |-> trying, event |-> n] /\ ~Failed(scripts[trying])
      /\ phase = "closed" => Len(all) = Script.events
      /\ \A i \in 1 .. Providers : i < trying \/ phase = "failed" => Failed(scripts[i]) /\ attempts[i] = i
      /\ phase = "failed" => Len(attempts) = Providers

-----------------------------------------------------------------------------
(***************************************************************************)
(* The inductive strengthening: nothing is passed on before a provider is  *)
(* committed to, and then as much as was read of it.                       *)
(***************************************************************************)
FailoverTypeOK ==
  /\ scripts \in [1 .. Providers -> Scripts] /\ trying \in 1 .. Providers
  /\ phase \in {"trying", "draining", "forwarding", "closed", "failed"} /\ taken \in Nat
  /\ out \in Seq([from : 1 .. Providers, event : Nat]) /\ received \in Seq([from : 1 .. Providers, event : Nat])
  /\ reading \in BOOLEAN /\ attempts \in Seq(1 .. Providers)

PhaseInv ==
  /\ phase \in {"trying", "failed"} => taken = 0
  /\ phase = "draining" => Failed(Script)
  /\ phase \in {"trying", "draining", "failed"} => Len(received \o out) = 0
  /\ phase \in {"forwarding", "closed"} => ~Failed(Script) /\ Len(received \o out) = taken
  /\ phase = "closed" => Exhausted
  /\ taken <= Script.events

AttemptsInv ==
  /\ Len(attempts) = IF phase = "failed" THEN Providers ELSE trying - 1
  /\ \A i \in DOMAIN attempts : attempts[i] = i /\ Failed(scripts[i])

FailoverInv == FailoverTypeOK /\ PhaseInv /\ AttemptsInv /\ OneProviderSpeaks
=============================================================================
