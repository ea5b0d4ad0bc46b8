----------------------------- MODULE DecideOnce -----------------------------
(***************************************************************************)
(* What the daemon's permission exchange promises (docs/adr/0010, section  *)
(* 7): a request the tool loop waits on is settled once, by one client's   *)
(* decision or by expiry; a client is told "accepted" only when its own    *)
(* decision settled the request, and "not found" only when something else  *)
(* did; the tool loop gets what the request was settled with or, when it   *)
(* could not be remembered, a failure.                                     *)
(***************************************************************************)
CONSTANTS
  Asks,       \* permission requests
  Posts,      \* POSTs of a decision, none of them one of the values below
  Decisions   \* what a client can decide

None    == "none"
Expired == "expired"
Failed  == "failed"

VARIABLES
  open,      \* requests that can still be settled
  settled,   \* per request: the post that settled it, Expired or None
  target,    \* per post: the request and the decision it carries
  told,      \* per post: None, "accepted" or "not found"
  returned   \* per request: the decision the tool loop got, Expired, Failed or None

vars == <<open, settled, target, told, returned>>

Unsent == [ask |-> None, decision |-> None]

Init ==
  /\ open = {}
  /\ settled = [a \in Asks |-> None] /\ returned = [a \in Asks |-> None]
  /\ target = [p \in Posts |-> Unsent] /\ told = [p \in Posts |-> None]

Open(a) ==
  /\ a \notin open /\ settled[a] = None
  /\ open' = open \cup {a}
  /\ UNCHANGED <<settled, target, told, returned>>

\* A decision arrives and settles an open request.
Settle(p, a, d) ==
  /\ target[p] = Unsent /\ a \in open
  /\ target' = [target EXCEPT ![p] = [ask |-> a, decision |-> d]]
  /\ open' = open \ {a}
  /\ settled' = [settled EXCEPT ![a] = p]
  /\ UNCHANGED <<told, returned>>

\* A decision arrives after something else settled the request.
Refuse(p, a, d) ==
  /\ target[p] = Unsent /\ a \notin open /\ settled[a] # None
  /\ target' = [target EXCEPT ![p] = [ask |-> a, decision |-> d]]
  /\ told' = [told EXCEPT ![p] = "not found"]
  /\ UNCHANGED <<open, settled, returned>>

Accept(p) ==
  /\ target[p] # Unsent /\ settled[target[p].ask] = p /\ told[p] = None
  /\ told' = [told EXCEPT ![p] = "accepted"]
  /\ UNCHANGED <<open, settled, target, returned>>

Expire(a) ==
  /\ a \in open
  /\ open' = open \ {a}
  /\ settled' = [settled EXCEPT ![a] = Expired]
  /\ returned' = [returned EXCEPT ![a] = Expired]
  /\ UNCHANGED <<target, told>>

Return(a) ==
  /\ settled[a] \in Posts /\ returned[a] = None
  /\ \E r \in {target[settled[a]].decision, Failed} : returned' = [returned EXCEPT ![a] = r]
  /\ UNCHANGED <<open, settled, target, told>>

Next ==
  \/ \E a \in Asks : Open(a) \/ Expire(a) \/ Return(a)
  \/ \E p \in Posts : Accept(p)
  \/ \E p \in Posts, a \in Asks, d \in Decisions : Settle(p, a, d) \/ Refuse(p, a, d)

Spec == Init /\ [][Next]_vars
=============================================================================
