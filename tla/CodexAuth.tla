----------------------------- MODULE CodexAuth ------------------------------
(***************************************************************************)
(* The Codex login (providers/codex/auth) and the request that uses it      *)
(* (codex.go): streams of several processes, each with a Manager that       *)
(* caches the tokens of one auth.json, and a server that issues them.       *)
(*                                                                         *)
(* Tokens are numbered. The server counts its access tokens, and, if it     *)
(* rotates them, gives a refresh token out with each and takes it back once. *)
(***************************************************************************)
EXTENDS Naturals

CONSTANTS
  Streams,     \* calls of Provider.Stream
  Manager,     \* the process of each
  MaxTokens,   \* bound: access tokens
  MaxFaults    \* bound: answers that are lost, writes that fail, processes that end

VARIABLES
  rotates,  \* whether the server rotates refresh tokens
  newest,   \* the newest access token
  valid,    \* the refresh token it accepts
  old,      \* access tokens that are stale: expired, or refreshed RefreshCadence ago
  revoked,  \* access tokens it refuses although they look fresh
  authFile,     \* auth.json
  cache,    \* per manager, Manager.tokens
  held,     \* managers whose mutex is held
  streams,  \* per stream: where it is, the tokens in its hands, posts refused so far, how it ended
  faults

authVars == <<rotates, newest, valid, old, revoked, authFile, cache, held, streams, faults>>

Managers == {Manager[s] : s \in Streams}
NoTokens == [access |-> 0, refresh |-> 0]
Idle     == [pc |-> "idle", tokens |-> NoTokens, refused |-> 0, used |-> 0, out |-> "none"]

AuthInit ==
  /\ rotates \in BOOLEAN /\ newest = 1 /\ valid = 1 /\ old = {} /\ revoked = {}
  /\ authFile = [access |-> 1, refresh |-> 1]
  /\ cache = [m \in Managers |-> NoTokens] /\ held = {} /\ streams = [s \in Streams |-> Idle] /\ faults = 0

Fault == faults < MaxFaults /\ faults' = faults + 1
Go(s, pc)  == streams' = [streams EXCEPT ![s].pc = pc]
End(s, out) == streams' = [streams EXCEPT ![s].pc = "done", ![s].out = out]
Free(s)     == held' = held \ {Manager[s]}

-----------------------------------------------------------------------------
(* EnsureFresh. *)

Stale(t) == t.access \in old

\* Mutant: a refresh does not hold it.
LocksNothing(s) == TRUE
\* The mutex of the manager.
Locks(s) == Manager[s] \notin held

\* Only the first call reads the file; after that the cache is believed.
Ensure(s) ==
  /\ streams[s].pc \in {"idle", "refused"} /\ Locks(s)
  /\ LET tokens == IF cache[Manager[s]] = NoTokens THEN authFile ELSE cache[Manager[s]]
     IN  /\ cache' = [cache EXCEPT ![Manager[s]] = tokens]
         /\ streams' = [streams EXCEPT ![s].pc = IF Stale(tokens) THEN "refreshing" ELSE "posting", ![s].tokens = tokens]
         /\ held' = IF Stale(tokens) THEN held \cup {Manager[s]} ELSE held
  /\ UNCHANGED <<rotates, newest, valid, old, revoked, authFile, faults>>

\* The server's side of refreshLocked: the answer has no refresh token if it
\* does not rotate them.
Issue ==
  /\ newest < MaxTokens /\ newest' = newest + 1
  /\ valid' = IF rotates THEN newest' ELSE valid
NewTokens == [access |-> newest + 1, refresh |-> IF rotates THEN newest + 1 ELSE 0]

\* mergeRefresh.
Merged(tokens, answer) == [answer EXCEPT !.refresh = IF @ = 0 THEN tokens.refresh ELSE @]

Refresh(s) ==
  /\ streams[s].pc = "refreshing" /\ streams[s].tokens.refresh = valid
  /\ Issue
  /\ streams' = [streams EXCEPT ![s].pc = "writing", ![s].tokens = Merged(@, NewTokens)]
  /\ UNCHANGED <<rotates, old, revoked, authFile, cache, held, faults>>
RefreshLost(s) ==
  /\ streams[s].pc = "refreshing" /\ Fault /\ End(s, "error") /\ Free(s)
  /\ \/ streams[s].tokens.refresh = valid /\ Issue
     \/ UNCHANGED <<newest, valid>>
  /\ UNCHANGED <<rotates, old, revoked, authFile, cache>>
RefreshRefused(s) ==
  /\ streams[s].pc = "refreshing" /\ streams[s].tokens.refresh # valid
  /\ End(s, "permanent") /\ Free(s)
  /\ UNCHANGED <<rotates, newest, valid, old, revoked, authFile, cache, faults>>

\* writeLocked, then the cache; a write that fails leaves both as they were.
Write(s) ==
  /\ streams[s].pc = "writing" /\ Free(s)
  /\ \/ /\ authFile' = streams[s].tokens /\ cache' = [cache EXCEPT ![Manager[s]] = authFile']
        /\ Go(s, "posting") /\ UNCHANGED faults
     \/ Fault /\ End(s, "error") /\ UNCHANGED <<authFile, cache>>
  /\ UNCHANGED <<rotates, newest, valid, old, revoked>>

-----------------------------------------------------------------------------
(* postWithRetry. *)

Refuses(a) == a \in old \cup revoked
Post(s) ==
  /\ streams[s].pc = "posting"
  /\ LET a == streams[s].tokens.access
     IN  IF ~Refuses(a) THEN End(s, "ok")
         ELSE streams' = [streams EXCEPT ![s].refused = @ + 1, ![s].used = a,
                                         ![s].pc  = IF streams[s].refused = 0 THEN "refused" ELSE "done",
                                         ![s].out = IF streams[s].refused = 0 THEN "none" ELSE "unauthorized"]
  /\ UNCHANGED <<rotates, newest, valid, old, revoked, authFile, cache, held, faults>>

-----------------------------------------------------------------------------
(* Time, the server, and the processes. *)

Age(a) ==
  /\ a \in (1 .. newest) \ old /\ old' = old \cup {a}
  /\ UNCHANGED <<rotates, newest, valid, revoked, authFile, cache, held, streams, faults>>
Revoke(a) ==
  /\ a \in (1 .. newest) \ revoked /\ revoked' = revoked \cup {a}
  /\ UNCHANGED <<rotates, newest, valid, old, authFile, cache, held, streams, faults>>
Killed(m) ==
  /\ Fault /\ cache' = [cache EXCEPT ![m] = NoTokens] /\ held' = held \ {m}
  /\ streams' = [s \in Streams |-> IF Manager[s] = m /\ streams[s].pc \notin {"idle", "done"}
                                   THEN [streams[s] EXCEPT !.pc = "done", !.out = "lost"] ELSE streams[s]]
  /\ UNCHANGED <<rotates, newest, valid, old, revoked, authFile>>

AuthNext ==
  \/ \E s \in Streams : Ensure(s) \/ Refresh(s) \/ RefreshLost(s) \/ RefreshRefused(s) \/ Write(s) \/ Post(s)
  \/ \E a \in 1 .. MaxTokens : Age(a) \/ Revoke(a)
  \/ \E m \in Managers : Killed(m)

AuthSpec == AuthInit /\ [][AuthNext]_authVars

-----------------------------------------------------------------------------
\* The user stays logged in unless something failed: the refresh token the server
\* accepts is in auth.json or about to be written there, whoever refreshed and
\* whatever the server leaves out; and a process is told to log in again only if
\* another one used the token it has (EnsureFresh, mergeRefresh, writeLocked).
LoginIsKept ==
  faults = 0 =>
    /\ authFile.refresh = valid \/ \E s \in Streams : streams[s].pc = "writing" /\ streams[s].tokens.refresh = valid
    /\ \A s \in Streams : streams[s].out = "permanent" =>
         \E t \in Streams : Manager[t] # Manager[s] /\ streams[t].tokens.access > 1

\* Documented, and not what happens: codex.go:201-202, "refreshes-and-retries once
\* on 401": the retry carries another access token than the one refused.
RetriesAreRefreshed ==
  [][\A s \in Streams : streams[s].pc = "refused" /\ streams'[s].pc = "posting"
       => streams'[s].tokens.access # streams[s].used]_authVars

-----------------------------------------------------------------------------
(***************************************************************************)
(* The inductive strengthening, while nothing failed.  A refresh is made   *)
(* under the mutex with the tokens of the cache; a token that is taken back *)
(* is in the hands of one stream and nowhere else; and a cache that is     *)
(* behind the server is so because another process refreshed.              *)
(***************************************************************************)
Refreshing(s) == streams[s].pc \in {"refreshing", "writing"}
Writing(s)    == streams[s].pc = "writing"

AuthTypeOK ==
  /\ rotates \in BOOLEAN /\ newest \in Nat /\ valid \in Nat /\ faults \in Nat
  /\ old \subseteq Nat /\ revoked \subseteq Nat
  /\ authFile \in [access : Nat, refresh : Nat] /\ cache \in [Managers -> [access : Nat, refresh : Nat]]
  /\ held \subseteq Managers
  /\ streams \in [Streams -> [pc : {"idle", "refreshing", "writing", "posting", "refused", "done"},
                              tokens : [access : Nat, refresh : Nat], refused : Nat, used : Nat,
                              out : {"none", "ok", "error", "permanent", "unauthorized", "lost"}]]

MutexInv ==
  \A s \in Streams : Refreshing(s) =>
    Manager[s] \in held /\ \A t \in Streams : Refreshing(t) /\ Manager[t] = Manager[s] => t = s

\* A pair the server issued.
Issued(t) == t.access \in 1 .. newest /\ t.refresh = IF rotates THEN t.access ELSE 1

TokensInv ==
  /\ valid = IF rotates THEN newest ELSE 1
  /\ Issued(authFile)
  /\ \A m \in Managers : cache[m] = NoTokens \/ Issued(cache[m])
  /\ \A s \in Streams : streams[s].tokens = NoTokens \/ Issued(streams[s].tokens)
  /\ \A s \in Streams : Refreshing(s) => Issued(streams[s].tokens)
  /\ \A s \in Streams : streams[s].pc = "refreshing" => streams[s].tokens = cache[Manager[s]]
  /\ \A s \in Streams : ~Writing(s) => streams[s].tokens.access <= cache[Manager[s]].access \/ ~rotates

WriterInv ==
  \A s \in Streams : Writing(s) =>
    /\ streams[s].tokens.refresh = valid
    /\ rotates => /\ authFile.refresh # valid /\ \A m \in Managers : cache[m].refresh # valid
                  /\ \A t \in Streams : Writing(t) => t = s

\* Somebody of another process has had a pair that is not the first.
Overtaken(m) == \E t \in Streams : Manager[t] # m /\ streams[t].tokens.access > 1

BehindInv ==
  /\ \A m \in Managers : cache[m] # NoTokens /\ cache[m].refresh # valid =>
       Overtaken(m) \/ \E s \in Streams : Writing(s) /\ Manager[s] = m
  /\ \A s \in Streams : streams[s].out = "permanent" => rotates

AuthInv ==
  /\ AuthTypeOK
  /\ faults = 0 => MutexInv /\ TokensInv /\ WriterInv /\ BehindInv
  /\ LoginIsKept
=============================================================================
