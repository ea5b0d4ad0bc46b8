-------------------------- MODULE PermissionGrants --------------------------
(***************************************************************************)
(* Remembered permissions of the daemon (daemon/server.go): the policy, the *)
(* grants served from memory, the file they are saved in, and a daemon that *)
(* stops and starts again.                                                 *)
(*                                                                         *)
(* permMu is held from the change of the maps to the end of the save, so    *)
(* both are one step here; a crash may fall between them.                   *)
(***************************************************************************)
EXTENDS Naturals, FiniteSets

CONSTANTS
  Runs,          \* runs that ask, as [client, session]
  Requests,      \* requests, as [tool, target]; a tool stands for its action too
  Trim,          \* strings.TrimSpace of the names of sessions and tools and of targets
  Channel,       \* permissionChannelFromDaemon of each run
  Tiers,         \* settings the daemon may start with: channel -> tier
  NoClient,      \* an empty X-Glue-Client-ID
  MaxDecisions,  \* bound: decisions clients can post
  MaxFaults      \* bound: saves that fail and crashes

ASSUME GrantsAssumption ==
  /\ MaxFaults \in Nat
  /\ \A t \in DOMAIN Trim : Trim[t] \in DOMAIN Trim /\ Trim[Trim[t]] = Trim[t]
  /\ \A r \in Runs : r.session \in DOMAIN Trim
  /\ \A q \in Requests : {q.tool, q.target} \subseteq DOMAIN Trim
  /\ \A t \in Tiers, r \in Runs : t[Channel[r]] \in {"prompt", "read_only", "trusted"}

VARIABLES
  stored,   \* whether there is a PermissionStore
  tiers,    \* the settings of the running daemon
  asking,   \* per run, the call of decidePermission it is in
  allows,   \* sessionAllows, targetAllows and foreverAllows
  disk,     \* the grants in the file
  failing,  \* saves that failed and crashes so far
  \* History.
  decided,  \* the allowing decisions that were accepted and remembered for more than a call
  acked     \* per id, what the last call that changed such a grant told its caller

grantVars == <<stored, tiers, asking, allows, disk, failing, decided, acked>>

Scopes == {"session", "session_target", "forever"}
Idle   == [pc |-> "idle"]

\* permissionOwnerKey: remembered grants belong to the client, if it has a name.
Owner(r) == IF r.client # NoClient THEN [client |-> r.client] ELSE [session |-> Trim[r.session]]

\* The keys of the three maps, spelled as the request is.
Key(r, q, scope) ==
  CASE scope = "session"        -> [scope |-> scope, owner |-> Owner(r), session |-> r.session, tool |-> q.tool]
    [] scope = "session_target" -> [scope |-> scope, owner |-> Owner(r), session |-> r.session, tool |-> q.tool, target |-> q.target]
    [] scope = "forever"        -> [scope |-> scope, owner |-> Owner(r), tool |-> q.tool, target |-> q.target]
GrantKeys == {Key(r, q, s) : r \in Runs, q \in Requests, s \in Scopes}

\* permissionGrantFor: what a grant says, and what its id is a hash of, is trimmed.
Grant(k) == [f \in DOMAIN k |-> IF f \in {"scope", "owner"} THEN k[f] ELSE Trim[k[f]]]
GrantIds == {Grant(k) : k \in GrantKeys}

Cached(r, q) == \E s \in Scopes : Key(r, q, s) \in allows

GrantsInit ==
  /\ stored \in BOOLEAN /\ tiers \in Tiers
  /\ asking = [r \in Runs |-> Idle] /\ allows = {} /\ disk = {} /\ failing = 0
  /\ decided = {} /\ acked = [g \in GrantIds |-> "unknown"]

-----------------------------------------------------------------------------
(* decidePermission. *)

\* What it answers before any client is asked: the policy, then the grants.
Decision(r, q) ==
  CASE tiers[Channel[r]] = "trusted"   -> "allow"
    [] tiers[Channel[r]] = "read_only" -> "deny"
    [] OTHER                           -> IF Cached(r, q) THEN "allow" ELSE "ask"

AskClient(r, q) ==
  /\ asking[r] = Idle /\ Decision(r, q) = "ask"
  /\ asking' = [asking EXCEPT ![r] = [pc |-> "waiting", request |-> q]]
  /\ UNCHANGED <<stored, tiers, allows, disk, failing, decided, acked>>

\* handlePermissionDecision: a client that names itself decides only for its runs.
Accept(r, client, scope) ==
  /\ asking[r].pc = "waiting" /\ Cardinality(decided) < MaxDecisions
  /\ client = NoClient \/ r.client = NoClient \/ client = r.client
  /\ asking' = [asking EXCEPT ![r] = [pc |-> "decided", request |-> @.request, scope |-> scope]]
  /\ decided' = decided \cup {[run |-> r, request |-> asking[r].request, scope |-> scope]}
  /\ UNCHANGED <<stored, tiers, allows, disk, failing, acked>>

\* A denial, an allowance for this call only, the timer or the end of the run.
Return(r) ==
  /\ asking[r].pc = "waiting"
  /\ asking' = [asking EXCEPT ![r] = Idle]
  /\ UNCHANGED <<stored, tiers, allows, disk, failing, decided, acked>>

\* persistPermissionGrantsLocked: the temporary file replaces the store or the
\* store stays as it was.
Saved    == disk' = (IF stored THEN {Grant(k) : k \in allows'} ELSE disk) /\ UNCHANGED failing
NotSaved == stored /\ failing < MaxFaults /\ failing' = failing + 1 /\ UNCHANGED disk

DecidedKey(r)   == Key(r, asking[r].request, asking[r].scope)
DecidedGrant(r) == Grant(DecidedKey(r))

\* rememberPermission; a save that fails makes Decide fail, the grant stays.
RememberPermission(r) ==
  /\ asking[r].pc = "decided"
  /\ allows' = allows \cup {DecidedKey(r)}
  /\ asking' = [asking EXCEPT ![r] = Idle]
  /\ \/ Saved /\ acked' = [acked EXCEPT ![DecidedGrant(r)] = "granted"]
     \/ NotSaved /\ acked' = [acked EXCEPT ![DecidedGrant(r)] = "unknown"]
  /\ UNCHANGED <<stored, tiers, decided>>

\* Mutant: a grant that is forgotten leaves the store with the next save.
ForgetInMemory(k) ==
  /\ k \in allows /\ allows' = allows \ {k}
  /\ acked' = [acked EXCEPT ![Grant(k)] = "forgotten"]
  /\ UNCHANGED <<stored, tiers, asking, disk, failing, decided>>
\* handlePermissionForget, of the id Grant(k): of the grants with this id the first
\* goes that the map yields.
Forget(k) ==
  /\ k \in allows /\ allows' = allows \ {k}
  /\ \/ Saved /\ acked' = [acked EXCEPT ![Grant(k)] = "forgotten"]
     \/ NotSaved /\ acked' = [acked EXCEPT ![Grant(k)] = "unknown"]
  /\ UNCHANGED <<stored, tiers, asking, decided>>

-----------------------------------------------------------------------------
\* loadPermissionGrants, under keys made of what the grants say.
Loaded(grants) == {Grant(g) : g \in grants}

\* The daemon ends, while nothing is saved or just before a save returns, and
\* starts again with the settings of that moment.
Restart(file) ==
  /\ failing < MaxFaults /\ failing' = failing + 1
  /\ disk' = file /\ allows' = Loaded(file)
  /\ tiers' \in Tiers /\ asking' = [r \in Runs |-> Idle]
  /\ UNCHANGED <<stored, decided>>
Crash ==
  /\ Restart(disk)
  /\ acked' = IF stored THEN acked ELSE [g \in GrantIds |-> "unknown"]
CrashInRemember(r) ==
  /\ stored /\ asking[r].pc = "decided" /\ Restart({Grant(k) : k \in allows \cup {DecidedKey(r)}})
  /\ acked' = [acked EXCEPT ![DecidedGrant(r)] = "unknown"]
CrashInForget(k) ==
  /\ stored /\ k \in allows /\ Restart({Grant(j) : j \in allows \ {k}})
  /\ acked' = [acked EXCEPT ![Grant(k)] = "unknown"]

GrantsNext ==
  \/ \E r \in Runs :
       \/ \E q \in Requests : AskClient(r, q)
       \/ \E c \in {x.client : x \in Runs} \cup {NoClient}, s \in Scopes : Accept(r, c, s)
       \/ Return(r) \/ RememberPermission(r) \/ CrashInRemember(r)
  \/ \E k \in allows : Forget(k) \/ CrashInForget(k)
  \/ Crash

GrantsSpec == GrantsInit /\ [][GrantsNext]_grantVars

-----------------------------------------------------------------------------
\* A request with blanks around a name was decided under the id of g.
DecisionKey(d) == Key(d.run, d.request, d.scope)
Spelled(g) == \E d \in decided : Grant(DecisionKey(d)) = g /\ DecisionKey(d) # g

\* A remembered grant the daemon reported as saved is served, as it was spelled or, by
\* a daemon that loaded it, trimmed, and one it reported as forgotten is not, whatever
\* saves fail and crashes follow, until a call changes a grant of its id again
\* (rememberPermission, forgetPermissionGrant, loadPermissionGrants).  Only where two
\* spellings share the id is one of them left.
AcknowledgedGrantsHold ==
  \A g \in GrantIds :
    /\ acked[g] = "granted" =>
         /\ \E k \in allows : Grant(k) = g
         /\ g \in allows \/ Spelled(g)
         /\ stored => g \in disk
    /\ acked[g] = "forgotten" =>
         \/ Spelled(g)
         \/ g \notin disk /\ \A k \in allows : Grant(k) # g

\* Decision d covers request q of run r: the scope says what may differ, and a grant
\* that was saved and loaded does not tell spellings apart.
Same(x, y) == Trim[x] = Trim[y]
Covers(d, r, q) ==
  /\ Owner(d.run) = Owner(r) /\ Same(d.request.tool, q.tool)
  /\ d.scope = "forever" \/ Same(d.run.session, r.session)
  /\ d.scope = "session" \/ Same(d.request.target, q.target)

\* A side effect is allowed without a question only on a channel that is trusted
\* now, or on one that prompts by a decision that the same owner took, in a
\* scope that covers the request (agents/peggy/README.md: grants are scoped to
\* the client), whatever was granted under the settings before a restart.
AllowedIsLicensed ==
  \A r \in Runs, q \in Requests : Decision(r, q) = "allow" =>
    \/ tiers[Channel[r]] = "trusted"
    \/ tiers[Channel[r]] = "prompt" /\ \E d \in decided : Covers(d, r, q)

\* What a client was told of a grant holds, over failed saves and restarts, and
\* every call that is let through was allowed by the policy or by a decision that
\* covers its owner, tool and target (decidePermission).
GrantsAreHonoured == AcknowledgedGrantsHold /\ AllowedIsLicensed

-----------------------------------------------------------------------------
(***************************************************************************)
(* The inductive strengthening: every grant in memory is the key of a       *)
(* decision, as it was spelled or trimmed, every one in the file is trimmed,*)
(* and a decision under way is one that was taken.                          *)
(***************************************************************************)
Decisions == [run : Runs, request : Requests, scope : Scopes]

GrantsTypeOK ==
  /\ stored \in BOOLEAN /\ tiers \in Tiers /\ failing \in Nat
  /\ asking \in [Runs -> {Idle} \cup [pc : {"waiting"}, request : Requests]
                                \cup [pc : {"decided"}, request : Requests, scope : Scopes]]
  /\ decided \subseteq Decisions
  /\ acked \in [GrantIds -> {"unknown", "granted", "forgotten"}]

DecidedInv ==
  /\ \A k \in allows : \E d \in decided : k \in {DecisionKey(d), Grant(DecisionKey(d))}
  /\ \A g \in disk : \E d \in decided : g = Grant(DecisionKey(d))
  /\ \A r \in Runs : asking[r].pc = "decided" =>
       [run |-> r, request |-> asking[r].request, scope |-> asking[r].scope] \in decided

\* Without a store nothing is ever in the file.
FileInv == ~stored => disk = {}

GrantsInv == GrantsTypeOK /\ DecidedInv /\ FileInv /\ AcknowledgedGrantsHold /\ AllowedIsLicensed
=============================================================================
