----------------------- MODULE PermissionGrants_proofs -----------------------
(***************************************************************************)
(* Proofs about what the users and the tools of an agent are promised: the *)
(* permissions the daemon remembers (PermissionGrants), for any runs,      *)
(* requests and settings, any number of decisions, failed saves and        *)
(* restarts; the questions the Telegram channel asks (TelegramBot), for any *)
(* chats, updates and faults; the names of MCP tools (McpManager), for any *)
(* settings; the records of goals and the loops that pursue them           *)
(* (GoalLoop), for any checklists, limits, losses and number of loops; the *)
(* screen of a terminal (Tui), for any turns, requests and switches; the    *)
(* edits of a file (FileEdits), for any calls and foreign changes; what an  *)
(* edit makes of it (EditLadder), for any file, old_string and new_string.  *)
(***************************************************************************)
EXTENDS PermissionGrants, TelegramBot, McpManager, GoalLoop, Tui, FileEdits, EditLadder, FiniteSetTheorems, WellFoundedInduction,
  SequenceTheorems, TLAPS

\* What every step keeps; AllowedIsLicensed follows from it.
GrantsCore == GrantsTypeOK /\ DecidedInv /\ FileInv /\ AcknowledgedGrantsHold

-----------------------------------------------------------------------------
(* The keys of the grants. *)

\* What an id keeps of a key (permissionGrantFor), and that it is its own id.
LEMMA GrantFields ==
  ASSUME NEW r \in Runs, NEW q \in Requests, NEW s \in Scopes
  PROVE  LET k == Key(r, q, s)
         IN  /\ Grant(k).scope = s /\ Grant(k).owner = Owner(r) /\ Grant(k).tool = Trim[q.tool]
             /\ s # "forever" => Grant(k).session = Trim[r.session]
             /\ s # "session" => Grant(k).target = Trim[q.target]
             /\ Grant(Grant(k)) = Grant(k)
<1> DEFINE k == Key(r, q, s)
           g == Grant(k)
<1>1. q.tool \in DOMAIN Trim /\ q.target \in DOMAIN Trim /\ r.session \in DOMAIN Trim
  BY GrantsAssumption
<1>2. /\ k.scope = s /\ k.owner = Owner(r) /\ k.tool = q.tool
      /\ s # "forever" => k.session = r.session
      /\ s # "session" => k.target = q.target
      /\ DOMAIN k = {"scope", "owner", "tool"} \cup (IF s # "forever" THEN {"session"} ELSE {})
                                                \cup (IF s # "session" THEN {"target"} ELSE {})
  <2>1. CASE s = "session" BY <2>1 DEF Key
  <2>2. CASE s = "session_target" BY <2>2 DEF Key
  <2>3. CASE s = "forever" BY <2>3 DEF Key
  <2> QED BY <2>1, <2>2, <2>3 DEF Scopes
<1> HIDE DEF k
<1>3. /\ DOMAIN g = DOMAIN k
      /\ \A f \in DOMAIN k : g[f] = IF f \in {"scope", "owner"} THEN k[f] ELSE Trim[k[f]]
      /\ g = [f \in DOMAIN g |-> g[f]]
  BY DEF Grant
<1>4. \A f \in DOMAIN k \ {"scope", "owner"} : k[f] \in DOMAIN Trim BY <1>1, <1>2
<1>5. \A f \in DOMAIN k \ {"scope", "owner"} : Trim[Trim[k[f]]] = Trim[k[f]] BY <1>4, GrantsAssumption
<1>6. Grant(g) = g
  <2>1. Grant(g) = [f \in DOMAIN g |-> IF f \in {"scope", "owner"} THEN g[f] ELSE Trim[g[f]]]
    BY DEF Grant
  <2> HIDE DEF g
  <2>2. \A f \in DOMAIN g : (IF f \in {"scope", "owner"} THEN g[f] ELSE Trim[g[f]]) = g[f]
    BY <1>3, <1>5
  <2>3. [f \in DOMAIN g |-> IF f \in {"scope", "owner"} THEN g[f] ELSE Trim[g[f]]] = [f \in DOMAIN g |-> g[f]]
    BY <2>2
  <2> QED BY <1>3, <2>1, <2>3
<1>7. /\ g.scope = s /\ g.owner = Owner(r) /\ g.tool = Trim[q.tool]
      /\ s # "forever" => g.session = Trim[r.session]
      /\ s # "session" => g.target = Trim[q.target]
  BY <1>2, <1>3
<1> QED BY <1>6, <1>7 DEF k

\* A key in memory: as the request was spelled, or as it was loaded.
Keyed(k, ds) == \E d \in ds : k \in {DecisionKey(d), Grant(DecisionKey(d))}

LEMMA DecisionFields ==
  ASSUME NEW d \in Decisions
  PROVE  /\ d.run \in Runs /\ d.request \in Requests /\ d.scope \in Scopes
         /\ DecisionKey(d) \in GrantKeys /\ Grant(DecisionKey(d)) \in GrantIds
         /\ Grant(Grant(DecisionKey(d))) = Grant(DecisionKey(d))
<1>1. d.run \in Runs /\ d.request \in Requests /\ d.scope \in Scopes BY DEF Decisions
<1>2. DecisionKey(d) \in GrantKeys BY <1>1 DEF DecisionKey, GrantKeys
<1>3. Grant(DecisionKey(d)) \in GrantIds BY <1>2 DEF GrantIds
<1>4. Grant(Grant(DecisionKey(d))) = Grant(DecisionKey(d)) BY <1>1, GrantFields DEF DecisionKey
<1> QED BY <1>1, <1>2, <1>3, <1>4

\* A key has an id that is its own, and one that is not its own id was spelled so.
LEMMA KeyedGrants ==
  ASSUME NEW ds \in SUBSET Decisions, NEW k, Keyed(k, ds)
  PROVE  /\ Grant(k) \in GrantIds /\ Grant(Grant(k)) = Grant(k)
         /\ \E d \in ds : Grant(k) = Grant(DecisionKey(d))
         /\ k # Grant(k) => \E d \in ds : DecisionKey(d) = k
<1>1. PICK d \in ds : k \in {DecisionKey(d), Grant(DecisionKey(d))} BY DEF Keyed
<1>2. /\ Grant(DecisionKey(d)) \in GrantIds /\ Grant(Grant(DecisionKey(d))) = Grant(DecisionKey(d))
  BY DecisionFields
<1> QED BY <1>1, <1>2

LEMMA IdsAreTheirOwn == \A g \in GrantIds : Grant(g) = g
<1> SUFFICES ASSUME NEW k \in GrantKeys PROVE Grant(Grant(k)) = Grant(k) BY DEF GrantIds
<1>1. PICK r \in Runs, q \in Requests, s \in Scopes : k = Key(r, q, s) BY DEF GrantKeys
<1> QED BY <1>1, GrantFields

\* A key serves a request only in the same scope, and then the scope says what else
\* the request shares with the decision, but for blanks (permissionSessionAllowKey and
\* its siblings).
LEMMA KeysCover ==
  ASSUME NEW r \in Runs, NEW q \in Requests, NEW s \in Scopes, NEW d \in Decisions,
         Key(r, q, s) \in {DecisionKey(d), Grant(DecisionKey(d))}
  PROVE  Covers(d, r, q)
<1>1. d.run \in Runs /\ d.request \in Requests /\ d.scope \in Scopes BY DecisionFields
<1>2. Grant(Key(r, q, s)) = Grant(DecisionKey(d)) BY DecisionFields
<1>3. PICK g : g = Grant(Key(r, q, s)) OBVIOUS
<1>4. /\ g.scope = s /\ g.owner = Owner(r) /\ g.tool = Trim[q.tool]
      /\ s # "forever" => g.session = Trim[r.session]
      /\ s # "session" => g.target = Trim[q.target]
  BY <1>3, GrantFields
<1>5. /\ g.scope = d.scope /\ g.owner = Owner(d.run) /\ g.tool = Trim[d.request.tool]
      /\ d.scope # "forever" => g.session = Trim[d.run.session]
      /\ d.scope # "session" => g.target = Trim[d.request.target]
  BY <1>1, <1>2, <1>3, GrantFields DEF DecisionKey
<1>6. /\ Owner(d.run) = Owner(r) /\ Same(d.request.tool, q.tool)
      /\ d.scope # "forever" => Same(d.run.session, r.session)
      /\ d.scope # "session" => Same(d.request.target, q.target)
  BY <1>4, <1>5 DEF Same
<1> QED BY <1>6 DEF Covers

\* A call of decidePermission carries what its program counter says.
LEMMA AskingTyped ==
  ASSUME GrantsTypeOK, NEW r \in Runs
  PROVE  /\ asking[r].pc = "waiting" => asking[r].request \in Requests
         /\ asking[r].pc = "decided" =>
              /\ asking[r].request \in Requests /\ asking[r].scope \in Scopes
              /\ DecidedKey(r) \in GrantKeys /\ DecidedGrant(r) \in GrantIds
<1>1. asking[r] \in {Idle} \cup [pc : {"waiting"}, request : Requests]
                          \cup [pc : {"decided"}, request : Requests, scope : Scopes]
  BY DEF GrantsTypeOK
<1>2. asking[r].pc = "waiting" => asking[r].request \in Requests BY <1>1 DEF Idle
<1>3. asking[r].pc = "decided" => asking[r].request \in Requests /\ asking[r].scope \in Scopes
  BY <1>1 DEF Idle
<1>4. asking[r].pc = "decided" => DecidedKey(r) \in GrantKeys BY <1>3 DEF DecidedKey, GrantKeys
<1>5. asking[r].pc = "decided" => DecidedGrant(r) \in GrantIds BY <1>4 DEF DecidedGrant, GrantIds
<1> QED BY <1>2, <1>3, <1>4, <1>5

\* A decision under way is the one its run will remember.
LEMMA UnderWay ==
  ASSUME GrantsTypeOK, DecidedInv, NEW r \in Runs, asking[r].pc = "decided"
  PROVE  \E d \in decided : DecisionKey(d) = DecidedKey(r)
<1> DEFINE d == [run |-> r, request |-> asking[r].request, scope |-> asking[r].scope]
<1>1. d \in decided BY DEF DecidedInv
<1>2. d.run = r /\ d.request = asking[r].request /\ d.scope = asking[r].scope OBVIOUS
<1> HIDE DEF d
<1>3. DecisionKey(d) = DecidedKey(r) BY <1>2 DEF DecisionKey, DecidedKey
<1> QED BY <1>1, <1>3

LEMMA AllAreKeyed ==
  ASSUME GrantsTypeOK, DecidedInv
  PROVE  /\ decided \in SUBSET Decisions
         /\ \A k \in allows : Keyed(k, decided) /\ Grant(k) \in GrantIds
         /\ \A g \in disk : (\E d \in decided : g = Grant(DecisionKey(d))) /\ Grant(g) = g
<1>1. decided \in SUBSET Decisions BY DEF GrantsTypeOK
<1>2. \A k \in allows : Keyed(k, decided) BY DEF DecidedInv, Keyed
<1>3. \A k \in allows : Grant(k) \in GrantIds BY <1>1, <1>2, KeyedGrants
<1>4. \A g \in disk : \E d \in decided : g = Grant(DecisionKey(d)) BY DEF DecidedInv
<1>5. \A g \in disk : Grant(g) = g BY <1>1, <1>4, DecisionFields
<1> QED BY <1>1, <1>2, <1>3, <1>4, <1>5

\* Whatever is let through is licensed (decidePermission).
LEMMA Licensed == GrantsCore => AllowedIsLicensed
<1> SUFFICES ASSUME GrantsCore, NEW r \in Runs, NEW q \in Requests, Decision(r, q) = "allow"
             PROVE  \/ tiers[Channel[r]] = "trusted"
                    \/ tiers[Channel[r]] = "prompt" /\ \E d \in decided : Covers(d, r, q)
  BY DEF AllowedIsLicensed
<1>1. tiers[Channel[r]] \in {"prompt", "read_only", "trusted"}
  BY GrantsAssumption DEF GrantsCore, GrantsTypeOK
<1>2. CASE tiers[Channel[r]] = "prompt"
  <2>1. Cached(r, q) BY <1>2 DEF Decision
  <2>2. PICK s \in Scopes : Key(r, q, s) \in allows BY <2>1 DEF Cached
  <2>3. PICK d \in decided : Key(r, q, s) \in {DecisionKey(d), Grant(DecisionKey(d))}
    BY <2>2 DEF GrantsCore, DecidedInv
  <2>4. d \in Decisions BY DEF GrantsCore, GrantsTypeOK
  <2> QED BY <1>2, <2>3, <2>4, KeysCover
<1>3. CASE tiers[Channel[r]] = "read_only" BY <1>3 DEF Decision
<1> QED BY <1>1, <1>2, <1>3

-----------------------------------------------------------------------------
(* The steps. *)

\* What is acknowledged of an id, of the grants m in memory and f in the file, after
\* the decisions ds.
Respelled(g, ds) == \E d \in ds : Grant(DecisionKey(d)) = g /\ DecisionKey(d) # g
Holds(g, a, m, f, st, ds) ==
  /\ a = "granted" =>
       /\ \E k \in m : Grant(k) = g
       /\ g \in m \/ Respelled(g, ds)
       /\ st => g \in f
  /\ a = "forgotten" =>
       \/ Respelled(g, ds)
       \/ g \notin f /\ \A k \in m : Grant(k) # g

LEMMA Acknowledged == AcknowledgedGrantsHold <=> \A g \in GrantIds : Holds(g, acked[g], allows, disk, stored, decided)
BY DEF AcknowledgedGrantsHold, Holds, Spelled, Respelled

LEMMA AcknowledgedNext ==
  ASSUME \A g \in GrantIds : Holds(g, acked'[g], allows', disk', stored', decided')
  PROVE  AcknowledgedGrantsHold'
BY DEF AcknowledgedGrantsHold, Holds, Spelled, Respelled, DecisionKey

LEMMA GrantsStart == GrantsInit => GrantsCore
<1> SUFFICES ASSUME GrantsInit PROVE GrantsCore OBVIOUS
<1> USE DEF GrantsInit
<1>1. GrantsTypeOK BY GrantsAssumption DEF GrantsTypeOK
<1>2. DecidedInv BY DEF DecidedInv, Idle
<1>3. AcknowledgedGrantsHold BY DEF AcknowledgedGrantsHold
<1> QED BY <1>1, <1>2, <1>3 DEF GrantsCore, FileInv

\* Steps that touch neither the grants nor what was said of them.
LEMMA GrantsRest ==
  ASSUME GrantsCore, UNCHANGED <<stored, allows, disk, acked>>, decided \subseteq decided'
  PROVE  FileInv' /\ AcknowledgedGrantsHold'
<1>1. \A g \in GrantIds : Holds(g, acked[g], allows, disk, stored, decided) BY Acknowledged DEF GrantsCore
<1>2. \A g : Respelled(g, decided) => Respelled(g, decided') BY DEF Respelled
<1>3. \A g \in GrantIds : Holds(g, acked[g], allows, disk, stored, decided') BY <1>1, <1>2 DEF Holds
<1>4. AcknowledgedGrantsHold' BY <1>3, AcknowledgedNext
<1> QED BY <1>4 DEF GrantsCore, FileInv

LEMMA AskClientStep ==
  ASSUME GrantsCore, NEW r \in Runs, NEW q \in Requests, AskClient(r, q)
  PROVE  GrantsCore'
<1> USE DEF AskClient, GrantsCore
<1>1. GrantsTypeOK' BY DEF GrantsTypeOK
<1>2. DecidedInv'
  <2>1. ASSUME NEW p \in Runs, asking'[p].pc = "decided" PROVE p # r /\ asking'[p] = asking[p]
    BY <2>1 DEF GrantsTypeOK
  <2> QED BY <2>1 DEF DecidedInv, DecisionKey
<1>3. FileInv' /\ AcknowledgedGrantsHold' BY GrantsRest
<1> QED BY <1>1, <1>2, <1>3

LEMMA AcceptStep ==
  ASSUME GrantsCore, NEW r \in Runs, NEW c, NEW s \in Scopes, Accept(r, c, s)
  PROVE  GrantsCore'
<1> USE DEF GrantsCore
<1> DEFINE q == asking[r].request
           d == [run |-> r, request |-> q, scope |-> s]
<1>1. q \in Requests BY AskingTyped DEF Accept
<1>2. d \in Decisions BY <1>1 DEF Decisions
<1>3. /\ asking' = [asking EXCEPT ![r] = [pc |-> "decided", request |-> q, scope |-> s]]
      /\ decided' = decided \cup {d}
      /\ UNCHANGED <<stored, tiers, allows, disk, failing, acked>>
  BY DEF Accept
<1> HIDE DEF q
<1>4. GrantsTypeOK'
  <2>1. decided' \subseteq Decisions BY <1>2, <1>3 DEF GrantsTypeOK
  <2> HIDE DEF d
  <2> QED BY <1>1, <1>3, <2>1 DEF GrantsTypeOK
<1>5. DecidedInv'
  <2>1. /\ \A k \in allows' : Keyed(k, decided')
        /\ \A g \in disk' : \E e \in decided' : g = Grant(DecisionKey(e))
    <3> HIDE DEF d
    <3> QED BY <1>3 DEF DecidedInv, Keyed
  <2>2. ASSUME NEW p \in Runs, asking'[p].pc = "decided"
        PROVE  [run |-> p, request |-> asking'[p].request, scope |-> asking'[p].scope] \in decided'
    <3>1. CASE p = r BY <1>3, <3>1 DEF GrantsTypeOK
    <3>2. CASE p # r
      <4>1. asking'[p] = asking[p] BY <1>3, <3>2 DEF GrantsTypeOK
      <4> HIDE DEF d
      <4> QED BY <1>3, <2>2, <4>1 DEF DecidedInv
    <3> QED BY <3>1, <3>2
  <2> QED BY <2>1, <2>2 DEF DecidedInv, Keyed, DecisionKey
<1>6. FileInv' /\ AcknowledgedGrantsHold' BY <1>3, GrantsRest
<1> QED BY <1>4, <1>5, <1>6

LEMMA ReturnStep ==
  ASSUME GrantsCore, NEW r \in Runs, Return(r)
  PROVE  GrantsCore'
<1> USE DEF Return, GrantsCore
<1>1. GrantsTypeOK' BY DEF GrantsTypeOK
<1>2. DecidedInv'
  <2>1. ASSUME NEW p \in Runs, asking'[p].pc = "decided" PROVE asking'[p] = asking[p]
    BY <2>1 DEF GrantsTypeOK, Idle
  <2> QED BY <2>1 DEF DecidedInv, DecisionKey
<1>3. FileInv' /\ AcknowledgedGrantsHold' BY GrantsRest
<1> QED BY <1>1, <1>2, <1>3

\* What is saved are the ids of what is remembered, or the file stays.
LEMMA SaveKeeps ==
  ASSUME GrantsCore, UNCHANGED <<stored, tiers, decided>>, \A k \in allows' : Keyed(k, decided),
         asking' \in [Runs -> {Idle} \cup [pc : {"waiting"}, request : Requests]
                                     \cup [pc : {"decided"}, request : Requests, scope : Scopes]],
         \A p \in Runs : asking'[p].pc = "decided" => asking'[p] = asking[p],
         acked' \in [GrantIds -> {"unknown", "granted", "forgotten"}],
         \/ disk' = (IF stored THEN {Grant(k) : k \in allows'} ELSE disk) /\ failing' = failing
         \/ stored /\ failing' = failing + 1 /\ disk' = disk
  PROVE  GrantsTypeOK' /\ DecidedInv' /\ FileInv'
<1> USE DEF GrantsCore
<1>1. GrantsTypeOK'
  <2>1. failing' \in Nat BY DEF GrantsTypeOK
  <2> QED BY <2>1 DEF GrantsTypeOK
<1>2. \A g \in disk' : \E d \in decided : g = Grant(DecisionKey(d))
  <2>1. decided \in SUBSET Decisions BY AllAreKeyed
  <2>2. \A k \in allows' : \E d \in decided : Grant(k) = Grant(DecisionKey(d)) BY <2>1, KeyedGrants
  <2>3. \A g \in disk : \E d \in decided : g = Grant(DecisionKey(d)) BY AllAreKeyed
  <2> QED BY <2>2, <2>3
<1>3. DecidedInv' BY <1>2 DEF DecidedInv, Keyed, DecisionKey
<1>4. FileInv' BY DEF FileInv
<1> QED BY <1>1, <1>3, <1>4

\* A grant is remembered, and the file follows or the caller is told nothing.
LEMMA RememberStep ==
  ASSUME GrantsCore, NEW r \in Runs, RememberPermission(r)
  PROVE  GrantsCore'
<1> USE DEF GrantsCore
<1> DEFINE k == DecidedKey(r)
           g == DecidedGrant(r)
<1>1. g \in GrantIds /\ g = Grant(k) BY AskingTyped DEF RememberPermission, DecidedGrant
<1>2. \E d \in decided : DecisionKey(d) = k BY UnderWay DEF RememberPermission
<1>3. /\ allows' = allows \cup {k} /\ asking' = [asking EXCEPT ![r] = Idle]
      /\ stored' = stored /\ tiers' = tiers /\ decided' = decided
      /\ \/ /\ disk' = (IF stored THEN {Grant(j) : j \in allows'} ELSE disk) /\ failing' = failing
            /\ acked' = [acked EXCEPT ![g] = "granted"]
         \/ /\ stored /\ failing' = failing + 1 /\ disk' = disk
            /\ acked' = [acked EXCEPT ![g] = "unknown"]
  BY DEF RememberPermission, Saved, NotSaved
<1> HIDE DEF k, g
<1>4. acked \in [GrantIds -> {"unknown", "granted", "forgotten"}] BY DEF GrantsTypeOK
<1>5. GrantsTypeOK' /\ DecidedInv' /\ FileInv'
  <2>1. acked' \in [GrantIds -> {"unknown", "granted", "forgotten"}] BY <1>3, <1>4
  <2>2. \A j \in allows' : Keyed(j, decided) BY <1>2, <1>3, AllAreKeyed DEF Keyed
  <2>3. /\ asking' \in [Runs -> {Idle} \cup [pc : {"waiting"}, request : Requests]
                                       \cup [pc : {"decided"}, request : Requests, scope : Scopes]]
        /\ \A p \in Runs : asking'[p].pc = "decided" => asking'[p] = asking[p]
    BY <1>3 DEF GrantsTypeOK, Idle
  <2>4. \/ disk' = (IF stored THEN {Grant(j) : j \in allows'} ELSE disk) /\ failing' = failing
        \/ stored /\ failing' = failing + 1 /\ disk' = disk
    BY <1>3
  <2> QED BY <1>3, <2>1, <2>2, <2>3, <2>4, SaveKeeps
<1>6. \A j \in GrantIds : Holds(j, acked[j], allows, disk, stored, decided) BY Acknowledged
<1>7. ASSUME NEW j \in GrantIds PROVE Holds(j, acked'[j], allows', disk', stored, decided)
  <2>1. CASE j = g
    <3>1. CASE acked'[j] # "granted"
      <4>1. acked'[j] = "unknown" BY <1>3, <1>4, <2>1, <3>1
      <4> QED BY <4>1 DEF Holds
    <3>2. CASE acked'[j] = "granted"
      <4>1. disk' = (IF stored THEN {Grant(i) : i \in allows'} ELSE disk) BY <1>3, <1>4, <2>1, <3>2
      <4>2. k \in allows' /\ Grant(k) = j BY <1>1, <1>3, <2>1
      <4>3. j = k \/ Respelled(j, decided) BY <1>2, <4>2 DEF Respelled
      <4> QED BY <3>2, <4>1, <4>2, <4>3 DEF Holds
    <3> QED BY <3>1, <3>2
  <2>2. CASE j # g
    <3>1. acked'[j] = acked[j] BY <1>3, <1>4, <2>2
    <3>2. Grant(k) # j BY <1>1, <2>2
    <3>3. CASE disk' = disk BY <1>3, <1>6, <3>1, <3>2, <3>3 DEF Holds
    <3>4. CASE stored /\ disk' = {Grant(i) : i \in allows'} BY <1>3, <1>6, <3>1, <3>2, <3>4 DEF Holds
    <3> QED BY <1>3, <3>3, <3>4
  <2> QED BY <2>1, <2>2
<1>8. AcknowledgedGrantsHold' BY <1>3, <1>7, AcknowledgedNext
<1> QED BY <1>5, <1>8

\* Two keys of one id were spelled in two ways.
LEMMA TwoSpellings ==
  ASSUME GrantsTypeOK, DecidedInv, NEW j \in allows, NEW k \in allows, j # k, Grant(j) = Grant(k)
  PROVE  Respelled(Grant(k), decided)
<1>1. ASSUME NEW x \in allows, x # Grant(x), Grant(x) = Grant(k) PROVE Respelled(Grant(k), decided)
  <2>1. \E d \in decided : DecisionKey(d) = x BY <1>1, AllAreKeyed, KeyedGrants
  <2> QED BY <1>1, <2>1 DEF Respelled
<1> QED BY <1>1

\* A grant is forgotten, and the file follows or the caller is told nothing.
LEMMA ForgetStep ==
  ASSUME GrantsCore, NEW k \in allows, Forget(k)
  PROVE  GrantsCore'
<1> USE DEF GrantsCore
<1> DEFINE g == Grant(k)
<1>1. g \in GrantIds BY AllAreKeyed
<1>2. /\ allows' = allows \ {k} /\ asking' = asking
      /\ stored' = stored /\ tiers' = tiers /\ decided' = decided
      /\ \/ /\ disk' = (IF stored THEN {Grant(j) : j \in allows'} ELSE disk) /\ failing' = failing
            /\ acked' = [acked EXCEPT ![g] = "forgotten"]
         \/ /\ stored /\ failing' = failing + 1 /\ disk' = disk
            /\ acked' = [acked EXCEPT ![g] = "unknown"]
  BY DEF Forget, Saved, NotSaved
<1>3. g = Grant(k) OBVIOUS
<1> HIDE DEF g
<1>4. acked \in [GrantIds -> {"unknown", "granted", "forgotten"}] BY DEF GrantsTypeOK
<1>5. GrantsTypeOK' /\ DecidedInv' /\ FileInv'
  <2>1. acked' \in [GrantIds -> {"unknown", "granted", "forgotten"}] BY <1>2, <1>4
  <2>2. \A j \in allows' : Keyed(j, decided) BY <1>2, AllAreKeyed
  <2>3. /\ asking' \in [Runs -> {Idle} \cup [pc : {"waiting"}, request : Requests]
                                       \cup [pc : {"decided"}, request : Requests, scope : Scopes]]
        /\ \A p \in Runs : asking'[p].pc = "decided" => asking'[p] = asking[p]
    BY <1>2 DEF GrantsTypeOK
  <2>4. \/ disk' = (IF stored THEN {Grant(j) : j \in allows'} ELSE disk) /\ failing' = failing
        \/ stored /\ failing' = failing + 1 /\ disk' = disk
    BY <1>2
  <2> QED BY <1>2, <2>1, <2>2, <2>3, <2>4, SaveKeeps
<1>6. \A j \in GrantIds : Holds(j, acked[j], allows, disk, stored, decided) BY Acknowledged
<1>7. ASSUME NEW j \in GrantIds PROVE Holds(j, acked'[j], allows', disk', stored, decided)
  <2>1. CASE j = g
    <3>1. CASE acked'[j] # "forgotten"
      <4>1. acked'[j] = "unknown" BY <1>2, <1>4, <2>1, <3>1
      <4> QED BY <4>1 DEF Holds
    <3>2. CASE acked'[j] = "forgotten"
      <4>1. disk' = (IF stored THEN {Grant(i) : i \in allows'} ELSE disk) BY <1>2, <1>4, <2>1, <3>2
      <4>2. ~stored => disk = {} BY DEF FileInv
      <4>3. CASE \E i \in allows' : Grant(i) = g
        <5>1. PICK i \in allows' : Grant(i) = g BY <4>3
        <5>2. i \in allows /\ i # k BY <1>2
        <5>3. Respelled(g, decided) BY <1>3, <5>1, <5>2, TwoSpellings
        <5> QED BY <2>1, <3>2, <5>3 DEF Holds
      <4>4. CASE \A i \in allows' : Grant(i) # g BY <2>1, <3>2, <4>1, <4>2, <4>4 DEF Holds
      <4> QED BY <4>3, <4>4
    <3> QED BY <3>1, <3>2
  <2>2. CASE j # g
    <3>1. acked'[j] = acked[j] BY <1>2, <1>4, <2>2
    <3>2. Grant(k) # j /\ k # j BY <1>3, <2>2, IdsAreTheirOwn
    <3>3. CASE disk' = disk BY <1>2, <1>6, <3>1, <3>2, <3>3 DEF Holds
    <3>4. CASE stored /\ disk' = {Grant(i) : i \in allows'} BY <1>2, <1>6, <3>1, <3>2, <3>4 DEF Holds
    <3> QED BY <1>2, <3>3, <3>4
  <2> QED BY <2>1, <2>2
<1>8. AcknowledgedGrantsHold' BY <1>2, <1>7, AcknowledgedNext
<1> QED BY <1>5, <1>8

\* A daemon that starts again finds in the file the ids of decisions, and serves them.
LEMMA RestartStep ==
  ASSUME GrantsCore, NEW saved, Restart(saved),
         \A g \in saved : \E d \in decided : g = Grant(DecisionKey(d)),
         acked' \in [GrantIds -> {"unknown", "granted", "forgotten"}],
         ~stored => saved = {}
  PROVE  /\ GrantsTypeOK' /\ DecidedInv' /\ FileInv'
         /\ disk' = saved /\ allows' = saved /\ UNCHANGED <<stored, decided>>
         /\ \A g \in saved : Grant(g) = g
<1> USE DEF GrantsCore
<1>1. /\ failing' = failing + 1 /\ disk' = saved /\ allows' = {Grant(g) : g \in saved}
      /\ tiers' \in Tiers /\ asking' = [r \in Runs |-> Idle]
      /\ stored' = stored /\ decided' = decided
  BY DEF Restart, Loaded
<1>4. \A g \in saved : Grant(g) = g BY AllAreKeyed, DecisionFields
<1>5. allows' = saved BY <1>1, <1>4
<1>2. GrantsTypeOK'
  <2>1. failing' \in Nat BY <1>1 DEF GrantsTypeOK
  <2> QED BY <1>1, <2>1 DEF GrantsTypeOK
<1>3. DecidedInv'
  <2>1. \A r \in Runs : asking'[r].pc # "decided" BY <1>1 DEF Idle
  <2> QED BY <1>1, <1>5, <2>1 DEF DecidedInv, DecisionKey
<1> QED BY <1>1, <1>2, <1>3, <1>4, <1>5 DEF FileInv

LEMMA CrashStep ==
  ASSUME GrantsCore, Crash
  PROVE  GrantsCore'
<1> USE DEF GrantsCore
<1>1. Restart(disk) /\ acked' = IF stored THEN acked ELSE [g \in GrantIds |-> "unknown"]
  BY DEF Crash
<1>2. acked' \in [GrantIds -> {"unknown", "granted", "forgotten"}] BY <1>1 DEF GrantsTypeOK
<1>3. /\ GrantsTypeOK' /\ DecidedInv' /\ FileInv'
      /\ disk' = disk /\ allows' = disk /\ UNCHANGED <<stored, decided>>
      /\ \A g \in disk : Grant(g) = g
  BY <1>1, <1>2, RestartStep, AllAreKeyed DEF FileInv
<1>4. \A j \in GrantIds : Holds(j, acked[j], allows, disk, stored, decided) BY Acknowledged
<1>5. ASSUME NEW j \in GrantIds PROVE Holds(j, acked'[j], disk, disk, stored, decided)
  <2>1. CASE stored
    <3>1. acked'[j] = acked[j] BY <1>1, <2>1
    <3>2. Holds(j, acked[j], allows, disk, stored, decided) BY <1>4
    <3>3. Grant(j) = j BY IdsAreTheirOwn
    <3> QED BY <1>3, <2>1, <3>1, <3>2, <3>3 DEF Holds
  <2>2. CASE ~stored
    <3>1. acked'[j] = "unknown" BY <1>1, <2>2
    <3> QED BY <3>1 DEF Holds
  <2> QED BY <2>1, <2>2
<1>6. AcknowledgedGrantsHold' BY <1>3, <1>5, AcknowledgedNext
<1> QED BY <1>3, <1>6

\* The daemon ends inside a save of the keys kept, all of allows but those of the id g
\* that is being changed, of which nothing is said.
LEMMA CrashInSaveStep ==
  ASSUME GrantsCore, NEW g \in GrantIds, NEW kept, \A k \in kept : Keyed(k, decided),
         \A k \in allows : Grant(k) # g => k \in kept,
         \A k \in kept : k \in allows \/ Grant(k) = g,
         stored, Restart({Grant(k) : k \in kept}), acked' = [acked EXCEPT ![g] = "unknown"]
  PROVE  GrantsCore'
<1> USE DEF GrantsCore
<1> DEFINE saved == {Grant(k) : k \in kept}
<1>1. acked \in [GrantIds -> {"unknown", "granted", "forgotten"}] BY DEF GrantsTypeOK
<1>2. acked' \in [GrantIds -> {"unknown", "granted", "forgotten"}] BY <1>1
<1>3. \A j \in saved : \E d \in decided : j = Grant(DecisionKey(d))
  BY AllAreKeyed, KeyedGrants
<1>4. Restart(saved) OBVIOUS
<1>5. \A j : j \in saved <=> \E k \in kept : Grant(k) = j OBVIOUS
<1> HIDE DEF saved
<1>6. /\ GrantsTypeOK' /\ DecidedInv' /\ FileInv'
      /\ disk' = saved /\ allows' = saved /\ UNCHANGED <<stored, decided>>
      /\ \A j \in saved : Grant(j) = j
  BY <1>2, <1>3, <1>4, RestartStep
<1>7. \A j \in GrantIds : Holds(j, acked[j], allows, disk, stored, decided) BY Acknowledged
<1>8. ASSUME NEW j \in GrantIds PROVE Holds(j, acked'[j], saved, saved, stored, decided)
  <2>1. CASE j = g
    <3>1. acked'[j] = "unknown" BY <1>1, <2>1
    <3> QED BY <3>1 DEF Holds
  <2>2. CASE j # g
    <3>1. acked'[j] = acked[j] BY <1>1, <2>2
    <3>2. Holds(j, acked[j], allows, disk, stored, decided) BY <1>7
    <3>3. (\E k \in allows : Grant(k) = j) <=> j \in saved BY <1>5, <2>2
    <3>4. Grant(j) = j BY IdsAreTheirOwn
    <3> QED BY <1>6, <3>1, <3>2, <3>3, <3>4 DEF Holds
  <2> QED BY <2>1, <2>2
<1>9. AcknowledgedGrantsHold' BY <1>6, <1>8, AcknowledgedNext
<1> QED BY <1>6, <1>9

LEMMA CrashInRememberStep ==
  ASSUME GrantsCore, NEW r \in Runs, CrashInRemember(r)
  PROVE  GrantsCore'
<1> USE DEF GrantsCore
<1> DEFINE k    == DecidedKey(r)
           g    == DecidedGrant(r)
           kept == allows \cup {k}
<1>1. g \in GrantIds /\ g = Grant(k) BY AskingTyped DEF CrashInRemember, DecidedGrant
<1>2. \E d \in decided : DecisionKey(d) = k BY UnderWay DEF CrashInRemember
<1>3. stored /\ Restart({Grant(j) : j \in kept}) /\ acked' = [acked EXCEPT ![g] = "unknown"] BY DEF CrashInRemember
<1> HIDE DEF k, g
<1>4. /\ \A j \in kept : Keyed(j, decided)
      /\ \A j \in allows : Grant(j) # g => j \in kept
      /\ \A j \in kept : j \in allows \/ Grant(j) = g
  BY <1>1, <1>2, AllAreKeyed DEF Keyed
<1> HIDE DEF kept
<1> QED BY <1>1, <1>3, <1>4, CrashInSaveStep

LEMMA CrashInForgetStep ==
  ASSUME GrantsCore, NEW k \in allows, CrashInForget(k)
  PROVE  GrantsCore'
<1> USE DEF GrantsCore
<1> DEFINE g    == Grant(k)
           kept == allows \ {k}
<1>1. g \in GrantIds BY AllAreKeyed
<1>2. stored /\ Restart({Grant(j) : j \in kept}) /\ acked' = [acked EXCEPT ![g] = "unknown"] BY DEF CrashInForget
<1>3. /\ \A j \in kept : Keyed(j, decided)
      /\ \A j \in allows : Grant(j) # g => j \in kept
      /\ \A j \in kept : j \in allows \/ Grant(j) = g
  BY AllAreKeyed
<1> HIDE DEF kept, g
<1> QED BY <1>1, <1>2, <1>3, CrashInSaveStep

LEMMA GrantsStutter ==
  ASSUME GrantsCore, UNCHANGED grantVars
  PROVE  GrantsCore'
<1>1. UNCHANGED <<stored, tiers, asking, allows, disk, failing, decided, acked>> BY DEF grantVars
<1>2. GrantsTypeOK' BY <1>1 DEF GrantsCore, GrantsTypeOK
<1>3. DecidedInv' BY <1>1 DEF GrantsCore, DecidedInv, DecisionKey
<1>4. FileInv' /\ AcknowledgedGrantsHold' BY <1>1, GrantsRest
<1> QED BY <1>2, <1>3, <1>4 DEF GrantsCore

LEMMA GrantsStep == GrantsCore /\ [GrantsNext]_grantVars => GrantsCore'
<1> SUFFICES ASSUME GrantsCore, [GrantsNext]_grantVars PROVE GrantsCore' OBVIOUS
<1>1. CASE \E r \in Runs, q \in Requests : AskClient(r, q) BY <1>1, AskClientStep
<1>2. CASE \E r \in Runs, c \in {x.client : x \in Runs} \cup {NoClient}, s \in Scopes : Accept(r, c, s)
  BY <1>2, AcceptStep
<1>3. CASE \E r \in Runs : Return(r) BY <1>3, ReturnStep
<1>4. CASE \E r \in Runs : RememberPermission(r) BY <1>4, RememberStep
<1>5. CASE \E r \in Runs : CrashInRemember(r) BY <1>5, CrashInRememberStep
<1>6. CASE \E k \in allows : Forget(k) BY <1>6, ForgetStep
<1>7. CASE \E k \in allows : CrashInForget(k) BY <1>7, CrashInForgetStep
<1>8. CASE Crash BY <1>8, CrashStep
<1>9. CASE UNCHANGED grantVars BY <1>9, GrantsStutter
<1> QED BY <1>1, <1>2, <1>3, <1>4, <1>5, <1>6, <1>7, <1>8, <1>9 DEF GrantsNext

-----------------------------------------------------------------------------
\* Every grant in memory or in the file is the key of a decision a client took, as it
\* was spelled or as the file trims it, whatever saves fail and wherever the daemon
\* stops (persistPermissionGrantsLocked, loadPermissionGrants); with the types, what
\* clients were told and what is let through, that is kept by every step.
THEOREM GrantsInductive == GrantsSpec => []GrantsInv
<1>1. GrantsSpec => []GrantsCore BY GrantsStart, GrantsStep, PTL DEF GrantsSpec
<1>2. GrantsCore => GrantsInv BY Licensed DEF GrantsCore, GrantsInv
<1> QED BY <1>1, <1>2, PTL

\* A grant that a client was told is saved is served and in the file, one it was
\* told is forgotten is in neither, and a side effect is let through only by a
\* trusted channel or by a decision that covers its owner, session, tool and target
\* (rememberPermission, forgetPermissionGrant, decidePermission).
THEOREM GrantsStayHonoured == GrantsSpec => []GrantsAreHonoured
<1>1. GrantsInv => GrantsAreHonoured BY DEF GrantsInv, GrantsAreHonoured
<1> QED BY <1>1, GrantsInductive, PTL

-----------------------------------------------------------------------------
(* TelegramBot: what the invariant says of updates and requests. *)

\* What every step keeps; UpdatesAreHandledOnce follows from it.
BotCore ==
  BotTypeOK /\ PromptsInv /\ ButtonsInv /\ NoncesInv /\ CallsInv /\ RememberedInv /\ BatchInv

LEMMA UpdatesTyped ==
  ASSUME BotTypeOK
  PROVE  /\ Len(updates) \in Nat /\ DOMAIN updates = 1 .. Len(updates)
         /\ \A u \in 1 .. Len(updates) : updates[u] \in MessageUpdates \cup PressUpdates
         /\ \A u \in Presses : u \in 1 .. Len(updates) /\ ~updates[u].text /\ updates[u] \in PressUpdates
         /\ \A u \in 1 .. Len(updates) : updates[u].text \/ u \in Presses
         /\ \A u \in 1 .. Len(updates) : updates[u].text => u \notin Presses /\ updates[u] \in MessageUpdates
         /\ \A u \in 1 .. Len(updates) : updates[u].chat \in Chats
<1>1. updates \in Seq(MessageUpdates \cup PressUpdates) BY DEF BotTypeOK
<1>2. Len(updates) \in Nat /\ DOMAIN updates = 1 .. Len(updates) BY <1>1, LenProperties
<1>3. \A u \in 1 .. Len(updates) : updates[u] \in MessageUpdates \cup PressUpdates BY <1>1, ElementOfSeq
<1>4. \A x \in MessageUpdates : x.text /\ x.chat \in Chats BY DEF MessageUpdates
<1>5. \A x \in PressUpdates : ~x.text /\ x.chat \in Chats BY DEF PressUpdates
<1> QED BY <1>2, <1>3, <1>4, <1>5 DEF Presses, Messages

LEMMA CallsTyped ==
  ASSUME BotTypeOK
  PROVE  /\ Len(calls) \in Nat /\ DOMAIN calls = 1 .. Len(calls)
         /\ \A i \in DOMAIN calls : calls[i] \in Calls
<1>1. calls \in Seq(Calls) BY DEF BotTypeOK
<1> QED BY <1>1, LenProperties, ElementOfSeq

\* What is remembered of a request licenses those it stands for.
LEMMA AllowancesLicense ==
  ASSUME BotTypeOK, NEW i \in DOMAIN calls, NEW j \in DOMAIN calls, calls[j].life = calls[i].life,
         calls[j].out \in {"session", "target"},
         NEW scope \in {"session", "target"}, AllowKey(calls[i], scope) = AllowKey(calls[j], calls[j].out)
  PROVE  Licenses(j, i)
<1>1. PICK out : out = calls[j].out OBVIOUS
<1>2. \A call, sc : LET k == AllowKey(call, sc)
                   IN  /\ k.scope = sc /\ k.chat = call.chat /\ k.tool = call.act.tool
                       /\ k.target = IF sc = "target" THEN call.act.target ELSE ""
  BY DEF AllowKey
<1>4. PICK k : k = AllowKey(calls[j], out) OBVIOUS
<1>5. k = AllowKey(calls[i], scope) BY <1>1, <1>4
<1>6. /\ k.scope = out /\ k.chat = calls[j].chat /\ k.tool = calls[j].act.tool
      /\ k.target = IF out = "target" THEN calls[j].act.target ELSE ""
  BY <1>2, <1>4, Zenon
<1>7. /\ k.scope = scope /\ k.chat = calls[i].chat /\ k.tool = calls[i].act.tool
      /\ k.target = IF scope = "target" THEN calls[i].act.target ELSE ""
  BY <1>2, <1>5, Zenon
<1>3. /\ scope = out /\ calls[i].chat = calls[j].chat /\ calls[i].act.tool = calls[j].act.tool
      /\ (IF scope = "target" THEN calls[i].act.target ELSE "") = (IF out = "target" THEN calls[j].act.target ELSE "")
  BY <1>6, <1>7
<1> QED BY <1>1, <1>3 DEF Licenses

\* What is remembered stays true of requests that go on as they were decided.
LEMMA RememberedKept ==
  ASSUME RememberedInv, DOMAIN calls \subseteq DOMAIN calls', life' = life, remembered' = remembered,
         \A j \in DOMAIN calls : calls'[j].life = calls[j].life /\ calls'[j].chat = calls[j].chat /\ calls'[j].act = calls[j].act,
         \A j \in DOMAIN calls : calls[j].out \in {"session", "target"} => calls'[j].out = calls[j].out,
         \A j \in DOMAIN calls' : calls'[j].out = "remembered" => j \in DOMAIN calls /\ calls[j].out = "remembered"
  PROVE  RememberedInv'
<1>1. \A j, sc : j \in DOMAIN calls => AllowKey(calls'[j], sc) = AllowKey(calls[j], sc) BY DEF AllowKey
<1>2. \A j, k \in DOMAIN calls : Licenses(j, k) => Licenses(j, k)' BY DEF Licenses
<1>3. ASSUME NEW x \in remembered
      PROVE  \E j \in DOMAIN calls' : calls'[j].life = life /\ calls'[j].out \in {"session", "target"}
                                       /\ x = AllowKey(calls'[j], calls'[j].out)
  <2>1. PICK j \in DOMAIN calls : calls[j].life = life /\ calls[j].out \in {"session", "target"} /\ x = AllowKey(calls[j], calls[j].out)
    BY DEF RememberedInv
  <2>2. calls'[j].life = life /\ calls'[j].out = calls[j].out /\ AllowKey(calls'[j], calls'[j].out) = x BY <1>1, <2>1
  <2> QED BY <2>1, <2>2
<1>4. ASSUME NEW j \in DOMAIN calls', calls'[j].out = "remembered" PROVE \E k \in DOMAIN calls' : Licenses(k, j)'
  <2>1. PICK k \in DOMAIN calls : Licenses(k, j) BY <1>4 DEF RememberedInv
  <2> QED BY <1>2, <1>4, <2>1
<1> QED BY <1>3, <1>4 DEF RememberedInv

LEMMA RememberedRests == ASSUME RememberedInv, UNCHANGED <<calls, life, remembered>> PROVE RememberedInv'
<1>1. calls' = calls /\ life' = life /\ remembered' = remembered OBVIOUS
<1> QED BY <1>1, RememberedKept

LEMMA PressesDecide == BotCore => PressesDecideTheirRequest
<1> SUFFICES ASSUME BotCore PROVE PressesDecideTheirRequest OBVIOUS
<1>1. BotTypeOK /\ ButtonsInv /\ CallsInv /\ RememberedInv BY DEF BotCore
<1>2. DOMAIN calls = 1 .. Len(calls) BY <1>1, CallsTyped
<1>3. \A i \in DOMAIN calls : calls[i] \in Calls BY <1>1, CallsTyped
<1>4. \A u \in Presses : updates[u] \in PressUpdates BY <1>1, UpdatesTyped
<1>5. ASSUME NEW i \in DOMAIN calls, Permits(calls[i].out)
      PROVE  \E u \in Presses :
               /\ u = calls[i].press /\ updates[u].action = calls[i].out /\ updates[u].chat = calls[i].chat
               /\ updates[u].on = i \/ calls[updates[u].on].life # calls[i].life
  <2>1. calls[i].out \in Actions
    BY <1>3, <1>5 DEF Permits, Calls
  <2>2. calls[i].press # 0 BY <1>1, <2>1 DEF CallsInv
  <2>3. ClaimedInv(i) BY <1>1, <2>2 DEF CallsInv
  <2>4. calls[i].out = updates[calls[i].press].action BY <1>5, <2>3 DEF ClaimedInv, Permits
  <2> QED BY <2>3, <2>4 DEF ClaimedInv
<1>6. ASSUME NEW u \in Presses, updates[u].told = "Allowed."
      PROVE  LET call == calls[updates[u].by]
             IN  call.press = u /\ call.out \in {updates[u].action} \cup (IF daemonMode THEN {} ELSE {"none", "timeout", "unsent", "lost"})
  <2>1. PICK i : i = updates[u].by OBVIOUS
  <2>2. i \in DOMAIN calls /\ calls[i].press = u BY <1>1, <1>6, <2>1 DEF ButtonsInv
  <2>3. u # 0 BY <1>1, UpdatesTyped
  <2>4. ClaimedInv(i) BY <1>1, <2>2, <2>3 DEF CallsInv
  <2> QED BY <2>1, <2>2, <2>4 DEF ClaimedInv
<1>7. \A u, v \in Presses : updates[u].by = updates[v].by /\ updates[u].by # 0 => u = v BY <1>1 DEF ButtonsInv
<1>8. \A i \in DOMAIN calls : calls[i].out = "remembered" => \E j \in DOMAIN calls : Licenses(j, i)
  BY <1>1 DEF RememberedInv
<1> QED BY <1>2, <1>5, <1>6, <1>7, <1>8 DEF PressesDecideTheirRequest

LEMMA MessagesTaken == BotCore => MessagesAreTakenOnce
<1> SUFFICES ASSUME BotCore PROVE MessagesAreTakenOnce OBVIOUS
<1>1. BotTypeOK /\ BatchInv BY DEF BotCore
<1>2. DOMAIN calls = 1 .. Len(calls) BY <1>1, CallsTyped
<1>3. \A i \in DOMAIN calls : calls[i].chat \in Allowed BY <1>1, CallsTyped DEF Calls
<1>4. confirmed \in Nat /\ offset \in Nat BY <1>1 DEF BotTypeOK
<1>5. \A u \in 1 .. confirmed : u \in 1 .. Taken BY <1>4 DEF Taken
<1> QED BY <1>1, <1>2, <1>3, <1>5 DEF BatchInv, MessagesAreTakenOnce

LEMMA BotStart == BotInit => BotCore
<1> SUFFICES ASSUME BotInit PROVE BotCore OBVIOUS
<1>1. /\ updates = <<>> /\ calls = <<>> /\ batch = <<>> /\ prompts = {} /\ keyboards = {} /\ remembered = {}
      /\ confirmed = 0 /\ offset = 0 /\ nonce = 0 /\ life = 1 /\ failures = 0 /\ daemonMode \in BOOLEAN
  BY DEF BotInit
<1>2. <<>> \in Seq(MessageUpdates \cup PressUpdates) /\ <<>> \in Seq(Calls) /\ <<>> \in Seq(Nat) BY EmptySeq
<1>3. BotTypeOK BY <1>1, <1>2 DEF BotTypeOK
<1>4. Presses = {} BY <1>1 DEF Presses
<1>5. DOMAIN calls = {} /\ DOMAIN batch = {} BY <1>1
<1>6. PromptsInv BY <1>1 DEF PromptsInv
<1>7. ButtonsInv BY <1>1, <1>4 DEF ButtonsInv
<1>8. NoncesInv /\ CallsInv /\ RememberedInv BY <1>1, <1>5 DEF NoncesInv, CallsInv, RememberedInv
<1>9. BatchInv BY <1>1, <1>5 DEF BatchInv, Taken
<1> QED BY <1>3, <1>6, <1>7, <1>8, <1>9 DEF BotCore

-----------------------------------------------------------------------------
(* TelegramBot: one request goes on. *)

Open == {"sending", "shown", "waiting"}

\* Request i becomes c, which keeps its update, its chat and its press; its nonce is
\* given, and its outcome decided, at most once.
GoesOn(i, c) ==
  /\ c \in Calls /\ calls' = [calls EXCEPT ![i] = c]
  /\ UNCHANGED <<daemonMode, updates, confirmed, offset, batch, life>>
  /\ c.life = calls[i].life /\ c.update = calls[i].update /\ c.chat = calls[i].chat /\ c.press = calls[i].press
  /\ c.act = calls[i].act /\ calls[i].pc # "over" /\ c.pc # "asking"
  /\ \/ c.nonce = calls[i].nonce /\ nonce' \in {nonce, nonce + 1} /\ (c.pc # "over" => calls[i].pc # "asking")
     \/ calls[i].pc = "asking" /\ calls[i].nonce = 0 /\ c.nonce = nonce + 1 /\ nonce' = nonce + 1
  /\ c.out # calls[i].out => calls[i].out = "none"
  /\ c.pc = "over" => c.out # "none"
  /\ c.pc # "over" /\ ~daemonMode => c.out = "none"
  /\ c.press = 0 => c.out \notin Actions
  /\ c.press # 0 => c.out \in {updates[c.press].action} \cup (IF daemonMode THEN {} ELSE {"none", "timeout", "unsent", "lost"})
  /\ c.out = "remembered" => calls[i].out = "remembered" \/ IsRemembered(i)
  /\ failures' \in Nat

LEMMA GoesOnFrame ==
  ASSUME BotCore, NEW i \in DOMAIN calls, NEW c, GoesOn(i, c)
  PROVE  /\ calls' \in Seq(Calls) /\ DOMAIN calls' = DOMAIN calls /\ Presses' = Presses
         /\ calls'[i] = c /\ \A j \in DOMAIN calls : j # i => calls'[j] = calls[j]
         /\ \A j \in DOMAIN calls : /\ calls'[j].life = calls[j].life /\ calls'[j].update = calls[j].update
                                    /\ calls'[j].chat = calls[j].chat /\ calls'[j].press = calls[j].press /\ calls'[j].act = calls[j].act
         /\ \A j \in DOMAIN calls : calls[j].nonce # 0 /\ (j = i => calls[i].pc # "asking") => calls'[j].nonce = calls[j].nonce
<1>1. calls \in Seq(Calls) /\ c \in Calls /\ calls' = [calls EXCEPT ![i] = c] BY DEF BotCore, BotTypeOK, GoesOn
<1>2. DOMAIN calls = 1 .. Len(calls) BY <1>1, LenProperties
<1>3. calls' \in Seq(Calls) /\ Len(calls') = Len(calls) BY <1>1, <1>2, ExceptSeq
<1>4. DOMAIN calls' = DOMAIN calls BY <1>1
<1>5. calls'[i] = c /\ \A j \in DOMAIN calls : j # i => calls'[j] = calls[j] BY <1>1
<1>6. Presses' = Presses BY DEF Presses, Messages, GoesOn
<1>7. \A j \in DOMAIN calls : /\ calls'[j].life = calls[j].life /\ calls'[j].update = calls[j].update
                              /\ calls'[j].chat = calls[j].chat /\ calls'[j].press = calls[j].press /\ calls'[j].act = calls[j].act
  BY <1>5 DEF GoesOn
<1>8. \A j \in DOMAIN calls : calls[j].nonce # 0 /\ (j = i => calls[i].pc # "asking") => calls'[j].nonce = calls[j].nonce
  BY <1>5 DEF GoesOn
<1> QED BY <1>3, <1>4, <1>5, <1>6, <1>7, <1>8

\* A nonce that was shown is a request's that is past asking.
LEMMA GoesOnNonces ==
  ASSUME BotCore, NEW i \in DOMAIN calls, NEW c, GoesOn(i, c)
  PROVE  NoncesInv' /\ \A j \in DOMAIN calls : calls[j].nonce # 0 => calls'[j].nonce = calls[j].nonce
<1>1. \A j \in DOMAIN calls : calls[j] \in Calls BY CallsTyped DEF BotCore
<1>2. NoncesInv /\ nonce \in Nat /\ life \in Nat BY DEF BotCore, BotTypeOK
<1>3. calls[i].life = life BY <1>2 DEF NoncesInv, GoesOn
<1>4. \A j \in DOMAIN calls : calls[j].nonce \in Nat /\ calls[j].life \in Nat /\ calls[j].update \in Nat BY <1>1 DEF Calls
<1>5. /\ DOMAIN calls' = DOMAIN calls /\ calls'[i] = c /\ \A j \in DOMAIN calls : j # i => calls'[j] = calls[j]
      /\ \A j \in DOMAIN calls : calls'[j].life = calls[j].life /\ calls'[j].update = calls[j].update
  BY GoesOnFrame
<1>6. life' = life /\ offset' = offset /\ nonce' \in {nonce, nonce + 1} BY DEF GoesOn
<1>7. CASE c.nonce = calls[i].nonce /\ nonce' \in {nonce, nonce + 1} /\ (c.pc # "over" => calls[i].pc # "asking")
  <2>1. \A j \in DOMAIN calls : calls'[j].nonce = calls[j].nonce BY <1>5, <1>7
  <2>2. \A j \in DOMAIN calls : calls'[j].pc # "over" => calls[j].pc # "over" BY <1>5 DEF GoesOn
  <2>3. \A j \in DOMAIN calls : calls'[j].pc # "over" => (calls'[j].pc = "asking" <=> calls'[j].nonce = 0)
    <3> TAKE j \in DOMAIN calls
    <3>1. CASE j = i BY <1>2, <1>5, <1>7, <2>1, <3>1 DEF NoncesInv, GoesOn
    <3>2. CASE j # i BY <1>2, <1>5, <3>2 DEF NoncesInv
    <3> QED BY <3>1, <3>2
  <2>4. nonce <= nonce' BY <1>2, <1>7
  <2>5. \A j \in DOMAIN calls : calls'[j].life = life => calls'[j].nonce <= nonce' BY <1>2, <1>4, <1>5, <1>6, <2>1, <2>4 DEF NoncesInv
  <2> QED BY <1>2, <1>5, <1>6, <2>1, <2>2, <2>3, <2>5 DEF NoncesInv
<1>8. CASE calls[i].pc = "asking" /\ calls[i].nonce = 0 /\ c.nonce = nonce + 1 /\ nonce' = nonce + 1
  <2>1. \A j \in DOMAIN calls : calls'[j].nonce = IF j = i THEN nonce + 1 ELSE calls[j].nonce BY <1>5, <1>8
  <2>2. \A j \in DOMAIN calls : calls'[j].pc # "over" => calls[j].pc # "over" BY <1>5 DEF GoesOn
  <2>3. \A j \in DOMAIN calls : calls[j].life = life => calls[j].nonce < nonce + 1 BY <1>2, <1>4 DEF NoncesInv
  <2>4. \A j \in DOMAIN calls : /\ calls'[j].pc # "over" => calls'[j].life = life
                                /\ calls'[j].life <= life
                                /\ calls'[j].life = life => calls'[j].nonce <= nonce + 1 /\ calls'[j].update <= offset
    <3> TAKE j \in DOMAIN calls
    <3> QED BY <1>2, <1>3, <1>4, <1>5, <2>1, <2>2 DEF NoncesInv
  <2>6. \A j \in DOMAIN calls : calls'[j].pc # "over" => (calls'[j].pc = "asking" <=> calls'[j].nonce = 0)
    <3> TAKE j \in DOMAIN calls
    <3>1. CASE j = i BY <1>2, <1>5, <1>8, <2>1, <3>1 DEF NoncesInv, GoesOn
    <3>2. CASE j # i BY <1>2, <1>5, <3>2 DEF NoncesInv
    <3> QED BY <3>1, <3>2
  <2>5. ASSUME NEW j \in DOMAIN calls, NEW k \in DOMAIN calls,
               calls'[j].life = calls'[k].life, calls'[j].nonce = calls'[k].nonce, calls'[j].nonce # 0
        PROVE  j = k
    BY <1>2, <1>3, <1>4, <1>5, <2>1, <2>3, <2>5 DEF NoncesInv
  <2> QED BY <1>5, <1>6, <1>8, <2>4, <2>5, <2>6 DEF NoncesInv
<1>9. \A j \in DOMAIN calls : calls[j].nonce # 0 => calls'[j].nonce = calls[j].nonce BY <1>5 DEF GoesOn
<1> QED BY <1>7, <1>8, <1>9 DEF GoesOn

LEMMA GoesOnUpdates ==
  ASSUME BotCore, NEW i \in DOMAIN calls, NEW c, GoesOn(i, c)
  PROVE  BatchInv' /\ (\A u \in Presses :
           /\ Asked([nonce |-> updates[u].nonce, call |-> updates[u].on])'
           /\ updates[u].by # 0 => updates[u].by \in DOMAIN calls /\ calls'[updates[u].by].pc # "asking"
           /\ updates[u].told = "Allowed." => updates[u].by # 0 /\ calls'[updates[u].by].press = u)
<1>1. /\ DOMAIN calls' = DOMAIN calls
      /\ \A j \in DOMAIN calls : /\ calls'[j].life = calls[j].life /\ calls'[j].update = calls[j].update
                                 /\ calls'[j].press = calls[j].press
  BY GoesOnFrame
<1>2. UNCHANGED <<updates, confirmed, offset, batch>> BY DEF GoesOn
<1>3. BatchInv' BY <1>1, <1>2 DEF BotCore, BatchInv, Taken
<1>4. \A u \in Presses : updates[u] \in PressUpdates BY UpdatesTyped DEF BotCore
<1>5. ASSUME NEW u \in Presses
      PROVE  Asked([nonce |-> updates[u].nonce, call |-> updates[u].on])'
  <2>1. updates[u].on \in DOMAIN calls /\ calls[updates[u].on].nonce = updates[u].nonce BY DEF BotCore, ButtonsInv, Asked
  <2>2. updates[u].nonce # 0 BY <1>4 DEF PressUpdates
  <2>3. calls'[updates[u].on].nonce = updates[u].nonce BY <2>1, <2>2, GoesOnNonces
  <2> QED BY <1>1, <1>2, <2>1, <2>3 DEF Asked
<1>6. \A j \in DOMAIN calls : calls[j].pc # "asking" => calls'[j].pc # "asking" BY GoesOnFrame DEF GoesOn
<1> QED BY <1>1, <1>3, <1>5, <1>6 DEF BotCore, ButtonsInv

\* What a request that goes on may do to the prompts, the buttons and what a chat allowed.
LEMMA GoesOnStep ==
  ASSUME BotCore, NEW i \in DOMAIN calls, NEW c, GoesOn(i, c),
         \A p \in prompts' : \/ p \in prompts /\ (p.call = i => c.pc \in Open /\ c.nonce = calls[i].nonce)
                             \/ p = [nonce |-> c.nonce, call |-> i] /\ c.pc \in Open /\ Unclaimed(i) /\ c.nonce # 0,
         \A k \in keyboards' : k \in keyboards \/ (k = [nonce |-> c.nonce, call |-> i] /\ c.nonce # 0),
         \A x \in remembered' : x \in remembered \/ (x = AllowKey(c, c.out) /\ c.out \in {"session", "target"})
  PROVE  BotCore'
<1>1. BotTypeOK /\ PromptsInv /\ ButtonsInv /\ NoncesInv /\ CallsInv /\ RememberedInv BY DEF BotCore
<1>2. /\ calls' \in Seq(Calls) /\ DOMAIN calls' = DOMAIN calls /\ Presses' = Presses
      /\ calls'[i] = c /\ \A j \in DOMAIN calls : j # i => calls'[j] = calls[j]
  BY GoesOnFrame
<1>3. \A j \in DOMAIN calls : /\ calls'[j].life = calls[j].life /\ calls'[j].update = calls[j].update
                              /\ calls'[j].chat = calls[j].chat /\ calls'[j].press = calls[j].press /\ calls'[j].act = calls[j].act
  BY GoesOnFrame
<1>4. UNCHANGED <<daemonMode, updates, confirmed, offset, batch, life>> /\ c \in Calls BY DEF GoesOn
<1>5. DOMAIN calls = 1 .. Len(calls) /\ Len(calls) \in Nat /\ \A j \in DOMAIN calls : calls[j] \in Calls BY <1>1, CallsTyped
<1>6. BotTypeOK'
  <2>1. c.nonce \in Nat /\ c.chat \in Chats /\ i \in Nat \ {0} BY <1>4, <1>5 DEF Calls
  <2>2. prompts' \subseteq Asks /\ keyboards' \subseteq Asks BY <1>1, <2>1 DEF BotTypeOK, Asks
  <2>4. nonce' \in Nat /\ failures' \in Nat BY <1>1 DEF BotTypeOK, GoesOn
  <2> QED BY <1>1, <1>2, <1>4, <2>2, <2>4 DEF BotTypeOK
<1>7. PromptsInv'
  <2>1. ASSUME NEW p \in prompts' PROVE Asked(p)' /\ calls'[p.call].pc \in Open /\ Unclaimed(p.call)'
    <3>1. CASE p \in prompts
      <4>1. p.call \in DOMAIN calls /\ calls[p.call].nonce = p.nonce /\ calls[p.call].pc \in Open /\ Unclaimed(p.call)
        BY <1>1, <3>1 DEF PromptsInv, Asked, Open
      <4>2. calls'[p.call].nonce = p.nonce /\ calls'[p.call].pc \in Open BY <1>1, <1>2, <3>1, <4>1 DEF Open
      <4> QED BY <1>2, <1>3, <1>4, <4>1, <4>2 DEF Asked, Unclaimed
    <3>2. CASE p = [nonce |-> c.nonce, call |-> i] /\ c.pc \in Open /\ Unclaimed(i) /\ c.nonce # 0
      <4>1. p.call = i /\ p.nonce = c.nonce BY <3>2
      <4> QED BY <1>2, <1>3, <1>4, <3>2, <4>1 DEF Asked, Unclaimed
    <3> QED BY <3>1, <3>2
  <2> QED BY <2>1 DEF PromptsInv, Open
<1>8. ButtonsInv'
  <2>1. ASSUME NEW k \in keyboards' PROVE Asked(k)'
    <3>1. CASE k \in keyboards
      <4>1. k.call \in DOMAIN calls /\ calls[k.call].nonce = k.nonce /\ k.nonce # 0
        BY <1>1, <3>1 DEF ButtonsInv, Asked, BotTypeOK, Asks
      <4>2. calls'[k.call].nonce = k.nonce BY <4>1, GoesOnNonces
      <4> QED BY <1>2, <4>1, <4>2 DEF Asked
    <3>2. CASE k = [nonce |-> c.nonce, call |-> i] /\ c.nonce # 0 BY <1>2, <3>2 DEF Asked
    <3> QED BY <3>1, <3>2
  <2>2. \A u \in Presses :
           /\ Asked([nonce |-> updates[u].nonce, call |-> updates[u].on])'
           /\ updates[u].by # 0 => updates[u].by \in DOMAIN calls /\ calls'[updates[u].by].pc # "asking"
           /\ updates[u].told = "Allowed." => updates[u].by # 0 /\ calls'[updates[u].by].press = u
    BY GoesOnUpdates
  <2> QED BY <1>1, <1>2, <1>4, <2>1, <2>2 DEF ButtonsInv, Asked
<1>9. NoncesInv' BY GoesOnNonces
<1>10. CallsInv'
  <2>1. ASSUME NEW j \in DOMAIN calls, calls'[j].press # 0 PROVE ClaimedInv(j)'
    <3>1. ClaimedInv(j) BY <1>1, <1>3, <2>1 DEF CallsInv
    <3>2. PICK u : u = calls[j].press OBVIOUS
    <3>3. u \in Presses /\ updates[u].chat = calls[j].chat BY <3>1, <3>2 DEF ClaimedInv
    <3>4. updates[u].on \in DOMAIN calls BY <1>1, <3>3 DEF ButtonsInv, Asked
    <3>5. updates[u].on = j \/ calls'[updates[u].on].life # calls'[j].life BY <1>3, <3>1, <3>2, <3>4 DEF ClaimedInv
    <3>6. calls'[j].pc # "asking" BY <1>2, <3>1 DEF ClaimedInv, GoesOn
    <3>7. calls'[j].out \in {updates[u].action} \cup (IF daemonMode THEN {} ELSE {"none", "timeout", "unsent", "lost"})
      <4>1. CASE j = i BY <1>2, <1>3, <2>1, <3>2, <4>1 DEF GoesOn
      <4>2. CASE j # i BY <1>2, <3>1, <3>2, <4>2 DEF ClaimedInv
      <4> QED BY <4>1, <4>2
    <3>8. calls'[j].press = u BY <1>3, <3>2
    <3> QED BY <1>2, <1>3, <1>4, <3>3, <3>5, <3>6, <3>7, <3>8 DEF ClaimedInv
  <2>2. ASSUME NEW j \in DOMAIN calls
        PROVE  /\ calls'[j].pc = "over" => calls'[j].out # "none"
               /\ calls'[j].pc # "over" /\ ~daemonMode => calls'[j].out = "none"
               /\ calls'[j].press = 0 => calls'[j].out \notin Actions
    <3>1. CASE j = i BY <1>2, <3>1 DEF GoesOn
    <3>2. CASE j # i BY <1>1, <1>2, <3>2 DEF CallsInv
    <3> QED BY <3>1, <3>2
  <2> QED BY <1>2, <1>4, <2>1, <2>2 DEF CallsInv
<1>11. RememberedInv'
  <2>1. \A j \in DOMAIN calls : calls[j].out \in {"session", "target"} => calls'[j].out = calls[j].out
    BY <1>2 DEF GoesOn
  <2>2. calls[i].life = life BY <1>1 DEF NoncesInv, GoesOn
  <2>3. \A j, sc : j \in DOMAIN calls => AllowKey(calls'[j], sc) = AllowKey(calls[j], sc) BY <1>3 DEF AllowKey
  <2>4. \A j, k \in DOMAIN calls : Licenses(j, k) => Licenses(j, k)' BY <1>3, <2>1 DEF Licenses
  <2>5. ASSUME NEW x \in remembered'
        PROVE  \E j \in DOMAIN calls : calls'[j].life = life /\ calls'[j].out \in {"session", "target"}
                                        /\ x = AllowKey(calls'[j], calls'[j].out)
    <3>1. CASE x \in remembered BY <1>1, <1>3, <2>1, <2>3, <3>1 DEF RememberedInv
    <3>2. CASE x = AllowKey(c, c.out) /\ c.out \in {"session", "target"} BY <1>2, <1>3, <2>2, <3>2
    <3> QED BY <3>1, <3>2
  <2>6. ASSUME NEW j \in DOMAIN calls, calls'[j].out = "remembered" PROVE \E k \in DOMAIN calls : Licenses(k, j)'
    <3>1. CASE calls[j].out = "remembered" BY <1>1, <2>4, <3>1 DEF RememberedInv
    <3>2. CASE j = i /\ IsRemembered(i)
      <4>1. PICK sc \in {"session", "target"} : AllowKey(calls[i], sc) \in remembered BY <3>2 DEF IsRemembered
      <4>2. PICK k \in DOMAIN calls : /\ calls[k].life = life /\ calls[k].out \in {"session", "target"}
                                      /\ AllowKey(calls[i], sc) = AllowKey(calls[k], calls[k].out)
        BY <1>1, <4>1 DEF RememberedInv
      <4>3. Licenses(k, i) BY <1>1, <2>2, <4>2, AllowancesLicense
      <4> QED BY <2>4, <3>2, <4>3
    <3> QED BY <1>2, <2>6, <3>1, <3>2 DEF GoesOn
  <2> QED BY <1>2, <1>4, <2>5, <2>6 DEF RememberedInv
<1>12. BatchInv' BY GoesOnUpdates
<1> QED BY <1>6, <1>7, <1>8, <1>9, <1>10, <1>11, <1>12 DEF BotCore

LEMMA EndedGoesOn ==
  ASSUME BotCore, NEW i \in DOMAIN calls, Live(i),
         NEW out \in Actions \cup {"remembered", "unsent", "timeout", "lost"},
         calls' = Over(i, out), failures' \in Nat,
         UNCHANGED <<daemonMode, updates, confirmed, offset, batch, life>>,
         nonce' \in {nonce, nonce + 1},
         out = "remembered" => calls[i].press = 0 /\ IsRemembered(i),
         out \in Actions => calls[i].press # 0 /\ out = updates[calls[i].press].action
  PROVE  GoesOn(i, Ended(calls[i], out))
<1> DEFINE c == Ended(calls[i], out)
<1>1. BotTypeOK /\ CallsInv BY DEF BotCore
<1>2. calls[i] \in Calls BY <1>1, CallsTyped
<1>3. /\ c.life = calls[i].life /\ c.update = calls[i].update /\ c.chat = calls[i].chat
      /\ c.act = calls[i].act /\ c.press = calls[i].press /\ c.nonce = calls[i].nonce /\ c.pc = "over"
      /\ c.out = IF calls[i].out = "none" THEN out ELSE calls[i].out
  BY <1>2 DEF Ended, Calls
<1>4. c \in Calls BY <1>2 DEF Ended, Calls
<1>5. calls' = [calls EXCEPT ![i] = c] BY DEF Over
<1>6. calls[i].pc # "over" BY DEF Live
<1>7. c.press = 0 => c.out \notin Actions
  <2> SUFFICES ASSUME calls[i].press = 0 PROVE c.out \notin Actions BY <1>3
  <2>1. calls[i].out \notin Actions BY <1>1 DEF CallsInv
  <2>2. "remembered" \notin Actions /\ "unsent" \notin Actions /\ "timeout" \notin Actions /\ "lost" \notin Actions
    BY DEF Actions
  <2>3. out \notin Actions OBVIOUS
  <2> QED BY <1>3, <2>1, <2>3
<1>8. c.press # 0 => c.out \in {updates[c.press].action} \cup (IF daemonMode THEN {} ELSE {"none", "timeout", "unsent", "lost"})
  <2> SUFFICES ASSUME calls[i].press # 0
               PROVE  c.out \in {updates[calls[i].press].action} \cup (IF daemonMode THEN {} ELSE {"none", "timeout", "unsent", "lost"})
    BY <1>3
  <2>1. calls[i].out \in {updates[calls[i].press].action} \cup (IF daemonMode THEN {} ELSE {"none", "timeout", "unsent", "lost"})
    BY <1>1 DEF CallsInv, ClaimedInv
  <2>2. calls[i].press \in Presses BY <1>1 DEF CallsInv, ClaimedInv
  <2>3. updates[calls[i].press].action \in Actions BY <1>1, <2>2, UpdatesTyped DEF PressUpdates
  <2>4. updates[calls[i].press].action # "none" BY <2>3 DEF Actions
  <2>5. CASE daemonMode BY <1>3, <2>1, <2>4, <2>5
  <2>6. CASE ~daemonMode BY <1>3, <2>1, <2>6
  <2> QED BY <2>5, <2>6
<1>9. c.out # "none" BY <1>3 DEF Actions
<1>10. c.out = "remembered" => calls[i].out = "remembered" \/ IsRemembered(i) BY <1>3 DEF Actions
<1> HIDE DEF c
<1>11. GoesOn(i, c) BY <1>3, <1>4, <1>5, <1>6, <1>7, <1>8, <1>9, <1>10 DEF GoesOn
<1> QED BY <1>11 DEF c

\* A request that ends has no prompt, or the prompt is taken away with it.
LEMMA EndStep ==
  ASSUME BotCore, NEW i \in DOMAIN calls, Live(i),
         NEW out \in Actions \cup {"remembered", "unsent", "timeout", "lost"},
         calls' = Over(i, out), failures' \in Nat,
         UNCHANGED <<daemonMode, updates, confirmed, offset, batch, life, keyboards>>, nonce' \in {nonce, nonce + 1},
         out = "remembered" => calls[i].press = 0 /\ IsRemembered(i),
         out \in Actions => calls[i].press # 0 /\ out = updates[calls[i].press].action,
         prompts' \subseteq prompts, \A p \in prompts' : p.call # i,
         \A x \in remembered' : x \in remembered \/ (x = AllowKey(calls[i], out) /\ out \in {"session", "target"} /\ calls[i].out = "none")
  PROVE  BotCore'
<1>1. GoesOn(i, Ended(calls[i], out)) BY EndedGoesOn
<1>2. calls[i] \in Calls BY CallsTyped DEF BotCore
<1>3. PICK c : c = Ended(calls[i], out) OBVIOUS
<1>4. c.chat = calls[i].chat /\ c.act = calls[i].act /\ (calls[i].out = "none" => c.out = out)
  BY <1>2, <1>3 DEF Ended, Calls
<1>5. \A x \in remembered' : x \in remembered \/ (x = AllowKey(c, c.out) /\ c.out \in {"session", "target"})
  BY <1>4 DEF AllowKey
<1> QED BY <1>1, <1>3, <1>5, GoesOnStep

LEMMA RememberedStep ==
  ASSUME BotCore, NEW i \in DOMAIN calls, Remembered(i) PROVE BotCore'
<1>1. calls[i].press = 0
  <2>1. calls[i].press # 0 => calls[i].pc # "asking" BY DEF BotCore, CallsInv, ClaimedInv
  <2> QED BY <2>1 DEF Remembered
<1>2. \A p \in prompts : p.call # i
  <2>1. \A p \in prompts : calls[p.call].pc # "asking" BY DEF BotCore, PromptsInv
  <2> QED BY <2>1 DEF Remembered
<1>3. failures \in Nat BY DEF BotCore, BotTypeOK
<1> QED BY <1>1, <1>2, <1>3, EndStep DEF Remembered, Actions

LEMMA SendFailsStep ==
  ASSUME BotCore, NEW i \in DOMAIN calls, SendFails(i) PROVE BotCore'
<1>1. failures' \in Nat BY DEF BotCore, BotTypeOK, SendFails, Fail
<1>2. "unsent" \notin Actions BY DEF Actions
<1> QED BY <1>1, <1>2, EndStep DEF SendFails

LEMMA DecidedStep ==
  ASSUME BotCore, NEW i \in DOMAIN calls, Decided(i) PROVE BotCore'
<1>1. PICK out : out = updates[calls[i].press].action OBVIOUS
<1>2. ClaimedInv(i) BY DEF BotCore, CallsInv, Decided
<1>3. out \in Actions BY <1>1, <1>2, UpdatesTyped DEF ClaimedInv, PressUpdates, BotCore
<1>4. \A p \in prompts : p.call # i BY DEF BotCore, PromptsInv, Unclaimed, Decided
<1>5. failures' \in Nat BY DEF BotCore, BotTypeOK, Decided
<1>6. ~daemonMode => calls[i].out = "none" BY DEF BotCore, CallsInv, Decided, Live
<1>7. /\ Live(i) /\ calls' = Over(i, out) /\ calls[i].press # 0 /\ prompts' = prompts
      /\ UNCHANGED <<daemonMode, updates, confirmed, offset, batch, life, nonce, keyboards>>
      /\ remembered' = remembered \cup (IF out \in {"session", "target"} /\ ~daemonMode THEN {AllowKey(calls[i], out)} ELSE {})
  BY <1>1 DEF Decided
<1>8. out # "remembered" BY <1>3 DEF Actions
<1>9. \A x \in remembered' : x \in remembered \/ (x = AllowKey(calls[i], out) /\ out \in {"session", "target"} /\ calls[i].out = "none")
  BY <1>6, <1>7
<1> QED BY <1>1, <1>3, <1>4, <1>5, <1>7, <1>8, <1>9, EndStep

LEMMA TimesOutStep ==
  ASSUME BotCore, NEW i \in DOMAIN calls, TimesOut(i) PROVE BotCore'
<1>1. failures' \in Nat BY DEF BotCore, BotTypeOK, TimesOut
<1>2. "timeout" \notin Actions BY DEF Actions
<1>3. CASE ~daemonMode BY <1>1, <1>2, <1>3, EndStep DEF TimesOut
<1>4. CASE daemonMode
  <2> DEFINE c == [calls[i] EXCEPT !.out = "timeout"]
  <2>1. calls[i] \in Calls BY CallsTyped DEF BotCore
  <2>2. /\ calls[i].pc \in Open /\ calls[i].out = "none" /\ calls' = [calls EXCEPT ![i].out = "timeout"]
        /\ UNCHANGED <<daemonMode, updates, confirmed, offset, batch, nonce, prompts, keyboards, remembered, life>>
    BY <1>4 DEF TimesOut, Open
  <2>3. /\ c.life = calls[i].life /\ c.update = calls[i].update /\ c.chat = calls[i].chat
        /\ c.act = calls[i].act /\ c.press = calls[i].press /\ c.nonce = calls[i].nonce /\ c.pc = calls[i].pc /\ c.out = "timeout"
    BY <2>1 DEF Calls
  <2>4. c \in Calls /\ calls' = [calls EXCEPT ![i] = c] BY <2>1, <2>2 DEF Calls
  <2>5. calls[i].press = 0
    <3> SUFFICES ASSUME calls[i].press # 0 PROVE FALSE OBVIOUS
    <3>1. ClaimedInv(i) BY DEF BotCore, CallsInv
    <3>2. updates[calls[i].press].action \in Actions BY <3>1, UpdatesTyped DEF ClaimedInv, PressUpdates, BotCore
    <3> QED BY <1>4, <2>2, <3>1, <3>2 DEF ClaimedInv, Actions
  <2> HIDE DEF c
  <2>6. GoesOn(i, c) BY <1>1, <1>2, <1>4, <2>2, <2>3, <2>4, <2>5 DEF GoesOn, Open
  <2> QED BY <2>2, <2>3, <2>6, GoesOnStep
<1> QED BY <1>3, <1>4

LEMMA RegisterStep ==
  ASSUME BotCore, NEW i \in DOMAIN calls, Register(i) PROVE BotCore'
<1> DEFINE c == Numbered(calls[i], nonce + 1)
<1>1. calls[i] \in Calls BY CallsTyped DEF BotCore
<1>2. /\ calls[i].pc = "asking" /\ nonce' = nonce + 1 /\ prompts' = prompts \cup {[nonce |-> nonce + 1, call |-> i]}
      /\ UNCHANGED <<daemonMode, updates, confirmed, offset, batch, keyboards, remembered, life, failures>>
  BY DEF Register
<1>3. nonce \in Nat /\ failures \in Nat BY DEF BotCore, BotTypeOK
<1>4. /\ c.life = calls[i].life /\ c.update = calls[i].update /\ c.chat = calls[i].chat
      /\ c.act = calls[i].act /\ c.press = calls[i].press /\ c.nonce = nonce + 1 /\ c.pc = "sending" /\ c.out = calls[i].out
  BY <1>1 DEF Calls, Numbered
<1>5. c \in Calls
  <2>1. \A x \in Calls, n \in Nat : Numbered(x, n) \in Calls BY DEF Calls, Numbered
  <2>2. nonce + 1 \in Nat BY <1>3
  <2> QED BY <1>1, <2>1, <2>2
<1>12. calls' = [calls EXCEPT ![i] = c] BY <1>2 DEF Register
<1>6. calls[i].press = 0 /\ calls[i].out \notin Actions /\ (~daemonMode => calls[i].out = "none")
  BY <1>2 DEF BotCore, CallsInv, ClaimedInv
<1>7. calls[i].nonce = 0 BY <1>2 DEF BotCore, NoncesInv
<1>8. Unclaimed(i)
  <2>1. ASSUME NEW u \in Presses PROVE updates[u].by # i
    <3>1. i # 0 BY CallsTyped DEF BotCore
    <3>2. updates[u].by # 0 => calls[updates[u].by].pc # "asking" BY DEF BotCore, ButtonsInv
    <3> QED BY <1>2, <3>1, <3>2
  <2> QED BY <1>6, <2>1 DEF Unclaimed
<1>9. \A p \in prompts : p.call # i BY <1>2 DEF BotCore, PromptsInv
<1> HIDE DEF c
<1>10. GoesOn(i, c) BY <1>2, <1>3, <1>4, <1>5, <1>6, <1>7, <1>12 DEF GoesOn
<1>11. \A p \in prompts' : \/ p \in prompts /\ (p.call = i => c.pc \in Open /\ c.nonce = calls[i].nonce)
                           \/ p = [nonce |-> c.nonce, call |-> i] /\ c.pc \in Open /\ Unclaimed(i) /\ c.nonce # 0
  BY <1>2, <1>3, <1>4, <1>8, <1>9 DEF Open
<1> QED BY <1>2, <1>10, <1>11, GoesOnStep

\* The message is shown, and then the call that showed it returns.
LEMMA ShowStep ==
  ASSUME BotCore, NEW i \in DOMAIN calls, Show(i) \/ Sent(i) PROVE BotCore'
<1>1. calls[i] \in Calls BY CallsTyped DEF BotCore
<1>2. PICK pc \in {"shown", "waiting"} :
        /\ calls[i].pc \in Open /\ calls' = [calls EXCEPT ![i].pc = pc]
        /\ keyboards' \subseteq keyboards \cup {[nonce |-> calls[i].nonce, call |-> i]}
        /\ (keyboards' # keyboards => calls[i].pc = "sending")
        /\ UNCHANGED <<daemonMode, updates, confirmed, offset, batch, nonce, prompts, remembered, life, failures>>
  BY DEF Show, Sent, Open
<1> DEFINE c == [calls[i] EXCEPT !.pc = pc]
<1>3. failures \in Nat BY DEF BotCore, BotTypeOK
<1>4. /\ c.life = calls[i].life /\ c.update = calls[i].update /\ c.chat = calls[i].chat
      /\ c.act = calls[i].act /\ c.press = calls[i].press /\ c.nonce = calls[i].nonce /\ c.pc = pc /\ c.out = calls[i].out
  BY <1>1 DEF Calls
<1>5. c \in Calls /\ calls' = [calls EXCEPT ![i] = c] BY <1>1, <1>2 DEF Calls
<1>6. /\ calls[i].press = 0 => calls[i].out \notin Actions
      /\ ~daemonMode => calls[i].out = "none"
      /\ calls[i].press # 0 => calls[i].out \in {updates[calls[i].press].action} \cup
                                  (IF daemonMode THEN {} ELSE {"none", "timeout", "unsent", "lost"})
  BY <1>2 DEF BotCore, CallsInv, ClaimedInv, Open
<1> HIDE DEF c
<1>7. GoesOn(i, c) BY <1>2, <1>3, <1>4, <1>5, <1>6 DEF GoesOn, Open
<1>8. calls[i].nonce # 0 BY <1>2 DEF BotCore, NoncesInv, Open
<1> QED BY <1>2, <1>4, <1>7, <1>8, GoesOnStep DEF Open

-----------------------------------------------------------------------------
(* TelegramBot: the loop takes an update. *)

LEMMA TakeFacts ==
  ASSUME BotCore, NEW u, Take(u)
  PROVE  /\ Taken \in Nat /\ u = Taken + 1 /\ u \in 1 .. Len(updates) /\ offset < u /\ offset' = u
         /\ batch' \in Seq(Nat) /\ Len(batch') = Len(batch) - 1 /\ Len(batch) \in Nat
         /\ \A k \in DOMAIN batch' : batch'[k] = u + k
<1>1. batch \in Seq(Nat) /\ batch # <<>> /\ offset \in Nat /\ confirmed \in Nat BY DEF BotCore, BotTypeOK, Take
<1>2. Taken \in Nat /\ offset <= Taken BY <1>1 DEF Taken
<1>3. Len(updates) \in Nat BY UpdatesTyped DEF BotCore
<1>4. Len(batch) \in Nat \ {0} /\ DOMAIN batch = 1 .. Len(batch) BY <1>1, EmptySeq, LenProperties
<1>5. Head(batch) = batch[1] BY <1>1
<1>6. u = Taken + 1 BY <1>4, <1>5 DEF BotCore, BatchInv, Take
<1>7. /\ batch' \in Seq(Nat) /\ Len(batch') = Len(batch) - 1
      /\ \A k \in 1 .. Len(batch') : batch'[k] = batch[k + 1]
  BY <1>1, HeadTailProperties DEF Take
<1>8. DOMAIN batch' = 1 .. Len(batch') BY <1>7, LenProperties
<1>9. ASSUME NEW k \in DOMAIN batch' PROVE batch'[k] = u + k
  <2>1. k + 1 \in DOMAIN batch BY <1>4, <1>7, <1>8
  <2>2. batch[k + 1] = Taken + (k + 1) BY <2>1 DEF BotCore, BatchInv
  <2> QED BY <1>2, <1>6, <1>7, <1>8, <2>2
<1>10. Taken + Len(batch) <= Len(updates) BY DEF BotCore, BatchInv
<1>11. u \in 1 .. Len(updates) /\ offset < u BY <1>1, <1>2, <1>3, <1>4, <1>6, <1>10
<1>12. offset' = u BY DEF Take
<1> QED BY <1>2, <1>4, <1>6, <1>7, <1>9, <1>11, <1>12

\* The updates stay in number, chat and kind; a message of an allowed chat starts a request.
LEMMA TakeBatch ==
  ASSUME BotCore, NEW u, Take(u), confirmed' = confirmed,
         Len(updates') = Len(updates),
         \A v \in 1 .. Len(updates) : updates'[v].text = updates[v].text /\ updates'[v].chat = updates[v].chat,
         DOMAIN calls \subseteq DOMAIN calls',
         \A j \in DOMAIN calls : calls'[j].update = calls[j].update /\ calls'[j].life = calls[j].life,
         updates[u].text /\ updates[u].chat \in Allowed => \E j \in DOMAIN calls' : calls'[j].update = u,
         \A j \in DOMAIN calls' \ DOMAIN calls : calls'[j].update = u /\ calls'[j].life = life,
         \A j, k \in DOMAIN calls' \ DOMAIN calls : j = k
  PROVE  BatchInv'
<1>1. /\ Taken \in Nat /\ u = Taken + 1 /\ u \in 1 .. Len(updates) /\ offset < u /\ offset' = u
      /\ batch' \in Seq(Nat) /\ Len(batch') = Len(batch) - 1 /\ Len(batch) \in Nat
      /\ \A k \in DOMAIN batch' : batch'[k] = u + k
  BY TakeFacts
<1>2. confirmed \in Nat /\ offset \in Nat /\ Len(updates) \in Nat BY UpdatesTyped DEF BotCore, BotTypeOK
<1>3. Taken' = u BY <1>1, <1>2 DEF Taken
<1>4. Taken' + Len(batch') <= Len(updates') BY <1>1, <1>2, <1>3 DEF BotCore, BatchInv
<1>5. \A k \in DOMAIN batch' : batch'[k] = Taken' + k BY <1>1, <1>3
<1>6. ASSUME NEW v \in 1 .. Taken', updates'[v].text, updates'[v].chat \in Allowed
      PROVE  \E i \in DOMAIN calls' : calls'[i].update = v
  <2>1. v \in 1 .. Len(updates) BY <1>1, <1>2, <1>3
  <2>2. updates[v].text /\ updates[v].chat \in Allowed BY <1>6, <2>1
  <2>3. CASE v = u BY <2>2, <2>3
  <2>4. CASE v # u
    <3>1. v \in 1 .. Taken BY <1>1, <1>2, <1>3, <2>4
    <3>2. PICK i \in DOMAIN calls : calls[i].update = v BY <2>2, <3>1 DEF BotCore, BatchInv
    <3> QED BY <3>2
  <2> QED BY <2>3, <2>4
<1>7. ASSUME NEW i \in DOMAIN calls', NEW j \in DOMAIN calls',
             calls'[i].update = calls'[j].update, calls'[i].life = calls'[j].life
      PROVE  i = j
  <2>1. \A k \in DOMAIN calls : calls[k].life = life => calls[k].update # u
    <3>1. \A k \in DOMAIN calls : calls[k].update \in Nat BY CallsTyped DEF BotCore, Calls
    <3> QED BY <1>1, <1>2, <3>1 DEF BotCore, NoncesInv
  <2>2. CASE i \in DOMAIN calls /\ j \in DOMAIN calls BY <1>7, <2>2 DEF BotCore, BatchInv
  <2>3. CASE i \in DOMAIN calls /\ j \notin DOMAIN calls BY <1>7, <2>1, <2>3
  <2>4. CASE i \notin DOMAIN calls /\ j \in DOMAIN calls BY <1>7, <2>1, <2>4
  <2>5. CASE i \notin DOMAIN calls /\ j \notin DOMAIN calls BY <2>5
  <2> QED BY <2>2, <2>3, <2>4, <2>5
<1> QED BY <1>4, <1>5, <1>6, <1>7 DEF BatchInv

\* A press is answered: it claims request i and makes it c, or there is none (i = 0).
Answers(u, said, i) ==
  /\ Take(u) /\ ~updates[u].text /\ said \in {"expired", "failed", "Denied.", "Allowed."}
  /\ Tell(u, said, i) /\ failures' \in Nat
  /\ UNCHANGED <<daemonMode, confirmed, nonce, keyboards, remembered, life>>
  /\ prompts' \subseteq prompts /\ \A p \in prompts' : p.call # i
  /\ calls' \in Seq(Calls) /\ DOMAIN calls' = DOMAIN calls
  /\ \A j \in DOMAIN calls : j # i => calls'[j] = calls[j]
  /\ i = 0 \/ (i \in DOMAIN calls /\ Unclaimed(i) /\ calls[i].pc \in Open
               /\ calls[i].chat = updates[u].chat /\ calls[i].nonce = updates[u].nonce
               /\ calls'[i].life = calls[i].life /\ calls'[i].update = calls[i].update /\ calls'[i].chat = calls[i].chat
               /\ calls'[i].act = calls[i].act /\ calls'[i].pc = calls[i].pc /\ calls'[i].nonce = calls[i].nonce
               /\ (calls'[i] = calls[i]
                   \/ (calls'[i].press = u /\ calls[i].out = "none"
                       /\ calls'[i].out = IF daemonMode THEN updates[u].action ELSE "none")))
  /\ said = "Allowed." => i # 0 /\ calls'[i].press = u

LEMMA AnswersFrame ==
  ASSUME BotCore, NEW u, NEW said, NEW i, Answers(u, said, i)
  PROVE  /\ updates' \in Seq(MessageUpdates \cup PressUpdates) /\ Len(updates') = Len(updates)
         /\ u \in Presses /\ Presses' = Presses
         /\ \A v \in 1 .. Len(updates) : v # u => updates'[v] = updates[v]
         /\ updates'[u].told = said /\ updates'[u].by = i
         /\ \A v \in 1 .. Len(updates) : updates'[v].text = updates[v].text /\ updates'[v].chat = updates[v].chat
         /\ \A v \in Presses : /\ updates'[v].nonce = updates[v].nonce /\ updates'[v].on = updates[v].on
                               /\ updates'[v].action = updates[v].action
         /\ \A j \in DOMAIN calls : /\ calls'[j].life = calls[j].life /\ calls'[j].update = calls[j].update
                                    /\ calls'[j].chat = calls[j].chat /\ calls'[j].pc = calls[j].pc
                                    /\ calls'[j].nonce = calls[j].nonce /\ calls'[j].act = calls[j].act
<1>1. BotTypeOK /\ Take(u) BY DEF BotCore, Answers
<1>2. u \in 1 .. Len(updates) BY <1>1, TakeFacts
<1>3. u \in Presses /\ updates[u] \in PressUpdates BY <1>1, <1>2, UpdatesTyped DEF Answers
<1>4. i \in Nat BY <1>1, CallsTyped DEF Answers
<1>5. PICK x : x = Answered(updates[u], said, i) OBVIOUS
<1>6. /\ x \in PressUpdates /\ x.told = said /\ x.by = i /\ x.text = updates[u].text /\ x.chat = updates[u].chat
      /\ x.nonce = updates[u].nonce /\ x.on = updates[u].on /\ x.action = updates[u].action
  <2>1. said \in {"", "expired", "failed", "Denied.", "Allowed."} BY DEF Answers
  <2> QED BY <1>3, <1>4, <1>5, <2>1 DEF PressUpdates, Answered
<1>7. updates \in Seq(MessageUpdates \cup PressUpdates) BY <1>1 DEF BotTypeOK
<1>8. updates' = [updates EXCEPT ![u] = x] BY <1>5 DEF Answers, Tell
<1>9. /\ updates' \in Seq(MessageUpdates \cup PressUpdates) /\ Len(updates') = Len(updates)
      /\ \A v \in 1 .. Len(updates) : updates'[v] = IF v = u THEN x ELSE updates[v]
  BY <1>2, <1>6, <1>7, <1>8, ExceptSeq
<1>10. \A v \in 1 .. Len(updates) : updates'[v].text = updates[v].text /\ updates'[v].chat = updates[v].chat
  BY <1>6, <1>9
<1>11. Presses' = Presses BY <1>9, <1>10 DEF Presses, Messages
<1>12. \A v \in Presses : v \in 1 .. Len(updates) BY <1>1, UpdatesTyped
<1>13. \A v \in Presses : /\ updates'[v].nonce = updates[v].nonce /\ updates'[v].on = updates[v].on
                          /\ updates'[v].action = updates[v].action
  BY <1>6, <1>9, <1>12
<1>14. \A j \in DOMAIN calls : /\ calls'[j].life = calls[j].life /\ calls'[j].update = calls[j].update
                               /\ calls'[j].chat = calls[j].chat /\ calls'[j].pc = calls[j].pc
                               /\ calls'[j].nonce = calls[j].nonce /\ calls'[j].act = calls[j].act
  BY DEF Answers
<1> QED BY <1>2, <1>3, <1>6, <1>9, <1>10, <1>11, <1>13, <1>14

LEMMA AnswersCalls ==
  ASSUME BotCore, NEW u, NEW said, NEW i, Answers(u, said, i)
  PROVE  PromptsInv' /\ ButtonsInv' /\ CallsInv'
<1>1. BotTypeOK /\ PromptsInv /\ ButtonsInv /\ NoncesInv /\ CallsInv BY DEF BotCore
<1>2. /\ updates' \in Seq(MessageUpdates \cup PressUpdates) /\ Len(updates') = Len(updates)
      /\ u \in Presses /\ Presses' = Presses
      /\ updates'[u].told = said /\ updates'[u].by = i
      /\ \A v \in Presses : /\ updates'[v].nonce = updates[v].nonce /\ updates'[v].on = updates[v].on
                            /\ updates'[v].action = updates[v].action
  BY AnswersFrame
<1>3. \A j \in DOMAIN calls : /\ calls'[j].life = calls[j].life /\ calls'[j].update = calls[j].update
                              /\ calls'[j].chat = calls[j].chat /\ calls'[j].pc = calls[j].pc
                              /\ calls'[j].nonce = calls[j].nonce
  BY AnswersFrame
<1>4. \A v \in Presses : v # u => updates'[v] = updates[v]
  <2>1. \A v \in Presses : v \in 1 .. Len(updates) BY <1>1, UpdatesTyped
  <2> QED BY <2>1, AnswersFrame
<1>5. \A v \in Presses : updates'[v].chat = updates[v].chat
  <2>1. \A v \in Presses : v \in 1 .. Len(updates) BY <1>1, UpdatesTyped
  <2> QED BY <2>1, AnswersFrame
<1>6. DOMAIN calls' = DOMAIN calls /\ daemonMode' = daemonMode /\ keyboards' = keyboards BY DEF Answers
<1>7. \A j \in DOMAIN calls : j # i => calls'[j] = calls[j] BY DEF Answers
<1>8. \A j \in DOMAIN calls : j # 0 BY <1>1, CallsTyped
<1>9. i \in DOMAIN calls => Unclaimed(i) BY <1>8 DEF Answers
<1>10. ASSUME NEW p \in prompts' PROVE Asked(p)' /\ calls'[p.call].pc \in Open /\ Unclaimed(p.call)'
  <2>1. p \in prompts /\ p.call # i BY DEF Answers
  <2>2. PICK j : j = p.call OBVIOUS
  <2>3. j \in DOMAIN calls /\ calls[j].nonce = p.nonce /\ calls[j].pc \in Open /\ Unclaimed(j)
    BY <1>1, <2>1, <2>2 DEF PromptsInv, Asked, Open
  <2>4. calls'[j].press = 0 BY <1>7, <2>1, <2>2, <2>3 DEF Unclaimed
  <2>5. \A v \in Presses : updates'[v].by # j BY <1>2, <1>4, <2>1, <2>2, <2>3 DEF Unclaimed
  <2>6. Unclaimed(j)' BY <1>2, <2>4, <2>5 DEF Unclaimed
  <2> QED BY <1>3, <1>6, <2>2, <2>3, <2>6 DEF Asked, Unclaimed
<1>11. PromptsInv' BY <1>10 DEF PromptsInv, Open
<1>12. \A v \in Presses : v # u /\ i # 0 => updates[v].by # i BY <1>9 DEF Unclaimed, Answers
<1>13. ButtonsInv'
  <2>1. \A k \in keyboards : Asked(k)' BY <1>1, <1>3, <1>6 DEF ButtonsInv, Asked
  <2>2. ASSUME NEW v \in Presses
        PROVE  /\ Asked([nonce |-> updates[v].nonce, call |-> updates[v].on])'
               /\ updates'[v].by # 0 => updates'[v].by \in DOMAIN calls /\ calls'[updates'[v].by].pc # "asking"
               /\ updates'[v].told = "Allowed." => updates'[v].by # 0 /\ calls'[updates'[v].by].press = v
    <3>1. updates[v].on \in DOMAIN calls /\ calls[updates[v].on].nonce = updates[v].nonce BY <1>1 DEF ButtonsInv, Asked
    <3>2. Asked([nonce |-> updates[v].nonce, call |-> updates[v].on])' BY <1>2, <1>3, <1>6, <3>1 DEF Asked
    <3>3. CASE v = u
      <4>1. i = 0 \/ (i \in DOMAIN calls /\ calls[i].pc \in Open) BY DEF Answers
      <4>2. said = "Allowed." => i # 0 /\ calls'[i].press = u BY DEF Answers
      <4>3. i # 0 => calls'[i].pc # "asking" BY <1>3, <4>1 DEF Open
      <4> QED BY <1>2, <3>2, <3>3, <4>1, <4>2, <4>3
    <3>4. CASE v # u
      <4>1. PICK j : j = updates[v].by OBVIOUS
      <4>2. updates'[v].by = j /\ updates'[v].told = updates[v].told BY <1>4, <3>4, <4>1
      <4>3. j # 0 => j \in DOMAIN calls /\ calls[j].pc # "asking" BY <1>1, <4>1 DEF ButtonsInv
      <4>4. updates[v].told = "Allowed." => j # 0 /\ calls[j].press = v BY <1>1, <4>1 DEF ButtonsInv
      <4>5. j # 0 => j # i BY <1>12, <3>4, <4>1
      <4> QED BY <1>3, <1>7, <3>2, <4>2, <4>3, <4>4, <4>5
    <3> QED BY <3>3, <3>4
  <2>3. \A v, w \in Presses : updates'[v].by = updates'[w].by /\ updates'[v].by # 0 => v = w
    <3>1. \A v, w \in Presses : updates[v].by = updates[w].by /\ updates[v].by # 0 => v = w BY <1>1 DEF ButtonsInv
    <3> QED BY <1>2, <1>4, <1>12, <3>1
  <2>4. ASSUME NEW v \in Presses
        PROVE  updates'[v].on \in DOMAIN calls' /\ calls'[updates'[v].on].nonce = updates'[v].nonce
    <3>1. updates[v].on \in DOMAIN calls /\ calls[updates[v].on].nonce = updates[v].nonce BY <1>1 DEF ButtonsInv, Asked
    <3> QED BY <1>2, <1>3, <1>6, <3>1
  <2> QED BY <1>2, <1>6, <2>1, <2>2, <2>3, <2>4 DEF ButtonsInv, Asked
<1>14. ASSUME NEW j \in DOMAIN calls, calls'[j].press # 0 PROVE ClaimedInv(j)'
  <2>1. CASE j # i \/ calls'[j] = calls[j]
    <3>1. calls'[j] = calls[j] BY <1>7, <2>1
    <3>2. ClaimedInv(j) BY <1>1, <1>14, <3>1 DEF CallsInv
    <3>3. PICK v : v = calls[j].press OBVIOUS
    <3>4. v \in Presses /\ updates[v].chat = calls[j].chat /\ calls[j].pc # "asking" BY <3>2, <3>3 DEF ClaimedInv
    <3>5. updates[v].on \in DOMAIN calls BY <1>1, <3>4 DEF ButtonsInv, Asked
    <3>6. updates'[v].on = j \/ calls'[updates'[v].on].life # calls'[j].life
      BY <1>2, <1>3, <3>2, <3>3, <3>4, <3>5 DEF ClaimedInv
    <3>7. calls'[j].out \in {updates'[v].action} \cup (IF daemonMode' THEN {} ELSE {"none", "timeout", "unsent", "lost"})
      BY <1>2, <1>6, <3>1, <3>2, <3>3, <3>4 DEF ClaimedInv
    <3>8. calls'[j].press = v /\ v \in Presses' /\ updates'[v].chat = calls'[j].chat /\ calls'[j].pc # "asking"
      BY <1>2, <1>5, <3>1, <3>3, <3>4
    <3> QED BY <3>6, <3>7, <3>8 DEF ClaimedInv
  <2>2. CASE j = i /\ calls'[j] # calls[j]
    <3>1. /\ calls[j].pc \in Open /\ calls[j].chat = updates[u].chat /\ calls[j].nonce = updates[u].nonce
          /\ calls'[j].press = u /\ calls'[j].out = IF daemonMode THEN updates[u].action ELSE "none"
      BY <1>8, <2>2 DEF Answers
    <3>2. updates[u].on \in DOMAIN calls /\ calls[updates[u].on].nonce = updates[u].nonce BY <1>1, <1>2 DEF ButtonsInv, Asked
    <3>3. updates[u].nonce # 0 BY <1>1, <1>2, UpdatesTyped DEF PressUpdates
    <3>4. updates[u].on = j \/ calls[updates[u].on].life # calls[j].life BY <1>1, <3>1, <3>2, <3>3 DEF NoncesInv
    <3>5. updates'[u].on = j \/ calls'[updates'[u].on].life # calls'[j].life BY <1>2, <1>3, <3>2, <3>4
    <3>6. calls'[j].out \in {updates'[u].action} \cup (IF daemonMode' THEN {} ELSE {"none", "timeout", "unsent", "lost"})
      BY <1>2, <1>6, <3>1
    <3>7. calls'[j].press = u /\ u \in Presses' /\ updates'[u].chat = calls'[j].chat /\ calls'[j].pc # "asking"
      BY <1>2, <1>3, <1>5, <3>1 DEF Open
    <3> QED BY <3>5, <3>6, <3>7 DEF ClaimedInv
  <2> QED BY <2>1, <2>2
<1>15. ASSUME NEW j \in DOMAIN calls
       PROVE  /\ calls'[j].pc = "over" => calls'[j].out # "none"
              /\ calls'[j].pc # "over" /\ ~daemonMode => calls'[j].out = "none"
              /\ calls'[j].press = 0 => calls'[j].out \notin Actions
  <2>1. CASE calls'[j] = calls[j] BY <1>1, <2>1 DEF CallsInv
  <2>2. CASE calls'[j] # calls[j]
    <3>1. /\ j = i /\ i # 0 BY <1>7, <1>8, <2>2
    <3>2. /\ calls[j].pc \in Open /\ calls'[j].press = u /\ u # 0
          /\ calls'[j].out = IF daemonMode THEN updates[u].action ELSE "none"
      BY <1>1, <1>2, <2>2, <3>1, UpdatesTyped DEF Answers
    <3> QED BY <1>3, <3>2 DEF Open
  <2> QED BY <2>1, <2>2
<1>16. CallsInv' BY <1>6, <1>14, <1>15 DEF CallsInv
<1> QED BY <1>11, <1>13, <1>16

LEMMA AnswersStep ==
  ASSUME BotCore, NEW u, NEW said, NEW i, Answers(u, said, i)
  PROVE  BotCore'
<1>1. BotTypeOK /\ NoncesInv /\ CallsInv /\ RememberedInv BY DEF BotCore
<1>2. /\ updates' \in Seq(MessageUpdates \cup PressUpdates) /\ Len(updates') = Len(updates) /\ u \in Presses
      /\ \A v \in 1 .. Len(updates) : updates'[v].text = updates[v].text /\ updates'[v].chat = updates[v].chat
  BY AnswersFrame
<1>3. \A j \in DOMAIN calls : /\ calls'[j].life = calls[j].life /\ calls'[j].update = calls[j].update
                              /\ calls'[j].chat = calls[j].chat /\ calls'[j].pc = calls[j].pc
                              /\ calls'[j].nonce = calls[j].nonce /\ calls'[j].act = calls[j].act
  BY AnswersFrame
<1>4. /\ Take(u) /\ ~updates[u].text /\ failures' \in Nat /\ prompts' \subseteq prompts
      /\ UNCHANGED <<daemonMode, confirmed, nonce, keyboards, remembered, life>>
      /\ calls' \in Seq(Calls) /\ DOMAIN calls' = DOMAIN calls
      /\ \A j \in DOMAIN calls : j # i => calls'[j] = calls[j]
  BY DEF Answers
<1>5. /\ u \in Nat /\ offset < u /\ offset' = u /\ batch' \in Seq(Nat)
  BY <1>4, TakeFacts
<1>6. BotTypeOK' BY <1>1, <1>2, <1>4, <1>5 DEF BotTypeOK
<1>7. NoncesInv'
  <2>1. offset \in Nat /\ \A j \in DOMAIN calls : calls[j].update \in Nat BY <1>1, CallsTyped DEF BotTypeOK, Calls
  <2>2. \A j \in DOMAIN calls : calls[j].life = life => calls[j].update <= u BY <1>1, <1>5, <2>1 DEF NoncesInv
  <2>3. \A j \in DOMAIN calls :
          /\ calls'[j].pc # "over" => calls'[j].life = life
          /\ calls'[j].pc # "over" => (calls'[j].pc = "asking" <=> calls'[j].nonce = 0)
          /\ calls'[j].life <= life
          /\ calls'[j].life = life => calls'[j].nonce <= nonce /\ calls'[j].update <= u
    BY <1>1, <1>3, <2>2 DEF NoncesInv
  <2>4. \A j, k \in DOMAIN calls :
          calls'[j].life = calls'[k].life /\ calls'[j].nonce = calls'[k].nonce /\ calls'[j].nonce # 0 => j = k
    BY <1>1, <1>3 DEF NoncesInv
  <2> QED BY <1>4, <1>5, <2>3, <2>4 DEF NoncesInv
<1>8. RememberedInv'
  <2>1. \A j \in DOMAIN calls : calls[j].out \in {"session", "target"} => calls'[j].out = calls[j].out
    BY <1>4 DEF Answers
  <2>2. \A j \in DOMAIN calls : calls'[j].out = "remembered" => calls[j].out = "remembered"
    <3> SUFFICES ASSUME NEW j \in DOMAIN calls, calls'[j].out = "remembered", calls'[j] # calls[j] PROVE FALSE
      OBVIOUS
    <3>1. j # 0 BY <1>1, CallsTyped
    <3>2. calls'[j].out = IF daemonMode THEN updates[u].action ELSE "none" BY <1>4, <3>1 DEF Answers
    <3>3. updates[u].action \in Actions BY <1>1, <1>2, UpdatesTyped DEF PressUpdates
    <3> QED BY <3>2, <3>3 DEF Actions
  <2> QED BY <1>1, <1>3, <1>4, <2>1, <2>2, RememberedKept
<1>9. BatchInv' BY <1>2, <1>3, <1>4, TakeBatch
<1> QED BY <1>6, <1>7, <1>8, <1>9, AnswersCalls DEF BotCore

\* The request a press is for, once it was claimed.
LEMMA Matched ==
  ASSUME BotCore, NEW u, NEW p \in Match(u)
  PROVE  /\ p \in prompts /\ p.call \in DOMAIN calls /\ p.call # 0 /\ Unclaimed(p.call) /\ calls[p.call].pc \in Open
         /\ calls[p.call].chat = updates[u].chat /\ calls[p.call].nonce = updates[u].nonce
         /\ \A q \in prompts \ {p} : q.call # p.call
<1>1. BotTypeOK /\ PromptsInv BY DEF BotCore
<1>2. p \in prompts /\ p.nonce = updates[u].nonce /\ calls[p.call].chat = updates[u].chat BY DEF Match
<1>3. \A q \in prompts : q.call \in DOMAIN calls /\ calls[q.call].nonce = q.nonce BY <1>1 DEF PromptsInv, Asked
<1>4. ASSUME NEW q \in prompts, q.call = p.call PROVE q = p
  <2>1. q \in Asks /\ p \in Asks BY <1>1, <1>2 DEF BotTypeOK
  <2>2. q.nonce = p.nonce BY <1>2, <1>3, <1>4
  <2> QED BY <1>4, <2>1, <2>2 DEF Asks
<1>5. p.call # 0 BY <1>1, <1>2, <1>3, CallsTyped
<1> QED BY <1>1, <1>2, <1>3, <1>4, <1>5 DEF PromptsInv, Open

Claim(x, u, out) == [x EXCEPT !.press = u, !.out = out]

LEMMA ClaimTyped ==
  ASSUME NEW x \in Calls, NEW u \in Nat, NEW out \in Actions \cup {x.out}
  PROVE  LET c == Claim(x, u, out)
         IN  /\ c \in Calls
             /\ c.life = x.life /\ c.update = x.update /\ c.chat = x.chat /\ c.act = x.act
             /\ c.pc = x.pc /\ c.nonce = x.nonce /\ c.press = u /\ c.out = out
<1>1. out \in Actions \cup {"none", "remembered", "unsent", "timeout", "lost"} BY DEF Calls
<1>2. \A y \in Calls, n \in Nat, o \in Actions \cup {"none", "remembered", "unsent", "timeout", "lost"} :
        Claim(y, n, o) \in Calls
  BY DEF Calls, Claim
<1>3. Claim(x, u, out) \in Calls BY <1>1, <1>2
<1> QED BY <1>3 DEF Calls, Claim

LEMMA CallSet ==
  ASSUME BotTypeOK, NEW i \in DOMAIN calls, NEW c \in Calls, calls' = [calls EXCEPT ![i] = c]
  PROVE  /\ calls' \in Seq(Calls) /\ DOMAIN calls' = DOMAIN calls /\ calls'[i] = c
         /\ \A j \in DOMAIN calls : j # i => calls'[j] = calls[j]
<1>1. calls \in Seq(Calls) BY DEF BotTypeOK
<1>2. DOMAIN calls = 1 .. Len(calls) BY CallsTyped
<1>3. calls' \in Seq(Calls) BY <1>1, <1>2, ExceptSeq
<1> QED BY <1>3

LEMMA HandlePressStep ==
  ASSUME BotCore, NEW u, HandlePress(u) PROVE BotCore'
<1>1. u \in Nat /\ u \in 1 .. Len(updates) BY TakeFacts DEF HandlePress
<1>2. failures \in Nat /\ calls \in Seq(Calls) BY DEF BotCore, BotTypeOK
<1>3. \A j \in DOMAIN calls : j # 0 BY CallsTyped DEF BotCore
<1>4. CASE Match(u) = {}
  <2>1. Tell(u, "expired", 0) /\ calls' = calls /\ prompts' = prompts BY <1>4 DEF HandlePress
  <2>2. \A p \in prompts : p.call # 0 BY DEF BotCore, BotTypeOK, Asks
  <2>3. Answers(u, "expired", 0) BY <1>2, <1>3, <2>1, <2>2 DEF HandlePress, Answers
  <2> QED BY <2>3, AnswersStep
<1>5. CASE Match(u) # {}
  <2>1. PICK p \in Match(u) :
          prompts' = prompts \ {p} /\ calls' = [calls EXCEPT ![p.call].press = u] /\ Tell(u, Shows(updates[u].action), p.call)
    BY <1>5 DEF HandlePress
  <2>2. PICK i : i = p.call OBVIOUS
  <2>3. /\ i \in DOMAIN calls /\ i # 0 /\ Unclaimed(i) /\ calls[i].pc \in Open
        /\ calls[i].chat = updates[u].chat /\ calls[i].nonce = updates[u].nonce
        /\ \A q \in prompts \ {p} : q.call # i
    BY <2>2, Matched
  <2>4. ~daemonMode BY DEF HandlePress
  <2>5. calls[i].out = "none" BY <2>3, <2>4 DEF BotCore, CallsInv, Open
  <2>6. PICK c : c = Claim(calls[i], u, calls[i].out) OBVIOUS
  <2>7. calls[i] \in Calls BY <2>3, CallsTyped DEF BotCore
  <2>8. c = [calls[i] EXCEPT !.press = u] BY <2>6, <2>7 DEF Calls, Claim
  <2>9. calls' = [calls EXCEPT ![i] = c] BY <2>1, <2>2, <2>8
  <2>10. /\ calls' \in Seq(Calls) /\ DOMAIN calls' = DOMAIN calls /\ calls'[i] = c
         /\ \A j \in DOMAIN calls : j # i => calls'[j] = calls[j]
         /\ c.life = calls[i].life /\ c.update = calls[i].update /\ c.chat = calls[i].chat /\ c.act = calls[i].act
         /\ c.pc = calls[i].pc /\ c.nonce = calls[i].nonce /\ c.press = u /\ c.out = calls[i].out
    <3>1. PICK x, out : x = calls[i] /\ out = calls[i].out OBVIOUS
    <3>2. x \in Calls /\ out \in Actions \cup {x.out} /\ c = Claim(x, u, out) BY <2>6, <2>7, <3>1
    <3>3. /\ c \in Calls /\ c.life = x.life /\ c.update = x.update /\ c.chat = x.chat /\ c.act = x.act
          /\ c.pc = x.pc /\ c.nonce = x.nonce /\ c.press = u /\ c.out = out
      BY <1>1, <3>2, ClaimTyped
    <3>4. /\ calls' \in Seq(Calls) /\ DOMAIN calls' = DOMAIN calls /\ calls'[i] = c
          /\ \A j \in DOMAIN calls : j # i => calls'[j] = calls[j]
      BY <2>3, <2>9, <3>3, CallSet DEF BotCore
    <3> QED BY <3>1, <3>3, <3>4
  <2>11. Answers(u, Shows(updates[u].action), i)
    <3>1. Shows(updates[u].action) \in {"Denied.", "Allowed."} BY DEF Shows
    <3> QED BY <1>2, <2>1, <2>2, <2>3, <2>4, <2>5, <2>10, <3>1 DEF HandlePress, Answers
  <2> QED BY <2>11, AnswersStep
<1> QED BY <1>4, <1>5

LEMMA PostPressStep ==
  ASSUME BotCore, NEW u, PostPress(u) PROVE BotCore'
<1>1. u \in Nat /\ u \in 1 .. Len(updates) BY TakeFacts DEF PostPress
<1>2. failures \in Nat /\ calls \in Seq(Calls) BY DEF BotCore, BotTypeOK
<1>3. \A j \in DOMAIN calls : j # 0 BY CallsTyped DEF BotCore
<1>4. Take(u) /\ ~updates[u].text /\ daemonMode /\ UNCHANGED <<daemonMode, confirmed, nonce, keyboards, remembered, life>>
  BY DEF PostPress
<1>5. CASE Match(u) = {}
  <2>1. Tell(u, "expired", 0) /\ calls' = calls /\ prompts' = prompts /\ failures' = failures BY <1>5 DEF PostPress
  <2>2. \A p \in prompts : p.call # 0 BY DEF BotCore, BotTypeOK, Asks
  <2>3. Answers(u, "expired", 0) BY <1>2, <1>3, <1>4, <2>1, <2>2 DEF Answers
  <2> QED BY <2>3, AnswersStep
<1>6. CASE Match(u) # {}
  <2>1. PICK p \in Match(u), arrives \in BOOLEAN, answered \in BOOLEAN :
          /\ prompts' = prompts \ {p}
          /\ calls' = IF arrives /\ calls[p.call].out = "none"
                      THEN [calls EXCEPT ![p.call] = Claimed(calls[p.call], u)] ELSE calls
          /\ Tell(u, IF (arrives /\ calls[p.call].out = "none") /\ answered THEN Shows(updates[u].action) ELSE "failed", p.call)
          /\ IF arrives /\ answered THEN UNCHANGED failures ELSE Fail
    BY <1>6 DEF PostPress
  <2>2. PICK i : i = p.call OBVIOUS
  <2>3. /\ i \in DOMAIN calls /\ i # 0 /\ Unclaimed(i) /\ calls[i].pc \in Open
        /\ calls[i].chat = updates[u].chat /\ calls[i].nonce = updates[u].nonce
        /\ \A q \in prompts \ {p} : q.call # i
    BY <2>2, Matched
  <2>4. failures' \in Nat BY <1>2, <2>1 DEF Fail
  <2>5. Shows(updates[u].action) \in {"Denied.", "Allowed."} BY DEF Shows
  <2>6. CASE arrives /\ calls[i].out = "none"
    <3>1. PICK said : said = IF answered THEN Shows(updates[u].action) ELSE "failed" OBVIOUS
    <3>2. Tell(u, said, i) BY <2>1, <2>2, <2>6, <3>1
    <3>3. PICK c : c = Claim(calls[i], u, updates[u].action) OBVIOUS
    <3>4. calls[i] \in Calls BY <2>3, CallsTyped DEF BotCore
    <3>5. c = Claimed(calls[i], u) BY <3>3, <3>4 DEF Calls, Claimed, Claim
    <3>6. calls' = [calls EXCEPT ![i] = c] BY <2>1, <2>2, <2>6, <3>5
    <3>7. updates[u].action \in Actions BY <1>1, <1>4, UpdatesTyped DEF PressUpdates, BotCore
    <3>8. /\ calls' \in Seq(Calls) /\ DOMAIN calls' = DOMAIN calls /\ calls'[i] = c
          /\ \A j \in DOMAIN calls : j # i => calls'[j] = calls[j]
          /\ c.life = calls[i].life /\ c.update = calls[i].update /\ c.chat = calls[i].chat /\ c.act = calls[i].act
          /\ c.pc = calls[i].pc /\ c.nonce = calls[i].nonce /\ c.press = u /\ c.out = updates[u].action
      <4>1. PICK x, out : x = calls[i] /\ out = updates[u].action OBVIOUS
      <4>2. x \in Calls /\ out \in Actions \cup {x.out} /\ c = Claim(x, u, out) BY <3>3, <3>4, <3>7, <4>1
      <4>3. /\ c \in Calls /\ c.life = x.life /\ c.update = x.update /\ c.chat = x.chat /\ c.act = x.act
            /\ c.pc = x.pc /\ c.nonce = x.nonce /\ c.press = u /\ c.out = out
        BY <1>1, <4>2, ClaimTyped
      <4>4. /\ calls' \in Seq(Calls) /\ DOMAIN calls' = DOMAIN calls /\ calls'[i] = c
            /\ \A j \in DOMAIN calls : j # i => calls'[j] = calls[j]
        BY <2>3, <3>6, <4>3, CallSet DEF BotCore
      <4> QED BY <4>1, <4>3, <4>4
    <3>9. said \in {"expired", "failed", "Denied.", "Allowed."} BY <2>5, <3>1
    <3>10. Answers(u, said, i) BY <1>4, <2>1, <2>2, <2>3, <2>4, <2>6, <3>2, <3>8, <3>9 DEF Answers
    <3> QED BY <3>10, AnswersStep
  <2>7. CASE ~(arrives /\ calls[i].out = "none")
    <3>1. calls' = calls /\ Tell(u, "failed", i) BY <2>1, <2>2, <2>7
    <3>2. Answers(u, "failed", i) BY <1>2, <1>4, <2>1, <2>2, <2>3, <2>4, <3>1 DEF Answers
    <3> QED BY <3>2, AnswersStep
  <2> QED BY <2>6, <2>7
<1> QED BY <1>5, <1>6

LEMMA HandleMessageStep ==
  ASSUME BotCore, NEW u, HandleMessage(u) PROVE BotCore'
<1>1. BotTypeOK /\ PromptsInv /\ ButtonsInv /\ NoncesInv /\ CallsInv /\ RememberedInv BY DEF BotCore
<1>2. /\ Take(u) /\ updates[u].text
      /\ UNCHANGED <<daemonMode, updates, confirmed, nonce, prompts, keyboards, remembered, life, failures>>
  BY DEF HandleMessage
<1>3. u \in Nat \ {0} /\ u \in 1 .. Len(updates) /\ offset < u /\ offset' = u /\ batch' \in Seq(Nat)
  BY <1>2, TakeFacts DEF Taken
<1>4. Len(calls) \in Nat /\ DOMAIN calls = 1 .. Len(calls) /\ calls \in Seq(Calls) BY <1>1, CallsTyped DEF BotTypeOK
<1>5. offset \in Nat /\ \A j \in DOMAIN calls : calls[j].update \in Nat BY <1>1, CallsTyped DEF BotTypeOK, Calls
<1>6. \A j \in DOMAIN calls : calls[j].life = life => calls[j].update <= u BY <1>1, <1>3, <1>5 DEF NoncesInv
<1>7. Presses' = Presses BY <1>2 DEF Presses, Messages
<1>8. CASE updates[u].chat \notin Allowed
  <2>1. calls' = calls BY <1>8 DEF HandleMessage
  <2>2. BotTypeOK' BY <1>1, <1>2, <1>3, <2>1 DEF BotTypeOK
  <2>3. PromptsInv' /\ ButtonsInv' /\ CallsInv' /\ RememberedInv'
    BY <1>1, <1>2, <1>7, <2>1, RememberedRests DEF PromptsInv, ButtonsInv, CallsInv, Asked, Unclaimed, ClaimedInv
  <2>4. NoncesInv' BY <1>1, <1>2, <1>3, <1>6, <2>1 DEF NoncesInv
  <2>5. BatchInv' BY <1>2, <1>8, <2>1, TakeBatch
  <2> QED BY <2>2, <2>3, <2>4, <2>5 DEF BotCore
<1>9. CASE updates[u].chat \in Allowed
  <2>1. PICK act \in Acts : calls' = Append(calls, Asking(updates[u].chat, u, act)) BY <1>9 DEF HandleMessage
  <2>0. PICK c : c = Asking(updates[u].chat, u, act) OBVIOUS
  <2>2. calls' = Append(calls, c) BY <2>0, <2>1
  <2>3. /\ c.life = life /\ c.update = u /\ c.chat = updates[u].chat /\ c.pc = "asking"
        /\ c.nonce = 0 /\ c.press = 0 /\ c.out = "none"
    BY <2>0 DEF Asking
  <2>4. c \in Calls
    <3>1. updates[u].chat \in Chats /\ life \in Nat BY <1>1, <1>3, UpdatesTyped DEF BotTypeOK
    <3> QED BY <1>3, <1>9, <2>0, <3>1 DEF Asking, Calls
  <2>5. /\ calls' \in Seq(Calls) /\ DOMAIN calls' = 1 .. Len(calls) + 1
        /\ calls'[Len(calls) + 1] = c /\ \A j \in DOMAIN calls : calls'[j] = calls[j]
    BY <1>4, <2>2, <2>4, AppendProperties
  <2>6. PICK n : n = Len(calls) + 1 OBVIOUS
  <2>7. /\ DOMAIN calls' = DOMAIN calls \cup {n} /\ n \notin DOMAIN calls /\ calls'[n] = c
        /\ \A j \in DOMAIN calls : calls'[j] = calls[j]
    BY <1>4, <2>5, <2>6
  <2>8. BotTypeOK' BY <1>1, <1>2, <1>3, <2>5 DEF BotTypeOK
  <2>9. PromptsInv' BY <1>1, <1>2, <1>7, <2>7 DEF PromptsInv, Asked, Unclaimed
  <2>10. ButtonsInv'
    <3>1. \A k \in keyboards : Asked(k)' BY <1>1, <2>7 DEF ButtonsInv, Asked
    <3>2. ASSUME NEW v \in Presses
          PROVE  /\ updates[v].on \in DOMAIN calls' /\ calls'[updates[v].on].nonce = updates[v].nonce
                 /\ updates[v].by # 0 => updates[v].by \in DOMAIN calls' /\ calls'[updates[v].by].pc # "asking"
                 /\ updates[v].told = "Allowed." => updates[v].by # 0 /\ calls'[updates[v].by].press = v
      BY <1>1, <2>7 DEF ButtonsInv, Asked
    <3> QED BY <1>1, <1>2, <1>7, <3>1, <3>2 DEF ButtonsInv, Asked
  <2>11. NoncesInv'
    <3>1. \A j \in DOMAIN calls' :
            /\ calls'[j].pc # "over" => calls'[j].life = life
            /\ calls'[j].pc # "over" => (calls'[j].pc = "asking" <=> calls'[j].nonce = 0)
            /\ calls'[j].life <= life
            /\ calls'[j].life = life => calls'[j].nonce <= nonce /\ calls'[j].update <= u
      <4>1. life \in Nat /\ nonce \in Nat BY <1>1 DEF BotTypeOK
      <4> QED BY <1>1, <1>3, <1>6, <2>3, <2>7, <4>1 DEF NoncesInv
    <3>2. \A j, k \in DOMAIN calls' :
            calls'[j].life = calls'[k].life /\ calls'[j].nonce = calls'[k].nonce /\ calls'[j].nonce # 0 => j = k
      BY <1>1, <2>3, <2>7 DEF NoncesInv
    <3> QED BY <1>2, <1>3, <3>1, <3>2 DEF NoncesInv
  <2>12. CallsInv'
    <3>1. ASSUME NEW j \in DOMAIN calls, calls[j].press # 0 PROVE ClaimedInv(j)'
      <4>1. ClaimedInv(j) BY <1>1, <3>1 DEF CallsInv
      <4>2. updates[calls[j].press].on \in DOMAIN calls BY <1>1, <4>1 DEF ClaimedInv, ButtonsInv, Asked
      <4> QED BY <1>2, <1>7, <2>7, <4>1, <4>2 DEF ClaimedInv
    <3>2. "none" \notin Actions BY DEF Actions
    <3> QED BY <1>1, <1>2, <2>3, <2>7, <3>1, <3>2 DEF CallsInv
  <2>13. RememberedInv' BY <1>1, <1>2, <2>3, <2>7, RememberedKept
  <2>14. BatchInv'
    <3>1. \E j \in DOMAIN calls' : calls'[j].update = u BY <2>3, <2>7
    <3>2. \A j \in DOMAIN calls' \ DOMAIN calls : j = n BY <2>7
    <3> QED BY <1>2, <2>3, <2>7, <3>1, <3>2, TakeBatch
  <2> QED BY <2>8, <2>9, <2>10, <2>11, <2>12, <2>13, <2>14 DEF BotCore
<1> QED BY <1>8, <1>9

-----------------------------------------------------------------------------
(* TelegramBot: users, getUpdates and restarts. *)

\* x is added to the updates.
AddedUpdate(x) ==
  /\ updates' \in Seq(MessageUpdates \cup PressUpdates) /\ Len(updates') = Len(updates) + 1
  /\ updates'[Len(updates) + 1] = x /\ \A v \in 1 .. Len(updates) : updates'[v] = updates[v]

\* A message, or a press of a button that a request showed.
NewUpdate(x) ==
  x.text \/ (x.on \in DOMAIN calls /\ calls[x.on].nonce = x.nonce /\ x.by = 0 /\ x.told = "")

LEMMA AppendAdds ==
  ASSUME BotTypeOK, NEW x \in MessageUpdates \cup PressUpdates, updates' = Append(updates, x)
  PROVE  AddedUpdate(x)
<1>1. updates \in Seq(MessageUpdates \cup PressUpdates) BY DEF BotTypeOK
<1>2. Len(updates) \in Nat BY UpdatesTyped
<1> QED BY <1>1, <1>2, AppendProperties DEF AddedUpdate

\* A message or a press is added, and nothing else changes.
LEMMA UpdateAdded ==
  ASSUME BotCore, NEW x, AddedUpdate(x),
         UNCHANGED <<daemonMode, confirmed, offset, batch, calls, nonce, prompts, keyboards, remembered, life, failures>>,
         NewUpdate(x)
  PROVE  BotCore'
<1>1. BotTypeOK /\ PromptsInv /\ ButtonsInv /\ NoncesInv /\ CallsInv /\ RememberedInv /\ BatchInv BY DEF BotCore
<1>2. Len(updates) \in Nat BY <1>1, UpdatesTyped
<1>3. /\ updates' \in Seq(MessageUpdates \cup PressUpdates) /\ Len(updates') = Len(updates) + 1
      /\ updates'[Len(updates) + 1] = x /\ \A v \in 1 .. Len(updates) : updates'[v] = updates[v]
  BY DEF AddedUpdate
<1>4. PICK n : n = Len(updates) + 1 OBVIOUS
<1>5. n \notin 1 .. Len(updates) /\ 1 .. Len(updates') = (1 .. Len(updates)) \cup {n} /\ updates'[n] = x BY <1>2, <1>3, <1>4
<1>6. Presses \subseteq 1 .. Len(updates) /\ n \notin Presses BY <1>1, <1>5, UpdatesTyped
<1>7. Presses' = Presses \cup (IF x.text THEN {} ELSE {n})
  <2>1. \A v \in 1 .. Len(updates') : v \in Presses' <=> ~updates'[v].text BY DEF Presses, Messages
  <2>2. \A v \in 1 .. Len(updates) : v \in Presses <=> ~updates[v].text BY DEF Presses, Messages
  <2>3. Presses' \subseteq 1 .. Len(updates') BY DEF Presses
  <2> QED BY <1>3, <1>5, <1>6, <2>1, <2>2, <2>3
<1>8. \A v \in Presses : updates'[v] = updates[v] BY <1>3, <1>6
<1>9. BotTypeOK' BY <1>1, <1>3 DEF BotTypeOK
<1>10. \A i \in DOMAIN calls : i # 0 BY <1>1, CallsTyped
<1>11. \A i \in DOMAIN calls : Unclaimed(i) => Unclaimed(i)'
  <2> SUFFICES ASSUME NEW i \in DOMAIN calls, Unclaimed(i) PROVE Unclaimed(i)' OBVIOUS
  <2>1. \A v \in Presses' : updates'[v].by # i BY <1>5, <1>7, <1>8, <1>10 DEF Unclaimed, NewUpdate
  <2> QED BY <2>1 DEF Unclaimed
<1>12. PromptsInv'
  <2>1. ASSUME NEW p \in prompts PROVE Asked(p)' /\ calls'[p.call].pc \in {"sending", "shown", "waiting"} /\ Unclaimed(p.call)'
    <3>1. PICK i : i = p.call OBVIOUS
    <3>2. i \in DOMAIN calls /\ Unclaimed(i) /\ calls[i].pc \in {"sending", "shown", "waiting"} /\ calls[i].nonce = p.nonce
      BY <1>1, <3>1 DEF PromptsInv, Asked
    <3>3. Unclaimed(i)' BY <1>11, <3>2
    <3> QED BY <3>1, <3>2, <3>3 DEF Asked, Unclaimed
  <2> QED BY <2>1 DEF PromptsInv
<1>13. ButtonsInv'
  <2>1. \A k \in keyboards : Asked(k)' BY <1>1 DEF ButtonsInv, Asked
  <2>2. ASSUME NEW v \in Presses'
        PROVE  /\ updates'[v].on \in DOMAIN calls /\ calls[updates'[v].on].nonce = updates'[v].nonce
               /\ updates'[v].by # 0 => updates'[v].by \in DOMAIN calls /\ calls[updates'[v].by].pc # "asking"
               /\ updates'[v].told = "Allowed." => updates'[v].by # 0 /\ calls[updates'[v].by].press = v
    <3>1. CASE v \in Presses BY <1>1, <1>8, <3>1 DEF ButtonsInv, Asked
    <3>2. CASE v = n /\ ~x.text BY <1>5, <3>2 DEF NewUpdate
    <3> QED BY <1>7, <3>1, <3>2
  <2>3. ASSUME NEW v \in Presses', NEW w \in Presses', updates'[v].by = updates'[w].by, updates'[v].by # 0
        PROVE  v = w
    <3>1. \A y \in Presses' : y \in Presses \/ updates'[y].by = 0 BY <1>5, <1>7 DEF NewUpdate
    <3>2. v \in Presses /\ w \in Presses BY <2>3, <3>1
    <3>3. updates[v].by = updates[w].by /\ updates[v].by # 0 BY <1>8, <2>3, <3>2
    <3>4. \A y, z \in Presses : updates[y].by = updates[z].by /\ updates[y].by # 0 => y = z BY <1>1 DEF ButtonsInv
    <3> QED BY <3>2, <3>3, <3>4
  <2> QED BY <2>1, <2>2, <2>3 DEF ButtonsInv, Asked
<1>14. NoncesInv' /\ RememberedInv' BY <1>1, RememberedRests DEF NoncesInv
<1>15. CallsInv'
  <2>1. ASSUME NEW j \in DOMAIN calls, calls[j].press # 0 PROVE ClaimedInv(j)'
    <3>1. ClaimedInv(j) BY <1>1, <2>1 DEF CallsInv
    <3>2. updates'[calls[j].press] = updates[calls[j].press] BY <1>8, <3>1 DEF ClaimedInv
    <3> QED BY <1>7, <3>1, <3>2 DEF ClaimedInv
  <2> QED BY <1>1, <2>1 DEF CallsInv
<1>16. BatchInv'
  <2>1. confirmed \in Nat /\ offset \in Nat /\ Len(batch) \in Nat /\ Taken \in Nat BY <1>1, LenProperties DEF BotTypeOK, Taken
  <2>2. Taken' = Taken BY DEF Taken
  <2>3. Taken + Len(batch) <= Len(updates) BY <1>1 DEF BatchInv
  <2>4. Taken + Len(batch) <= Len(updates') /\ \A v \in 1 .. Taken : v \in 1 .. Len(updates)
    BY <1>2, <1>3, <2>1, <2>3
  <2> QED BY <1>1, <1>3, <2>2, <2>4 DEF BatchInv
<1> QED BY <1>9, <1>12, <1>13, <1>14, <1>15, <1>16 DEF BotCore

LEMMA WriteStep == ASSUME BotCore, NEW c \in Chats, Write(c) PROVE BotCore'
<1>1. BotTypeOK BY DEF BotCore
<1>2. PICK x : x = [chat |-> c, text |-> TRUE] OBVIOUS
<1>3. x \in MessageUpdates /\ NewUpdate(x) BY <1>2 DEF MessageUpdates, NewUpdate
<1>4. updates' = Append(updates, x) BY <1>2 DEF Write
<1>5. AddedUpdate(x) BY <1>1, <1>3, <1>4, AppendAdds
<1> QED BY <1>3, <1>5, UpdateAdded DEF Write

LEMMA PressStep == ASSUME BotCore, NEW k \in keyboards, NEW a \in Actions, Press(k, a) PROVE BotCore'
<1>1. BotTypeOK BY DEF BotCore
<1>2. k.call \in DOMAIN calls /\ calls[k.call].nonce = k.nonce BY DEF BotCore, ButtonsInv, Asked
<1>3. k \in Asks BY <1>1 DEF BotTypeOK
<1>4. calls[k.call].chat \in Chats BY <1>1, <1>2, CallsTyped DEF Calls
<1>5. PICK x : x = [chat |-> calls[k.call].chat, text |-> FALSE, nonce |-> k.nonce,
                    on |-> k.call, action |-> a, told |-> "", by |-> 0]
  OBVIOUS
<1>6. x \in PressUpdates BY <1>3, <1>4, <1>5 DEF PressUpdates, Asks
<1>7. NewUpdate(x) BY <1>2, <1>5 DEF NewUpdate
<1>8. updates' = Append(updates, x) BY <1>5 DEF Press
<1>9. AddedUpdate(x) BY <1>1, <1>6, <1>8, AppendAdds
<1> QED BY <1>7, <1>9, UpdateAdded DEF Press

\* What getUpdates confirms was taken; what it delivers comes next.
LEMMA PollStep == ASSUME BotCore, Poll PROVE BotCore'
<1>1. BotTypeOK /\ PromptsInv /\ ButtonsInv /\ NoncesInv /\ CallsInv /\ RememberedInv /\ BatchInv BY DEF BotCore
<1>2. confirmed \in Nat /\ offset \in Nat /\ failures \in Nat /\ Len(updates) \in Nat BY <1>1, UpdatesTyped DEF BotTypeOK
<1>3. UNCHANGED <<daemonMode, updates, offset, calls, nonce, prompts, keyboards, remembered, life>> BY DEF Poll
<1>4. confirmed' = Taken /\ confirmed' \in Nat /\ Taken' = Taken BY <1>2 DEF Poll, Confirm, Taken
<1>5. batch = <<>> /\ Taken <= Len(updates)
  <2>1. Len(batch) = 0 /\ batch = <<>> BY DEF Poll
  <2> QED BY <1>1, <1>2, <1>4, <2>1 DEF BatchInv
<1>6. batch' \in Seq(Nat) /\ failures' \in Nat /\ Taken + Len(batch') <= Len(updates) /\ \A k \in DOMAIN batch' : batch'[k] = Taken + k
  <2>1. CASE batch' = [i \in 1 .. Len(updates) - confirmed' |-> confirmed' + i] /\ UNCHANGED failures
    <3>1. PICK n \in Nat, t \in Nat : n = Len(updates) - Taken /\ t = Taken BY <1>2, <1>4, <1>5
    <3>2. batch' = [i \in 1 .. n |-> t + i] BY <1>4, <2>1, <3>1
    <3>3. batch' \in Seq(Nat) /\ Len(batch') = n /\ DOMAIN batch' = 1 .. n BY <3>2
    <3>4. \A k \in DOMAIN batch' : batch'[k] = t + k BY <3>2
    <3>5. failures' \in Nat BY <1>2, <2>1
    <3>6. Taken + Len(batch') <= Len(updates)
      <4>1. Len(batch') = Len(updates) - Taken /\ Taken \in Nat BY <3>1, <3>3
      <4> HIDE <2>1
      <4> QED BY <1>2, <4>1
    <3>7. \A k \in DOMAIN batch' : batch'[k] = Taken + k BY <3>1, <3>4
    <3> QED BY <3>3, <3>5, <3>6, <3>7
  <2>2. CASE UNCHANGED batch /\ Fail
    <3>1. batch' = <<>> /\ failures' \in Nat BY <1>2, <1>5, <2>2 DEF Fail
    <3>2. batch' \in Seq(Nat) /\ Len(batch') = 0 /\ DOMAIN batch' = {} BY <3>1, EmptySeq
    <3> QED BY <1>4, <1>5, <3>1, <3>2
  <2> QED BY <2>1, <2>2 DEF Poll
<1>7. BotTypeOK' BY <1>1, <1>3, <1>4, <1>6 DEF BotTypeOK
<1>8. PromptsInv' /\ ButtonsInv' /\ NoncesInv' /\ CallsInv' /\ RememberedInv'
  <2>1. Presses' = Presses BY <1>3 DEF Presses, Messages
  <2>2. PromptsInv' /\ ButtonsInv' BY <1>1, <1>3, <2>1 DEF PromptsInv, ButtonsInv, Asked, Unclaimed
  <2>3. NoncesInv' /\ RememberedInv' BY <1>1, <1>3, RememberedRests DEF NoncesInv
  <2>4. CallsInv' BY <1>1, <1>3, <2>1 DEF CallsInv, ClaimedInv
  <2> QED BY <2>2, <2>3, <2>4
<1>9. BatchInv' BY <1>1, <1>3, <1>4, <1>6 DEF BatchInv
<1> QED BY <1>7, <1>8, <1>9 DEF BotCore

\* The process ends: its requests are lost, and nothing of them is pending.
LEMMA StartAgainStep == ASSUME BotCore, StartAgain PROVE BotCore'
<1>1. BotTypeOK /\ PromptsInv /\ ButtonsInv /\ NoncesInv /\ CallsInv /\ RememberedInv /\ BatchInv BY DEF BotCore
<1>2. /\ life' = life + 1 /\ offset' = 0 /\ batch' = <<>> /\ nonce' = 0 /\ prompts' = {} /\ remembered' = {}
      /\ calls' = [i \in DOMAIN calls |-> Ended(calls[i], "lost")] /\ failures' = failures + 1
      /\ UNCHANGED <<daemonMode, updates, confirmed, keyboards>>
  BY DEF StartAgain, Fail
<1>3. /\ confirmed \in Nat /\ offset \in Nat /\ failures \in Nat /\ life \in Nat /\ nonce \in Nat
      /\ Len(updates) \in Nat /\ Len(calls) \in Nat /\ DOMAIN calls = 1 .. Len(calls)
  BY <1>1, UpdatesTyped, CallsTyped DEF BotTypeOK
<1>4. \A i \in DOMAIN calls : calls[i] \in Calls BY <1>1, CallsTyped
<1>5. \A x \in Calls : LET y == Ended(x, "lost")
                       IN  /\ y \in Calls /\ y.life = x.life /\ y.update = x.update /\ y.chat = x.chat /\ y.act = x.act /\ y.pc = "over"
                           /\ y.nonce = x.nonce /\ y.press = x.press
                           /\ y.out = IF x.out = "none" THEN "lost" ELSE x.out
  <2> SUFFICES ASSUME NEW x \in Calls
               PROVE  LET y == Ended(x, "lost")
                      IN  /\ y \in Calls /\ y.life = x.life /\ y.update = x.update /\ y.chat = x.chat /\ y.act = x.act /\ y.pc = "over"
                          /\ y.nonce = x.nonce /\ y.press = x.press
                          /\ y.out = IF x.out = "none" THEN "lost" ELSE x.out
    OBVIOUS
  <2> DEFINE o == IF x.out = "none" THEN "lost" ELSE x.out
             y == [x EXCEPT !.pc = "over", !.out = o]
  <2>1. Ended(x, "lost") = y BY DEF Ended
  <2>2. o \in Actions \cup {"none", "remembered", "unsent", "timeout", "lost"} BY DEF Calls
  <2>3. o = IF x.out = "none" THEN "lost" ELSE x.out OBVIOUS
  <2> HIDE DEF o
  <2>4. y \in Calls BY <2>2 DEF Calls
  <2>5. /\ y.life = x.life /\ y.update = x.update /\ y.chat = x.chat /\ y.act = x.act /\ y.pc = "over"
        /\ y.nonce = x.nonce /\ y.press = x.press /\ y.out = o
    BY DEF Calls
  <2> HIDE DEF y
  <2> QED BY <2>1, <2>3, <2>4, <2>5
<1>6. /\ DOMAIN calls' = DOMAIN calls
      /\ \A i \in DOMAIN calls :
           /\ calls'[i] \in Calls /\ calls'[i].life = calls[i].life /\ calls'[i].update = calls[i].update
           /\ calls'[i].chat = calls[i].chat /\ calls'[i].act = calls[i].act /\ calls'[i].pc = "over" /\ calls'[i].nonce = calls[i].nonce
           /\ calls'[i].press = calls[i].press
           /\ calls'[i].out = IF calls[i].out = "none" THEN "lost" ELSE calls[i].out
  BY <1>2, <1>4, <1>5
<1>7. calls' \in Seq(Calls)
  <2>1. PICK n \in Nat : n = Len(calls) BY <1>3
  <2>2. calls' = [i \in 1 .. n |-> Ended(calls[i], "lost")] BY <1>2, <1>3, <2>1
  <2>3. \A i \in 1 .. n : Ended(calls[i], "lost") \in Calls BY <1>3, <1>4, <1>5, <2>1
  <2>4. calls' \in [1 .. n -> Calls] BY <2>2, <2>3
  <2> QED BY <2>1, <2>4, SeqDef
<1>8. Presses' = Presses BY <1>2 DEF Presses, Messages
<1>9. BotTypeOK'
  <2>1. <<>> \in Seq(Nat) BY EmptySeq
  <2> QED BY <1>1, <1>2, <1>3, <1>7, <2>1 DEF BotTypeOK
<1>10. PromptsInv' BY <1>2 DEF PromptsInv
<1>11. ButtonsInv'
  <2>1. \A k \in keyboards : Asked(k)' BY <1>1, <1>6 DEF ButtonsInv, Asked
  <2>2. ASSUME NEW v \in Presses
        PROVE  /\ updates[v].on \in DOMAIN calls' /\ calls'[updates[v].on].nonce = updates[v].nonce
               /\ updates[v].by # 0 => updates[v].by \in DOMAIN calls' /\ calls'[updates[v].by].pc # "asking"
               /\ updates[v].told = "Allowed." => updates[v].by # 0 /\ calls'[updates[v].by].press = v
    BY <1>1, <1>6 DEF ButtonsInv, Asked
  <2> QED BY <1>1, <1>2, <1>8, <2>1, <2>2 DEF ButtonsInv, Asked
<1>12. NoncesInv'
  <2>1. \A i \in DOMAIN calls : calls[i].life \in Nat /\ calls[i].life <= life BY <1>1, <1>4 DEF NoncesInv, Calls
  <2>2. \A i \in DOMAIN calls : calls'[i].life # life + 1 /\ calls'[i].life <= life + 1 BY <1>3, <1>6, <2>1
  <2>3. \A i, j \in DOMAIN calls : calls'[i].life = calls'[j].life /\ calls'[i].nonce = calls'[j].nonce /\ calls'[i].nonce # 0 => i = j
    BY <1>1, <1>6 DEF NoncesInv
  <2> QED BY <1>2, <1>6, <2>2, <2>3 DEF NoncesInv
<1>13. CallsInv'
  <2>1. ASSUME NEW j \in DOMAIN calls, calls[j].press # 0 PROVE ClaimedInv(j)'
    <3>1. ClaimedInv(j) BY <1>1, <2>1 DEF CallsInv
    <3>2. PICK u : u = calls[j].press OBVIOUS
    <3>3. u \in Presses /\ updates[u].chat = calls[j].chat BY <3>1, <3>2 DEF ClaimedInv
    <3>4. updates[u].on \in DOMAIN calls BY <1>1, <3>3 DEF ButtonsInv, Asked
    <3>5. updates[u].on = j \/ calls'[updates[u].on].life # calls'[j].life BY <1>6, <3>1, <3>2, <3>4 DEF ClaimedInv
    <3>6. updates[u].action # "none"
      <4>1. updates[u].action \in Actions BY <1>1, <3>3, UpdatesTyped DEF PressUpdates
      <4> QED BY <4>1 DEF Actions
    <3>7. calls'[j].out \in {updates[u].action} \cup (IF daemonMode THEN {} ELSE {"none", "timeout", "unsent", "lost"})
      BY <1>6, <3>1, <3>2, <3>6 DEF ClaimedInv
    <3> QED BY <1>2, <1>6, <1>8, <3>2, <3>3, <3>5, <3>7 DEF ClaimedInv
  <2>2. "lost" \notin Actions BY DEF Actions
  <2>3. \A j \in DOMAIN calls : calls'[j].press = 0 => calls'[j].out \notin Actions BY <1>1, <1>6, <2>2 DEF CallsInv
  <2>4. \A j \in DOMAIN calls : calls'[j].out # "none" /\ calls'[j].pc = "over" BY <1>6
  <2> QED BY <1>6, <2>1, <2>3, <2>4 DEF CallsInv
<1>14. RememberedInv'
  <2>1. ASSUME NEW i \in DOMAIN calls, calls'[i].out = "remembered" PROVE \E j \in DOMAIN calls : Licenses(j, i)'
    <3>1. PICK j \in DOMAIN calls : Licenses(j, i) BY <1>1, <1>6, <2>1 DEF RememberedInv
    <3> QED BY <1>6, <3>1 DEF Licenses
  <2> QED BY <1>2, <1>6, <2>1 DEF RememberedInv
<1>15. BatchInv'
  <2>1. Taken' = confirmed /\ confirmed <= Taken /\ Taken <= Len(updates)
    <3>1. Taken' = confirmed /\ confirmed <= Taken BY <1>2, <1>3 DEF Taken
    <3>2. Len(batch) \in Nat BY <1>1, LenProperties DEF BotTypeOK
    <3>3. Taken \in Nat BY <1>3 DEF Taken
    <3> QED BY <1>1, <1>3, <3>1, <3>2, <3>3 DEF BatchInv
  <2>2. Taken \in Nat BY <1>3 DEF Taken
  <2>3. \A u \in 1 .. confirmed : u \in 1 .. Taken BY <1>3, <2>1, <2>2
  <2>4. Len(batch') = 0 /\ DOMAIN batch' = {} BY <1>2
  <2>5. confirmed + Len(batch') <= Len(updates) BY <1>3, <2>1, <2>2, <2>4
  <2>6. \A u \in 1 .. confirmed : updates[u].text /\ updates[u].chat \in Allowed => \E i \in DOMAIN calls : calls'[i].update = u
    BY <1>1, <1>6, <2>3 DEF BatchInv
  <2>7. \A i, j \in DOMAIN calls : calls'[i].update = calls'[j].update /\ calls'[i].life = calls'[j].life => i = j
    BY <1>1, <1>6 DEF BatchInv
  <2> QED BY <1>2, <1>6, <2>1, <2>4, <2>5, <2>6, <2>7 DEF BatchInv
<1> QED BY <1>9, <1>10, <1>11, <1>12, <1>13, <1>14, <1>15 DEF BotCore

LEMMA BotStutter == ASSUME BotCore, UNCHANGED botVars PROVE BotCore'
<1>1. Presses' = Presses BY DEF Presses, Messages, botVars
<1>2. BotTypeOK' BY DEF BotCore, BotTypeOK, botVars
<1>3. PromptsInv' /\ ButtonsInv' BY <1>1 DEF BotCore, PromptsInv, ButtonsInv, Asked, Unclaimed, botVars
<1>4. NoncesInv' /\ RememberedInv' BY RememberedRests DEF BotCore, NoncesInv, botVars
<1>5. CallsInv' BY <1>1 DEF BotCore, CallsInv, ClaimedInv, botVars
<1>6. BatchInv' BY DEF BotCore, BatchInv, Taken, botVars
<1> QED BY <1>2, <1>3, <1>4, <1>5, <1>6 DEF BotCore

LEMMA BotStep == BotCore /\ [BotNext]_botVars => BotCore'
<1> SUFFICES ASSUME BotCore, [BotNext]_botVars PROVE BotCore' OBVIOUS
<1>1. ASSUME NEW c \in Chats, Write(c) PROVE BotCore' BY <1>1, WriteStep
<1>2. ASSUME NEW k \in keyboards, NEW a \in Actions, Press(k, a) PROVE BotCore' BY <1>2, PressStep
<1>3. ASSUME Poll \/ StartAgain PROVE BotCore' BY <1>3, PollStep, StartAgainStep
<1>4. ASSUME NEW u, HandleMessage(u) \/ HandlePress(u) \/ PostPress(u) PROVE BotCore'
  BY <1>4, HandleMessageStep, HandlePressStep, PostPressStep
<1>5. ASSUME NEW i \in DOMAIN calls,
             Remembered(i) \/ Register(i) \/ Show(i) \/ Sent(i) \/ SendFails(i) \/ Decided(i) \/ TimesOut(i)
      PROVE  BotCore'
  BY <1>5, RememberedStep, RegisterStep, ShowStep, SendFailsStep, DecidedStep, TimesOutStep
<1>6. ASSUME UNCHANGED botVars PROVE BotCore' BY <1>6, BotStutter
<1>7. DOMAIN calls = 1 .. Len(calls) BY CallsTyped DEF BotCore
<1> QED BY <1>1, <1>2, <1>3, <1>4, <1>5, <1>6, <1>7 DEF BotNext

-----------------------------------------------------------------------------
\* A nonce is one request's in a process, a request that a press was claimed for agrees
\* with it, and the loop takes the updates in their order, over failed requests and
\* restarts (Permission.Decide, handleCallback, DaemonClient.HandleCallback, Channel.Run).
THEOREM BotInductive == BotSpec => []BotInv
<1>1. BotSpec => []BotCore BY BotStart, BotStep, PTL DEF BotSpec
<1>2. BotCore => BotInv BY PressesDecide, MessagesTaken DEF BotCore, BotInv, UpdatesAreHandledOnce
<1> QED BY <1>1, <1>2, PTL

\* A press decides only the request its message asked about, in its chat, or those that
\* its "Allow session" or "Allow target" covers, "Allowed." is true, and a message of an allowed chat is handled once by a process and lost by none
\* that polls on (Permission.handleCallback, DaemonClient.HandleCallback, Channel.Run).
THEOREM UpdatesStayHandledOnce == BotSpec => []UpdatesAreHandledOnce
<1>1. BotInv => UpdatesAreHandledOnce BY DEF BotInv
<1> QED BY <1>1, BotInductive, PTL

-----------------------------------------------------------------------------
(* The names of MCP tools. *)

\* A sequence of whatever it holds.
Elements(s) == {s[i] : i \in 1 .. Len(s)}

LEMMA InItsElements ==
  ASSUME NEW s, IsSequence(s), NEW S, Elements(s) \subseteq S
  PROVE  s \in Seq(S) /\ Len(s) \in Nat
<1>1. Len(s) \in Nat /\ s = [i \in 1 .. Len(s) |-> s[i]] BY DEF IsSequence
<1>2. \A i \in 1 .. Len(s) : s[i] \in S BY DEF Elements
<1>3. s \in [1 .. Len(s) -> S] BY <1>1, <1>2
<1> QED BY <1>1, <1>3, SeqDef

\* And the other way round.
LEMMA OfASeq ==
  ASSUME NEW S, NEW s \in Seq(S) PROVE IsSequence(s)
<1>1. Len(s) \in Nat /\ s \in [1 .. Len(s) -> S] BY LenProperties
<1> QED BY <1>1 DEF IsSequence

\* Names made of one base and different numbers differ.
LEMMA NumbersTell ==
  ASSUME NEW base, IsSequence(base), NEW m \in Nat, NEW n \in Nat, base \o <<m>> = base \o <<n>>
  PROVE  m = n
<1> DEFINE S == Elements(base) \cup Nat
<1>1. base \in Seq(S) /\ Len(base) \in Nat BY InItsElements
<1>2. <<m>> \in Seq(S) /\ <<n>> \in Seq(S) /\ Len(<<m>>) = 1 /\ Len(<<n>>) = 1 /\ <<m>>[1] = m /\ <<n>>[1] = n
  OBVIOUS
<1> HIDE DEF S
<1>3. Len(base) + 1 \in 1 .. Len(base) + 1 /\ ~(Len(base) + 1 <= Len(base)) /\ Len(base) + 1 - Len(base) = 1
  BY <1>1
<1>4. (base \o <<m>>)[Len(base) + 1] = <<m>>[1]
  <2>1. \A i \in 1 .. Len(base) + Len(<<m>>) :
          (base \o <<m>>)[i] = IF i <= Len(base) THEN base[i] ELSE <<m>>[i - Len(base)]
    BY <1>1, <1>2, ConcatProperties
  <2> QED BY <1>2, <1>3, <2>1
<1>5. (base \o <<n>>)[Len(base) + 1] = <<n>>[1]
  <2>1. \A i \in 1 .. Len(base) + Len(<<n>>) :
          (base \o <<n>>)[i] = IF i <= Len(base) THEN base[i] ELSE <<n>>[i - Len(base)]
    BY <1>1, <1>2, ConcatProperties
  <2> QED BY <1>2, <1>3, <2>1
<1> QED BY <1>2, <1>4, <1>5

\* Among one number more than there are tools one is free, and a first one:
\* the search of reserveGeneratedToolName ends, with a name nobody has.
LEMMA OneIsFree ==
  ASSUME NamesInv, NEW base, IsSequence(base)
  PROVE  Reserved(base) \notin names
<1> DEFINE L == Len(tools)
           N == 2 .. L + 2
           free == {n \in N : base \o <<n>> \notin names}
<1>1. L \in Nat BY DEF NamesInv, IsSequence
<1>2. CASE base \notin names BY <1>2 DEF Reserved
<1>3. CASE base \in names
  <2>1. free # {}
    <3> SUFFICES ASSUME free = {} PROVE FALSE OBVIOUS
    <3>1. \A n \in N : \E k \in 1 .. L : tools[k].name = base \o <<n>> BY DEF NamesInv
    <3> DEFINE f == [n \in N |-> CHOOSE k \in 1 .. L : tools[k].name = base \o <<n>>]
    <3>2. \A n \in N : f[n] \in 1 .. L /\ tools[f[n]].name = base \o <<n>> BY <3>1
    <3>3. f \in [N -> 1 .. L] BY <3>2
    <3>4. IsFiniteSet(N) /\ Cardinality(N) = L + 1
      <4>1. 2 \in Int /\ L + 2 \in Int /\ ~(2 > L + 2) /\ (L + 2) - 2 + 1 = L + 1 BY <1>1
      <4> HIDE DEF L
      <4> QED BY <4>1, FS_Interval
    <3>5. IsFiniteSet(1 .. L) /\ Cardinality(1 .. L) = L
      <4>1. 1 \in Int /\ L \in Int /\ (IF 1 > L THEN 0 ELSE L - 1 + 1) = L BY <1>1
      <4> HIDE DEF L
      <4> QED BY <4>1, FS_Interval
    <3>6. Cardinality(1 .. L) < Cardinality(N) BY <1>1, <3>4, <3>5
    <3> DEFINE T == 1 .. L
    <3>10. IsFiniteSet(N) /\ IsFiniteSet(T) /\ Cardinality(T) < Cardinality(N) /\ f \in [N -> T]
      BY <3>3, <3>4, <3>5, <3>6
    <3> HIDE DEF f, N, L, T
    <3>7. PICK m \in N, n \in N : m # n /\ f[m] = f[n] BY <3>10, FS_PigeonHole
    <3>8. base \o <<m>> = base \o <<n>> BY <3>2, <3>7
    <3>9. m \in Nat /\ n \in Nat BY <1>1 DEF N
    <3> QED BY <3>7, <3>8, <3>9, NumbersTell
  <2>2. PICK n \in free : \A k \in free : n <= k
    <3>1. free \subseteq Nat BY <1>1
    <3> HIDE DEF free
    <3>2. PICK n \in free : \A k \in free : ~(<<k, n>> \in OpToRel(<, Nat))
      BY <2>1, <3>1, WFMin, NatLessThanWellFounded
    <3>3. \A k \in free : ~(k < n) BY <3>1, <3>2 DEF OpToRel
    <3> QED BY <3>1, <3>3
  <2> DEFINE first == CHOOSE q \in free : \A k \in free : q <= k
  <2>3. first \in free BY <2>2
  <2>4. Reserved(base) = base \o <<first>> BY <1>3 DEF Reserved
  <2> HIDE DEF first
  <2> QED BY <2>3, <2>4
<1> QED BY <1>2, <1>3

\* One more tool under a name that nobody has.
LEMMA AddKeeps ==
  ASSUME NamesInv, NEW name, name \notin names, NEW tool, AddTool(name, tool) PROVE NamesInv'
<1> DEFINE e == [name |-> name, server |-> position, tool |-> tool]
           S == Elements(tools) \cup {e}
<1>1. tools \in Seq(S) /\ Len(tools) \in Nat BY InItsElements DEF NamesInv
<1>2. tools' = Append(tools, e) /\ names' = names \cup {name} BY DEF AddTool
<1>3. e \in S /\ e.name = name OBVIOUS
<1> HIDE DEF e, S
<1>4. /\ Append(tools, e) \in Seq(S) /\ Len(Append(tools, e)) = Len(tools) + 1
      /\ \A i \in 1 .. Len(tools) : Append(tools, e)[i] = tools[i]
      /\ Append(tools, e)[Len(tools) + 1] = e
  BY <1>1, <1>3, AppendProperties
<1>5. IsSequence(tools') BY <1>2, <1>4, OfASeq
<1>6. \A i \in 1 .. Len(tools') : (i \in 1 .. Len(tools) /\ tools'[i] = tools[i]) \/ (i = Len(tools) + 1 /\ tools'[i] = e)
  BY <1>1, <1>2, <1>4
<1>7. \A i \in 1 .. Len(tools) : i \in 1 .. Len(tools') /\ tools'[i] = tools[i] BY <1>1, <1>2, <1>4
<1>8. Len(tools) + 1 \in 1 .. Len(tools') /\ tools'[Len(tools) + 1] = e BY <1>1, <1>2, <1>4
<1>9. names' = {tools'[k].name : k \in 1 .. Len(tools')}
  <2>1. ASSUME NEW n \in names' PROVE \E k \in 1 .. Len(tools') : tools'[k].name = n
    <3>1. CASE n \in names
      <4>1. PICK k \in 1 .. Len(tools) : tools[k].name = n BY <3>1 DEF NamesInv
      <4> QED BY <1>7, <4>1
    <3>2. CASE n = name BY <1>3, <1>8, <3>2
    <3> QED BY <1>2, <2>1, <3>1, <3>2
  <2>2. ASSUME NEW k \in 1 .. Len(tools') PROVE tools'[k].name \in names'
    BY <1>2, <1>3, <1>6 DEF NamesInv
  <2> QED BY <2>1, <2>2
<1>10. ASSUME NEW j \in 1 .. Len(tools'), NEW k \in 1 .. Len(tools'), tools'[j].name = tools'[k].name PROVE j = k
  <2>1. \A i \in 1 .. Len(tools) : tools[i].name # name BY DEF NamesInv
  <2>2. \A i, l \in 1 .. Len(tools) : tools[i].name = tools[l].name => i = l BY DEF NamesInv
  <2> QED BY <1>3, <1>6, <1>10, <2>1, <2>2
<1> QED BY <1>5, <1>9, <1>10 DEF NamesInv

\* A step that takes no name.
LEMMA NamesRest ==
  ASSUME NamesInv, UNCHANGED <<names, tools>> PROVE NamesInv'
BY DEF NamesInv, IsSequence

\* The base of a generated name is a sequence of words.
LEMMA Bases ==
  ASSUME ManagerAssumption, StartedInv, step = "resources"
  PROVE  IsSequence(Server.part \o Generated)
<1>1. position \in 1 .. Len(configs) /\ configs \in Configs
  <2>1. IsSequence(configs) BY DEF StartedInv, ManagerAssumption
  <2> QED BY <2>1 DEF StartedInv, IsSequence
<1>2. IsSequence(Server.part) BY <1>1 DEF ManagerAssumption, Server
<1> DEFINE S == Elements(Server.part) \cup {"read", "resource"}
<1>3. Server.part \in Seq(S) BY <1>2, InItsElements
<1>4. Generated \in Seq(S) BY DEF Generated
<1> HIDE DEF S
<1>5. Server.part \o Generated \in Seq(S) BY <1>3, <1>4, ConcatProperties
<1> QED BY <1>5, OfASeq

\* Every step of NewManager.
LEMMA ManagerStep ==
  ASSUME ManagerAssumption, ManagerInv, ManagerNext PROVE ManagerInv'
<1>1. Len(configs) \in Nat /\ position \in Nat /\ mapped \in Nat
  <2>1. IsSequence(configs) BY DEF ManagerInv, StartedInv, ManagerAssumption
  <2> QED BY <2>1 DEF ManagerInv, StartedInv, IsSequence
<1>2. step \in {"list", "map"} => Len(Server.tools) \in Nat
  <2>1. ASSUME step \in {"list", "map"} PROVE IsSequence(Server.tools)
    <3>1. position \in 1 .. Len(configs) /\ configs \in Configs BY <1>1, <2>1 DEF ManagerInv, StartedInv
    <3> QED BY <3>1 DEF ManagerAssumption, Server
  <2> QED BY <2>1 DEF IsSequence
<1>3. CASE Unwind
  <2>1. NamesInv' BY <1>3, NamesRest DEF ManagerInv, Unwind
  <2>2. StartedInv' BY <1>3 DEF ManagerInv, StartedInv, Unwind
  <2> QED BY <2>1, <2>2 DEF ManagerInv
<1>4. CASE Start
  <2>1. NamesInv' BY <1>4, NamesRest DEF ManagerInv, Start
  <2>2. CASE position > Len(configs)
    <3>1. position = Len(configs) + 1 /\ started = 1 .. Len(configs) BY <1>1, <1>4, <2>2 DEF Start, ManagerInv, StartedInv
    <3>2. StartedInv' BY <1>4, <2>2, <3>1 DEF ManagerInv, StartedInv, Start
    <3> QED BY <2>1, <3>2 DEF ManagerInv
  <2>3. CASE ~(position > Len(configs))
    <3>1. started' = 1 .. position /\ step' \in {"list", "resources"} /\ UNCHANGED <<configs, position, mapped>>
      <4>1. started' = started \cup {position} /\ started = 1 .. position - 1 BY <1>4, <2>3 DEF Start, ManagerInv, StartedInv
      <4>2. position \in Nat /\ position >= 1 BY <1>1 DEF ManagerInv, StartedInv
      <4>3. (1 .. position - 1) \cup {position} = 1 .. position BY <4>2
      <4>4. step' \in {"list", "resources"} /\ UNCHANGED <<configs, position, mapped>> BY <1>4, <2>3 DEF Start
      <4> QED BY <4>1, <4>3, <4>4
    <3>2. StartedInv' BY <1>1, <2>3, <3>1 DEF ManagerInv, StartedInv
    <3> QED BY <2>1, <3>2 DEF ManagerInv
  <2> QED BY <2>2, <2>3
<1>5. CASE List
  <2>1. NamesInv' BY <1>5, NamesRest DEF ManagerInv, List
  <2>2. Server' = Server /\ 0 <= Len(Server.tools) BY <1>2, <1>5 DEF List, Server
  <2>3. StartedInv' BY <1>5, <2>2 DEF ManagerInv, StartedInv, List
  <2> QED BY <2>1, <2>3 DEF ManagerInv
<1>6. CASE Map
  <2>1. Server' = Server BY <1>6 DEF Map, Server
  <2>2. CASE mapped = Len(Server.tools)
    <3>1. NamesInv' BY <1>6, <2>2, NamesRest DEF ManagerInv, Map
    <3>2. StartedInv' BY <1>6, <2>2 DEF ManagerInv, StartedInv, Map
    <3> QED BY <3>1, <3>2 DEF ManagerInv
  <2>3. CASE mapped # Len(Server.tools)
    <3>1. /\ Name \notin names /\ AddTool(Name, Server.tools[mapped + 1])
          /\ mapped' = mapped + 1 /\ UNCHANGED <<step, configs, position, started>>
      BY <1>6, <2>3 DEF Map, InUse
    <3>2. NamesInv' BY <3>1, AddKeeps DEF ManagerInv
    <3>3. step = "map" /\ mapped + 1 <= Len(Server.tools) /\ mapped + 1 \in Nat
      BY <1>1, <1>2, <1>6, <2>3 DEF Map, ManagerInv, StartedInv
    <3>4. StartedInv' BY <2>1, <3>1, <3>3 DEF ManagerInv, StartedInv
    <3> QED BY <3>2, <3>4 DEF ManagerInv
  <2> QED BY <2>2, <2>3
<1>7. CASE ReadTool
  <2>1. NamesInv'
    <3>1. CASE Server.resources
      <4> DEFINE name == Reserved(Server.part \o Generated)
      <4>1. AddTool(name, Generated) BY <1>7, <3>1 DEF ReadTool
      <4>2. name \notin names
        <5>1. IsSequence(Server.part \o Generated) BY <1>7, Bases DEF ManagerInv, ReadTool
        <5> QED BY <5>1, OneIsFree DEF ManagerInv
      <4> HIDE DEF name
      <4> QED BY <4>1, <4>2, AddKeeps DEF ManagerInv
    <3>2. CASE ~Server.resources BY <1>7, <3>2, NamesRest DEF ReadTool, ManagerInv
    <3> QED BY <3>1, <3>2
  <2>2. position <= Len(configs) /\ started = 1 .. position BY <1>7 DEF ReadTool, ManagerInv, StartedInv
  <2>3. position' = position + 1 /\ step' = "start" /\ UNCHANGED <<configs, mapped, started>> BY <1>7 DEF ReadTool
  <2>4. position + 1 - 1 = position /\ position + 1 \in 1 .. Len(configs) + 1 BY <1>1, <2>2
  <2>5. StartedInv' BY <2>2, <2>3, <2>4 DEF ManagerInv, StartedInv
  <2> QED BY <2>1, <2>5 DEF ManagerInv
<1> QED BY <1>3, <1>4, <1>5, <1>6, <1>7 DEF ManagerNext, StartFails, ListFails, MapFails

\* ManagerInv holds in every state of NewManager, for any settings and tools
\* (NewManager, mapTool, reserveGeneratedToolName, Manager.Close).
THEOREM ManagerInductive == ManagerSpec => []ManagerInv
<1>1. ManagerInit => ManagerInv
  <2> SUFFICES ASSUME ManagerInit PROVE ManagerInv OBVIOUS
  <2>1. Len(configs) \in Nat BY ManagerAssumption DEF ManagerInit, IsSequence
  <2>2. <<>> \in Seq({}) /\ Len(<<>>) = 0 BY EmptySeq
  <2>3. NamesInv
    <3>1. tools = <<>> /\ names = {} /\ Len(tools) = 0 BY <2>2 DEF ManagerInit
    <3>2. IsSequence(tools) BY <2>2, <3>1, OfASeq
    <3>3. 1 .. Len(tools) = {} BY <3>1
    <3> QED BY <3>1, <3>2, <3>3 DEF NamesInv
  <2>4. StartedInv BY <2>1 DEF ManagerInit, StartedInv
  <2> QED BY <2>3, <2>4 DEF ManagerInv
<1>2. ManagerInv /\ [ManagerNext]_managerVars => ManagerInv'
  <2> SUFFICES ASSUME ManagerInv, [ManagerNext]_managerVars PROVE ManagerInv' OBVIOUS
  <2>1. CASE ManagerNext BY <2>1, ManagerStep, ManagerAssumption
  <2>2. CASE UNCHANGED managerVars
    <3>1. NamesInv' BY <2>2, NamesRest DEF managerVars, ManagerInv
    <3>2. StartedInv' BY <2>2 DEF managerVars, ManagerInv, StartedInv, Server
    <3> QED BY <3>1, <3>2 DEF ManagerInv
  <2> QED BY <2>1, <2>2
<1> QED BY <1>1, <1>2, PTL DEF ManagerSpec

\* A name leads to one tool, and a manager that could not be made leaves no
\* process, for any servers, tools and failures (NewManager).
THEOREM NamesStayUnambiguous == ManagerSpec => []NamesAreUnambiguous
<1>1. ManagerInv => NamesAreUnambiguous BY DEF ManagerInv, NamesInv, StartedInv, NamesAreUnambiguous
<1> QED BY <1>1, ManagerInductive, PTL

-----------------------------------------------------------------------------
(* GoalLoop: its values. *)

\* What a verdict leaves unfinished are titles of the checklists.
LEMMA UnfinishedAreTitles ==
  ASSUME NEW c \in Checklists
  PROVE  Unfinished(c) \in SUBSET Titles
BY DEF Unfinished, Titles

\* Records of a goal that nobody started (Model.goal nil, no goroutine).
LEMMA NothingTyped ==
  /\ NoGoal \in Models /\ NoRecord \in GoalRecords /\ Unborn \in LoopStates
  /\ Unborn.pc = "unborn" /\ Unborn.goal = "none"
  /\ Unborn.n = 0 /\ Unborn.prev = {} /\ Unborn.stuck = 0
BY DEF NoGoal, Models, NoRecord, GoalRecords, Unborn, LoopStates, Checklists, Pcs

\* A loop that returned keeps its goal and says how.
LEMMA GoneTyped ==
  ASSUME NEW s \in LoopStates, NEW status \in Outcomes \cup {"killed"}
  PROVE  Gone(s, status) \in LoopStates /\ Gone(s, status).pc = status /\ Gone(s, status).goal = s.goal
<1>1. s.goal \in Goals \cup {"none"} /\ status \in Pcs BY DEF LoopStates, Pcs
<1> QED BY <1>1 DEF Gone, Unborn, LoopStates, Checklists

\* Tokens are counted where there is a budget.
LEMMA SpendTyped ==
  ASSUME NEW t \in Nat
  PROVE  Spend(t) \in Nat
BY DEF Spend

LEMMA SpentTyped ==
  ASSUME NEW s \in LoopStates
  PROVE  LET t == [s EXCEPT !.tokens = Spend(@)]
         IN  /\ t \in LoopStates
             /\ t.goal = s.goal /\ t.list = s.list /\ t.start = s.start /\ t.n = s.n
             /\ t.iterations = s.iterations /\ t.prev = s.prev /\ t.stuck = s.stuck /\ t.pc = s.pc
<1>1. Spend(s.tokens) \in Nat BY SpendTyped DEF LoopStates
<1> QED BY <1>1 DEF LoopStates

-----------------------------------------------------------------------------
(* What a step of a loop does to the store and to the TUI. *)

\* checkpoint writes the state it is given, to the record of its goal, or is lost.
LEMMA CheckpointWrites ==
  ASSUME GoalTypeOK, NEW s \in LoopStates, NEW status \in Outcomes \cup {"running"},
         Checkpoint(s, status) \/ (status = "running" /\ NoCheckpoint)
  PROVE  /\ record' \in [Goals -> GoalRecords] /\ faults' \in Nat
         /\ faults' = 0 => faults = 0
         /\ \A g \in Goals :
              \/ record'[g] = record[g] /\ (faults' # 0 \/ g # s.goal \/ status = "running")
              \/ g = s.goal /\ record'[g].status = status /\ record'[g].list = s.list
<1> DEFINE r == [status |-> status, list |-> s.list, iterations |-> s.iterations]
<1>1. r \in GoalRecords BY DEF GoalRecords, LoopStates
<1>2. CASE NoCheckpoint /\ status = "running"
  BY <1>2 DEF NoCheckpoint, GoalTypeOK
<1>3. CASE faults < MaxLosses /\ faults' = faults + 1 /\ UNCHANGED <<record, recency>>
  BY <1>3 DEF GoalTypeOK
<1>4. CASE record' = [record EXCEPT ![s.goal] = r] /\ UNCHANGED faults
  <2>1. record' \in [Goals -> GoalRecords] BY <1>1, <1>4 DEF GoalTypeOK
  <2>2. \A g \in Goals : record'[g] = IF g = s.goal THEN r ELSE record[g]
    BY <1>4 DEF GoalTypeOK
  <2> QED BY <1>4, <2>1, <2>2 DEF GoalTypeOK
<1> QED BY <1>2, <1>3, <1>4 DEF Checkpoint

\* A loop that is alive writes "running" while it goes on, and how it ended when it
\* returns; "achieved" with a checklist that is all done.
LEMMA RecordsKept ==
  ASSUME GoalTypeOK, AchievedIsAudited, RunningIsAlive,
         NEW l \in Loops, Alive(l), NEW s \in LoopStates, NEW t \in LoopStates,
         s.goal = loop[l].goal, t.goal = s.goal, loop' = [loop EXCEPT ![l] = t],
         NEW status \in Outcomes \cup {"running"},
         Checkpoint(s, status) \/ (status = "running" /\ NoCheckpoint),
         status = "running" => t.pc \notin Outcomes \cup {"unborn", "killed"},
         status # "running" => t.pc = status,
         status = "achieved" => AllDone(s.list)
  PROVE  AchievedIsAudited' /\ RunningIsAlive'
<1>1. /\ record' \in [Goals -> GoalRecords] /\ faults' \in Nat
      /\ faults' = 0 => faults = 0
      /\ \A g \in Goals :
           \/ record'[g] = record[g] /\ (faults' # 0 \/ g # s.goal \/ status = "running")
           \/ g = s.goal /\ record'[g].status = status /\ record'[g].list = s.list
  BY CheckpointWrites
<1>2. loop' \in [Loops -> LoopStates] /\ \A k \in Loops : loop'[k] = IF k = l THEN t ELSE loop[k]
  BY DEF GoalTypeOK
<1>3. AchievedIsAudited'
  <2> SUFFICES ASSUME NEW g \in Goals, record'[g].status = "achieved"
               PROVE  /\ AllDone(record'[g].list)
                      /\ \E k \in Loops : loop'[k].pc = "achieved" /\ loop'[k].goal = g
    BY DEF AchievedIsAudited, AllDone
  <2>1. CASE record'[g] = record[g]
    <3>1. PICK k \in Loops : loop[k].pc = "achieved" /\ loop[k].goal = g
      BY <2>1 DEF AchievedIsAudited
    <3>2. k # l BY <3>1 DEF Alive, Outcomes
    <3>3. AllDone(record[g].list) BY <2>1 DEF AchievedIsAudited
    <3> QED BY <1>2, <2>1, <3>1, <3>2, <3>3
  <2>2. CASE g = s.goal /\ record'[g].status = status /\ record'[g].list = s.list
    <3>1. status = "achieved" BY <2>2
    <3> QED BY <1>2, <2>2, <3>1
  <2> QED BY <1>1, <2>1, <2>2
<1>4. RunningIsAlive'
  <2> SUFFICES ASSUME faults' = 0, NEW g \in Goals, record'[g].status = "running"
               PROVE  \E k \in Loops : loop'[k].goal = g /\ loop'[k].pc \notin Outcomes \cup {"unborn", "killed"}
    BY DEF RunningIsAlive, Alive
  <2>1. CASE g = s.goal /\ status = "running" BY <1>2, <2>1
  <2>2. CASE record'[g] = record[g] /\ g # s.goal
    <3>1. PICK k \in Loops : loop[k].goal = g /\ Alive(k)
      BY <1>1, <2>2 DEF RunningIsAlive
    <3>2. k # l BY <2>2, <3>1
    <3> QED BY <1>2, <3>1, <3>2 DEF Alive
  <2> QED BY <1>1, <2>1, <2>2
<1> QED BY <1>3, <1>4

\* A message to the TUI leaves it a Model, if it was handed one.
LEMMA MirrorTyped ==
  ASSUME GoalTypeOK, NEW goal \in Models, Mirror(goal)
  PROVE  tui' \in Models
BY NothingTyped DEF Mirror, GoalTypeOK

LEMMA GoalDoneTyped ==
  ASSUME GoalTypeOK, NEW s \in LoopStates, NEW status \in Outcomes, GoalDone(s, status)
  PROVE  tui' \in Models
<1> DEFINE c == IF s.list = NoList THEN tui.list ELSE s.list
           i == IF s.iterations > tui.iteration THEN s.iterations ELSE tui.iteration
           x == IF status = "paused" /\ tui.paused THEN tui.status
                ELSE IF status = "paused" THEN "errored" ELSE status
           m == [tui EXCEPT !.running = FALSE, !.list = c, !.iteration = i, !.status = x]
<1>1. tui \in Models BY DEF GoalTypeOK
<1>2. c \in Checklists /\ i \in Nat BY <1>1 DEF Models, LoopStates
<1>3. x \in Outcomes \cup {""} BY <1>1 DEF Models, Outcomes
<1>4. m \in Models BY <1>1, <1>2, <1>3 DEF Models
<1>5. Mirror(m) BY DEF GoalDone
<1> QED BY <1>4, <1>5, MirrorTyped

\* A step of one loop keeps the types and the counts, if it does so of its own.
LEMMA OneLoopSteps ==
  ASSUME GoalTypeOK, CountsAreTrue, NEW l \in Loops, NEW t \in LoopStates, NEW h \in Seq(SUBSET Titles),
         loop' = [loop EXCEPT ![l] = t], seen' = [seen EXCEPT ![l] = h], Counts(t, h),
         tui' \in Models, record' \in [Goals -> GoalRecords], faults' \in Nat, UNCHANGED budget
  PROVE  GoalTypeOK' /\ CountsAreTrue'
<1>1. GoalTypeOK' BY DEF GoalTypeOK
<1>2. \A k \in Loops : loop'[k] = (IF k = l THEN t ELSE loop[k]) /\ seen'[k] = (IF k = l THEN h ELSE seen[k])
  BY DEF GoalTypeOK
<1>3. \A k \in Loops : Counts(loop'[k], seen'[k]) BY <1>2 DEF CountsAreTrue
<1> QED BY <1>1, <1>3 DEF CountsAreTrue, Counts, RoundsBefore, RoundsAfter, StuckFor, Streak, NoProgress, Unfinished

-----------------------------------------------------------------------------
(* Verdicts. *)

LEMMA LimitPositive == NoProgressLimit \in Nat /\ NoProgressLimit >= 1
BY GoalAssumption

\* The history keeps its end: what was the same so far is the same with a verdict more.
LEMMA RecentKeeps ==
  ASSUME NEW h \in Seq(SUBSET Titles), NEW u \in SUBSET Titles, Len(h) <= NoProgressLimit + 1,
         NEW r, r = Recent(Append(h, u))
  PROVE  /\ r \in Seq(SUBSET Titles) /\ r # <<>> /\ r[Len(r)] = u
         /\ Len(r) <= NoProgressLimit + 1 /\ Streak(r, 1)
         /\ \A k \in Nat : k <= NoProgressLimit /\ Streak(h, k) /\ h # <<>> /\ h[Len(h)] = u
              => Streak(r, k + 1)
<1> DEFINE a == Append(h, u)
           d == IF Len(a) > NoProgressLimit + 1 THEN 1 ELSE 0
<1>1. NoProgressLimit \in Nat /\ NoProgressLimit >= 1 BY LimitPositive
<1>2. PICK n \in Nat : n = Len(h) OBVIOUS
<1>3. a \in Seq(SUBSET Titles) /\ Len(a) = n + 1 /\ a[n + 1] = u /\ \A i \in 1 .. n : a[i] = h[i]
  BY <1>2
<1>4. d \in {0, 1} /\ d = (IF n = NoProgressLimit + 1 THEN 1 ELSE 0) /\ n <= NoProgressLimit + 1
  BY <1>1, <1>2, <1>3
<1>5. r = SubSeq(a, d + 1, n + 1) BY <1>3, <1>4 DEF Recent
<1> HIDE DEF a, d
<1>6. /\ r \in Seq(SUBSET Titles) /\ Len(r) = n + 1 - d
      /\ \A i \in 1 .. n + 1 - d : r[i] = a[i + d]
  BY <1>1, <1>3, <1>4, <1>5, SubSeqProperties
<1>7. n + 1 - d \in Nat \ {0} /\ n + 1 - d <= NoProgressLimit + 1 BY <1>1, <1>4
<1>8. r[n + 1 - d] = u BY <1>3, <1>4, <1>6, <1>7
<1>9. r # <<>> /\ r[Len(r)] = u /\ Len(r) <= NoProgressLimit + 1 BY <1>6, <1>7, <1>8
<1>10. Streak(r, 1) BY <1>6, <1>7 DEF Streak
<1>11. ASSUME NEW k \in Nat, k <= NoProgressLimit, Streak(h, k), h # <<>>, h[Len(h)] = u
       PROVE  Streak(r, k + 1)
  <2>1. k <= n /\ \A i \in n - k + 1 .. n : h[i] = u BY <1>2, <1>11 DEF Streak
  <2>2. k + 1 <= n + 1 - d BY <1>1, <1>4, <1>11, <2>1
  <2>3. ASSUME NEW i \in (n + 1 - d) - (k + 1) + 1 .. n + 1 - d
        PROVE  r[i] = u
    <3>1. i \in 1 .. n + 1 - d /\ i + d \in n - k + 1 .. n + 1 /\ i + d \in Nat \ {0}
      BY <1>4, <2>2, <2>3
    <3>2. r[i] = a[i + d] BY <1>6, <3>1
    <3>3. CASE i + d = n + 1 BY <1>3, <3>2, <3>3
    <3>4. CASE i + d # n + 1
      <4>1. i + d \in n - k + 1 .. n /\ i + d \in 1 .. n BY <3>1, <3>4
      <4> QED BY <1>3, <2>1, <3>2, <4>1
    <3> QED BY <3>3, <3>4
  <2> QED BY <1>6, <1>9, <2>2, <2>3 DEF Streak
<1> QED BY <1>6, <1>9, <1>10, <1>11

\* The state after a verdict, against the one before it.
LEMMA VerdictCounts ==
  ASSUME NEW s \in LoopStates, NEW h \in Seq(SUBSET Titles), NEW u \in SUBSET Titles, NEW r,
         NEW t \in LoopStates, Len(h) <= NoProgressLimit + 1, RoundsBefore(s, h),
         s.iterations = s.start + s.n, r = Recent(Append(h, u)), Unfinished(t.list) = u,
         t.start = s.start, t.n = s.n, t.iterations = s.iterations, t.prev = s.prev, t.stuck = s.stuck
  PROVE  RoundsAfter(t, r)
<1>1. NoProgressLimit \in Nat /\ NoProgressLimit >= 1 BY LimitPositive
<1>2. /\ r \in Seq(SUBSET Titles) /\ r # <<>> /\ r[Len(r)] = u /\ Streak(r, 1)
      /\ \A k \in Nat : k <= NoProgressLimit /\ Streak(h, k) /\ h # <<>> /\ h[Len(h)] = u
           => Streak(r, k + 1)
  BY RecentKeeps
<1>3. s.start \in Nat /\ s.n \in Nat /\ s.stuck \in Nat /\ s.iterations \in Nat BY DEF LoopStates
<1>4. PICK p \in Nat : p = NoProgress(t) BY <1>3 DEF NoProgress
<1>5. CASE ~(t.iterations > 1 /\ Unfinished(t.list) = t.prev)
  <2>1. p = 0 BY <1>4, <1>5 DEF NoProgress
  <2> QED BY <1>1, <1>2, <1>4, <2>1 DEF RoundsAfter, StuckFor
<1>6. CASE t.iterations > 1 /\ Unfinished(t.list) = t.prev
  <2>1. p = s.stuck + 1 /\ u = s.prev BY <1>4, <1>6 DEF NoProgress
  <2>2. CASE s.n = 0
    <3>1. s.stuck = 0 /\ s.prev = {} /\ s.start > 1 BY <1>3, <1>6, <2>2 DEF RoundsBefore
    <3>2. p = 1 /\ u = {} BY <2>1, <3>1
    <3> QED BY <1>1, <1>2, <1>4, <3>1, <3>2 DEF RoundsAfter, StuckFor
  <2>3. CASE s.n # 0
    <3>1. h # <<>> /\ s.prev = h[Len(h)] /\ s.stuck < NoProgressLimit /\ StuckFor(s.stuck, h, s.start)
      BY <2>3 DEF RoundsBefore
    <3>2. p <= NoProgressLimit /\ h[Len(h)] = u BY <1>1, <1>3, <2>1, <3>1
    <3>3. CASE Streak(h, s.stuck + 1)
      <4>1. Streak(r, p + 1) BY <1>2, <1>4, <2>1, <3>1, <3>2, <3>3
      <4> QED BY <1>2, <1>4, <3>2, <4>1 DEF RoundsAfter, StuckFor
    <3>4. CASE s.start > 1 /\ h[Len(h)] = {} /\ Streak(h, s.stuck)
      <4>1. s.stuck <= NoProgressLimit BY <1>1, <1>3, <3>1
      <4>2. Streak(r, p) BY <1>2, <1>3, <2>1, <3>1, <3>2, <3>4, <4>1
      <4>3. t.start > 1 /\ r[Len(r)] = {} BY <1>2, <3>2, <3>4
      <4> QED BY <1>2, <1>4, <3>2, <4>2, <4>3 DEF RoundsAfter, StuckFor
    <3> QED BY <3>1, <3>3, <3>4 DEF StuckFor
  <2> QED BY <2>2, <2>3
<1> QED BY <1>5, <1>6

-----------------------------------------------------------------------------
(* Steps of a loop. *)

\* What is known of a loop that takes a step.
LEMMA LoopTyped ==
  ASSUME GoalInv, NEW l \in Loops
  PROVE  /\ loop[l] \in LoopStates /\ seen[l] \in Seq(SUBSET Titles) /\ Counts(loop[l], seen[l])
         /\ GoalTypeOK /\ AchievedIsAudited /\ RunningIsAlive /\ CountsAreTrue
BY DEF GoalInv, GoalTypeOK, CountsAreTrue

\* A loop that returns.
LEMMA LoopReturns ==
  ASSUME GoalInv, NEW l \in Loops, Alive(l), NEW s \in LoopStates, s.goal = loop[l].goal,
         NEW status \in Outcomes, Finish(l, s, status), status = "achieved" => AllDone(s.list),
         UNCHANGED budget
  PROVE  GoalInv'
<1> DEFINE t == Gone(s, status)
<1>1. t \in LoopStates /\ t.pc = status /\ t.goal = s.goal BY GoneTyped
<1>2. status \notin {"running", "unborn", "plan", "top", "maker", "checker", "decide"} BY DEF Outcomes
<1>3. /\ loop' = [loop EXCEPT ![l] = t] /\ seen' = [seen EXCEPT ![l] = <<>>]
      /\ Checkpoint(s, status) /\ GoalDone(s, status)
  BY DEF Finish
<1> HIDE DEF t
<1>4. AchievedIsAudited' /\ RunningIsAlive'
  BY LoopTyped, <1>1, <1>2, <1>3, RecordsKept
<1>5. tui' \in Models BY LoopTyped, <1>3, GoalDoneTyped
<1>6. record' \in [Goals -> GoalRecords] /\ faults' \in Nat BY LoopTyped, <1>3, CheckpointWrites
<1>7. Counts(t, <<>>) /\ <<>> \in Seq(SUBSET Titles) BY <1>1, <1>2, LimitPositive DEF Counts
<1>8. GoalTypeOK' /\ CountsAreTrue' BY LoopTyped, <1>1, <1>3, <1>5, <1>6, <1>7, OneLoopSteps
<1> QED BY <1>4, <1>8 DEF GoalInv

\* A loop that goes on.
LEMMA LoopGoesOn ==
  ASSUME GoalInv, NEW l \in Loops, Alive(l), NEW t \in LoopStates, NEW h \in Seq(SUBSET Titles),
         t.goal = loop[l].goal, t.pc \notin Outcomes \cup {"unborn", "killed"},
         loop' = [loop EXCEPT ![l] = t], seen' = [seen EXCEPT ![l] = h], Counts(t, h),
         Checkpoint(t, "running") \/ NoCheckpoint, tui' \in Models, UNCHANGED budget
  PROVE  GoalInv'
<1>1. AchievedIsAudited' /\ RunningIsAlive' BY LoopTyped, RecordsKept
<1>2. record' \in [Goals -> GoalRecords] /\ faults' \in Nat BY LoopTyped, CheckpointWrites
<1>3. GoalTypeOK' /\ CountsAreTrue' BY LoopTyped, <1>2, OneLoopSteps
<1> QED BY <1>1, <1>3 DEF GoalInv

LEMMA SeenRests ==
  ASSUME GoalTypeOK, NEW l \in Loops, UNCHANGED seen
  PROVE  seen' = [seen EXCEPT ![l] = seen[l]]
BY DEF GoalTypeOK

LEMMA ShowsTyped ==
  ASSUME GoalTypeOK
  PROVE  /\ \A c \in Checklists : [tui EXCEPT !.list = c] \in Models
         /\ \A i \in Nat : [tui EXCEPT !.iteration = i] \in Models
BY DEF GoalTypeOK, Models

LEMMA PlanStep ==
  ASSUME GoalInv, NEW l \in Loops, Plan(l)
  PROVE  GoalInv'
<1> DEFINE s == loop[l]
<1>1. /\ s \in LoopStates /\ seen[l] \in Seq(SUBSET Titles) /\ Counts(s, seen[l]) /\ GoalTypeOK
      /\ s.pc = "plan"
  BY LoopTyped DEF Plan
<1>2. PICK c \in Checklists :
        /\ loop' = [loop EXCEPT ![l] = Planned(s, c)]
        /\ Checkpoint(Planned(s, c), "running")
        /\ Mirror([tui EXCEPT !.list = c])
  BY <1>1 DEF Plan, Checklists, LoopStates
<1>3. UNCHANGED <<budget, seen>> BY DEF Plan
<1>4. Spend(s.tokens) \in Nat BY <1>1, SpendTyped DEF LoopStates
<1>5. PICK t : t = Planned(s, c) OBVIOUS
<1>6. /\ t \in LoopStates /\ t.goal = s.goal /\ t.pc = "top"
      /\ t.n = s.n /\ t.prev = s.prev /\ t.stuck = s.stuck
  BY <1>1, <1>4, <1>5 DEF Planned, LoopStates, Pcs
<1>7. seen[l] = <<>> /\ s.n = 0 /\ s.prev = {} /\ s.stuck = 0 BY <1>1 DEF Counts
<1>8. Counts(t, seen[l]) BY <1>1, <1>6, <1>7 DEF Counts, RoundsBefore
<1>9. tui' \in Models BY <1>1, <1>2, ShowsTyped, MirrorTyped
<1>10. Alive(l) BY <1>1 DEF Alive, Outcomes
<1>11. t.pc \notin Outcomes \cup {"unborn", "killed"} BY <1>6 DEF Outcomes
<1>12. seen' = [seen EXCEPT ![l] = seen[l]] BY <1>1, <1>3, SeenRests
<1> QED BY <1>1, <1>2, <1>3, <1>5, <1>6, <1>8, <1>9, <1>10, <1>11, <1>12, LoopGoesOn

LEMMA TopStep ==
  ASSUME GoalInv, NEW l \in Loops, Top(l)
  PROVE  GoalInv'
<1>1. loop[l] \in LoopStates /\ loop[l].pc = "top" BY LoopTyped DEF Top
<1>2. Alive(l) BY <1>1 DEF Alive, Outcomes
<1>3. UNCHANGED budget BY DEF Top
<1>4. loop[l].n \in Nat /\ MaxIterations \in Nat BY <1>1, GoalAssumption DEF LoopStates
<1>5. PICK status \in {"max_iterations", "paused", "budget_limited"} : Finish(l, loop[l], status)
  BY <1>4 DEF Top
<1>6. status \in Outcomes /\ status # "achieved" BY DEF Outcomes
<1> QED BY <1>1, <1>2, <1>3, <1>5, <1>6, LoopReturns

LEMMA IterateStep ==
  ASSUME GoalInv, NEW l \in Loops, Iterate(l)
  PROVE  GoalInv'
<1> DEFINE s == loop[l]
<1>1. /\ s \in LoopStates /\ seen[l] \in Seq(SUBSET Titles) /\ Counts(s, seen[l]) /\ GoalTypeOK
      /\ s.pc = "top"
  BY LoopTyped DEF Iterate
<1>2. PICK i \in Nat : i = s.start + s.n BY <1>1 DEF LoopStates
<1>3. PICK t : t = [s EXCEPT !.pc = "maker", !.iterations = i] OBVIOUS
<1>4. /\ t \in LoopStates /\ t.goal = s.goal /\ t.pc = "maker" /\ t.iterations = i
      /\ t.n = s.n /\ t.prev = s.prev /\ t.stuck = s.stuck /\ t.start = s.start
  BY <1>1, <1>3 DEF LoopStates, Pcs
<1>5. /\ loop' = [loop EXCEPT ![l] = t] /\ Mirror([tui EXCEPT !.iteration = i])
      /\ NoCheckpoint /\ UNCHANGED <<budget, seen>>
  BY <1>2, <1>3 DEF Iterate
<1>6. Counts(t, seen[l]) BY <1>1, <1>2, <1>4 DEF Counts, RoundsBefore
<1>7. tui' \in Models BY <1>1, <1>5, ShowsTyped, MirrorTyped
<1>8. Alive(l) BY <1>1 DEF Alive, Outcomes
<1>9. t.pc \notin Outcomes \cup {"unborn", "killed"} BY <1>4 DEF Outcomes
<1>10. seen' = [seen EXCEPT ![l] = seen[l]] BY <1>1, <1>5, SeenRests
<1> QED BY <1>1, <1>4, <1>5, <1>6, <1>7, <1>8, <1>9, <1>10, LoopGoesOn

\* pauseOrErrored.
LEMMA PauseOrErroredStep ==
  ASSUME GoalInv, NEW l \in Loops, Alive(l), NEW s \in LoopStates, s.goal = loop[l].goal,
         PauseOrErrored(l, s), UNCHANGED budget
  PROVE  GoalInv'
<1>1. PICK status \in {"paused", "errored"} : Finish(l, s, status) BY DEF PauseOrErrored
<1>2. status \in Outcomes /\ status # "achieved" BY DEF Outcomes
<1> QED BY <1>1, <1>2, LoopReturns

LEMMA MakerStep ==
  ASSUME GoalInv, NEW l \in Loops, Maker(l)
  PROVE  GoalInv'
<1> DEFINE b == loop[l]
<1>1. /\ b \in LoopStates /\ seen[l] \in Seq(SUBSET Titles) /\ Counts(b, seen[l]) /\ GoalTypeOK
  BY LoopTyped
<1>2. PICK s : s = [b EXCEPT !.tokens = Spend(@)] OBVIOUS
<1>3. /\ s \in LoopStates /\ s.goal = b.goal /\ s.start = b.start /\ s.n = b.n
      /\ s.iterations = b.iterations /\ s.prev = b.prev /\ s.stuck = b.stuck /\ s.pc = b.pc
  BY <1>1, <1>2, SpentTyped
<1>4. /\ s.pc = "maker" /\ UNCHANGED budget
      /\ \/ loop' = [loop EXCEPT ![l] = [s EXCEPT !.pc = "checker"]] /\ NoCheckpoint /\ UNCHANGED <<tui, seen>>
         \/ PauseOrErrored(l, s)
  BY <1>2 DEF Maker, Silent
<1>5. Alive(l) BY <1>3, <1>4 DEF Alive, Outcomes
<1>6. CASE PauseOrErrored(l, s) BY <1>3, <1>4, <1>5, <1>6, PauseOrErroredStep
<1>7. CASE loop' = [loop EXCEPT ![l] = [s EXCEPT !.pc = "checker"]] /\ NoCheckpoint /\ UNCHANGED <<tui, seen>>
  <2>1. PICK t : t = [s EXCEPT !.pc = "checker"] OBVIOUS
  <2>2. /\ t \in LoopStates /\ t.goal = b.goal /\ t.pc = "checker" /\ t.iterations = b.iterations
        /\ t.n = b.n /\ t.prev = b.prev /\ t.stuck = b.stuck /\ t.start = b.start
    BY <1>3, <2>1 DEF LoopStates, Pcs
  <2>3. b.pc = "maker" BY <1>3, <1>4
  <2>4. Counts(t, seen[l]) BY <1>1, <2>2, <2>3 DEF Counts, RoundsBefore
  <2>5. tui' \in Models BY <1>1, <1>7 DEF GoalTypeOK
  <2>6. t.pc \notin Outcomes \cup {"unborn", "killed"} BY <2>2 DEF Outcomes
  <2>7. seen' = [seen EXCEPT ![l] = seen[l]] BY <1>1, <1>7, SeenRests
  <2> QED BY <1>1, <1>4, <1>5, <1>7, <2>1, <2>2, <2>4, <2>5, <2>6, <2>7, LoopGoesOn
<1> QED BY <1>4, <1>6, <1>7

LEMMA CheckerStep ==
  ASSUME GoalInv, NEW l \in Loops, Checker(l)
  PROVE  GoalInv'
<1> DEFINE b == loop[l]
<1>1. /\ b \in LoopStates /\ seen[l] \in Seq(SUBSET Titles) /\ Counts(b, seen[l]) /\ GoalTypeOK
  BY LoopTyped
<1>2. PICK s : s = [b EXCEPT !.tokens = Spend(@)] OBVIOUS
<1>3. /\ s \in LoopStates /\ s.goal = b.goal /\ s.list = b.list /\ s.start = b.start /\ s.n = b.n
      /\ s.iterations = b.iterations /\ s.prev = b.prev /\ s.stuck = b.stuck /\ s.pc = b.pc
  BY <1>1, <1>2, SpentTyped
<1>4. s.pc = "checker" /\ UNCHANGED budget BY <1>2 DEF Checker
<1>5. Alive(l) BY <1>3, <1>4 DEF Alive, Outcomes
<1>6. CASE PauseOrErrored(l, s) BY <1>3, <1>4, <1>5, <1>6, PauseOrErroredStep
<1>7. CASE ~PauseOrErrored(l, s)
  <2>1. PICK done \in BOOLEAN, items \in Lists \cup {NoList} :
          LET c == IF items = NoList THEN s.list ELSE items
          IN  /\ loop' = [loop EXCEPT ![l] = Audited(s, c, done)]
              /\ seen' = [seen EXCEPT ![l] = Recent(Append(seen[l], Unfinished(c)))]
              /\ Checkpoint(Audited(s, c, done), "running")
              /\ Mirror([tui EXCEPT !.list = c])
    BY <1>2, <1>7 DEF Checker
  <2>2. PICK c \in Checklists :
              /\ loop' = [loop EXCEPT ![l] = Audited(s, c, done)]
              /\ seen' = [seen EXCEPT ![l] = Recent(Append(seen[l], Unfinished(c)))]
              /\ Checkpoint(Audited(s, c, done), "running")
              /\ Mirror([tui EXCEPT !.list = c])
    BY <1>3, <2>1 DEF Checklists, LoopStates
  <2>3. PICK t : t = Audited(s, c, done) OBVIOUS
  <2>4. /\ t \in LoopStates /\ t.goal = b.goal /\ t.pc = "decide" /\ t.list = c
        /\ t.iterations = b.iterations /\ t.n = b.n /\ t.prev = b.prev /\ t.stuck = b.stuck /\ t.start = b.start
    BY <1>3, <2>3 DEF Audited, LoopStates, Pcs
  <2>5. PICK u \in SUBSET Titles : u = Unfinished(c) BY UnfinishedAreTitles
  <2>6. PICK r : r = Recent(Append(seen[l], u)) OBVIOUS
  <2>7. Len(seen[l]) <= NoProgressLimit + 1 /\ RoundsBefore(b, seen[l]) /\ b.iterations = b.start + b.n
    BY <1>1, <1>3, <1>4 DEF Counts
  <2>8. RoundsAfter(t, r) BY <1>1, <2>4, <2>5, <2>6, <2>7, VerdictCounts
  <2>9. r \in Seq(SUBSET Titles) /\ Len(r) <= NoProgressLimit + 1 BY <1>1, <2>6, <2>7, RecentKeeps
  <2>10. Counts(t, r) BY <2>4, <2>7, <2>8, <2>9 DEF Counts
  <2>11. tui' \in Models BY <1>1, <2>2, ShowsTyped, MirrorTyped
  <2>12. t.pc \notin Outcomes \cup {"unborn", "killed"} BY <2>4 DEF Outcomes
  <2> QED BY <1>4, <1>5, <2>2, <2>3, <2>4, <2>5, <2>6, <2>9, <2>10, <2>11, <2>12, LoopGoesOn
<1> QED BY <1>6, <1>7

LEMMA DecideStep ==
  ASSUME GoalInv, NEW l \in Loops, Decide(l)
  PROVE  GoalInv'
<1> DEFINE b == loop[l]
<1>1. /\ b \in LoopStates /\ seen[l] \in Seq(SUBSET Titles) /\ Counts(b, seen[l]) /\ GoalTypeOK
      /\ b.pc = "decide" /\ UNCHANGED budget
  BY LoopTyped DEF Decide
<1>2. b.list \in Checklists /\ b.stuck \in Nat BY <1>1 DEF LoopStates
<1>3. PICK p \in Nat : p = NoProgress(b) BY <1>2 DEF NoProgress
<1>4. PICK u \in SUBSET Titles : u = Unfinished(b.list) BY <1>2, UnfinishedAreTitles
<1>5. PICK s : s = Judged(b) OBVIOUS
<1>6. /\ s \in LoopStates /\ s.goal = b.goal /\ s.list = b.list /\ s.start = b.start /\ s.n = b.n
      /\ s.iterations = b.iterations /\ s.prev = u /\ s.stuck = p
  BY <1>1, <1>3, <1>4, <1>5 DEF Judged, LoopStates
<1>7. Alive(l) BY <1>1 DEF Alive, Outcomes
<1>8. CASE Achieved(s) /\ Finish(l, s, "achieved")
  <2>1. AllDone(s.list) /\ "achieved" \in Outcomes BY <1>8 DEF Achieved, Outcomes
  <2> QED BY <1>1, <1>6, <1>7, <1>8, <2>1, LoopReturns
<1>9. CASE Finish(l, s, "blocked")
  <2>1. "blocked" \in Outcomes BY DEF Outcomes
  <2> QED BY <1>1, <1>6, <1>7, <1>9, <2>1, LoopReturns
<1>10. CASE /\ s.stuck < NoProgressLimit /\ loop' = [loop EXCEPT ![l] = Continued(s)]
            /\ NoCheckpoint /\ UNCHANGED <<tui, seen>>
  <2>1. PICK t : t = Continued(s) OBVIOUS
  <2>2. /\ t \in LoopStates /\ t.goal = b.goal /\ t.pc = "top" /\ t.start = b.start
        /\ t.n = b.n + 1 /\ t.prev = u /\ t.stuck = p
    <3>1. NextRound(s) \in Nat /\ NextRound(s) = b.n + 1 BY <1>1, <1>6 DEF NextRound, LoopStates
    <3> QED BY <1>6, <2>1, <3>1 DEF Continued, LoopStates, Pcs
  <2>3. b.n \in Nat BY <1>1 DEF LoopStates
  <2>4. /\ Len(seen[l]) <= NoProgressLimit + 1 /\ seen[l] # <<>> /\ u = seen[l][Len(seen[l])]
        /\ StuckFor(p, seen[l], b.start)
    BY <1>1, <1>3, <1>4 DEF Counts, RoundsAfter
  <2>5. RoundsBefore(t, seen[l]) BY <1>6, <1>10, <2>2, <2>3, <2>4 DEF RoundsBefore
  <2>6. Counts(t, seen[l]) BY <2>2, <2>4, <2>5 DEF Counts
  <2>7. tui' \in Models BY <1>1, <1>10 DEF GoalTypeOK
  <2>8. t.pc \notin Outcomes \cup {"unborn", "killed"} BY <2>2 DEF Outcomes
  <2>9. seen' = [seen EXCEPT ![l] = seen[l]] BY <1>1, <1>10, SeenRests
  <2> QED BY <1>1, <1>7, <1>10, <2>1, <2>2, <2>6, <2>7, <2>8, <2>9, LoopGoesOn
<1>11. \/ Achieved(s) /\ Finish(l, s, "achieved")
       \/ Finish(l, s, "blocked")
       \/ /\ s.stuck < NoProgressLimit /\ loop' = [loop EXCEPT ![l] = Continued(s)]
          /\ NoCheckpoint /\ UNCHANGED <<tui, seen>>
  BY <1>3, <1>5, <1>6, LimitPositive DEF Decide, Silent
<1> QED BY <1>8, <1>9, <1>10, <1>11

-----------------------------------------------------------------------------
(* Steps of the TUI. *)

\* startGoal takes a goroutine that there was not.
LEMMA StartGoalStep ==
  ASSUME GoalInv, NEW g \in Goals \cup {"none"}, NEW c \in Checklists, NEW start \in Nat,
         start >= 1, StartGoal(g, c, start)
  PROVE  GoalInv'
<1>0. GoalTypeOK /\ AchievedIsAudited /\ RunningIsAlive /\ CountsAreTrue BY DEF GoalInv
<1>1. PICK l \in Loops :
        /\ loop[l] = Unborn
        /\ loop' = [loop EXCEPT ![l] = [Unborn EXCEPT !.pc = "plan", !.goal = g, !.list = c, !.start = start]]
        /\ tui' = [NoGoal EXCEPT !.goal = g, !.cancels = l, !.running = TRUE,
                                 !.iteration = start - 1, !.list = c]
        /\ NoCheckpoint /\ UNCHANGED <<budget, opened, seen>>
  BY DEF StartGoal
<1>2. PICK t : t = [Unborn EXCEPT !.pc = "plan", !.goal = g, !.list = c, !.start = start] OBVIOUS
<1>3. /\ t \in LoopStates /\ t.goal = g /\ t.pc = "plan" /\ t.n = 0 /\ t.prev = {} /\ t.stuck = 0
  BY <1>2 DEF Unborn, LoopStates, Pcs
<1>4. loop' = [loop EXCEPT ![l] = t] BY <1>1, <1>2
<1>5. \A k \in Loops : loop'[k] = IF k = l THEN t ELSE loop[k] BY <1>0, <1>4 DEF GoalTypeOK
<1>6. l \in Nat /\ start - 1 \in Nat BY DEF Loops
<1>7. tui' \in Models BY <1>1, <1>6 DEF NoGoal, Models
<1>8. seen' = [seen EXCEPT ![l] = seen[l]] /\ seen[l] \in Seq(SUBSET Titles)
  BY <1>0, <1>1, SeenRests DEF GoalTypeOK
<1>9. UNCHANGED <<record, faults, budget>> BY <1>1 DEF NoCheckpoint
<1>10. seen[l] = <<>> /\ Len(seen[l]) <= NoProgressLimit + 1
  BY <1>0, <1>1, NothingTyped DEF CountsAreTrue, Counts
<1>11. Counts(t, seen[l]) BY <1>3, <1>10 DEF Counts
<1>12. record' \in [Goals -> GoalRecords] /\ faults' \in Nat BY <1>0, <1>9 DEF GoalTypeOK
<1>13. GoalTypeOK' /\ CountsAreTrue'
  BY <1>0, <1>3, <1>4, <1>7, <1>8, <1>9, <1>11, <1>12, OneLoopSteps
<1>14. AchievedIsAudited'
  <2> SUFFICES ASSUME NEW h \in Goals, record[h].status = "achieved"
               PROVE  /\ AllDone(record[h].list)
                      /\ \E k \in Loops : loop'[k].pc = "achieved" /\ loop'[k].goal = h
    BY <1>9 DEF AchievedIsAudited, AllDone
  <2>1. AllDone(record[h].list) BY <1>0 DEF AchievedIsAudited
  <2>2. PICK k \in Loops : loop[k].pc = "achieved" /\ loop[k].goal = h BY <1>0 DEF AchievedIsAudited
  <2>3. k # l BY <1>1, <2>2, NothingTyped
  <2> QED BY <1>5, <2>1, <2>2, <2>3
<1>15. RunningIsAlive'
  <2> SUFFICES ASSUME faults = 0, NEW h \in Goals, record[h].status = "running"
               PROVE  \E k \in Loops : loop'[k].goal = h /\ loop'[k].pc \notin Outcomes \cup {"unborn", "killed"}
    BY <1>9 DEF RunningIsAlive, Alive
  <2>1. PICK k \in Loops : loop[k].goal = h /\ Alive(k) BY <1>0 DEF RunningIsAlive
  <2>2. k # l BY <1>1, <2>1, NothingTyped DEF Alive
  <2> QED BY <1>5, <2>1, <2>2 DEF Alive
<1> QED BY <1>13, <1>14, <1>15 DEF GoalInv

LEMMA NewGoalStep ==
  ASSUME GoalInv, NewGoal
  PROVE  GoalInv'
<1> DEFINE fresh == Goals \ {loop[l].goal : l \in Loops}
<1>1. fresh # {} /\ StartGoal(CHOOSE g \in fresh : TRUE, NoList, 1) BY DEF NewGoal
<1>2. PICK g \in Goals : StartGoal(g, NoList, 1) BY <1>1
<1>3. NoList \in Checklists BY DEF Checklists
<1> QED BY <1>2, <1>3, StartGoalStep

LEMMA ResumeStep ==
  ASSUME GoalInv, Resume
  PROVE  GoalInv'
<1>1. tui.goal \in Goals \cup {"none"} /\ tui.list \in Checklists /\ tui.iteration \in Nat
  BY DEF GoalInv, GoalTypeOK, Models
<1>2. tui.iteration + 1 \in Nat /\ tui.iteration + 1 >= 1 BY <1>1
<1>3. StartGoal(tui.goal, tui.list, tui.iteration + 1) BY DEF Resume
<1> QED BY <1>1, <1>2, <1>3, StartGoalStep

LEMMA ResumeStoredStep ==
  ASSUME GoalInv, ResumeStored
  PROVE  GoalInv'
<1>1. PICK g \in Goals : StartGoal(g, record[g].list, record[g].iterations + 1) BY DEF ResumeStored
<1>2. record[g] \in GoalRecords BY DEF GoalInv, GoalTypeOK
<1>3. record[g].list \in Checklists /\ record[g].iterations \in Nat BY <1>2 DEF GoalRecords
<1>4. record[g].iterations + 1 \in Nat /\ record[g].iterations + 1 >= 1 BY <1>3
<1> QED BY <1>1, <1>3, <1>4, StartGoalStep

\* A loop that is told to stop does so later.
LEMMA CancelledKeeps ==
  ASSUME GoalInv, UNCHANGED loop \/ Cancelled, UNCHANGED <<record, faults, budget, seen>>, tui' \in Models
  PROVE  GoalInv'
<1>0. GoalTypeOK /\ AchievedIsAudited /\ RunningIsAlive /\ CountsAreTrue BY DEF GoalInv
<1>1. /\ loop' \in [Loops -> LoopStates]
      /\ \A k \in Loops :
           /\ loop'[k].pc = loop[k].pc /\ loop'[k].goal = loop[k].goal /\ loop'[k].list = loop[k].list
           /\ loop'[k].n = loop[k].n /\ loop'[k].prev = loop[k].prev /\ loop'[k].stuck = loop[k].stuck
           /\ loop'[k].start = loop[k].start /\ loop'[k].iterations = loop[k].iterations
  <2>1. CASE UNCHANGED loop BY <1>0, <2>1 DEF GoalTypeOK
  <2>2. CASE Cancelled
    <3>1. CASE tui.cancels \in Loops
      <4>1. PICK j \in Loops : j = tui.cancels BY <3>1
      <4>2. loop[j] \in LoopStates BY <1>0 DEF GoalTypeOK
      <4>3. PICK t : t = [loop[j] EXCEPT !.cancelled = TRUE] OBVIOUS
      <4>4. /\ t \in LoopStates /\ t.pc = loop[j].pc /\ t.goal = loop[j].goal /\ t.list = loop[j].list
            /\ t.n = loop[j].n /\ t.prev = loop[j].prev /\ t.stuck = loop[j].stuck
            /\ t.start = loop[j].start /\ t.iterations = loop[j].iterations
        BY <4>2, <4>3 DEF LoopStates
      <4>5. loop' = [loop EXCEPT ![j] = t] BY <2>2, <4>1, <4>3 DEF Cancelled
      <4>6. \A k \in Loops : loop'[k] = IF k = j THEN t ELSE loop[k] BY <1>0, <4>5 DEF GoalTypeOK
      <4> QED BY <1>0, <4>4, <4>5, <4>6 DEF GoalTypeOK
    <3>2. CASE tui.cancels \notin Loops
      <4>1. loop' = loop BY <1>0, <2>2, <3>2 DEF Cancelled, GoalTypeOK
      <4> QED BY <1>0, <4>1 DEF GoalTypeOK
    <3> QED BY <3>1, <3>2
  <2> QED BY <2>1, <2>2
<1>2. GoalTypeOK' BY <1>0, <1>1 DEF GoalTypeOK
<1>3. AchievedIsAudited' BY <1>0, <1>1 DEF AchievedIsAudited, AllDone
<1>4. RunningIsAlive' BY <1>0, <1>1 DEF RunningIsAlive, Alive
<1>5. ASSUME NEW k \in Loops
      PROVE  Counts(loop'[k], seen[k])
  <2>1. PICK b : b = loop[k] OBVIOUS
  <2>2. PICK t : t = loop'[k] OBVIOUS
  <2>3. Counts(b, seen[k]) BY <1>0, <2>1 DEF CountsAreTrue
  <2>4. /\ t.pc = b.pc /\ t.list = b.list /\ t.n = b.n /\ t.prev = b.prev /\ t.stuck = b.stuck
        /\ t.start = b.start /\ t.iterations = b.iterations
    BY <1>1, <2>1, <2>2
  <2>5. Unfinished(t.list) = Unfinished(b.list) /\ NoProgress(t) = NoProgress(b)
    BY <2>4 DEF NoProgress, Unfinished
  <2>6. Counts(t, seen[k]) BY <2>3, <2>4, <2>5 DEF Counts, RoundsBefore, RoundsAfter
  <2> QED BY <2>2, <2>6
<1>6. \A k \in Loops : Counts(loop'[k], seen'[k]) BY <1>5
<1>7. CountsAreTrue' BY <1>6
  DEF CountsAreTrue, Counts, RoundsBefore, RoundsAfter, StuckFor, Streak, NoProgress, Unfinished
<1> QED BY <1>2, <1>3, <1>4, <1>7 DEF GoalInv

LEMMA PauseStep ==
  ASSUME GoalInv, Pause
  PROVE  GoalInv'
<1>1. tui' \in Models BY DEF Pause, GoalInv, GoalTypeOK, Models
<1> QED BY <1>1, CancelledKeeps DEF Pause, NoCheckpoint

LEMMA ClearStep ==
  ASSUME GoalInv, Clear
  PROVE  GoalInv'
<1>1. tui' \in Models BY NothingTyped DEF Clear
<1> QED BY <1>1, CancelledKeeps DEF Clear, NoCheckpoint

\* The process ends: nothing is alive any more, and that counts as a loss.
LEMMA QuitStep ==
  ASSUME GoalInv, Quit
  PROVE  GoalInv'
<1>0. GoalTypeOK /\ AchievedIsAudited /\ RunningIsAlive /\ CountsAreTrue BY DEF GoalInv
<1>1. /\ faults' = faults + 1 /\ tui' = NoGoal /\ UNCHANGED <<record, budget>>
      /\ loop' = [l \in Loops |-> IF Alive(l) THEN Gone(loop[l], "killed") ELSE loop[l]]
      /\ seen' = [l \in Loops |-> <<>>]
  BY DEF Quit
<1>2. ASSUME NEW l \in Loops
      PROVE  /\ loop'[l] \in LoopStates /\ Counts(loop'[l], <<>>)
             /\ ~Alive(l) => loop'[l] = loop[l]
  <2>1. loop[l] \in LoopStates /\ Counts(loop[l], seen[l]) BY <1>0 DEF GoalTypeOK, CountsAreTrue
  <2>2. CASE Alive(l)
    <3>1. PICK t : t = Gone(loop[l], "killed") OBVIOUS
    <3>2. t \in LoopStates /\ t.pc = "killed" BY <2>1, <3>1, GoneTyped
    <3>3. Counts(t, <<>>) BY <3>2, LimitPositive DEF Counts
    <3>4. loop'[l] = t BY <1>1, <2>2, <3>1
    <3> QED BY <2>2, <3>2, <3>3, <3>4
  <2>3. CASE ~Alive(l)
    <3>1. loop'[l] = loop[l] BY <1>1, <2>3
    <3>2. loop[l].pc \notin {"plan", "top", "maker", "checker", "decide"} BY <2>3 DEF Alive, Outcomes
    <3>3. Counts(loop[l], <<>>) BY <2>1, <3>2, LimitPositive DEF Counts
    <3> QED BY <2>1, <3>1, <3>3
  <2> QED BY <2>2, <2>3
<1>3. GoalTypeOK'
  <2>1. <<>> \in Seq(SUBSET Titles) OBVIOUS
  <2>2. seen' \in [Loops -> Seq(SUBSET Titles)] BY <1>1, <2>1
  <2>3. loop' \in [Loops -> LoopStates] BY <1>1, <1>2
  <2> QED BY <1>0, <1>1, <2>2, <2>3, NothingTyped DEF GoalTypeOK
<1>4. AchievedIsAudited'
  <2> SUFFICES ASSUME NEW h \in Goals, record[h].status = "achieved"
               PROVE  /\ AllDone(record[h].list)
                      /\ \E k \in Loops : loop'[k].pc = "achieved" /\ loop'[k].goal = h
    BY <1>1 DEF AchievedIsAudited, AllDone
  <2>1. AllDone(record[h].list) BY <1>0 DEF AchievedIsAudited
  <2>2. PICK k \in Loops : loop[k].pc = "achieved" /\ loop[k].goal = h BY <1>0 DEF AchievedIsAudited
  <2>3. ~Alive(k) BY <2>2 DEF Alive, Outcomes
  <2> QED BY <1>2, <2>1, <2>2, <2>3
<1>5. RunningIsAlive' BY <1>0, <1>1 DEF GoalTypeOK, RunningIsAlive
<1>6. \A k \in Loops : Counts(loop'[k], seen'[k]) BY <1>1, <1>2
<1>7. CountsAreTrue' BY <1>6
  DEF CountsAreTrue, Counts, RoundsBefore, RoundsAfter, StuckFor, Streak, NoProgress, Unfinished
<1> QED BY <1>3, <1>4, <1>5, <1>7 DEF GoalInv

LEMMA GoalStutter == ASSUME GoalInv, UNCHANGED goalVars PROVE GoalInv'
<1>1. UNCHANGED <<loop, record, tui, budget, seen, faults>> BY DEF goalVars
<1>2. tui' \in Models BY <1>1 DEF GoalInv, GoalTypeOK
<1> QED BY <1>1, <1>2, CancelledKeeps

-----------------------------------------------------------------------------
LEMMA GoalStart == GoalInit => GoalInv
<1> SUFFICES ASSUME GoalInit PROVE GoalInv OBVIOUS
<1>1. \A l \in Loops : loop[l] = Unborn /\ seen[l] = <<>> BY DEF GoalInit
<1>2. \A g \in Goals : record[g].status = "none" BY DEF GoalInit, NoRecord
<1>3. GoalTypeOK
  <2>1. <<>> \in Seq(SUBSET Titles) OBVIOUS
  <2> QED BY <2>1, NothingTyped DEF GoalInit, GoalTypeOK
<1>4. Counts(Unborn, <<>>) BY NothingTyped, LimitPositive DEF Counts
<1>5. AchievedIsAudited /\ RunningIsAlive BY <1>2 DEF AchievedIsAudited, RunningIsAlive
<1> QED BY <1>1, <1>3, <1>4, <1>5 DEF GoalInv, CountsAreTrue

LEMMA GoalNextStep == GoalInv /\ [GoalNext]_goalVars => GoalInv'
<1> SUFFICES ASSUME GoalInv, [GoalNext]_goalVars PROVE GoalInv' OBVIOUS
<1>1. CASE UNCHANGED goalVars BY <1>1, GoalStutter
<1>2. ASSUME NEW l \in Loops, Step(l) PROVE GoalInv'
  BY <1>2, PlanStep, TopStep, IterateStep, MakerStep, CheckerStep, DecideStep DEF Step
<1>3. CASE User
  BY <1>3, NewGoalStep, ResumeStep, ResumeStoredStep, PauseStep, ClearStep DEF User
<1>4. CASE Quit BY <1>4, QuitStep
<1> QED BY <1>1, <1>2, <1>3, <1>4 DEF GoalNext

\* The goals, their loops and their records keep the invariant, for any checklists,
\* limits, budgets and number of goroutines, whatever is paused, cleared, resumed,
\* lost or killed.
THEOREM GoalInductive == GoalSpec => []GoalInv
BY GoalStart, GoalNextStep, PTL DEF GoalSpec

\* A record says "achieved" only with a checklist a checker found all done, and not
\* "running" once no loop is left that could end it (checkpoint, PursueGoal).
THEOREM RecordsStayTrue == GoalSpec => []RecordsAreTrue
<1>1. GoalInv => RecordsAreTrue
  BY DEF GoalInv, RecordsAreTrue, RunningIsAlive, RecordSaysItEnded, Alive
<1> QED BY <1>1, GoalInductive, PTL

\* A loop that gives up as blocked saw the same unfinished items that often
\* (PursueGoal, NoProgressLimit).
THEOREM BlockedStayStuck == GoalSpec => BlockedMeansStuck
<1>1. GoalInv /\ [GoalNext]_goalVars => BlockedStep
  <2> SUFFICES ASSUME GoalInv, [GoalNext]_goalVars, NEW l \in Loops, Decide(l), loop'[l].pc = "blocked"
               PROVE  LET k    == Len(seen[l])
                          same == IF seen[l][k] = {} /\ loop[l].start > 1 THEN NoProgressLimit ELSE NoProgressLimit + 1
                      IN  k >= same /\ \A i \in k - same + 1 .. k : seen[l][i] = seen[l][k]
    BY DEF BlockedStep
  <2> DEFINE b == loop[l]
             h == seen[l]
  <2>1. /\ b \in LoopStates /\ h \in Seq(SUBSET Titles) /\ Counts(b, h) /\ GoalTypeOK /\ b.pc = "decide"
    BY LoopTyped DEF Decide
  <2>2. b.stuck \in Nat /\ b.start \in Nat BY <2>1 DEF LoopStates
  <2>3. PICK p \in Nat : p = NoProgress(b) BY <2>2 DEF NoProgress
  <2>4. RoundsAfter(b, h) BY <2>1 DEF Counts
  <2>5. PICK s : s = Judged(b) OBVIOUS
  <2>6. s.stuck = p BY <2>1, <2>3, <2>5 DEF Judged, LoopStates
  <2>7. p >= NoProgressLimit
    <3> SUFFICES ASSUME ~(p >= NoProgressLimit) PROVE FALSE OBVIOUS
    <3>1. PICK t : t \in {Gone(s, "achieved"), Continued(s)} /\ loop' = [loop EXCEPT ![l] = t]
      BY <2>5, <2>6 DEF Decide, Finish
    <3>2. t.pc = "achieved" \/ t.pc = "top"
      <4>1. CASE t = Gone(s, "achieved") BY <4>1 DEF Gone, Unborn
      <4>2. CASE t = Continued(s)
        <5>1. t = [s EXCEPT !.pc = "top", !.n = NextRound(s), !.done = FALSE] BY <4>2 DEF Continued
        <5>2. s = [b EXCEPT !.stuck = NoProgress(b), !.prev = Unfinished(b.list)] BY <2>5 DEF Judged
        <5> QED BY <2>1, <5>1, <5>2 DEF LoopStates
      <4> QED BY <3>1, <4>1, <4>2
    <3>3. loop'[l] = t BY <2>1, <3>1 DEF GoalTypeOK
    <3> QED BY <3>2, <3>3
  <2>8. p = NoProgressLimit /\ StuckFor(p, h, b.start) BY <2>2, <2>3, <2>4, <2>7, LimitPositive DEF RoundsAfter
  <2>9. PICK k \in Nat : k = Len(h) BY <2>1
  <2>10. CASE Streak(h, p + 1) BY <2>8, <2>9, <2>10, LimitPositive DEF Streak
  <2>11. CASE b.start > 1 /\ h[Len(h)] = {} /\ Streak(h, p)
    BY <2>8, <2>9, <2>11, LimitPositive DEF Streak
  <2> QED BY <2>8, <2>10, <2>11 DEF StuckFor
<1> QED BY <1>1, GoalInductive, PTL DEF GoalSpec, BlockedMeansStuck

-----------------------------------------------------------------------------
(* FileEdits, for one session and any number of calls and foreign changes. *)

LEMMA FilesStart == FilesInit => FilesInv
<1> SUFFICES ASSUME FilesInit PROVE FilesInv OBVIOUS
<1>1. FilesTypeOK BY DEF FilesInit, FilesTypeOK
<1>2. \A s \in Sessions : running[s] = NoTool BY DEF FilesInit
<1>3. EditsAreInformed BY DEF FilesInit, EditsAreInformed
<1> QED BY <1>1, <1>2, <1>3 DEF FilesInv

\* A session that runs a tool runs the only one, and its record is a call.
LEMMA TheCall ==
  ASSUME FilesInv, OneSession, NEW s \in Sessions, running[s] # NoTool
  PROVE  /\ running[s] \in ToolCalls /\ CallInv(running[s])
         /\ \A t \in Sessions : t = s
         /\ Changing = IF running[s].tool = "read_file" THEN {} ELSE {s}
<1>1. running[s] \in ToolCalls /\ CallInv(running[s]) BY DEF FilesInv, FilesTypeOK
<1>2. \A t \in Sessions : t = s BY DEF OneSession
<1> QED BY <1>1, <1>2 DEF Changing

\* A program that is not the agent changes the file.
LEMMA ForeignStep == ASSUME FilesInv, OneSession, ForeignChange PROVE FilesInv'
<1>0. FilesTypeOK /\ EditsAreInformed BY DEF FilesInv
<1>1. mtime' = mtime + 1 /\ text' = text \cup {mtime + 1} /\ mtime \in Nat /\ mtime > 0
  BY <1>0 DEF ForeignChange, FilesTypeOK
<1>2. UNCHANGED <<ledger, running, begun, looked, since>> BY DEF ForeignChange
<1>3. foreign' \subseteq foreign \cup {mtime + 1} /\ foreign \subseteq foreign'
      /\ (Changing # {} => foreign' = foreign) BY <1>1 DEF ForeignChange
<1>4. FilesTypeOK'
  <2>1. running' \in [Sessions -> {NoTool} \cup ToolCalls']
    <3>1. ToolCalls \subseteq ToolCalls'
      <4> SUFFICES ASSUME NEW c \in ToolCalls PROVE c \in ToolCalls' OBVIOUS
      <4>1. c.time \in 1 .. mtime + 1 /\ c.data \subseteq 1 .. mtime + 1
        BY <1>1 DEF ToolCalls
      <4>2. c = [tool |-> c.tool, time |-> c.time, data |-> c.data, pc |-> c.pc] /\ c.tool \in Tools
            /\ c.pc \in {"data", "rename", "stat", "record"} BY DEF ToolCalls
      <4> QED BY <1>1, <4>1, <4>2 DEF ToolCalls, Tools
    <3> QED BY <1>0, <1>2, <3>1 DEF FilesTypeOK
  <2>2. made' \in Nat BY <1>0 DEF ForeignChange, FilesTypeOK
  <2>3. text' \subseteq 1 .. mtime' /\ foreign' \subseteq 1 .. mtime' /\ looked' \subseteq 1 .. mtime'
    BY <1>0, <1>1, <1>2, <1>3 DEF FilesTypeOK
  <2> QED BY <1>0, <1>1, <1>2, <2>1, <2>2, <2>3 DEF FilesTypeOK
<1>5. EditsAreInformed' BY <1>0, <1>1, <1>2 DEF EditsAreInformed, FilesTypeOK
<1>6. ASSUME NEW s \in Sessions, running'[s] # NoTool PROVE CallInv(running[s])'
  <2>1. running[s] \in ToolCalls /\ CallInv(running[s])
        /\ Changing = IF running[s].tool = "read_file" THEN {} ELSE {s}
    BY <1>2, <1>6, TheCall
  <2> DEFINE c == running[s]
  <2>2. c = running'[s] BY <1>2
  <2>3. c.time \in 1 .. mtime BY <2>1 DEF ToolCalls
  <2>4. CASE c.tool = "read_file" BY <1>1, <2>1, <2>2, <2>3, <2>4 DEF CallInv
  <2>5. CASE c.tool # "read_file"
    <3>1. foreign' = foreign BY <1>3, <2>1, <2>5
    <3>2. foreign \cap text' = foreign \cap text BY <1>0, <1>1 DEF FilesTypeOK
    <3> QED BY <1>2, <2>1, <2>2, <2>5, <3>1, <3>2 DEF CallInv, Informed
  <2> QED BY <2>4, <2>5
<1> QED BY <1>4, <1>5, <1>6 DEF FilesInv

\* A call that changes nothing but where it is and what it took of the file.
LEMMA CallGoesOn ==
  ASSUME FilesInv, OneSession, NEW s \in Sessions, NEW c \in {NoTool} \cup ToolCalls,
         running' = [running EXCEPT ![s] = c], begun' \in Nat,
         UNCHANGED <<mtime, text, ledger, foreign, made, looked, since>>,
         c # NoTool => CallInv(c)
  PROVE  FilesInv'
<1>1. FilesTypeOK' BY DEF FilesInv, FilesTypeOK, ToolCalls
<1>2. EditsAreInformed' BY DEF FilesInv, EditsAreInformed
<1>3. ASSUME NEW t \in Sessions, running'[t] # NoTool PROVE CallInv(running[t])'
  <2>1. t = s BY DEF OneSession
  <2>2. running'[t] = c BY <2>1 DEF FilesInv, FilesTypeOK
  <2> QED BY <1>3, <2>2 DEF CallInv, Informed
<1> QED BY <1>1, <1>2, <1>3 DEF FilesInv

LEMMA StatStep ==
  ASSUME FilesInv, OneSession, NEW s \in Sessions, NEW tool \in Tools, Stat(s, tool) PROVE FilesInv'
<1>0. FilesTypeOK /\ EditsAreInformed /\ begun' \in Nat BY DEF FilesInv, FilesTypeOK, Stat
<1>1. CASE tool = "edit_file" /\ Stale(mtime)
  <2>1. running' = [running EXCEPT ![s] = running[s]] BY <1>0, <1>1 DEF Stat, FilesTypeOK
  <2>2. running[s] = NoTool BY DEF Stat
  <2> QED BY <1>0, <2>1, <2>2, CallGoesOn DEF Stat
<1>2. CASE ~(tool = "edit_file" /\ Stale(mtime))
  <2> DEFINE c == [tool |-> tool, time |-> mtime, data |-> {}, pc |-> IF tool = "write_file" THEN "rename" ELSE "data"]
  <2>1. running' = [running EXCEPT ![s] = c] BY <1>2 DEF Stat
  <2>2. c \in ToolCalls BY <1>0 DEF ToolCalls, FilesTypeOK
  <2>3. c.tool = "edit_file" /\ ledger # 0 => Informed(text)
    BY <1>0, <1>2 DEF Stale, EditsAreInformed, Informed
  <2>4. CallInv(c)
    <3>1. CASE tool = "write_file" BY <3>1 DEF CallInv, Informed
    <3>2. CASE tool = "edit_file" BY <3>2, <2>3 DEF CallInv
    <3>3. CASE tool = "read_file" BY <3>3 DEF CallInv
    <3> QED BY <3>1, <3>2, <3>3 DEF Tools
  <2> HIDE DEF c
  <2> QED BY <1>0, <2>1, <2>2, <2>4, CallGoesOn DEF Stat
<1> QED BY <1>1, <1>2

LEMMA DataStep == ASSUME FilesInv, OneSession, NEW s \in Sessions, Data(s) PROVE FilesInv'
<1>0. FilesTypeOK /\ running[s] # NoTool BY DEF FilesInv, Data, NoTool
<1>1. running[s] \in ToolCalls /\ CallInv(running[s]) BY <1>0, TheCall
<1> DEFINE c == [running[s] EXCEPT !.data = text, !.pc = IF running[s].tool = "read_file" THEN "record" ELSE "rename"]
<1>2. running' = [running EXCEPT ![s] = c] BY DEF Data
<1>3. c \in ToolCalls
  <2>1. text \in SUBSET (1 .. mtime) BY <1>0 DEF FilesTypeOK
  <2> QED BY <1>1, <2>1 DEF ToolCalls
<1>4. CallInv(c)
  <2>1. c.tool = running[s].tool /\ c.data = text /\ c.time = running[s].time BY <1>1 DEF ToolCalls
  <2>2. c.pc = IF c.tool = "read_file" THEN "record" ELSE "rename" BY <1>1 DEF ToolCalls
  <2>3. running[s].pc = "data" BY DEF Data
  <2> QED BY <1>1, <2>1, <2>2, <2>3 DEF CallInv
<1> HIDE DEF c
<1> QED BY <1>0, <1>2, <1>3, <1>4, CallGoesOn DEF Data, FilesTypeOK

LEMMA RefuseStep == ASSUME FilesInv, OneSession, NEW s \in Sessions, Refuse(s) PROVE FilesInv'
<1>0. FilesTypeOK BY DEF FilesInv
<1> QED BY <1>0, CallGoesOn DEF Refuse, FilesTypeOK

\* The file is now what the call had of it.
LEMMA RenameStep == ASSUME FilesInv, OneSession, NEW s \in Sessions, Rename(s) PROVE FilesInv'
<1>0. FilesTypeOK /\ EditsAreInformed /\ running[s] # NoTool BY DEF FilesInv, Rename, NoTool
<1> DEFINE c == running[s]
           d == [running[s] EXCEPT !.pc = "stat"]
<1>1. c \in ToolCalls /\ CallInv(c) /\ \A t \in Sessions : t = s BY <1>0, TheCall
<1>2. mtime' = mtime + 1 /\ text' = c.data \cup {mtime + 1} /\ mtime \in Nat /\ mtime > 0
      /\ running' = [running EXCEPT ![s] = d] /\ c.pc = "rename"
      /\ UNCHANGED <<ledger, begun, foreign, made, looked, since>>
  BY <1>0 DEF Rename, FilesTypeOK
<1>3. c.tool # "read_file" BY <1>1, <1>2 DEF CallInv
<1>4. /\ d.tool = c.tool /\ d.time = c.time /\ d.data = c.data /\ d.pc = "stat"
      /\ c.data \subseteq 1 .. mtime /\ c.time \in 1 .. mtime /\ c.tool \in Tools
      /\ d = [tool |-> d.tool, time |-> d.time, data |-> d.data, pc |-> d.pc]
  BY <1>1 DEF ToolCalls
<1>5. running'[s] = d BY <1>0, <1>2 DEF FilesTypeOK
<1>6. FilesTypeOK'
  <2>1. d.time \in 1 .. mtime' /\ d.data \subseteq 1 .. mtime' BY <1>2, <1>4
  <2>2. d \in ToolCalls' BY <1>4, <2>1 DEF ToolCalls, Tools
  <2>3. running' \in [Sessions -> {NoTool} \cup ToolCalls'] BY <1>0, <1>1, <1>2, <1>5, <2>2 DEF FilesTypeOK
  <2>4. text' \subseteq 1 .. mtime' /\ foreign' \subseteq 1 .. mtime' /\ looked' \subseteq 1 .. mtime'
    BY <1>0, <1>2, <1>4 DEF FilesTypeOK
  <2> QED BY <1>0, <1>2, <2>3, <2>4 DEF FilesTypeOK
<1>7. EditsAreInformed' BY <1>0, <1>2 DEF EditsAreInformed, FilesTypeOK
<1>8. CallInv(running[s])'
  <2>1. foreign \cap text' = foreign \cap c.data BY <1>0, <1>2 DEF FilesTypeOK
  <2>2. ledger # 0 => Informed(c.data) BY <1>1, <1>2, <1>3 DEF CallInv
  <2>3. ledger' # 0 => Informed(text)' BY <1>2, <2>1, <2>2 DEF Informed
  <2> HIDE DEF d
  <2> QED BY <1>3, <1>4, <1>5, <2>3 DEF CallInv
<1> QED BY <1>1, <1>6, <1>7, <1>8 DEF FilesInv

LEMMA StatAgainStep == ASSUME FilesInv, OneSession, NEW s \in Sessions, StatAgain(s) PROVE FilesInv'
<1>0. FilesTypeOK /\ running[s] # NoTool BY DEF FilesInv, StatAgain, NoTool
<1>1. running[s] \in ToolCalls /\ CallInv(running[s]) BY <1>0, TheCall
<1> DEFINE c == [running[s] EXCEPT !.pc = "record", !.time = mtime]
<1>2. running' = [running EXCEPT ![s] = c] /\ running[s].pc = "stat" BY DEF StatAgain
<1>3. c \in ToolCalls
  <2>1. mtime \in 1 .. mtime BY <1>0 DEF FilesTypeOK
  <2> QED BY <1>1, <2>1 DEF ToolCalls
<1>4. c.tool = running[s].tool /\ c.time = mtime /\ c.pc = "record" BY <1>1 DEF ToolCalls
<1>5. c.tool # "read_file" BY <1>1, <1>2, <1>4 DEF CallInv
<1>6. \A f \in foreign : f <= mtime BY <1>0 DEF FilesTypeOK
<1> HIDE DEF c
<1>7. CallInv(c) BY <1>1, <1>2, <1>4, <1>5, <1>6 DEF CallInv
<1> QED BY <1>0, <1>2, <1>3, <1>7, CallGoesOn DEF StatAgain, FilesTypeOK

\* The ledger gets the time of what the call knows.
LEMMA RecordStep == ASSUME FilesInv, OneSession, NEW s \in Sessions, Record(s) PROVE FilesInv'
<1>0. FilesTypeOK /\ EditsAreInformed /\ running[s] # NoTool BY DEF FilesInv, Record, NoTool
<1> DEFINE c == running[s]
<1>1. c \in ToolCalls /\ CallInv(c) /\ \A t \in Sessions : t = s BY <1>0, TheCall
<1>2. c.time \in 1 .. mtime /\ c.data \subseteq 1 .. mtime /\ c.pc = "record" BY <1>1 DEF ToolCalls, Record
<1>3. /\ ledger' = c.time /\ since' = IF ledger = 0 THEN c.time ELSE since
      /\ looked' = IF c.tool = "read_file" THEN looked \cup c.data ELSE looked
      /\ running' = [running EXCEPT ![s] = NoTool] /\ UNCHANGED <<mtime, text, begun, foreign, made>>
  BY DEF Record
<1>4. FilesTypeOK'
  <2>1. running' \in [Sessions -> {NoTool} \cup ToolCalls'] BY <1>0, <1>3 DEF FilesTypeOK, ToolCalls
  <2>2. since' \in 0 .. mtime' /\ ledger' \in 0 .. mtime' BY <1>0, <1>2, <1>3 DEF FilesTypeOK
  <2>3. looked' \subseteq 1 .. mtime' BY <1>0, <1>2, <1>3 DEF FilesTypeOK
  <2> QED BY <1>0, <1>3, <2>1, <2>2, <2>3 DEF FilesTypeOK
<1>5. EditsAreInformed'
  <2>1. CASE c.tool = "read_file"
    <3>1. c.time = mtime => text \subseteq c.data BY <1>1, <1>2, <2>1 DEF CallInv
    <3> QED BY <1>3, <2>1, <3>1 DEF EditsAreInformed
  <2>2. CASE c.tool # "read_file" /\ ledger # 0
    <3>1. Informed(text) BY <1>1, <1>2, <2>2 DEF CallInv
    <3> QED BY <1>3, <2>2, <3>1 DEF EditsAreInformed, Informed
  <2>3. CASE c.tool # "read_file" /\ ledger = 0
    <3>1. \A f \in foreign : f <= c.time BY <1>1, <1>2, <2>3 DEF CallInv
    <3>2. \A f \in foreign : ~(f > c.time) BY <1>0, <1>2, <3>1 DEF FilesTypeOK
    <3> QED BY <1>3, <2>3, <3>2 DEF EditsAreInformed
  <2> QED BY <2>1, <2>2, <2>3
<1>6. \A t \in Sessions : running'[t] = NoTool BY <1>0, <1>1, <1>3 DEF FilesTypeOK
<1> QED BY <1>4, <1>5, <1>6 DEF FilesInv

\* FilesInv is inductive: an edit or a write under way knows what the file it will
\* leave behind is made of, and a read that was overtaken records a time that is over.
THEOREM FilesInductive == ASSUME OneSession PROVE FilesSpec => []FilesInv
<1>1. FilesInit => FilesInv BY FilesStart
<1>2. FilesInv /\ [FilesNext]_fileVars => FilesInv'
  <2> SUFFICES ASSUME FilesInv, [FilesNext]_fileVars PROVE FilesInv' OBVIOUS
  <2>1. CASE ForeignChange BY <2>1, ForeignStep
  <2>2. ASSUME NEW s \in Sessions, \E tool \in Tools : Stat(s, tool) PROVE FilesInv' BY <2>2, StatStep
  <2>3. ASSUME NEW s \in Sessions, Data(s) PROVE FilesInv' BY <2>3, DataStep
  <2>4. ASSUME NEW s \in Sessions, Refuse(s) PROVE FilesInv' BY <2>4, RefuseStep
  <2>5. ASSUME NEW s \in Sessions, Rename(s) PROVE FilesInv' BY <2>5, RenameStep
  <2>6. ASSUME NEW s \in Sessions, StatAgain(s) PROVE FilesInv' BY <2>6, StatAgainStep
  <2>7. ASSUME NEW s \in Sessions, Record(s) PROVE FilesInv' BY <2>7, RecordStep
  <2>8. CASE UNCHANGED fileVars
    BY <2>8 DEF FilesInv, FilesTypeOK, ToolCalls, EditsAreInformed, CallInv, Informed, fileVars
  <2> QED BY <2>1, <2>2, <2>3, <2>4, <2>5, <2>6, <2>7, <2>8 DEF FilesNext
<1> QED BY <1>1, <1>2, PTL DEF FilesSpec

\* For a session of an agent that has the ledger for itself, over any number of calls
\* and of changes by other programs: an edit the ledger lets through is of a file
\* that the session has read a page of since others changed it (ReadLedger).
THEOREM EditsStayInformed == ASSUME OneSession PROVE FilesSpec => []EditsAreInformed
<1>1. FilesInv => EditsAreInformed BY DEF FilesInv
<1> QED BY <1>1, FilesInductive, PTL

-----------------------------------------------------------------------------
(* Tui, for any number of turns, requests, goal loops and switches of session. *)

Phases == {"none", "running", "pending", "done", "denied"}

\* A set of positions has a last one.
LEMMA HighestIsThere ==
  ASSUME NEW n \in Nat, NEW S \in SUBSET (1 .. n), S # {}
  PROVE  Highest(S) \in S
<1> DEFINE R == {n - i : i \in S}
<1>1. R \subseteq Nat /\ R # {}
  <2>1. \A i \in S : n - i \in Nat OBVIOUS
  <2> QED BY <2>1
<1> HIDE DEF R
<1>2. PICK r \in R : \A q \in R : ~(<<q, r>> \in OpToRel(<, Nat))
  BY <1>1, WFMin, NatLessThanWellFounded
<1>7. \A q \in R : ~(q < r) BY <1>1, <1>2 DEF OpToRel
<1>3. \A q \in R : r <= q BY <1>1, <1>7
<1>4. PICK i \in S : r = n - i BY DEF R
<1>5. \A j \in S : n - i <= n - j BY <1>3, <1>4 DEF R
<1>6. \A j \in S : j <= i BY <1>5
<1> QED BY <1>6 DEF Highest

\* A card that changes its phase.
LEMMA PhaseChanges ==
  ASSUME NEW t \in Seq(Items), NEW i \in 1 .. Len(t), NEW p \in Phases
  PROVE  LET u == [t EXCEPT ![i].phase = p]
         IN  /\ u \in Seq(Items) /\ Len(u) = Len(t)
             /\ \A k \in 1 .. Len(t) :
                  /\ u[k].kind = t[k].kind /\ u[k].turn = t[k].turn /\ u[k].call = t[k].call
                  /\ u[k].phase = IF k = i THEN p ELSE t[k].phase
<1> DEFINE u == [t EXCEPT ![i].phase = p]
           e == [t[i] EXCEPT !.phase = p]
<1>1. t[i] \in Items BY ElementOfSeq
<1>2. e \in Items /\ e.kind = t[i].kind /\ e.turn = t[i].turn /\ e.call = t[i].call /\ e.phase = p
  BY <1>1 DEF Items, Phases
<1>3. u = [t EXCEPT ![i] = e] OBVIOUS
<1> HIDE DEF e, u
<1>4. /\ u \in Seq(Items) /\ Len(u) = Len(t)
      /\ \A k \in 1 .. Len(t) : u[k] = IF k = i THEN e ELSE t[k]
  BY <1>2, <1>3, ExceptSeq
<1>5. \A k \in 1 .. Len(t) :
        /\ u[k].kind = t[k].kind /\ u[k].turn = t[k].turn /\ u[k].call = t[k].call
        /\ u[k].phase = IF k = i THEN p ELSE t[k].phase
  BY <1>2, <1>4
<1> QED BY <1>4, <1>5 DEF u

\* Transcripts that show the same of every turn: items that show nothing may follow.
SameShown(t, u) ==
  /\ u \in Seq(Items) /\ Len(t) <= Len(u)
  /\ \A k \in 1 .. Len(t) : u[k].kind = t[k].kind /\ u[k].turn = t[k].turn /\ u[k].call = t[k].call
  /\ \A k \in Len(t) + 1 .. Len(u) : u[k].kind = "tool" /\ u[k].call = "none"

LEMMA SameShownFollows ==
  ASSUME NEW t \in Seq(Items), NEW u, NEW v, SameShown(t, u), SameShown(u, v)
  PROVE  SameShown(t, v)
<1>1. Len(t) \in Nat /\ Len(u) \in Nat /\ Len(v) \in Nat BY LenProperties DEF SameShown
<1>2. /\ v \in Seq(Items) /\ Len(t) <= Len(u) /\ Len(u) <= Len(v)
      /\ \A k \in 1 .. Len(t) : u[k].kind = t[k].kind /\ u[k].turn = t[k].turn /\ u[k].call = t[k].call
      /\ \A k \in 1 .. Len(u) : v[k].kind = u[k].kind /\ v[k].turn = u[k].turn /\ v[k].call = u[k].call
      /\ \A k \in Len(t) + 1 .. Len(u) : u[k].kind = "tool" /\ u[k].call = "none"
      /\ \A k \in Len(u) + 1 .. Len(v) : v[k].kind = "tool" /\ v[k].call = "none"
  BY Zenon DEF SameShown
<1>3. \A k \in 1 .. Len(t) : k \in 1 .. Len(u) BY <1>1, <1>2
<1>4. \A k \in Len(t) + 1 .. Len(v) :
        (k \in 1 .. Len(u) /\ k \in Len(t) + 1 .. Len(u)) \/ k \in Len(u) + 1 .. Len(v)
  BY <1>1, <1>2
<1>5. Len(t) <= Len(v) BY <1>1, <1>2
<1>6. \A k \in 1 .. Len(t) : v[k].kind = t[k].kind /\ v[k].turn = t[k].turn /\ v[k].call = t[k].call
  BY <1>2, <1>3, Zenon
<1>7. ASSUME NEW k \in Len(t) + 1 .. Len(v) PROVE v[k].kind = "tool" /\ v[k].call = "none"
  <2>1. CASE k \in 1 .. Len(u) /\ k \in Len(t) + 1 .. Len(u)
    <3>1. v[k].kind = u[k].kind /\ v[k].call = u[k].call BY <1>2, <2>1, Zenon
    <3>2. u[k].kind = "tool" /\ u[k].call = "none" BY <1>2, <2>1, Zenon
    <3> QED BY <3>1, <3>2
  <2>2. CASE k \in Len(u) + 1 .. Len(v) BY <1>2, <2>2, Zenon
  <2> QED BY <1>4, <2>1, <2>2
<1> QED BY <1>2, <1>5, <1>6, <1>7, Zenon DEF SameShown

LEMMA SameShownShows ==
  ASSUME NEW t \in Seq(Items), NEW u, SameShown(t, u), NEW n, NEW e, ShowsAll(t, OfTurn(t, n), e)
  PROVE  ShowsAll(u, OfTurn(u, n), e)
<1>1. Len(t) \in Nat /\ Len(u) \in Nat BY LenProperties DEF SameShown
<1>2. \A k \in 1 .. Len(u) : k \in 1 .. Len(t) \/ k \in Len(t) + 1 .. Len(u) BY <1>1
<1>3. OfTurn(u, n) = OfTurn(t, n) BY <1>1, <1>2 DEF OfTurn, SameShown
<1>4. \A k \in OfTurn(t, n) : Shown(u[k]) = Shown(t[k]) BY DEF OfTurn, SameShown, Shown
<1> QED BY <1>3, <1>4 DEF ShowsAll

\* markPendingTool, when no card is pending: one is then.
LEMMA MarkedOne ==
  ASSUME TuiTypeOK, NEW t \in Seq(Items), Cards(t, "pending") = {}
  PROVE  /\ SameShown(t, Marked(t))
         /\ \A i, j \in Cards(Marked(t), "pending") : i = j
<1> DEFINE R == Cards(t, "running")
           h == Highest(R)
           x == Item("tool", "none", "pending")
<1>1. Len(t) \in Nat /\ R \in SUBSET (1 .. Len(t)) BY LenProperties DEF Cards
<1>2. CASE R # {}
  <2> DEFINE u == [t EXCEPT ![h].phase = "pending"]
  <2>1. h \in R /\ h \in 1 .. Len(t) BY <1>1, <1>2, HighestIsThere
  <2>2. Marked(t) = u BY <1>2 DEF Marked
  <2> HIDE DEF R, h
  <2>3. /\ u \in Seq(Items) /\ Len(u) = Len(t)
        /\ \A k \in 1 .. Len(t) :
             /\ u[k].kind = t[k].kind /\ u[k].turn = t[k].turn /\ u[k].call = t[k].call
             /\ u[k].phase = IF k = h THEN "pending" ELSE t[k].phase
    <3>1. "pending" \in Phases BY DEF Phases
    <3> QED BY <2>1, <3>1, PhaseChanges
  <2> HIDE DEF u
  <2>4. SameShown(t, u) BY <1>1, <2>3 DEF SameShown
  <2>5. \A i \in Cards(u, "pending") : i = h BY <2>3 DEF Cards
  <2> QED BY <2>2, <2>4, <2>5
<1>3. CASE R = {}
  <2>1. x \in Items /\ x.kind = "tool" /\ x.call = "none"
    <3>1. turnNum \in 0 .. turnNum BY DEF TuiTypeOK
    <3> QED BY <3>1 DEF Items, Item
  <2>2. Marked(t) = Append(t, x) BY <1>3 DEF Marked
  <2> HIDE DEF x
  <2>3. /\ Append(t, x) \in Seq(Items) /\ Len(Append(t, x)) = Len(t) + 1
        /\ \A k \in 1 .. Len(t) : Append(t, x)[k] = t[k]
        /\ Append(t, x)[Len(t) + 1] = x
    BY <2>1, AppendProperties
  <2>4. SameShown(t, Append(t, x)) BY <1>1, <2>1, <2>3 DEF SameShown
  <2>5. \A i \in Cards(Append(t, x), "pending") : i = Len(t) + 1
    <3> SUFFICES ASSUME NEW i \in Cards(Append(t, x), "pending"), i # Len(t) + 1 PROVE FALSE OBVIOUS
    <3>1. i \in 1 .. Len(t) BY <1>1, <2>3 DEF Cards
    <3>2. i \in Cards(t, "pending") BY <2>3, <3>1 DEF Cards
    <3> QED BY <3>2
  <2> QED BY <2>2, <2>4, <2>5
<1> QED BY <1>2, <1>3

\* markToolRunning, markToolDenied: no card is pending then.
LEMMA SettledAll ==
  ASSUME TuiTypeOK, CardsInv, NEW p \in {"running", "denied"}
  PROVE  SameShown(transcript, Settled(p)) /\ Cards(Settled(p), "pending") = {}
<1> DEFINE P == Cards(transcript, "pending")
           h == Highest(P)
<1>1. /\ transcript \in Seq(Items) /\ Len(transcript) \in Nat /\ P \in SUBSET (1 .. Len(transcript))
  BY LenProperties DEF TuiTypeOK, Cards
<1>2. CASE P = {}
  <2>1. Settled(p) = transcript BY <1>2 DEF Settled
  <2> QED BY <1>1, <1>2, <2>1 DEF SameShown
<1>3. CASE P # {}
  <2> DEFINE u == [transcript EXCEPT ![h].phase = p]
  <2>1. h \in P /\ h \in 1 .. Len(transcript) BY <1>1, <1>3, HighestIsThere
  <2>2. \A i \in P : i = h BY <2>1 DEF CardsInv
  <2>3. Settled(p) = u BY <1>3 DEF Settled
  <2>7. p \in Phases BY DEF Phases
  <2> HIDE DEF h
  <2>4. /\ u \in Seq(Items) /\ Len(u) = Len(transcript)
        /\ \A k \in 1 .. Len(transcript) :
             /\ u[k].kind = transcript[k].kind /\ u[k].turn = transcript[k].turn /\ u[k].call = transcript[k].call
             /\ u[k].phase = IF k = h THEN p ELSE transcript[k].phase
    BY <1>1, <2>1, <2>7, PhaseChanges
  <2> HIDE DEF u
  <2>5. SameShown(transcript, u) BY <1>1, <2>4 DEF SameShown
  <2>6. Cards(u, "pending") = {}
    <3> SUFFICES ASSUME NEW i \in Cards(u, "pending") PROVE FALSE OBVIOUS
    <3>1. i \in 1 .. Len(transcript) /\ u[i].phase = "pending" /\ u[i].kind = "tool" BY <2>4 DEF Cards
    <3>2. i # h BY <2>4, <3>1
    <3>3. i \in P BY <2>4, <3>1, <3>2 DEF Cards
    <3> QED BY <2>2, <3>2, <3>3
  <2> QED BY <2>3, <2>5, <2>6
<1> QED BY <1>2, <1>3

\* One more item at the end, one more thing shown.
LEMMA ShowsMore ==
  ASSUME NEW X, NEW t \in Seq(X), NEW x, NEW I \in SUBSET (1 .. Len(t)), NEW Y, NEW e \in Seq(Y),
         Shown(x) \in Y, ShowsAll(t, I, e)
  PROVE  ShowsAll(Append(t, x), I \cup {Len(t) + 1}, Append(e, Shown(x)))
<1> DEFINE J == I \cup {Len(t) + 1}
           Upto(K, i) == {j \in K : j <= i}
<1>1. Len(t) \in Nat /\ Len(e) \in Nat /\ IsFiniteSet(1 .. Len(t)) BY LenProperties, FS_Interval
<1>2. IsFiniteSet(I) /\ Len(t) + 1 \notin I
  <2>1. IsFiniteSet(I) BY <1>1, FS_Subset
  <2>2. Len(t) + 1 \notin 1 .. Len(t) BY <1>1
  <2> QED BY <2>1, <2>2
<1>3. Cardinality(J) = Cardinality(I) + 1 BY <1>2, FS_AddElement
<1>4. Cardinality(I) = Len(e) BY DEF ShowsAll
<1>5. /\ Len(Append(e, Shown(x))) = Len(e) + 1 /\ Append(e, Shown(x))[Len(e) + 1] = Shown(x)
      /\ \A k \in 1 .. Len(e) : Append(e, Shown(x))[k] = e[k]
  BY <1>1, AppendProperties
<1>6. /\ Append(t, x)[Len(t) + 1] = x
      /\ \A k \in 1 .. Len(t) : Append(t, x)[k] = t[k]
  BY <1>1
<1>7. ASSUME NEW i \in I PROVE Shown(Append(t, x)[i]) = Append(e, Shown(x))[Cardinality(Upto(J, i))]
  <2>1. Upto(J, i) = Upto(I, i) BY <1>1
  <2>2. Upto(I, i) \in SUBSET I /\ i \in Upto(I, i) BY <1>1
  <2>3. IsFiniteSet(Upto(I, i)) /\ Cardinality(Upto(I, i)) <= Len(e) /\ Cardinality(Upto(I, i)) \in Nat
    BY <1>2, <1>4, <2>2, FS_Subset, FS_CardinalityType
  <2>4. Cardinality(Upto(I, i)) # 0 BY <2>2, <2>3, FS_EmptySet
  <2>5. Shown(t[i]) = e[Cardinality(Upto(I, i))] BY DEF ShowsAll
  <2>6. Cardinality(Upto(I, i)) \in 1 .. Len(e) BY <1>1, <2>3, <2>4
  <2>7. Append(e, Shown(x))[Cardinality(Upto(I, i))] = e[Cardinality(Upto(I, i))] BY <1>5, <2>6
  <2>8. Append(t, x)[i] = t[i] BY <1>6
  <2> QED BY <2>1, <2>5, <2>7, <2>8
<1>8. Shown(Append(t, x)[Len(t) + 1]) = Append(e, Shown(x))[Cardinality(Upto(J, Len(t) + 1))]
  <2>1. Upto(J, Len(t) + 1) = J
    <3>1. \A j \in 1 .. Len(t) : j <= Len(t) + 1 BY <1>1
    <3>2. Len(t) + 1 <= Len(t) + 1 BY <1>1
    <3> QED BY <3>1, <3>2
  <2> QED BY <1>3, <1>4, <1>5, <1>6, <2>1
<1>9. \A i \in J : Shown(Append(t, x)[i]) = Append(e, Shown(x))[Cardinality(Upto(J, i))] BY <1>7, <1>8
<1> QED BY <1>3, <1>4, <1>5, <1>9 DEF ShowsAll

-----------------------------------------------------------------------------
(* The steps of Tui. *)

\* What a transcript that shows the same of every turn does not disturb.
LEMMA ScreenKept ==
  ASSUME TuiInv, SameShown(transcript, transcript'), UNCHANGED <<turnNum, intact, emitted>>,
         turn'.n = turn.n, turn' # NoTurn => turn # NoTurn
  PROVE  transcript' \in Seq(Items') /\ TurnIsShownInOrder'
<1>1. Items' = Items BY DEF Items
<1>2. transcript \in Seq(Items) BY DEF TuiInv, TuiTypeOK
<1>3. ASSUME turn' # NoTurn, intact' PROVE ShowsAll(transcript', OfTurn(transcript', turn'.n), emitted')
  <2>1. ShowsAll(transcript, OfTurn(transcript, turn.n), emitted) BY <1>3 DEF TuiInv, TurnIsShownInOrder
  <2>2. ShowsAll(transcript', OfTurn(transcript', turn.n), emitted) BY <1>2, <2>1, SameShownShows
  <2> QED BY <2>2
<1> QED BY <1>1, <1>3 DEF TurnIsShownInOrder, SameShown

\* An event of the turn that puts an item at the end.
LEMMA ItemComes ==
  ASSUME TuiInv, NEW x \in Items, x.turn = turnNum, x.kind \in {"assistant", "tool"},
         x.kind = "tool" => x.call # "none", x.phase # "pending", turn # NoTurn, turn'.n = turn.n,
         transcript' = Append(transcript, x), emitted' = Append(emitted, Shown(x)), UNCHANGED <<turnNum, intact>>
  PROVE  /\ transcript' \in Seq(Items') /\ Len(transcript') = Len(transcript) + 1 /\ Len(transcript) \in Nat
         /\ emitted' \in Seq(CallIds \cup {"assistant"})
         /\ \A s : (\E k \in DOMAIN emitted' : emitted'[k] = s) <=> s = Shown(x) \/ \E k \in DOMAIN emitted : emitted[k] = s
         /\ Cards(transcript', "pending") = Cards(transcript, "pending")
         /\ TurnIsShownInOrder'
<1>1. Items' = Items /\ transcript \in Seq(Items) /\ emitted \in Seq(CallIds \cup {"assistant"})
  BY DEF Items, TuiInv, TuiTypeOK
<1>2. Len(transcript) \in Nat /\ Len(emitted) \in Nat /\ DOMAIN emitted = 1 .. Len(emitted) BY <1>1, LenProperties
<1>13. Shown(x) \in CallIds \cup {"assistant"} BY DEF Shown, Items
<1>3. /\ transcript' \in Seq(Items) /\ Len(transcript') = Len(transcript) + 1
      /\ \A k \in 1 .. Len(transcript) : transcript'[k] = transcript[k]
      /\ transcript'[Len(transcript) + 1] = x
  BY <1>1, AppendProperties
<1>4. /\ emitted' \in Seq(CallIds \cup {"assistant"}) /\ Len(emitted') = Len(emitted) + 1
      /\ emitted'[Len(emitted) + 1] = Shown(x) /\ \A k \in 1 .. Len(emitted) : emitted'[k] = emitted[k]
  BY <1>1, <1>13, AppendProperties
<1>14. DOMAIN emitted' = 1 .. Len(emitted) + 1 BY <1>4, LenProperties
<1>15. DOMAIN emitted' = DOMAIN emitted \cup {Len(emitted) + 1} BY <1>2, <1>14
<1>5. \A s : (\E k \in DOMAIN emitted' : emitted'[k] = s) <=> s = Shown(x) \/ \E k \in DOMAIN emitted : emitted[k] = s
  BY <1>2, <1>4, <1>15
<1>6. \A k \in 1 .. Len(transcript') : k \in 1 .. Len(transcript) \/ k = Len(transcript) + 1 BY <1>2, <1>3
<1>7. 1 .. Len(transcript) \subseteq 1 .. Len(transcript') /\ Len(transcript) + 1 \in 1 .. Len(transcript') BY <1>2, <1>3
<1>8. Cards(transcript', "pending") = Cards(transcript, "pending") BY <1>3, <1>6, <1>7 DEF Cards
<1>9. turn.n = turnNum BY DEF TuiInv, TurnInv
<1>10. OfTurn(transcript', turn.n) = OfTurn(transcript, turn.n) \cup {Len(transcript) + 1}
  BY <1>3, <1>6, <1>7, <1>9 DEF OfTurn
<1>11. ASSUME intact PROVE ShowsAll(transcript', OfTurn(transcript', turn.n), emitted')
  <2>1. ShowsAll(transcript, OfTurn(transcript, turn.n), emitted) BY <1>11 DEF TuiInv, TurnIsShownInOrder
  <2>2. OfTurn(transcript, turn.n) \in SUBSET (1 .. Len(transcript)) BY DEF OfTurn
  <2> QED BY <1>1, <1>10, <1>13, <2>1, <2>2, ShowsMore
<1>12. TurnIsShownInOrder' BY <1>11 DEF TurnIsShownInOrder
<1> QED BY <1>1, <1>2, <1>3, <1>4, <1>5, <1>8, <1>12

LEMMA TextDeltaStep == ASSUME TuiInv, TextDelta PROVE TuiInv'
<1>0. TuiTypeOK /\ HeldInv /\ AskingInv /\ CardsInv /\ TurnInv /\ TurnIsShownInOrder BY DEF TuiInv
<1>1. /\ prompting = "text" /\ turn # NoTurn /\ turnNum > 0 /\ turnNum \in Nat /\ turn.n = turnNum
  BY <1>0 DEF TextDelta, TurnInv, TuiTypeOK
<1>2. /\ UNCHANGED <<turnNum, prompting, intact, replaced, asks, pending, permQueue, modal, switching>>
      /\ latest' = "assistant"
  BY DEF TextDelta, permVars
<1>3. HeldInv' /\ AskingInv' BY <1>0, <1>2 DEF HeldInv, AskingInv, TurnWaits
<1>4. CASE turn.asst = 0
  <2> DEFINE x == Item("assistant", "none", "none")
  <2>1. x \in Items /\ x.turn = turnNum /\ x.kind = "assistant" /\ x.phase # "pending" BY <1>1 DEF Item, Items
  <2>2. transcript' = Append(transcript, x) /\ turn' = [turn EXCEPT !.asst = Len(transcript')] /\ UNCHANGED state
    BY <1>4 DEF TextDelta
  <2>3. latest # "assistant" BY <1>0, <1>1, <1>4 DEF TurnInv
  <2>4. emitted' = Append(emitted, Shown(x)) BY <2>1, <2>3 DEF TextDelta, Shown
  <2>5. turn'.n = turn.n /\ turn'.asst = Len(transcript') /\ turn'.tools = turn.tools BY <1>0, <2>2 DEF TuiTypeOK
  <2>12. Shown(x) = "assistant" BY <2>1 DEF Shown
  <2> HIDE DEF x
  <2>6. /\ transcript' \in Seq(Items') /\ Len(transcript') = Len(transcript) + 1 /\ Len(transcript) \in Nat
        /\ emitted' \in Seq(CallIds \cup {"assistant"})
        /\ \A s : (\E k \in DOMAIN emitted' : emitted'[k] = s) <=> s = Shown(x) \/ \E k \in DOMAIN emitted : emitted[k] = s
        /\ Cards(transcript', "pending") = Cards(transcript, "pending")
        /\ TurnIsShownInOrder'
    BY <1>1, <1>2, <2>1, <2>2, <2>4, <2>5, ItemComes
  <2>7. Len(transcript') \in Nat /\ Len(transcript') # 0 BY <2>6
  <2>8. TuiTypeOK' BY <1>0, <1>2, <2>2, <2>6, <2>7 DEF TuiTypeOK
  <2>9. turn' # NoTurn BY <1>1, <2>5 DEF NoTurn
  <2>13. \A c \in CallIds : c # "assistant" BY TuiAssumption
  <2>10. TurnInv' BY <1>0, <1>1, <1>2, <2>5, <2>6, <2>7, <2>9, <2>12, <2>13 DEF TurnInv
  <2>11. CardsInv' BY <1>0, <1>2, <2>6 DEF CardsInv
  <2> QED BY <1>3, <2>6, <2>8, <2>10, <2>11 DEF TuiInv
<1>5. CASE turn.asst # 0
  <2>1. latest = "assistant" BY <1>0, <1>1, <1>5 DEF TurnInv
  <2>2. UNCHANGED <<transcript, turn, emitted>> /\ state' \in {"open", "quit", "panic"}
    BY <1>0, <1>5, <2>1 DEF TextDelta, TuiTypeOK
  <2>3. TuiTypeOK' BY <1>0, <1>2, <2>2 DEF TuiTypeOK, Items
  <2>4. TurnInv' /\ CardsInv' /\ TurnIsShownInOrder'
    BY <1>0, <1>2, <2>1, <2>2 DEF TurnInv, CardsInv, Cards, TurnIsShownInOrder, OfTurn, ShowsAll, NoTurn
  <2> QED BY <1>3, <2>3, <2>4 DEF TuiInv
<1> QED BY <1>4, <1>5

\* A card that is settled or starts again: one phase changes, or an index is out of range.
LEMMA OneCardChanges ==
  ASSUME TuiTypeOK, NEW i \in Nat \ {0}, NEW p \in {"done", "running"},
         IF i > Len(transcript) THEN transcript' = transcript ELSE transcript' = [transcript EXCEPT ![i].phase = p]
  PROVE  SameShown(transcript, transcript') /\ Cards(transcript', "pending") \subseteq Cards(transcript, "pending")
<1>1. transcript \in Seq(Items) /\ Len(transcript) \in Nat BY LenProperties DEF TuiTypeOK
<1>2. CASE i > Len(transcript)
  <2>1. transcript' = transcript BY <1>2
  <2> QED BY <1>1, <2>1 DEF SameShown
<1>3. CASE ~(i > Len(transcript))
  <2> DEFINE u == [transcript EXCEPT ![i].phase = p]
  <2>1. transcript' = u BY <1>3
  <2>2. i \in 1 .. Len(transcript) BY <1>1, <1>3
  <2>3. /\ u \in Seq(Items) /\ Len(u) = Len(transcript)
        /\ \A k \in 1 .. Len(transcript) :
             /\ u[k].kind = transcript[k].kind /\ u[k].turn = transcript[k].turn /\ u[k].call = transcript[k].call
             /\ u[k].phase = IF k = i THEN p ELSE transcript[k].phase
    <3>1. p \in Phases BY DEF Phases
    <3> QED BY <1>1, <2>2, <3>1, PhaseChanges
  <2> HIDE DEF u
  <2>4. SameShown(transcript, u) BY <1>1, <2>3 DEF SameShown
  <2>5. Cards(u, "pending") \subseteq Cards(transcript, "pending") BY <2>3 DEF Cards
  <2> QED BY <2>1, <2>4, <2>5
<1> QED BY <1>2, <1>3

LEMMA ToolStartStep == ASSUME TuiInv, NEW c \in CallIds, ToolStart(c) PROVE TuiInv'
<1>0. TuiTypeOK /\ HeldInv /\ AskingInv /\ CardsInv /\ TurnInv /\ TurnIsShownInOrder BY DEF TuiInv
<1>1. /\ prompting = "text" /\ turn # NoTurn /\ turnNum > 0 /\ turnNum \in Nat /\ turn.n = turnNum
  BY <1>0 DEF ToolStart, TurnInv, TuiTypeOK
<1>2. /\ UNCHANGED <<turnNum, intact, replaced, asks, pending, permQueue, modal, switching>>
      /\ prompting' = "tool" /\ latest' = c
      /\ emitted' = IF c \in ToSet(emitted) THEN emitted ELSE Append(emitted, c)
  BY DEF ToolStart, permVars, modeVars
<1>3. HeldInv' /\ AskingInv' BY <1>0, <1>1, <1>2 DEF HeldInv, AskingInv, TurnWaits
<1>4. turn.tools[c] # 0 <=> c \in ToSet(emitted) BY <1>0, <1>1 DEF TurnInv, ToSet
<1>5. turn.tools \in [CallIds -> Nat] BY <1>0 DEF TuiTypeOK
<1>6. CASE NewCard(c)
  <2> DEFINE x == Item("tool", c, "running")
  <2>1. c # "none" /\ \A d \in CallIds : d # "assistant" BY TuiAssumption
  <2>2. x \in Items /\ x.turn = turnNum /\ x.kind = "tool" /\ x.phase # "pending" /\ x.call # "none" /\ Shown(x) = c
    BY <1>1, <2>1 DEF Item, Items, Shown
  <2>3. turn.tools[c] = 0 /\ transcript' = Append(transcript, x) /\ turn' = [turn EXCEPT !.tools[c] = Len(transcript')]
        /\ state' = state
    BY <1>6 DEF NewCard
  <2>4. emitted' = Append(emitted, Shown(x)) BY <1>2, <1>4, <2>2, <2>3
  <2>5. turn'.n = turn.n /\ turn'.asst = turn.asst /\ turn'.tools = [turn.tools EXCEPT ![c] = Len(transcript')]
        /\ turn'.cancelled = turn.cancelled
    BY <1>0, <2>3 DEF TuiTypeOK
  <2> HIDE DEF x
  <2>6. /\ transcript' \in Seq(Items') /\ Len(transcript') = Len(transcript) + 1 /\ Len(transcript) \in Nat
        /\ emitted' \in Seq(CallIds \cup {"assistant"})
        /\ \A s : (\E k \in DOMAIN emitted' : emitted'[k] = s) <=> s = Shown(x) \/ \E k \in DOMAIN emitted : emitted[k] = s
        /\ Cards(transcript', "pending") = Cards(transcript, "pending")
        /\ TurnIsShownInOrder'
    BY <1>1, <1>2, <2>2, <2>3, <2>4, <2>5, ItemComes
  <2>7. Len(transcript') \in Nat \ {0} BY <2>6
  <2>8. turn'.tools \in [CallIds -> Nat] /\ \A d \in CallIds : turn'.tools[d] # 0 <=> d = c \/ turn.tools[d] # 0
    BY <1>5, <2>5, <2>7
  <2>9. TuiTypeOK'
    <3>1. turn' \in [asst : Nat, tools : [CallIds -> Nat], cancelled : BOOLEAN, n : 0 .. turnNum]
      BY <1>0, <2>3, <2>5, <2>8 DEF TuiTypeOK
    <3> QED BY <1>0, <1>2, <2>3, <2>6, <3>1 DEF TuiTypeOK
  <2>10. turn' # NoTurn BY <1>1, <2>5 DEF NoTurn
  <2>11. \A d \in CallIds : turn'.tools[d] # 0 <=> \E k \in DOMAIN emitted' : emitted'[k] = d
    BY <1>0, <1>1, <2>2, <2>6, <2>8 DEF TurnInv
  <2>12. TurnInv' BY <1>1, <1>2, <2>5, <2>8, <2>10, <2>11 DEF TurnInv
  <2>13. CardsInv' BY <1>0, <1>2, <2>6 DEF CardsInv
  <2> QED BY <1>3, <2>6, <2>9, <2>12, <2>13 DEF TuiInv
<1>7. CASE KnownCard(c)
  <2>1. turn.tools[c] \in Nat \ {0} /\ turn' = turn /\ emitted' = emitted BY <1>2, <1>4, <1>5, <1>7 DEF KnownCard
  <2>2. IF turn.tools[c] > Len(transcript) THEN transcript' = transcript
        ELSE transcript' = [transcript EXCEPT ![turn.tools[c]].phase = "running"]
    BY <1>7 DEF KnownCard
  <2>3. SameShown(transcript, transcript') /\ Cards(transcript', "pending") \subseteq Cards(transcript, "pending")
    BY <1>0, <2>1, <2>2, OneCardChanges
  <2>4. transcript' \in Seq(Items') /\ TurnIsShownInOrder' BY <1>2, <2>1, <2>3, ScreenKept
  <2>5. state' \in {"open", "quit", "panic"} BY <1>0, <1>7 DEF KnownCard, TuiTypeOK
  <2>6. TuiTypeOK' BY <1>0, <1>2, <2>1, <2>4, <2>5 DEF TuiTypeOK
  <2>7. TurnInv' BY <1>0, <1>1, <1>2, <2>1 DEF TurnInv, NoTurn
  <2>8. CardsInv' BY <1>0, <1>2, <2>3 DEF CardsInv
  <2> QED BY <1>3, <2>4, <2>6, <2>7, <2>8 DEF TuiInv
<1> QED BY <1>6, <1>7 DEF ToolStart

LEMMA ToolEndStep == ASSUME TuiInv, ToolEnd PROVE TuiInv'
<1>0. TuiTypeOK /\ HeldInv /\ AskingInv /\ CardsInv /\ TurnInv /\ TurnIsShownInOrder BY DEF TuiInv
<1>1. /\ prompting = "tool" /\ turn # NoTurn /\ turnNum > 0 /\ turnNum \in Nat /\ turn.n = turnNum
      /\ latest \in CallIds /\ turn.tools[latest] # 0
  BY <1>0 DEF ToolEnd, TurnInv, TuiTypeOK
<1>2. /\ UNCHANGED <<turnNum, latest, intact, emitted, replaced, asks, pending, permQueue, modal, switching>>
      /\ prompting' = "text" /\ turn' = [turn EXCEPT !.asst = 0]
  BY DEF ToolEnd, permVars
<1>3. HeldInv' /\ AskingInv' BY <1>0, <1>1, <1>2 DEF HeldInv, AskingInv, TurnWaits
<1>4. turn'.n = turn.n /\ turn'.asst = 0 /\ turn'.tools = turn.tools BY <1>0, <1>2 DEF TuiTypeOK
<1>5. turn.tools[latest] \in Nat \ {0}
  <2>1. turn.tools \in [CallIds -> Nat] BY <1>0 DEF TuiTypeOK
  <2> QED BY <1>1, <2>1
<1>6. IF turn.tools[latest] > Len(transcript) THEN transcript' = transcript
      ELSE transcript' = [transcript EXCEPT ![turn.tools[latest]].phase = "done"]
  BY DEF ToolEnd
<1>7. SameShown(transcript, transcript') /\ Cards(transcript', "pending") \subseteq Cards(transcript, "pending")
  BY <1>0, <1>5, <1>6, OneCardChanges
<1>8. turn' # NoTurn BY <1>1, <1>4 DEF NoTurn
<1>9. transcript' \in Seq(Items') /\ TurnIsShownInOrder' BY <1>1, <1>2, <1>4, <1>7, ScreenKept
<1>10. state' \in {"open", "quit", "panic"} BY <1>0 DEF ToolEnd, TuiTypeOK
<1>11. TuiTypeOK' BY <1>0, <1>2, <1>9, <1>10 DEF TuiTypeOK
<1>12. TurnInv'
  <2>1. latest # "assistant" BY <1>1, TuiAssumption
  <2> QED BY <1>0, <1>1, <1>2, <1>4, <1>8, <2>1 DEF TurnInv
<1>13. CardsInv' BY <1>0, <1>2, <1>7 DEF CardsInv
<1> QED BY <1>3, <1>9, <1>11, <1>12, <1>13 DEF TuiInv

LEMMA TurnDoneStep == ASSUME TuiInv, TurnDone PROVE TuiInv'
<1>0. TuiTypeOK /\ HeldInv /\ AskingInv /\ CardsInv /\ TurnInv BY DEF TuiInv
<1>1. /\ prompting \in {"text", "tool"} /\ prompting' = "none" /\ turn' = NoTurn /\ emitted' = <<>> /\ latest' = "none"
      /\ UNCHANGED <<turnNum, intact, transcript, replaced, asks, pending, permQueue, modal, switching, state>>
  BY DEF TurnDone, transcriptVars, permVars, modeVars
<1>2. TuiTypeOK'
  <2>1. NoTurn \in [asst : Nat, tools : [CallIds -> Nat], cancelled : BOOLEAN, n : 0 .. turnNum]
    BY <1>0 DEF NoTurn, TuiTypeOK
  <2>2. turn' \in [asst : Nat, tools : [CallIds -> Nat], cancelled : BOOLEAN, n : 0 .. turnNum'] BY <1>1, <2>1
  <2>3. emitted' \in Seq(CallIds \cup {"assistant"}) BY <1>1
  <2>4. Items' = Items BY <1>1 DEF Items
  <2> QED BY <1>0, <1>1, <2>2, <2>3, <2>4 DEF TuiTypeOK
<1>3. HeldInv' /\ AskingInv' BY <1>0, <1>1 DEF HeldInv, AskingInv, TurnWaits
<1>4. CardsInv' /\ TurnInv' /\ TurnIsShownInOrder'
  BY <1>0, <1>1 DEF CardsInv, Cards, TurnInv, TurnIsShownInOrder, NoTurn
<1> QED BY <1>2, <1>3, <1>4 DEF TuiInv

\* permissionBridge.Decide sends its request, and Update shows it or queues it.
LEMMA AskHolds ==
  ASSUME TuiInv, NEW by \in {"turn", "goal"}, NEW cancelled \in BOOLEAN, Ask(by, cancelled), UNCHANGED turnNum
  PROVE  /\ Len(asks) \in Nat /\ Len(asks') = Len(asks) + 1
         /\ asks' \in Seq([by : {"turn", "goal"}, waits : BOOLEAN])
         /\ \A n \in 1 .. Len(asks) : asks'[n] = asks[n]
         /\ asks'[Len(asks) + 1] = [by |-> by, waits |-> ~cancelled]
         /\ pending' \in 0 .. Len(asks') /\ permQueue' \in Seq(1 .. Len(asks'))
         /\ HeldInv' /\ CardsInv' /\ SameShown(transcript, transcript')
<1>0. TuiTypeOK /\ HeldInv /\ CardsInv BY DEF TuiInv
<1> DEFINE a == [by |-> by, waits |-> ~cancelled]
           N == Len(asks) + 1
<1>1. /\ asks \in Seq([by : {"turn", "goal"}, waits : BOOLEAN]) /\ Len(asks) \in Nat
      /\ permQueue \in Seq(1 .. Len(asks)) /\ Len(permQueue) \in Nat /\ pending \in 0 .. Len(asks)
      /\ transcript \in Seq(Items) /\ Len(transcript) \in Nat
  BY <1>0, LenProperties DEF TuiTypeOK
<1>2. a \in [by : {"turn", "goal"}, waits : BOOLEAN] OBVIOUS
<1>3. asks' = Append(asks, a) BY DEF Ask
<1> HIDE DEF a
<1>4. /\ asks' \in Seq([by : {"turn", "goal"}, waits : BOOLEAN]) /\ Len(asks') = N
      /\ \A n \in 1 .. Len(asks) : asks'[n] = asks[n]
      /\ asks'[N] = a
  BY <1>1, <1>2, <1>3, AppendProperties
<1>5. permQueue \in Seq(1 .. N)
  <2>1. 1 .. Len(asks) \subseteq 1 .. N BY <1>1
  <2> QED BY <1>1, <2>1, SeqMonotonic
<1>6. \A i \in 1 .. Len(permQueue) : permQueue[i] \in 1 .. Len(asks) BY <1>1, ElementOfSeq
<1>7. N \in 1 .. N /\ \A n \in 1 .. N : n \in 1 .. Len(asks) \/ n = N
  <2>1. N \in Nat /\ N >= 1 BY <1>1
  <2>2. ASSUME NEW n \in 1 .. N, n # N PROVE n \in 1 .. Len(asks) BY <1>1, <2>2
  <2> QED BY <2>1, <2>2
<1>8. CASE pending # 0
  <2>1. permQueue' = Append(permQueue, N) /\ pending' = pending /\ transcript' = transcript
    BY <1>4, <1>8 DEF Ask
  <2>2. /\ permQueue' \in Seq(1 .. N) /\ Len(permQueue') = Len(permQueue) + 1
        /\ \A i \in 1 .. Len(permQueue) : permQueue'[i] = permQueue[i]
        /\ permQueue'[Len(permQueue) + 1] = N
    BY <1>5, <1>7, <2>1, AppendProperties
  <2>3. \A i \in 1 .. Len(permQueue') : i \in 1 .. Len(permQueue) \/ i = Len(permQueue) + 1 BY <1>1, <2>2
  <2>4. 1 .. Len(permQueue) \subseteq 1 .. Len(permQueue') /\ Len(permQueue) + 1 \in 1 .. Len(permQueue') BY <1>1, <2>2
  <2>5. HeldInv'
    <3>1. \A i \in 1 .. Len(permQueue') : pending' < permQueue'[i] BY <1>0, <1>1, <2>1, <2>2, <2>3 DEF HeldInv
    <3>2. ASSUME NEW i \in 1 .. Len(permQueue'), NEW j \in 1 .. Len(permQueue'), i < j
          PROVE  permQueue'[i] < permQueue'[j]
      <4>1. i \in 1 .. Len(permQueue) BY <1>1, <2>3, <3>2
      <4>2. CASE j \in 1 .. Len(permQueue) BY <1>0, <2>2, <3>2, <4>1, <4>2 DEF HeldInv
      <4>3. CASE j = Len(permQueue) + 1
        <5>1. permQueue'[j] = N /\ permQueue'[i] = permQueue[i] BY <2>2, <4>1, <4>3
        <5>2. permQueue[i] \in 1 .. Len(asks) BY <1>6, <4>1
        <5> QED BY <1>1, <5>1, <5>2
      <4> QED BY <2>3, <4>2, <4>3
    <3>3. ASSUME NEW n \in 1 .. Len(asks'), asks'[n].waits
          PROVE  n = pending' \/ \E i \in 1 .. Len(permQueue') : permQueue'[i] = n
      <4>1. CASE n = N BY <2>2, <2>4, <4>1
      <4>2. CASE n \in 1 .. Len(asks)
        <5>1. n = pending \/ \E i \in 1 .. Len(permQueue) : permQueue[i] = n BY <1>0, <1>4, <3>3, <4>2 DEF HeldInv
        <5> QED BY <2>1, <2>2, <2>4, <5>1
      <4> QED BY <1>4, <1>7, <4>1, <4>2
    <3> QED BY <1>8, <2>1, <3>1, <3>2, <3>3 DEF HeldInv
  <2>6. CardsInv' BY <1>0, <2>1 DEF CardsInv, Cards
  <2>7. SameShown(transcript, transcript') BY <1>1, <2>1 DEF SameShown
  <2>8. pending' \in 0 .. N BY <1>1, <2>1
  <2> QED BY <1>1, <1>4, <2>2, <2>5, <2>6, <2>7, <2>8 DEF a
<1>9. CASE pending = 0
  <2>1. pending' = N /\ transcript' = Marked(transcript) /\ permQueue' = permQueue BY <1>4, <1>9 DEF Ask
  <2>2. permQueue = <<>> /\ Cards(transcript, "pending") = {} BY <1>0, <1>9 DEF HeldInv, CardsInv
  <2>3. SameShown(transcript, transcript') /\ \A i, j \in Cards(transcript', "pending") : i = j
    BY <1>0, <1>1, <2>1, <2>2, MarkedOne
  <2>4. pending' # 0 /\ pending' \in 0 .. N BY <1>1, <2>1
  <2>5. CardsInv' BY <2>3, <2>4 DEF CardsInv
  <2>6. Len(permQueue') = 0 BY <2>1, <2>2
  <2>7. HeldInv'
    <3>1. ASSUME NEW n \in 1 .. Len(asks'), asks'[n].waits PROVE n = pending'
      <4>1. CASE n = N BY <2>1, <4>1
      <4>2. CASE n \in 1 .. Len(asks)
        <5>1. n = pending \/ \E i \in 1 .. Len(permQueue) : permQueue[i] = n BY <1>0, <1>4, <3>1, <4>2 DEF HeldInv
        <5>2. Len(permQueue) = 0 BY <2>2
        <5> QED BY <1>9, <4>2, <5>1, <5>2
      <4> QED BY <1>4, <1>7, <4>1, <4>2
    <3> QED BY <2>4, <2>6, <3>1 DEF HeldInv
  <2> QED BY <1>1, <1>4, <1>5, <2>1, <2>3, <2>4, <2>5, <2>7 DEF a
<1> QED BY <1>1, <1>8, <1>9

LEMMA TurnAsksStep == ASSUME TuiInv, TurnAsks PROVE TuiInv'
<1>0. TuiTypeOK /\ AskingInv /\ TurnInv BY DEF TuiInv
<1>1. /\ prompting = "tool" /\ turn.cancelled \in BOOLEAN /\ Ask("turn", turn.cancelled)
      /\ prompting' = (IF turn.cancelled THEN "tool" ELSE "asking")
      /\ UNCHANGED <<turn, turnNum, latest, intact, emitted, replaced, modal, switching, state>>
  BY <1>0 DEF TurnAsks, TuiTypeOK, Ask, modeVars
<1>2. /\ Len(asks) \in Nat /\ Len(asks') = Len(asks) + 1
      /\ asks' \in Seq([by : {"turn", "goal"}, waits : BOOLEAN])
      /\ \A n \in 1 .. Len(asks) : asks'[n] = asks[n]
      /\ asks'[Len(asks) + 1] = [by |-> "turn", waits |-> ~turn.cancelled]
      /\ pending' \in 0 .. Len(asks') /\ permQueue' \in Seq(1 .. Len(asks'))
      /\ HeldInv' /\ CardsInv' /\ SameShown(transcript, transcript')
  BY <1>1, AskHolds
<1>3. transcript' \in Seq(Items') /\ TurnIsShownInOrder' BY <1>1, <1>2, ScreenKept
<1>4. TuiTypeOK' BY <1>0, <1>1, <1>2, <1>3 DEF TuiTypeOK
<1>5. TurnInv' BY <1>0, <1>1 DEF TurnInv, NoTurn
<1>6. AskingInv'
  <2>1. \A n \in 1 .. Len(asks) : ~TurnWaits(n)' BY <1>0, <1>1, <1>2 DEF AskingInv, TurnWaits
  <2>0. PICK k \in Nat : k = Len(asks) + 1 BY <1>2
  <2>2. TurnWaits(k)' <=> ~turn.cancelled BY <1>2, <2>0 DEF TurnWaits
  <2>3. \A n \in 1 .. Len(asks') : n \in 1 .. Len(asks) \/ n = k BY <1>2, <2>0
  <2>4. k \in 1 .. Len(asks') BY <1>2, <2>0
  <2>5. \A m, n \in 1 .. Len(asks') : TurnWaits(m)' /\ TurnWaits(n)' => m = n BY <2>1, <2>3
  <2>6. prompting' = "asking" <=> \E n \in 1 .. Len(asks') : TurnWaits(n)' BY <1>1, <2>1, <2>2, <2>3, <2>4
  <2> QED BY <2>5, <2>6 DEF AskingInv
<1> QED BY <1>2, <1>3, <1>4, <1>5, <1>6 DEF TuiInv

LEMMA GoalAsksStep == ASSUME TuiInv, GoalAsks PROVE TuiInv'
<1>0. TuiTypeOK /\ AskingInv /\ TurnInv BY DEF TuiInv
<1>1. /\ Ask("goal", FALSE)
      /\ UNCHANGED <<turn, turnNum, prompting, latest, intact, emitted, replaced, modal, switching, state>>
  BY DEF GoalAsks, Ask, modeVars, turnVars
<1>2. /\ Len(asks) \in Nat /\ Len(asks') = Len(asks) + 1
      /\ asks' \in Seq([by : {"turn", "goal"}, waits : BOOLEAN])
      /\ \A n \in 1 .. Len(asks) : asks'[n] = asks[n]
      /\ asks'[Len(asks) + 1] = [by |-> "goal", waits |-> ~FALSE]
      /\ pending' \in 0 .. Len(asks') /\ permQueue' \in Seq(1 .. Len(asks'))
      /\ HeldInv' /\ CardsInv' /\ SameShown(transcript, transcript')
  BY <1>1, AskHolds
<1>3. transcript' \in Seq(Items') /\ TurnIsShownInOrder' BY <1>1, <1>2, ScreenKept
<1>4. TuiTypeOK' BY <1>0, <1>1, <1>2, <1>3 DEF TuiTypeOK
<1>5. TurnInv' BY <1>0, <1>1 DEF TurnInv, NoTurn
<1>6. AskingInv'
  <2>1. \A n \in 1 .. Len(asks) : TurnWaits(n)' <=> TurnWaits(n) BY <1>2 DEF TurnWaits
  <2>0. PICK k \in Nat : k = Len(asks) + 1 BY <1>2
  <2>2. ~TurnWaits(k)' BY <1>2, <2>0 DEF TurnWaits
  <2>3. \A n \in 1 .. Len(asks') : n \in 1 .. Len(asks) \/ n = k BY <1>2, <2>0
  <2>4. 1 .. Len(asks) \subseteq 1 .. Len(asks') BY <1>2
  <2>5. \A m, n \in 1 .. Len(asks') : TurnWaits(m)' /\ TurnWaits(n)' => m = n BY <1>0, <2>1, <2>2, <2>3 DEF AskingInv
  <2>6. prompting' = "asking" <=> \E n \in 1 .. Len(asks') : TurnWaits(n)'
    BY <1>0, <1>1, <2>1, <2>2, <2>3, <2>4 DEF AskingInv
  <2> QED BY <2>5, <2>6 DEF AskingInv
<1> QED BY <1>2, <1>3, <1>4, <1>5, <1>6 DEF TuiInv

\* The answer settles the card of the request and shows the next one of the queue.
LEMMA PromoteHolds ==
  ASSUME TuiInv, NEW p \in {"running", "denied"}, Promote(Settled(p)), UNCHANGED turnNum, pending # 0,
         asks' \in Seq([by : {"turn", "goal"}, waits : BOOLEAN]), Len(asks') = Len(asks),
         \A n \in 1 .. Len(asks) : asks'[n].waits => asks[n].waits /\ n # pending
  PROVE  /\ pending' \in 0 .. Len(asks') /\ permQueue' \in Seq(1 .. Len(asks'))
         /\ HeldInv' /\ CardsInv' /\ SameShown(transcript, transcript')
<1>0. TuiTypeOK /\ HeldInv /\ CardsInv BY DEF TuiInv
<1>1. /\ Len(asks) \in Nat /\ permQueue \in Seq(1 .. Len(asks)) /\ Len(permQueue) \in Nat
      /\ transcript \in Seq(Items)
  BY <1>0, LenProperties DEF TuiTypeOK
<1>2. SameShown(transcript, Settled(p)) /\ Cards(Settled(p), "pending") = {} BY <1>0, SettledAll
<1>3. \A n \in 1 .. Len(asks) : asks'[n].waits => \E i \in 1 .. Len(permQueue) : permQueue[i] = n
  BY <1>0 DEF HeldInv
<1>4. CASE permQueue = <<>>
  <2>1. pending' = 0 /\ transcript' = Settled(p) /\ permQueue' = <<>> BY <1>4 DEF Promote
  <2>2. Len(permQueue) = 0 /\ Len(permQueue') = 0 BY <1>4, <2>1
  <2>3. \A n \in 1 .. Len(asks') : ~asks'[n].waits BY <1>3, <2>2
  <2>4. HeldInv' BY <2>1, <2>2, <2>3 DEF HeldInv
  <2>5. CardsInv' BY <1>2, <2>1 DEF CardsInv
  <2>6. pending' \in 0 .. Len(asks') BY <1>1, <2>1
  <2>7. permQueue' \in Seq(1 .. Len(asks')) BY <2>1
  <2> QED BY <1>2, <2>1, <2>4, <2>5, <2>6, <2>7
<1>5. CASE permQueue # <<>>
  <2>1. pending' = Head(permQueue) /\ permQueue' = Tail(permQueue) /\ transcript' = Marked(Settled(p))
    BY <1>5 DEF Promote
  <2>2. Len(permQueue) \in Nat \ {0} BY <1>1, <1>5, EmptySeq
  <2>3. /\ pending' = permQueue[1] /\ pending' \in 1 .. Len(asks) /\ permQueue' \in Seq(1 .. Len(asks))
        /\ Len(permQueue') = Len(permQueue) - 1
        /\ \A i \in 1 .. Len(permQueue) - 1 : permQueue'[i] = permQueue[i + 1]
    BY <1>1, <1>5, <2>1, <2>2, HeadTailProperties
  <2>4. \A i \in 1 .. Len(permQueue') : i + 1 \in 1 .. Len(permQueue) /\ 1 < i + 1 BY <1>1, <2>2, <2>3
  <2>5. 1 \in 1 .. Len(permQueue) BY <2>2
  <2>6. HeldInv'
    <3>1. \A i \in 1 .. Len(permQueue') : pending' < permQueue'[i] BY <1>0, <2>3, <2>4, <2>5 DEF HeldInv
    <3>2. ASSUME NEW i \in 1 .. Len(permQueue'), NEW j \in 1 .. Len(permQueue'), i < j
          PROVE  permQueue'[i] < permQueue'[j]
      <4>1. i + 1 < j + 1 /\ i + 1 \in 1 .. Len(permQueue) /\ j + 1 \in 1 .. Len(permQueue) BY <2>4, <3>2
      <4>2. permQueue[i + 1] < permQueue[j + 1] BY <1>0, <4>1 DEF HeldInv
      <4> QED BY <2>3, <4>2
    <3>3. ASSUME NEW n \in 1 .. Len(asks'), asks'[n].waits
          PROVE  n = pending' \/ \E i \in 1 .. Len(permQueue') : permQueue'[i] = n
      <4>1. PICK i \in 1 .. Len(permQueue) : permQueue[i] = n BY <1>3, <3>3
      <4>2. CASE i = 1 BY <2>3, <4>1, <4>2
      <4>3. CASE i # 1
        <5>1. i - 1 \in 1 .. Len(permQueue') /\ (i - 1) + 1 = i BY <2>2, <2>3, <4>3
        <5> QED BY <2>3, <4>1, <5>1
      <4> QED BY <4>2, <4>3
    <3>4. pending' # 0 BY <1>1, <2>3
    <3> QED BY <3>1, <3>2, <3>3, <3>4 DEF HeldInv
  <2>7. Settled(p) \in Seq(Items) BY <1>2 DEF SameShown
  <2>8. SameShown(Settled(p), transcript') /\ \A i, j \in Cards(transcript', "pending") : i = j
    BY <1>0, <1>2, <2>1, <2>7, MarkedOne
  <2>9. SameShown(transcript, transcript') BY <1>1, <1>2, <2>8, SameShownFollows
  <2>10. CardsInv' BY <1>1, <2>3, <2>8 DEF CardsInv
  <2>11. pending' \in 0 .. Len(asks') BY <1>1, <2>3
  <2> QED BY <2>3, <2>6, <2>9, <2>10, <2>11
<1> QED BY <1>4, <1>5

LEMMA AnswerStep ==
  ASSUME TuiInv, NEW allow \in BOOLEAN, NEW ctrlC \in BOOLEAN, Answer(allow, ctrlC) PROVE TuiInv'
<1>0. TuiTypeOK /\ AskingInv /\ TurnInv BY DEF TuiInv
<1> DEFINE A == [by : {"turn", "goal"}, waits : BOOLEAN]
           p == IF allow THEN "running" ELSE "denied"
<1>1. /\ pending # 0 /\ Promote(Settled(p)) /\ Resumes(pending, ctrlC)
      /\ asks' = [n \in 1 .. Len(asks) |->
                    [asks[n] EXCEPT !.waits = @ /\ n # pending /\ ~(ctrlC /\ asks[n].by = "turn")]]
      /\ turn' = IF ctrlC /\ turn # NoTurn THEN [turn EXCEPT !.cancelled = TRUE] ELSE turn
      /\ UNCHANGED <<turnNum, latest, intact, emitted, replaced, modal, switching, state>>
  BY DEF Answer, modeVars
<1>2. asks \in Seq(A) /\ Len(asks) \in Nat /\ \A n \in 1 .. Len(asks) : asks[n] \in A
  BY <1>0, LenProperties, ElementOfSeq DEF TuiTypeOK
<1>3. /\ asks' \in Seq(A) /\ Len(asks') = Len(asks)
      /\ \A n \in 1 .. Len(asks) :
           /\ asks'[n].by = asks[n].by
           /\ asks'[n].waits = (asks[n].waits /\ n # pending /\ ~(ctrlC /\ asks[n].by = "turn"))
  <2>1. ASSUME NEW n \in 1 .. Len(asks)
        PROVE  LET w == [asks[n] EXCEPT !.waits = @ /\ n # pending /\ ~(ctrlC /\ asks[n].by = "turn")]
               IN  /\ w \in A /\ w.by = asks[n].by
                   /\ w.waits = (asks[n].waits /\ n # pending /\ ~(ctrlC /\ asks[n].by = "turn"))
    BY <1>2, <2>1
  <2>2. \A n \in 1 .. Len(asks) : /\ asks'[n] \in A /\ asks'[n].by = asks[n].by
           /\ asks'[n].waits = (asks[n].waits /\ n # pending /\ ~(ctrlC /\ asks[n].by = "turn"))
    BY <1>1, <2>1
  <2>3. asks' \in [1 .. Len(asks) -> A] BY <1>1, <2>2
  <2>4. asks' \in Seq(A) /\ Len(asks') = Len(asks) BY <1>2, <2>3
  <2> QED BY <2>2, <2>4
<1>4. /\ pending' \in 0 .. Len(asks') /\ permQueue' \in Seq(1 .. Len(asks'))
      /\ HeldInv' /\ CardsInv' /\ SameShown(transcript, transcript')
  <2>1. \A n \in 1 .. Len(asks) : asks'[n].waits => asks[n].waits /\ n # pending BY <1>3
  <2>2. p \in {"running", "denied"} OBVIOUS
  <2> HIDE DEF p
  <2> QED BY <1>1, <1>3, <2>1, <2>2, PromoteHolds
<1>5. \A n \in 1 .. Len(asks) : TurnWaits(n)' <=> TurnWaits(n) /\ n # pending /\ ~ctrlC
  BY <1>2, <1>3 DEF TurnWaits
<1>6. pending \in 1 .. Len(asks) BY <1>0, <1>1 DEF TuiTypeOK
<1> DEFINE R == turn # NoTurn /\ (TurnWaits(pending) \/ (ctrlC /\ prompting = "asking"))
<1>7. prompting' = IF R THEN "tool" ELSE prompting BY <1>1 DEF Resumes, TurnWaits
<1>8. R => prompting = "asking" BY <1>0, <1>6 DEF AskingInv
<1>9. prompting = "asking" => turn # NoTurn BY <1>0 DEF TurnInv
<1>10. AskingInv'
  <2>1. \A m, n \in 1 .. Len(asks') : TurnWaits(m)' /\ TurnWaits(n)' => m = n BY <1>0, <1>3, <1>5 DEF AskingInv
  <2>2. ASSUME prompting' = "asking" PROVE \E n \in 1 .. Len(asks') : TurnWaits(n)'
    <3>1. prompting = "asking" /\ ~R BY <1>7, <2>2
    <3>2. PICK n \in 1 .. Len(asks) : TurnWaits(n) BY <1>0, <3>1 DEF AskingInv
    <3>3. n # pending /\ ~ctrlC BY <1>9, <3>1, <3>2
    <3> QED BY <1>3, <1>5, <3>2, <3>3
  <2>3. ASSUME NEW n \in 1 .. Len(asks'), TurnWaits(n)' PROVE prompting' = "asking"
    <3>1. n \in 1 .. Len(asks) /\ TurnWaits(n) /\ n # pending /\ ~ctrlC BY <1>3, <1>5, <2>3
    <3>2. prompting = "asking" BY <1>0, <3>1 DEF AskingInv
    <3>3. ~TurnWaits(pending) BY <1>0, <1>6, <3>1 DEF AskingInv
    <3> QED BY <1>7, <3>1, <3>2, <3>3
  <2> QED BY <2>1, <2>2, <2>3 DEF AskingInv
<1>11. /\ turn'.n = turn.n /\ turn'.asst = turn.asst /\ turn'.tools = turn.tools
       /\ turn' \in [asst : Nat, tools : [CallIds -> Nat], cancelled : BOOLEAN, n : 0 .. turnNum]
  BY <1>0, <1>1 DEF TuiTypeOK
<1>12. turn' # NoTurn <=> turn # NoTurn
  <2>1. CASE turn = NoTurn BY <1>1, <2>1
  <2>2. CASE turn # NoTurn
    <3>1. turn'.n # 0 BY <1>0, <1>11, <2>2 DEF TurnInv, TuiTypeOK
    <3> QED BY <2>2, <3>1 DEF NoTurn
  <2> QED BY <2>1, <2>2
<1>13. transcript' \in Seq(Items') /\ TurnIsShownInOrder' BY <1>1, <1>4, <1>11, <1>12, ScreenKept
<1>14. prompting' \in {"none", "text", "tool", "asking"} BY <1>0, <1>7 DEF TuiTypeOK
<1>15. TuiTypeOK' BY <1>0, <1>1, <1>3, <1>4, <1>11, <1>13, <1>14 DEF TuiTypeOK
<1>16. TurnInv'
  <2>1. prompting' = "none" <=> prompting = "none" BY <1>7, <1>8
  <2>2. prompting' = "text" <=> prompting = "text" BY <1>7, <1>8
  <2>3. prompting' \in {"tool", "asking"} => prompting \in {"tool", "asking"} BY <1>7, <1>8
  <2>4. latest' = latest /\ emitted' = emitted /\ turnNum' = turnNum BY <1>1
  <2> HIDE DEF R
  <2> QED BY <1>0, <1>11, <1>12, <2>1, <2>2, <2>3, <2>4 DEF TurnInv
<1> QED BY <1>4, <1>10, <1>13, <1>15, <1>16 DEF TuiInv

LEMMA SubmitStep == ASSUME TuiInv, Submit PROVE TuiInv'
<1>0. TuiTypeOK /\ HeldInv /\ AskingInv /\ CardsInv /\ TurnInv BY DEF TuiInv
<1>1. UNCHANGED <<replaced, asks, pending, permQueue, modal, switching, state>> BY DEF Submit, permVars
<1>2. CASE turn # NoTurn
  <2>1. UNCHANGED <<transcript, turn, turnNum, prompting, latest, intact, emitted>> BY <1>2 DEF Submit, turnVars
  <2>2. TuiTypeOK' /\ HeldInv' /\ AskingInv' BY <1>0, <1>1, <2>1 DEF TuiTypeOK, Items, HeldInv, AskingInv, TurnWaits
  <2>3. CardsInv' /\ TurnInv' /\ TurnIsShownInOrder'
    BY <1>1, <2>1 DEF TuiInv, CardsInv, Cards, TurnInv, TurnIsShownInOrder, OfTurn, ShowsAll, NoTurn
  <2> QED BY <2>2, <2>3 DEF TuiInv
<1>3. CASE turn = NoTurn
  <2> DEFINE x == [Item("user", "none", "none") EXCEPT !.turn = turnNum']
  <2>1. /\ turnNum' = turnNum + 1 /\ turn' = [NoTurn EXCEPT !.n = turnNum'] /\ intact' = TRUE /\ emitted' = <<>> /\ latest' = "none"
        /\ prompting' = "text" /\ transcript' = Append(transcript, x) /\ turnNum \in Nat
    BY <1>0, <1>3 DEF Submit, TuiTypeOK
  <2>16. turnNum' = turnNum + 1 /\ turnNum \in Nat BY <2>1
  <2>0. turnNum' \in Nat /\ turnNum' > 0 BY <2>16
  <2>2. x \in Items' /\ x.kind = "user" /\ x.phase = "none" /\ x.turn = turnNum'
    <3>1. turnNum' \in 0 .. turnNum' BY <2>0
    <3> QED BY <3>1 DEF Item, Items
  <2> HIDE DEF x
  <2>3. transcript \in Seq(Items) /\ Len(transcript) \in Nat BY <1>0, LenProperties DEF TuiTypeOK
  <2>4. transcript \in Seq(Items')
    <3>1. 0 .. turnNum \subseteq 0 .. turnNum' BY <2>1
    <3>2. Items \subseteq Items' BY <3>1 DEF Items
    <3> QED BY <2>3, <3>2, SeqMonotonic
  <2>5. /\ transcript' \in Seq(Items') /\ Len(transcript') = Len(transcript) + 1
        /\ \A k \in 1 .. Len(transcript) : transcript'[k] = transcript[k]
        /\ transcript'[Len(transcript) + 1] = x
    <3>1. PICK S : S = Items' OBVIOUS
    <3>2. PICK y : y = x OBVIOUS
    <3>3. PICK t : t = transcript OBVIOUS
    <3>4. t \in Seq(S) /\ y \in S BY <2>2, <2>4, <3>1, <3>2, <3>3
    <3>5. /\ Append(t, y) \in Seq(S) /\ Len(Append(t, y)) = Len(t) + 1
          /\ \A k \in 1 .. Len(t) : Append(t, y)[k] = t[k]
          /\ Append(t, y)[Len(t) + 1] = y
      BY <3>4, AppendProperties
    <3>6. transcript' = Append(t, y) BY <2>1, <3>2, <3>3
    <3> QED BY <3>1, <3>2, <3>3, <3>5, <3>6
  <2>6. \A k \in 1 .. Len(transcript') : k \in 1 .. Len(transcript) \/ k = Len(transcript) + 1 BY <2>3, <2>5
  <2>7. /\ turn'.n = turnNum' /\ turn'.asst = 0 /\ turn' # NoTurn
        /\ turn'.tools = [c \in CallIds |-> 0] /\ turn' \in [asst : Nat, tools : [CallIds -> Nat], cancelled : BOOLEAN, n : 0 .. turnNum']
    <3>1. turnNum' \in 0 .. turnNum' BY <2>0
    <3>2. turn' = [asst |-> 0, tools |-> [c \in CallIds |-> 0], cancelled |-> FALSE, n |-> turnNum'] BY <2>1 DEF NoTurn
    <3>3. turn' # NoTurn BY <2>0, <3>2 DEF NoTurn
    <3> QED BY <3>1, <3>2, <3>3
  <2>8. TuiTypeOK'
    <3>1. emitted' \in Seq(CallIds \cup {"assistant"}) BY <2>1
    <3>2. /\ pending' \in 0 .. Len(asks') /\ permQueue' \in Seq(1 .. Len(asks'))
          /\ asks' \in Seq([by : {"turn", "goal"}, waits : BOOLEAN])
      BY <1>0, <1>1 DEF TuiTypeOK
    <3>3. modal' \in BOOLEAN /\ switching' \in BOOLEAN /\ state' \in {"open", "quit", "panic"} /\ replaced' \in Nat
      BY <1>0, <1>1 DEF TuiTypeOK
    <3>4. latest' \in CallIds \cup {"none", "assistant"} /\ prompting' \in {"none", "text", "tool", "asking"}
          /\ intact' \in BOOLEAN
      BY <2>1
    <3> QED BY <2>0, <2>5, <2>7, <3>1, <3>2, <3>3, <3>4 DEF TuiTypeOK
  <2>9. HeldInv' /\ AskingInv'
    <3>1. prompting = "none" BY <1>0, <1>3 DEF TurnInv
    <3> QED BY <1>0, <1>1, <2>1, <3>1 DEF HeldInv, AskingInv, TurnWaits
  <2>10. Cards(transcript', "pending") \subseteq Cards(transcript, "pending") BY <2>2, <2>5, <2>6 DEF Cards
  <2>11. CardsInv' BY <1>0, <1>1, <2>10 DEF CardsInv
  <2>12. TurnInv' BY <2>1, <2>7 DEF TurnInv
  <2>13. OfTurn(transcript', turn'.n) = {}
    <3> SUFFICES ASSUME NEW k \in OfTurn(transcript', turn'.n) PROVE FALSE OBVIOUS
    <3>1. k \in 1 .. Len(transcript') /\ transcript'[k].turn = turnNum + 1 /\ transcript'[k].kind # "user"
      BY <2>1, <2>7 DEF OfTurn
    <3>2. k \in 1 .. Len(transcript) BY <2>2, <2>5, <2>6, <3>1
    <3>3. transcript[k] \in Items BY <2>3, <3>2, ElementOfSeq
    <3>4. transcript[k].turn \in 0 .. turnNum BY <3>3 DEF Items
    <3> QED BY <2>1, <2>5, <3>1, <3>2, <3>4
  <2>14. ShowsAll(transcript', {}, <<>>) BY FS_EmptySet DEF ShowsAll
  <2>15. TurnIsShownInOrder' BY <2>1, <2>13, <2>14 DEF TurnIsShownInOrder
  <2> QED BY <2>8, <2>9, <2>11, <2>12, <2>15 DEF TuiInv
<1> QED BY <1>2, <1>3

LEMMA CancelTurnStep == ASSUME TuiInv, CancelTurn PROVE TuiInv'
<1>0. TuiTypeOK /\ HeldInv /\ AskingInv /\ CardsInv /\ TurnInv BY DEF TuiInv
<1>1. /\ turn # NoTurn /\ turn' = [turn EXCEPT !.cancelled = TRUE]
      /\ UNCHANGED <<turnNum, prompting, latest, intact, emitted, transcript, replaced, asks, pending, permQueue, modal, switching, state>>
  BY DEF CancelTurn, transcriptVars, permVars
<1>2. /\ turn'.n = turn.n /\ turn'.asst = turn.asst /\ turn'.tools = turn.tools
      /\ turn' \in [asst : Nat, tools : [CallIds -> Nat], cancelled : BOOLEAN, n : 0 .. turnNum]
  BY <1>0, <1>1 DEF TuiTypeOK
<1>3. turn'.n # 0 /\ turn' # NoTurn BY <1>0, <1>1, <1>2 DEF TurnInv, TuiTypeOK, NoTurn
<1>4. TuiTypeOK' BY <1>0, <1>1, <1>2 DEF TuiTypeOK, Items
<1>5. HeldInv' /\ AskingInv' /\ CardsInv' BY <1>0, <1>1 DEF HeldInv, AskingInv, TurnWaits, CardsInv, Cards
<1>6. TurnInv' BY <1>0, <1>1, <1>2, <1>3 DEF TurnInv
<1>7. TurnIsShownInOrder'
  <2>1. SameShown(transcript, transcript') BY <1>0, <1>1, LenProperties DEF TuiTypeOK, SameShown
  <2> QED BY <1>1, <1>2, <2>1, ScreenKept
<1> QED BY <1>4, <1>5, <1>6, <1>7 DEF TuiInv

\* Keys that only open, close, quit or start a command.
LEMMA ModeStep ==
  ASSUME TuiInv, UNCHANGED <<transcriptVars, turnVars, permVars>>,
         modal' \in BOOLEAN, switching' \in BOOLEAN, state' \in {"open", "quit", "panic"}
  PROVE  TuiInv'
<1>1. UNCHANGED <<transcript, replaced, turn, turnNum, prompting, latest, intact, emitted, asks, pending, permQueue>>
  BY DEF transcriptVars, turnVars, permVars
<1>2. TuiTypeOK' BY <1>1 DEF TuiInv, TuiTypeOK, Items
<1>3. HeldInv' /\ AskingInv' BY <1>1 DEF TuiInv, HeldInv, AskingInv, TurnWaits
<1>4. CardsInv' /\ TurnInv' /\ TurnIsShownInOrder'
  BY <1>1 DEF TuiInv, CardsInv, Cards, TurnInv, TurnIsShownInOrder, OfTurn, ShowsAll, NoTurn
<1> QED BY <1>2, <1>3, <1>4 DEF TuiInv

\* The transcript of another session has no card that waits.
LEMMA ReplaceStep ==
  ASSUME TuiInv, NEW n \in Nat, Replace(StoredItems(n)), UNCHANGED <<turn, turnNum, prompting, latest, emitted, permVars>>,
         modal' \in BOOLEAN, switching' \in BOOLEAN, state' \in {"open", "quit", "panic"}
  PROVE  TuiInv'
<1>0. TuiTypeOK /\ HeldInv /\ AskingInv /\ CardsInv /\ TurnInv BY DEF TuiInv
<1>1. /\ transcript' = StoredItems(n) /\ intact' = FALSE /\ replaced' \in Nat
      /\ UNCHANGED <<turn, turnNum, prompting, latest, emitted, asks, pending, permQueue>>
  BY <1>0 DEF Replace, permVars, TuiTypeOK
<1>2. /\ transcript' \in Seq(Items) /\ Len(transcript') = n + 1
      /\ \A k \in 1 .. Len(transcript') : transcript'[k].phase = "none"
  <2> DEFINE x(i) == [kind |-> IF i = 1 THEN "system" ELSE "stored", turn |-> 0, call |-> "none", phase |-> "none"]
  <2>1. 0 \in 0 .. turnNum BY <1>0 DEF TuiTypeOK
  <2>2. \A i \in 1 .. n + 1 : x(i) \in Items /\ x(i).phase = "none" BY <2>1 DEF Items
  <2>3. transcript' = [i \in 1 .. n + 1 |-> x(i)] BY <1>1 DEF StoredItems
  <2> HIDE DEF x
  <2>4. transcript' \in [1 .. n + 1 -> Items] /\ n + 1 \in Nat
    <3>1. \A i \in 1 .. n + 1 : x(i) \in Items BY <2>2
    <3> QED BY <2>3, <3>1
  <2>5. transcript' \in Seq(Items) /\ Len(transcript') = n + 1 BY <2>4
  <2> QED BY <2>2, <2>3, <2>5
<1>3. TuiTypeOK' BY <1>0, <1>1, <1>2 DEF TuiTypeOK, Items
<1>4. HeldInv' /\ AskingInv' BY <1>0, <1>1 DEF HeldInv, AskingInv, TurnWaits
<1>5. Cards(transcript', "pending") = {} BY <1>2 DEF Cards
<1>6. CardsInv' BY <1>5 DEF CardsInv
<1>7. TurnInv' /\ TurnIsShownInOrder' BY <1>0, <1>1 DEF TurnInv, NoTurn, TurnIsShownInOrder
<1> QED BY <1>3, <1>4, <1>6, <1>7 DEF TuiInv

LEMMA TuiStart == TuiInit => TuiInv
<1> SUFFICES ASSUME TuiInit PROVE TuiInv OBVIOUS
<1> DEFINE x == [kind |-> "block", turn |-> 0, call |-> "none", phase |-> "none"]
<1>1. turnNum = 0 /\ turnNum \in Nat /\ transcript = <<x>> /\ turn = NoTurn /\ asks = <<>> /\ permQueue = <<>> /\ emitted = <<>> BY DEF TuiInit
<1>9. turnNum = 0 BY DEF TuiInit
<1>0. 0 \in 0 .. turnNum BY <1>9
<1>2. x \in Items BY <1>0 DEF Items
<1>3. transcript \in Seq(Items) /\ Len(transcript) = 1 /\ transcript[1].kind = "block"
  <2>1. transcript = <<x>> BY <1>1
  <2>2. x.kind = "block" OBVIOUS
  <2> HIDE DEF x
  <2> QED BY <1>2, <2>1, <2>2
<1>4. NoTurn \in [asst : Nat, tools : [CallIds -> Nat], cancelled : BOOLEAN, n : 0 .. turnNum] BY <1>0 DEF NoTurn
<1>5. /\ asks \in Seq([by : {"turn", "goal"}, waits : BOOLEAN]) /\ Len(asks) = 0
      /\ permQueue \in Seq(1 .. Len(asks)) /\ Len(permQueue) = 0
      /\ emitted \in Seq(CallIds \cup {"assistant"})
  <2>1. asks = <<>> /\ permQueue = <<>> /\ emitted = <<>> BY <1>1
  <2> QED BY <2>1
<1>10. /\ prompting = "none" /\ pending = 0 /\ modal = FALSE /\ switching = FALSE /\ state = "open"
       /\ replaced = 0 /\ intact = TRUE /\ turn = NoTurn /\ latest = "none"
  BY DEF TuiInit
<1> HIDE DEF x
<1>6. TuiTypeOK
  <2>1. turn \in [asst : Nat, tools : [CallIds -> Nat], cancelled : BOOLEAN, n : 0 .. turnNum] BY <1>4, <1>10
  <2>2. pending \in 0 .. Len(asks) BY <1>5, <1>10
  <2>3. turnNum \in Nat /\ replaced \in Nat BY <1>9, <1>10
  <2>4. /\ prompting \in {"none", "text", "tool", "asking"} /\ state \in {"open", "quit", "panic"}
        /\ modal \in BOOLEAN /\ switching \in BOOLEAN /\ intact \in BOOLEAN /\ latest \in CallIds \cup {"none", "assistant"}
    BY <1>10
  <2> QED BY <1>3, <1>5, <2>1, <2>2, <2>3, <2>4 DEF TuiTypeOK
<1>7. Cards(transcript, "pending") = {} BY <1>3 DEF Cards
<1>8. HeldInv /\ AskingInv /\ CardsInv /\ TurnInv /\ TurnIsShownInOrder
  BY <1>5, <1>7, <1>10 DEF HeldInv, AskingInv, CardsInv, TurnInv, TurnIsShownInOrder
<1> QED BY <1>6, <1>8 DEF TuiInv

\* TuiInv is inductive: besides what is promised, a turn waits for one answer at most,
\* an index of it is open exactly while its last event was text, and it knows the card of
\* every id that a call had.
THEOREM TuiInductive == TuiSpec => []TuiInv
<1>1. TuiInit => TuiInv BY TuiStart
<1>2. TuiInv /\ [TuiNext]_tuiVars => TuiInv'
  <2> SUFFICES ASSUME TuiInv, [TuiNext]_tuiVars PROVE TuiInv' OBVIOUS
  <2>0. /\ modal \in BOOLEAN /\ switching \in BOOLEAN /\ state \in {"open", "quit", "panic"}
    BY DEF TuiInv, TuiTypeOK
  <2>1. CASE TextDelta BY <2>1, TextDeltaStep
  <2>2. ASSUME NEW c \in CallIds, ToolStart(c) PROVE TuiInv' BY <2>2, ToolStartStep
  <2>3. CASE ToolEnd BY <2>3, ToolEndStep
  <2>4. CASE TurnDone BY <2>4, TurnDoneStep
  <2>5. CASE TurnAsks BY <2>5, TurnAsksStep
  <2>6. CASE GoalAsks BY <2>6, GoalAsksStep
  <2>7. ASSUME NEW allow \in BOOLEAN, NEW ctrlC \in BOOLEAN, Answer(allow, ctrlC) PROVE TuiInv' BY <2>7, AnswerStep
  <2>8. CASE Submit BY <2>8, SubmitStep
  <2>9. CASE CancelTurn BY <2>9, CancelTurnStep
  <2>10. CASE QuitTui BY <2>0, <2>10, ModeStep DEF QuitTui
  <2>11. CASE ClearTranscript BY <2>0, <2>11, ReplaceStep DEF ClearTranscript, modeVars
  <2>12. CASE OpenModal BY <2>0, <2>12, ModeStep DEF OpenModal
  <2>13. CASE CloseModal BY <2>0, <2>13, ModeStep DEF CloseModal
  <2>14. CASE Pick
    <3>1. PICK n \in Stored : Replace(StoredItems(n)) BY <2>14 DEF Pick
    <3> QED BY <2>0, <2>14, <3>1, ReplaceStep, TuiAssumption DEF Pick
  <2>15. CASE StartSwitch BY <2>0, <2>15, ModeStep DEF StartSwitch
  <2>16. CASE Switched
    <3>1. PICK n \in Stored : Replace(StoredItems(n)) BY <2>16 DEF Switched
    <3> QED BY <2>0, <2>16, <3>1, ReplaceStep, TuiAssumption DEF Switched
  <2>17. CASE UNCHANGED tuiVars
    <3>1. UNCHANGED <<transcriptVars, turnVars, permVars, modal, switching, state>>
      BY <2>17 DEF tuiVars, transcriptVars, turnVars, permVars
    <3> QED BY <2>0, <3>1, ModeStep
  <2> QED BY <2>1, <2>2, <2>3, <2>4, <2>5, <2>6, <2>7, <2>8, <2>9, <2>10, <2>11, <2>12, <2>13, <2>14,
             <2>15, <2>16, <2>17 DEF TuiNext
<1> QED BY <1>1, <1>2, PTL DEF TuiSpec

\* Whatever is asked, cancelled, answered and switched, in any order: no request for
\* permission is lost or shown out of its turn (Model.permQueue, tui.go:150-154).
THEOREM AsksStayInOrder == TuiSpec => []AsksAreHeldInOrder
<1>1. TuiInv => AsksAreHeldInOrder
  <2> SUFFICES ASSUME TuiInv PROVE AsksAreHeldInOrder OBVIOUS
  <2>0. TuiTypeOK /\ HeldInv /\ AskingInv /\ CardsInv BY DEF TuiInv
  <2> DEFINE q == IF pending = 0 THEN <<>> ELSE <<pending>> \o permQueue
  <2>1. permQueue \in Seq(Nat) /\ Len(permQueue) \in Nat /\ pending \in Nat
    <3>1. permQueue \in Seq(1 .. Len(asks)) /\ Len(asks) \in Nat BY <2>0, LenProperties DEF TuiTypeOK
    <3>2. 1 .. Len(asks) \subseteq Nat BY <3>1
    <3> QED BY <2>0, <3>1, <3>2, SeqMonotonic, LenProperties DEF TuiTypeOK
  <2>2. /\ \A i, j \in 1 .. Len(q) : i < j => q[i] < q[j]
        /\ \A n \in 1 .. Len(asks) : asks[n].waits => \E i \in 1 .. Len(q) : q[i] = n
    <3>1. CASE pending = 0
      <4>1. q = <<>> /\ permQueue = <<>> BY <2>0, <3>1 DEF HeldInv
      <4>2. Len(q) = 0 /\ Len(permQueue) = 0 BY <4>1
      <4>3. \A n \in 1 .. Len(asks) : ~asks[n].waits BY <2>0, <3>1, <4>2 DEF HeldInv
      <4> HIDE DEF q
      <4> QED BY <4>2, <4>3
    <3>2. CASE pending # 0
      <4>1. <<pending>> \in Seq(Nat) /\ Len(<<pending>>) = 1 /\ <<pending>>[1] = pending BY <2>1
      <4>2. q = <<pending>> \o permQueue BY <3>2
      <4> HIDE DEF q
      <4>3. /\ Len(q) = 1 + Len(permQueue)
            /\ \A i \in 1 .. 1 + Len(permQueue) : q[i] = IF i <= 1 THEN <<pending>>[i] ELSE permQueue[i - 1]
        BY <2>1, <4>1, <4>2, ConcatProperties
      <4>4. q[1] = pending /\ 1 \in 1 .. Len(q) BY <2>1, <4>1, <4>3
      <4>5. \A k \in 1 .. Len(permQueue) : k + 1 \in 1 .. Len(q) /\ q[k + 1] = permQueue[k] BY <2>1, <4>3
      <4>6. \A i \in 1 .. Len(q) : i = 1 \/ (i - 1 \in 1 .. Len(permQueue) /\ q[i] = permQueue[i - 1])
        BY <2>1, <4>3
      <4>7. ASSUME NEW i \in 1 .. Len(q), NEW j \in 1 .. Len(q), i < j PROVE q[i] < q[j]
        <5>1. j - 1 \in 1 .. Len(permQueue) /\ q[j] = permQueue[j - 1] BY <4>6, <4>7
        <5>2. CASE i = 1 BY <2>0, <4>4, <5>1, <5>2 DEF HeldInv
        <5>3. CASE i # 1
          <6>1. i - 1 \in 1 .. Len(permQueue) /\ q[i] = permQueue[i - 1] /\ i - 1 < j - 1 BY <4>6, <4>7, <5>3
          <6> QED BY <2>0, <5>1, <6>1 DEF HeldInv
        <5> QED BY <5>2, <5>3
      <4>8. ASSUME NEW n \in 1 .. Len(asks), asks[n].waits PROVE \E i \in 1 .. Len(q) : q[i] = n
        <5>1. n = pending \/ \E i \in 1 .. Len(permQueue) : permQueue[i] = n BY <2>0, <4>8 DEF HeldInv
        <5> QED BY <4>4, <4>5, <5>1
      <4> QED BY <4>7, <4>8
    <3> QED BY <3>1, <3>2
  <2>3. Cardinality(Cards(transcript, "pending")) <= (IF pending = 0 THEN 0 ELSE 1)
    <3>1. CASE Cards(transcript, "pending") = {} BY <3>1, FS_EmptySet
    <3>2. CASE Cards(transcript, "pending") # {}
      <4>1. PICK i \in Cards(transcript, "pending") : TRUE BY <3>2
      <4>2. Cards(transcript, "pending") = {i} BY <2>0, <4>1 DEF CardsInv
      <4>3. pending # 0 BY <2>0, <3>2 DEF CardsInv
      <4>4. Cardinality(Cards(transcript, "pending")) = 1 BY <4>2, FS_Singleton
      <4> QED BY <4>3, <4>4
    <3> QED BY <3>1, <3>2
  <2>4. prompting = "asking" => \E n \in 1 .. Len(asks) : asks[n].by = "turn" /\ asks[n].waits
    BY <2>0 DEF AskingInv, TurnWaits
  <2>5. pending = 0 => permQueue = <<>> BY <2>0 DEF HeldInv
  <2> QED BY <2>2, <2>3, <2>4, <2>5 DEF AsksAreHeldInOrder
<1> QED BY <1>1, TuiInductive, PTL

\* Whatever permissions are asked for meanwhile: a turn whose transcript is not replaced
\* is shown in the order of its events, each id of a call once, where it came first
\* (handleTextDelta, handleToolStart, handleToolEnd).
THEOREM TurnsAreShownInOrder == TuiSpec => []TurnIsShownInOrder
<1>1. TuiInv => TurnIsShownInOrder BY DEF TuiInv
<1> QED BY <1>1, TuiInductive, PTL

\* What the user is shown of requests and turns is true (Model.permQueue,
\* Model.transcript).
THEOREM ScreenStaysTrue == TuiSpec => []ScreenIsTrue
<1>1. AsksAreHeldInOrder /\ TurnIsShownInOrder => ScreenIsTrue BY DEF ScreenIsTrue
<1> QED BY <1>1, AsksStayInOrder, TurnsAreShownInOrder, PTL

-----------------------------------------------------------------------------
(* EditLadder. *)

\* A set of numbers has a least element.
LEMMA LeastIsThere ==
  ASSUME NEW T \in SUBSET Nat, T # {}
  PROVE  \E x \in T : \A y \in T : x <= y
<1>1. PICK x \in T : \A y \in T : ~(<<y, x>> \in OpToRel(<, Nat))
  BY WFMin, NatLessThanWellFounded
<1>2. \A y \in T : ~(y < x) BY <1>1 DEF OpToRel
<1>3. \A y \in T : x <= y BY <1>2
<1> QED BY <1>3

\* Induction up to n, with the set of the numbers that are good.
LEMMA UpTo ==
  ASSUME NEW n \in Nat, NEW Good, 0 \in Good, \A k \in 1 .. n : k - 1 \in Good => k \in Good
  PROVE  \A k \in 0 .. n : k \in Good
<1> DEFINE Bad == {k \in 0 .. n : k \notin Good}
<1>1. SUFFICES ASSUME Bad # {} PROVE FALSE OBVIOUS
<1>2. Bad \in SUBSET Nat OBVIOUS
<1>3. PICK x \in Bad : \A y \in Bad : x <= y
  <2> HIDE DEF Bad
  <2> QED BY <1>1, <1>2, LeastIsThere
<1>4. x \in 1 .. n /\ x \notin Good OBVIOUS
<1>5. x - 1 \in 0 .. n /\ x - 1 \in Good BY <1>3, <1>4
<1> QED BY <1>4, <1>5

\* n steps from one T to the next, and what they compute.
Steps(n, T) == [1 .. n -> [T -> T]]
Computes(h, n, T, base, G) ==
  h \in [0 .. n -> T] /\ h[0] = base /\ \A i \in 1 .. n : h[i] = G[i][h[i - 1]]

\* What is computed step by step exists.
LEMMA Iterates ==
  ASSUME NEW n \in Nat, NEW T, NEW base \in T, NEW G \in Steps(n, T)
  PROVE  \E h : Computes(h, n, T, base, G)
<1> USE DEF Steps
<1> DEFINE P(k) == \E h \in [0 .. k -> T] : h[0] = base /\ \A i \in 1 .. k : h[i] = G[i][h[i - 1]]
           Good == {k \in 0 .. n : P(k)}
<1>1. P(0)
  <2> DEFINE h == [i \in 0 .. 0 |-> base]
  <2>1. h \in [0 .. 0 -> T] /\ h[0] = base OBVIOUS
  <2>2. \A i \in 1 .. 0 : h[i] = G[i][h[i - 1]] OBVIOUS
  <2> QED BY <2>1, <2>2
<1>2. ASSUME NEW k \in 1 .. n, P(k - 1) PROVE P(k)
  <2>1. PICK h \in [0 .. k - 1 -> T] : h[0] = base /\ \A i \in 1 .. k - 1 : h[i] = G[i][h[i - 1]] BY <1>2
  <2> DEFINE g == [i \in 0 .. k |-> IF i = k THEN G[k][h[k - 1]] ELSE h[i]]
  <2>2. h[k - 1] \in T OBVIOUS
  <2>3. G[k][h[k - 1]] \in T BY <2>2
  <2>4. g \in [0 .. k -> T] BY <2>3
  <2>5. g[0] = base BY <2>1
  <2>6. ASSUME NEW i \in 1 .. k PROVE g[i] = G[i][g[i - 1]]
    <3>1. CASE i = k BY <3>1
    <3>2. CASE i # k BY <3>2, <2>1
    <3> QED BY <3>1, <3>2
  <2> QED BY <2>4, <2>5, <2>6
<1>3. \A k \in 1 .. n : k - 1 \in Good => k \in Good
  <2>1. \A k \in 1 .. n : P(k - 1) => P(k) BY <1>2
  <2> HIDE DEF P
  <2> QED BY <2>1
<1>4. 0 \in Good BY <1>1
<1> HIDE DEF P
<1>5. n \in Good
  <2> HIDE DEF Good
  <2> DEFINE everyone == \A k \in 0 .. n : k \in Good
  <2>1. everyone BY <1>3, <1>4, UpTo
  <2>2. n \in 0 .. n OBVIOUS
  <2> QED BY <2>1, <2>2
<1> QED BY <1>5 DEF P, Computes


\* What edit_file is called with.
Inputs ==
  /\ file \in Seq(FileLine) /\ needle \in Seq(ArgLine) /\ new \in Seq(ArgLine) /\ Len(needle) > 0
  /\ all \in BOOLEAN

\* The lengths of what it is called with.
LEMMA InputsTyped == Inputs => Len(file) \in Nat /\ Len(needle) \in Nat /\ Len(needle) > 0 /\ Len(new) \in Nat
BY DEF Inputs

\* Two computations that take the same steps are the same.
LEMMA SameSteps ==
  ASSUME NEW n \in Nat, NEW f, NEW h,
         f[0] = h[0], \A k \in 1 .. n : f[k - 1] = h[k - 1] => f[k] = h[k]
  PROVE  \A k \in 0 .. n : f[k] = h[k]
<1> DEFINE Good == {i \in 0 .. n : f[i] = h[i]}
<1>1. 0 \in Good OBVIOUS
<1>2. \A i \in 1 .. n : i - 1 \in Good => i \in Good
  <2>1. ASSUME NEW i \in 1 .. n, i - 1 \in Good PROVE i \in Good
    <3>1. i \in 0 .. n OBVIOUS
    <3>2. f[i - 1] = h[i - 1] BY <2>1
    <3> QED BY <3>1, <3>2
  <2> QED BY <2>1
<1>3. \A i \in 0 .. n : i \in Good
  <2> HIDE DEF Good
  <2> QED BY <1>1, <1>2, UpTo
<1> QED BY <1>3

\* What the windows of the first k lines are.
Fits(w, places, k) ==
  /\ w \in Seq(Nat) /\ \A i \in 1 .. Len(w) : w[i] \in places /\ w[i] <= k
  /\ \A i \in 1 .. Len(w) - 1 : w[i] + Len(needle) <= w[i + 1]
  /\ \A m \in places : m <= k => w # <<>> /\ w[1] <= m /\ m < w[Len(w)] + Len(needle)

\* One line more.
LEMMA TakeFits ==
  ASSUME Inputs, NEW places \in SUBSET (Nat \ {0}), NEW k \in Nat, k > 0, NEW w, Fits(w, places, k - 1)
  PROVE  Fits(IF k \in places /\ (w = <<>> \/ Last(w) + Len(needle) <= k) THEN Append(w, k) ELSE w, places, k)
<1> DEFINE n == Len(needle)
           d == Len(w)
<1>1. n \in Nat /\ n > 0 BY InputsTyped
<1>2. w \in Seq(Nat) /\ d \in Nat BY DEF Fits
<1>3. \A i \in 1 .. d : w[i] \in places /\ w[i] \in Nat /\ w[i] <= k - 1 BY <1>2 DEF Fits
<1>4. \A i \in 1 .. d - 1 : w[i] + n <= w[i + 1] BY DEF Fits
<1>5. \A m \in places : m <= k - 1 => w # <<>> /\ w[1] <= m /\ m < w[d] + n BY DEF Fits
<1>6. w # <<>> => d > 0 /\ w[1] \in Nat /\ w[d] \in Nat /\ w[1] <= k - 1 /\ Last(w) = w[d] BY <1>2, <1>3 DEF Last
<1>7. CASE k \in places /\ (w = <<>> \/ Last(w) + n <= k)
  <2> DEFINE u == Append(w, k)
  <2>1. u \in Seq(Nat) /\ Len(u) = d + 1 /\ u[d + 1] = k /\ \A i \in 1 .. d : u[i] = w[i] BY <1>2
  <2> HIDE DEF u
  <2>2. \A i \in 1 .. Len(u) : i \in 1 .. d \/ i = d + 1 BY <1>2, <2>1
  <2>3. \A i \in 1 .. Len(u) : u[i] \in places /\ u[i] <= k
    <3>1. ASSUME NEW i \in 1 .. d PROVE u[i] \in places /\ u[i] <= k
      <4>1. u[i] = w[i] /\ w[i] \in places /\ w[i] \in Nat /\ w[i] <= k - 1 BY <1>3, <2>1
      <4> QED BY <4>1
    <3> QED BY <1>7, <2>1, <2>2, <3>1
  <2>4. ASSUME NEW i \in 1 .. Len(u) - 1 PROVE u[i] + n <= u[i + 1]
    <3>1. i \in 1 .. d BY <1>2, <2>1
    <3>2. CASE i = d
      <4>1. w # <<>> BY <1>2, <3>1
      <4> QED BY <1>6, <1>7, <2>1, <3>1, <3>2, <4>1
    <3>3. CASE i # d
      <4>1. i \in 1 .. d - 1 /\ i + 1 \in 1 .. d BY <1>2, <3>1, <3>3
      <4> QED BY <1>4, <2>1, <3>1, <4>1
    <3> QED BY <3>2, <3>3
  <2>5. ASSUME NEW m \in places, m <= k PROVE u # <<>> /\ u[1] <= m /\ m < u[Len(u)] + n
    <3>1. u # <<>> /\ m \in Nat /\ u[Len(u)] = k /\ m < k + n BY <1>1, <1>2, <2>1, <2>5
    <3>2. CASE w = <<>>
      <4>1. u[1] = k /\ d = 0 BY <2>1, <3>2
      <4>2. ~(m <= k - 1) BY <1>5, <3>2
      <4> QED BY <2>5, <3>1, <4>1, <4>2
    <3>3. CASE w # <<>>
      <4>1. u[1] = w[1] /\ w[1] <= k - 1 /\ w[1] \in Nat BY <1>2, <1>6, <2>1, <3>3
      <4>2. CASE m <= k - 1 BY <1>5, <3>1, <4>1, <4>2
      <4>3. CASE ~(m <= k - 1) BY <2>5, <3>1, <4>1, <4>3
      <4> QED BY <4>2, <4>3
    <3> QED BY <3>2, <3>3
  <2>6. Fits(u, places, k) BY <2>1, <2>3, <2>4, <2>5 DEF Fits
  <2> QED BY <1>7, <2>6 DEF u
<1>8. CASE ~(k \in places /\ (w = <<>> \/ Last(w) + n <= k))
  <2>1. \A i \in 1 .. d : w[i] \in places /\ w[i] <= k BY <1>3
  <2>2. ASSUME NEW m \in places, m <= k PROVE w # <<>> /\ w[1] <= m /\ m < w[d] + n
    <3>1. CASE m <= k - 1 BY <1>5, <3>1
    <3>2. CASE ~(m <= k - 1)
      <4>1. m = k BY <2>2, <3>2
      <4>2. w # <<>> /\ ~(Last(w) + n <= k) BY <1>8, <4>1
      <4> QED BY <1>1, <1>6, <4>1, <4>2
    <3> QED BY <3>1, <3>2
  <2>3. Fits(w, places, k) BY <1>2, <1>4, <2>1, <2>2 DEF Fits
  <2> QED BY <1>8, <2>3
<1> QED BY <1>7, <1>8

\* The windows are of the places, do not overlap, and there are two of them where two
\* places do not overlap.
LEMMA WindowsFit ==
  ASSUME Inputs, NEW places \in SUBSET (Nat \ {0})
  PROVE  Fits(Windows(places), places, Len(file))
<1> DEFINE n == Len(file)
           Longer(k, w) == IF k \in places /\ (w = <<>> \/ Last(w) + Len(needle) <= k) THEN Append(w, k) ELSE w
           G == [k \in 1 .. n |-> [w \in Seq(Nat) |-> Longer(k, w)]]
           up == CHOOSE f : f = [k \in 0 .. n |-> IF k = 0 THEN <<>> ELSE Longer(k, f[k - 1])]
<1>1. n \in Nat BY InputsTyped
<1>2. Windows(places) = up[n] BY DEF Windows
<1>3. \A k \in 1 .. n, w \in Seq(Nat) : Longer(k, w) \in Seq(Nat)
  <2>1. \A k \in 1 .. n : k \in Nat BY <1>1
  <2> QED BY <2>1
<1>4. \A k \in Nat : \A w : k > 0 /\ Fits(w, places, k - 1) => Fits(Longer(k, w), places, k) BY TakeFits
<1> HIDE DEF Longer, n
<1>5. G \in Steps(n, Seq(Nat)) BY <1>3 DEF Steps
<1>6. PICK h : Computes(h, n, Seq(Nat), <<>>, G)
  <2> DEFINE none == <<>>
             T == Seq(Nat)
  <2>1. none \in T OBVIOUS
  <2>2. G \in Steps(n, T) BY <1>5
  <2> HIDE DEF G, none, T
  <2>3. \E h : Computes(h, n, T, none, G) BY <1>1, <2>1, <2>2, Iterates
  <2> QED BY <2>3 DEF none, T
<1>7. /\ h \in [0 .. n -> Seq(Nat)] /\ h = [k \in 0 .. n |-> h[k]]
      /\ h[0] = <<>> /\ \A k \in 1 .. n : h[k] = G[k][h[k - 1]]
  BY <1>6 DEF Computes
<1>8. \A k \in 1 .. n : h[k] = Longer(k, h[k - 1])
  <2>1. \A k \in 1 .. n : h[k - 1] \in Seq(Nat) BY <1>1, <1>7
  <2> QED BY <1>7, <2>1
<1> HIDE DEF G
<1>9. up = [k \in 0 .. n |-> IF k = 0 THEN <<>> ELSE Longer(k, up[k - 1])]
  <2>1. h = [k \in 0 .. n |-> IF k = 0 THEN <<>> ELSE Longer(k, h[k - 1])]
    <3>1. \A k \in 0 .. n : h[k] = IF k = 0 THEN <<>> ELSE Longer(k, h[k - 1])
      <4>1. \A k \in 0 .. n : k = 0 \/ k \in 1 .. n BY <1>1
      <4> QED BY <1>7, <1>8, <4>1
    <3> QED BY <1>7, <3>1
  <2> QED BY <2>1
<1> HIDE DEF up
<1>10. up[n] = h[n]
  <2>2. up[0] = h[0] BY <1>1, <1>7, <1>9
  <2>3. \A k \in 1 .. n : up[k] = Longer(k, up[k - 1])
    <3>1. \A k \in 1 .. n : k \in 0 .. n /\ k # 0 BY <1>1
    <3> QED BY <1>9, <3>1, Zenon
  <2>4. \A k \in 1 .. n : up[k - 1] = h[k - 1] => up[k] = h[k] BY <1>8, <2>3
  <2>5. \A k \in 0 .. n : up[k] = h[k] BY <1>1, <2>2, <2>4, SameSteps
  <2> QED BY <1>1, <2>5
<1> DEFINE Good == {k \in 0 .. n : Fits(h[k], places, k)}
<1>11. 0 \in Good
  <2>1. Fits(h[0], places, 0)
    <3>0. <<>> \in Seq(Nat) /\ Len(<<>>) = 0 OBVIOUS
    <3>1. h[0] \in Seq(Nat) /\ Len(h[0]) = 0 BY <1>7, <3>0
    <3>2. \A m \in places : ~(m <= 0) OBVIOUS
    <3> QED BY <3>1, <3>2 DEF Fits
  <2> QED BY <1>1, <2>1
<1>12. \A k \in 1 .. n : k - 1 \in Good => k \in Good
  <2>1. ASSUME NEW k \in 1 .. n, k - 1 \in Good PROVE Fits(h[k], places, k)
    <3>1. k \in Nat /\ k > 0 BY <1>1
    <3> QED BY <1>4, <1>8, <2>1, <3>1
  <2> QED BY <1>1, <2>1
<1>13. n \in Good
  <2> HIDE DEF Good
  <2>1. \A k \in 0 .. n : k \in Good BY <1>1, <1>11, <1>12, UpTo
  <2> QED BY <1>1, <2>1
<1> QED BY <1>2, <1>10, <1>13 DEF n

\* A line that is written: what is left of a line may be shorter than what was quoted.
OutLine == [ind : Seq(STRING), txt : STRING, fancy : BOOLEAN, pad : Int]

\* What the lines are made of.
LEMMA LinesTyped ==
  ASSUME Inputs
  PROVE  /\ BareLines \in Seq(OutLine) /\ Len(BareLines) = Len(file)
         /\ \A i \in 1 .. Len(file) : /\ file[i] \in FileLine /\ BareLines[i] = Bare(file[i]) /\ BareLines[i] \in OutLine
                                      /\ BareLines[i].ind \in Seq(STRING) /\ BareLines[i].pad \in Int
         /\ \A i \in 1 .. Len(needle) : needle[i] \in ArgLine /\ needle[i].ind \in Seq(STRING) /\ needle[i].pad \in Int
         /\ \A i \in 1 .. Len(new) : new[i] \in ArgLine /\ new[i] \in OutLine
<1>1. \A x \in FileLine : Bare(x) \in OutLine /\ Bare(x).ind \in Seq(STRING) /\ Bare(x).pad \in Int
  BY DEF FileLine, OutLine, Bare
<1>2. \A x \in ArgLine : x \in OutLine /\ x.ind \in Seq(STRING) /\ x.pad \in Int BY DEF ArgLine, OutLine
<1>3. \A i \in 1 .. Len(file) : file[i] \in FileLine BY DEF Inputs
<1>4. \A i \in 1 .. Len(needle) : needle[i] \in ArgLine BY DEF Inputs
<1>5. \A i \in 1 .. Len(new) : new[i] \in ArgLine BY DEF Inputs
<1>6. BareLines = [i \in 1 .. Len(file) |-> Bare(file[i])] BY DEF BareLines
<1>7. Len(file) \in Nat BY InputsTyped
<1>8. BareLines \in Seq(OutLine) /\ Len(BareLines) = Len(file)
  <2>1. BareLines \in [1 .. Len(file) -> OutLine] BY <1>1, <1>3, <1>6
  <2> HIDE DEF BareLines
  <2> QED BY <1>7, <2>1
<1>9. \A i \in 1 .. Len(file) : BareLines[i] = Bare(file[i]) BY <1>6
<1> QED BY <1>1, <1>2, <1>3, <1>4, <1>5, <1>8, <1>9

\* What is put into a window has the lines of new_string.
LEMMA RenderTyped ==
  ASSUME Inputs, NEW stage, NEW at \in Starts
  PROVE  Render(stage, BareLines, at) \in Seq(OutLine) /\ Len(Render(stage, BareLines, at)) = Len(new)
<1> DEFINE lines == BareLines
           n == Len(needle)
           N == Len(new)
<1>1. /\ Len(file) \in Nat /\ n \in Nat /\ n > 0 /\ N \in Nat BY InputsTyped
<1>2. at \in 1 .. Len(file) /\ at + n - 1 \in 1 .. Len(file) /\ 1 \in 1 .. n /\ n \in 1 .. n
      /\ \A p \in 1 .. n : at + p - 1 \in 1 .. Len(file)
  BY <1>1 DEF Starts
<1>3. /\ \A x \in OutLine, s \in Seq(STRING) : [x EXCEPT !.ind = s] \in OutLine
      /\ \A x \in OutLine, s \in Seq(STRING), q \in Int : [x EXCEPT !.ind = s, !.pad = q] \in OutLine
  BY DEF OutLine
<1>4. \A x \in OutLine : x.ind \in Seq(STRING) /\ x.pad \in Int BY DEF OutLine
<1>5. ASSUME NEW x \in OutLine PROVE Reindent(lines, at, x) \in OutLine
  <2> DEFINE pairs == Pairs(lines, at)
             best == Longest(pairs, x.ind)
             p == CHOOSE p \in best : TRUE
             tail == SubSeq(x.ind, Len(needle[p].ind) + 1, Len(x.ind))
             to == lines[at + p - 1].ind
  <2>1. CASE best = {} BY <2>1 DEF Reindent
  <2>2. CASE best # {}
    <3>1. p \in best BY <2>2
    <3>2. p \in 1 .. n BY <3>1 DEF Longest, Pairs
    <3> HIDE DEF p
    <3>3. needle[p].ind \in Seq(STRING) /\ to \in Seq(STRING) BY <1>2, <3>2, LinesTyped
    <3>4. tail \in Seq(STRING)
      <4> DEFINE c == x.ind
                 k == Len(needle[p].ind) + 1
      <4>1. c \in Seq(STRING) /\ k \in Int /\ k > 0 BY <1>4, <3>3
      <4> HIDE DEF c, k
      <4>2. Len(c) \in Int /\ \A i \in k .. Len(c) : c[i] \in STRING BY <4>1
      <4>3. SubSeq(c, k, Len(c)) \in Seq(STRING) BY <4>1, <4>2, SubSeqProperties
      <4> QED BY <4>3 DEF c, k
    <3> HIDE DEF tail, to
    <3>5. to \o tail \in Seq(STRING) BY <3>3, <3>4, ConcatProperties
    <3>6. [x EXCEPT !.ind = to \o tail] \in OutLine BY <1>3, <3>5
    <3>7. Reindent(lines, at, x) = x \/ Reindent(lines, at, x) = [x EXCEPT !.ind = to \o tail]
      BY DEF Reindent, p, tail, to
    <3> QED BY <3>6, <3>7
  <2> QED BY <2>1, <2>2
<1>6. CASE Reindents(stage)
  <2>1. Render(stage, lines, at) = [i \in 1 .. N |-> Reindent(lines, at, new[i])] BY <1>6 DEF Render
  <2>2. \A i \in 1 .. N : Reindent(lines, at, new[i]) \in OutLine BY <1>5, LinesTyped
  <2>3. Render(stage, lines, at) \in [1 .. N -> OutLine] BY <2>1, <2>2
  <2> QED BY <1>1, <2>3
<1>7. CASE ~Reindents(stage) /\ ~KeepsEnds(stage)
  <2>1. Render(stage, lines, at) = new BY <1>7 DEF Render
  <2>2. new \in Seq(OutLine)
    <3>1. new \in [1 .. N -> OutLine] BY LinesTyped DEF Inputs
    <3> QED BY <1>1, <3>1
  <2> QED BY <2>1, <2>2
<1>8. CASE ~Reindents(stage) /\ KeepsEnds(stage)
  <2> DEFINE kept == SubSeq(lines[at].ind, 1, Len(lines[at].ind) - Len(needle[1].ind))
             rest == lines[at + n - 1].pad - needle[n].pad
             line(i) == [new[i] EXCEPT !.ind = IF i = 1 THEN kept \o @ ELSE @, !.pad = IF i = N THEN @ + rest ELSE @]
  <2>1. Render(stage, lines, at) = [i \in 1 .. N |-> line(i)] BY <1>8 DEF Render
  <2>2. kept \in Seq(STRING)
    <3> DEFINE c == lines[at].ind
               k == Len(c) - Len(needle[1].ind)
    <3> DEFINE e == needle[1].ind
    <3>1. c \in Seq(STRING) /\ e \in Seq(STRING) BY <1>1, <1>2, LinesTyped
    <3> HIDE DEF c, e
    <3>2. Len(c) \in Nat /\ k \in Int /\ k <= Len(c) BY <3>1
    <3> HIDE DEF k
    <3>3. \A i \in 1 .. k : c[i] \in STRING BY <3>1, <3>2
    <3>4. SubSeq(c, 1, k) \in Seq(STRING) BY <3>2, <3>3, SubSeqProperties
    <3> QED BY <3>4 DEF c, e, k
  <2>3. rest \in Int
    <3>1. lines[at + n - 1].pad \in Int /\ needle[n].pad \in Int BY <1>2, LinesTyped
    <3> QED BY <3>1
  <2> HIDE DEF kept, rest
  <2>4. ASSUME NEW i \in 1 .. N PROVE line(i) \in OutLine
    <3> DEFINE x == new[i]
               d == IF i = 1 THEN kept \o x.ind ELSE x.ind
               q == IF i = N THEN x.pad + rest ELSE x.pad
    <3>1. x \in OutLine /\ x.ind \in Seq(STRING) /\ x.pad \in Int BY <1>4, LinesTyped
    <3>2. d \in Seq(STRING) BY <2>2, <3>1, ConcatProperties
    <3>3. q \in Int BY <2>3, <3>1
    <3>4. line(i) = [x EXCEPT !.ind = d, !.pad = q] OBVIOUS
    <3> HIDE DEF x, d, q
    <3> QED BY <1>3, <3>1, <3>2, <3>3, <3>4
  <2> HIDE DEF line
  <2>5. Render(stage, lines, at) \in [1 .. N -> OutLine] BY <2>1, <2>4
  <2> QED BY <1>1, <2>5
<1> QED BY <1>6, <1>7, <1>8

\* Three parts in a row.
LEMMA ThreeParts ==
  ASSUME NEW S, NEW a \in Seq(S), NEW b \in Seq(S), NEW c \in Seq(S)
  PROVE  /\ a \o b \o c \in Seq(S) /\ Len(a \o b \o c) = Len(a) + Len(b) + Len(c)
         /\ \A i \in 1 .. Len(a) : (a \o b \o c)[i] = a[i]
         /\ \A i \in 1 .. Len(b) : (a \o b \o c)[Len(a) + i] = b[i]
         /\ \A i \in 1 .. Len(c) : (a \o b \o c)[Len(a) + Len(b) + i] = c[i]
<1> DEFINE p == Len(a)
           q == Len(b)
           r == Len(c)
           d == a \o b
           e == d \o c
<1>1. p \in Nat /\ q \in Nat /\ r \in Nat OBVIOUS
<1>2. d \in Seq(S) /\ Len(d) = p + q /\ \A i \in 1 .. p + q : d[i] = IF i <= p THEN a[i] ELSE b[i - p]
  BY ConcatProperties
<1> HIDE DEF d
<1> DEFINE m == Len(d)
<1>3. e \in Seq(S) /\ Len(e) = m + r /\ \A i \in 1 .. m + r : e[i] = IF i <= m THEN d[i] ELSE c[i - m]
  <2>1. d \in Seq(S) BY <1>2
  <2>2. e \in Seq(S) /\ Len(e) = m + r BY <2>1, ConcatProperties
  <2>3. \A i \in 1 .. Len(d) + Len(c) : (d \o c)[i] = IF i <= Len(d) THEN d[i] ELSE c[i - Len(d)]
    BY ONLY <2>1, c \in Seq(S), ConcatProperties
  <2> QED BY <2>2, <2>3
<1>m. m = p + q BY <1>2
<1> HIDE DEF e, p, q, r, m
<1>e. e \in Seq(S) /\ Len(e) = p + q + r /\ \A i \in 1 .. p + q + r : e[i] = IF i <= p + q THEN d[i] ELSE c[i - (p + q)]
  BY <1>3, <1>m
<1>4. \A i \in 1 .. p : i \in 1 .. p + q /\ i \in 1 .. p + q + r /\ i <= p + q /\ i <= p BY <1>1
<1>5. \A i \in 1 .. q : p + i \in 1 .. p + q /\ p + i \in 1 .. p + q + r /\ p + i <= p + q /\ ~(p + i <= p) /\ (p + i) - p = i BY <1>1
<1>6. \A i \in 1 .. r : p + q + i \in 1 .. p + q + r /\ ~(p + q + i <= p + q) /\ (p + q + i) - (p + q) = i BY <1>1
<1>7. \A i \in 1 .. p : e[i] = a[i] BY <1>2, <1>e, <1>4
<1>8. \A i \in 1 .. q : e[p + i] = b[i] BY <1>2, <1>e, <1>5
<1>9. \A i \in 1 .. r : e[p + q + i] = c[i] BY <1>e, <1>6
<1> QED BY <1>e, <1>7, <1>8, <1>9 DEF e, d, p, q, r

\* Windows that replaceSpans takes.
IsWindows(w) ==
  /\ w \in Seq(Nat) /\ Len(w) > 0 /\ \A i \in 1 .. Len(w) : w[i] \in Starts
  /\ \A i \in 1 .. Len(w) - 1 : w[i] + Len(needle) <= w[i + 1]

\* What the first k windows and the lines before them become.
Copied(stage, w, h) ==
  /\ h \in [0 .. Len(w) -> Seq(OutLine)] /\ h[0] = <<>>
  /\ \A k \in 1 .. Len(w) :
       h[k] = h[k - 1] \o SubSeq(BareLines, IF k = 1 THEN 1 ELSE w[k - 1] + Len(needle), w[k] - 1)
                       \o Render(stage, BareLines, w[k])
  /\ Replaced(stage, BareLines, w) = h[Len(w)] \o SubSeq(BareLines, w[Len(w)] + Len(needle), Len(file))

\* The lines between two windows.
LEMMA LinesBetween ==
  ASSUME Inputs, NEW a \in 1 .. Len(file) + 1, NEW b \in 0 .. Len(file), a <= b + 1
  PROVE  /\ SubSeq(BareLines, a, b) \in Seq(OutLine) /\ Len(SubSeq(BareLines, a, b)) = b - a + 1
         /\ \A i \in 1 .. b - a + 1 : SubSeq(BareLines, a, b)[i] = BareLines[a + i - 1]
<1>1. Len(file) \in Nat BY InputsTyped
<1>2. a \in Int /\ b \in Int /\ \A i \in a .. b : i \in 1 .. Len(file) BY <1>1
<1>3. \A i \in a .. b : BareLines[i] \in OutLine BY <1>2, LinesTyped
<1>4. /\ SubSeq(BareLines, a, b) \in Seq(OutLine) /\ Len(SubSeq(BareLines, a, b)) = IF a <= b THEN b - a + 1 ELSE 0
      /\ \A i \in 1 .. b - a + 1 : SubSeq(BareLines, a, b)[i] = BareLines[a + i - 1]
  BY <1>2, <1>3, SubSeqProperties
<1>5. (IF a <= b THEN b - a + 1 ELSE 0) = b - a + 1 BY <1>2
<1> QED BY <1>4, <1>5

\* replaceSpans makes its text window by window.
LEMMA CopyExists == ASSUME Inputs, NEW stage, NEW w, IsWindows(w) PROVE \E h : Copied(stage, w, h)
<1> DEFINE L == Len(w)
           T == Seq(OutLine)
           from(k) == IF k = 1 THEN 1 ELSE w[k - 1] + Len(needle)
           Put(k, s) == s \o SubSeq(BareLines, from(k), w[k] - 1) \o Render(stage, BareLines, w[k])
           G == [k \in 1 .. L |-> [s \in T |-> Put(k, s)]]
           up == CHOOSE f : f = [k \in 0 .. L |-> IF k = 0 THEN <<>> ELSE Put(k, f[k - 1])]
<1>1. L \in Nat /\ L > 0 /\ Len(file) \in Nat /\ Len(needle) \in Nat /\ Len(needle) > 0 BY InputsTyped DEF IsWindows
<1>2. Replaced(stage, BareLines, w) = up[L] \o SubSeq(BareLines, w[L] + Len(needle), Len(file))
  BY LinesTyped DEF Replaced
<1>3. \A k \in 1 .. L, s \in T : Put(k, s) \in T
  <2> SUFFICES ASSUME NEW k \in 1 .. L, NEW s \in T PROVE Put(k, s) \in T OBVIOUS
  <2> DEFINE a == from(k)
             b == w[k] - 1
  <2>1. w[k] \in Starts /\ w[k] \in 1 .. Len(file) BY <1>1 DEF IsWindows, Starts
  <2>2. a \in 1 .. Len(file) + 1 /\ a <= b + 1
    <3>1. CASE k = 1 BY <1>1, <2>1, <3>1
    <3>2. CASE k # 1
      <4> DEFINE j == k - 1
      <4>1. j \in 1 .. L - 1 /\ j \in 1 .. L /\ j + 1 = k BY <1>1, <3>2
      <4> HIDE DEF j
      <4>2. w[j] + Len(needle) <= w[j + 1] /\ w[j] \in Starts BY <4>1 DEF IsWindows
      <4>3. w[j] \in Nat /\ w[j] > 0 BY <1>1, <4>2 DEF Starts
      <4>4. a = w[j] + Len(needle) BY <3>2 DEF j
      <4> HIDE DEF a
      <4> QED BY <1>1, <2>1, <4>1, <4>2, <4>3, <4>4
    <3> QED BY <3>1, <3>2
  <2>3. b \in 0 .. Len(file) BY <1>1, <2>1
  <2> HIDE DEF a, b
  <2>4. SubSeq(BareLines, a, b) \in T BY <2>2, <2>3, LinesBetween
  <2>5. Render(stage, BareLines, w[k]) \in T BY <2>1, RenderTyped
  <2>6. s \o SubSeq(BareLines, a, b) \o Render(stage, BareLines, w[k]) \in T BY <2>4, <2>5, ThreeParts
  <2> QED BY <2>6 DEF a, b
<1>4. \A k \in 1 .. L : \A s : Put(k, s) = s \o SubSeq(BareLines, IF k = 1 THEN 1 ELSE w[k - 1] + Len(needle), w[k] - 1)
                                         \o Render(stage, BareLines, w[k])
  OBVIOUS
<1> HIDE DEF Put, from, L
<1>5. G \in Steps(L, T) BY <1>3 DEF Steps
<1>6. PICK h : Computes(h, L, T, <<>>, G)
  <2> DEFINE none == <<>>
  <2>1. none \in T OBVIOUS
  <2> HIDE DEF G, none, T
  <2>2. \E h : Computes(h, L, T, none, G) BY <1>1, <1>5, <2>1, Iterates
  <2> QED BY <2>2 DEF none
<1>7. /\ h \in [0 .. L -> T] /\ h = [k \in 0 .. L |-> h[k]]
      /\ h[0] = <<>> /\ \A k \in 1 .. L : h[k] = G[k][h[k - 1]]
  BY <1>6 DEF Computes
<1>8. \A k \in 1 .. L : h[k] = Put(k, h[k - 1])
  <2>1. \A k \in 1 .. L : h[k - 1] \in T BY <1>1, <1>7
  <2> QED BY <1>7, <2>1
<1> HIDE DEF G
<1>9. up = [k \in 0 .. L |-> IF k = 0 THEN <<>> ELSE Put(k, up[k - 1])]
  <2>1. h = [k \in 0 .. L |-> IF k = 0 THEN <<>> ELSE Put(k, h[k - 1])]
    <3>1. \A k \in 0 .. L : h[k] = IF k = 0 THEN <<>> ELSE Put(k, h[k - 1])
      <4>1. \A k \in 0 .. L : k = 0 \/ k \in 1 .. L BY <1>1
      <4> QED BY <1>7, <1>8, <4>1
    <3> QED BY <1>7, <3>1
  <2> QED BY <2>1
<1> HIDE DEF up
<1>10. up[L] = h[L]
  <2>2. up[0] = h[0] BY <1>1, <1>7, <1>9
  <2>3. \A k \in 1 .. L : up[k] = Put(k, up[k - 1])
    <3>1. \A k \in 1 .. L : k \in 0 .. L /\ k # 0 BY <1>1
    <3> QED BY <1>9, <3>1, Zenon
  <2>4. \A k \in 1 .. L : up[k - 1] = h[k - 1] => up[k] = h[k] BY <1>8, <2>3
  <2> HIDE DEF Put, T
  <2>5. \A k \in 0 .. L : up[k] = h[k]
    <3>1. L \in Nat BY <1>1
    <3> QED BY ONLY <3>1, <2>2, <2>4, SameSteps
  <2> QED BY <1>1, <2>5
<1> QED BY <1>2, <1>4, <1>7, <1>8, <1>10 DEF Copied, L

\* What the first k windows have become: the lines before the first one are those of the
\* file, and what is put into it follows.
Grown(stage, w, k, s) ==
  /\ s \in Seq(OutLine) /\ Len(s) = w[k] + Len(needle) - 1 + k * (Len(new) - Len(needle))
  /\ w[1] - 1 + Len(new) <= Len(s)
  /\ \A i \in 1 .. w[1] - 1 : s[i] = BareLines[i]
  /\ \A i \in 1 .. Len(new) : s[w[1] - 1 + i] = Render(stage, BareLines, w[1])[i]

\* A window is in the file.
LEMMA WindowBounds ==
  ASSUME Inputs, NEW w, IsWindows(w), NEW k \in 1 .. Len(w)
  PROVE  w[k] \in Nat /\ w[k] > 0 /\ w[k] \in Starts /\ w[k] + Len(needle) - 1 <= Len(file)
<1>1. Len(file) \in Nat /\ Len(needle) \in Nat BY InputsTyped
<1>2. w[k] \in Starts BY DEF IsWindows
<1> QED BY <1>1, <1>2 DEF Starts

\* The first window.
LEMMA GrowsFirst ==
  ASSUME Inputs, NEW stage, NEW w, IsWindows(w), NEW h, Copied(stage, w, h)
  PROVE  Grown(stage, w, 1, h[1])
<1> DEFINE n == Len(needle)
           N == Len(new)
           v == w[1]
           b == SubSeq(BareLines, 1, v - 1)
           c == Render(stage, BareLines, v)
<1>1. n \in Nat /\ n > 0 /\ N \in Nat /\ Len(file) \in Nat BY InputsTyped
<1>2. 1 \in 1 .. Len(w) BY DEF IsWindows
<1>3. v \in Nat /\ v > 0 /\ v \in Starts /\ v + n - 1 <= Len(file) BY <1>2, WindowBounds
<1>4. h[1] = <<>> \o b \o c
  <2>1. h[1 - 1] = <<>> BY DEF Copied
  <2> QED BY <1>2, <2>1 DEF Copied
<1>5. b \in Seq(OutLine) /\ Len(b) = v - 1 /\ \A i \in 1 .. v - 1 : b[i] = BareLines[i]
  <2> DEFINE u == v - 1
  <2>1. 1 \in 1 .. Len(file) + 1 /\ u \in 0 .. Len(file) /\ 1 <= u + 1 BY <1>1, <1>3
  <2> HIDE DEF u
  <2>2. /\ SubSeq(BareLines, 1, u) \in Seq(OutLine) /\ Len(SubSeq(BareLines, 1, u)) = u - 1 + 1
        /\ \A i \in 1 .. u - 1 + 1 : SubSeq(BareLines, 1, u)[i] = BareLines[1 + i - 1]
    BY <2>1, LinesBetween
  <2>3. u - 1 + 1 = u /\ \A i \in 1 .. u : 1 + i - 1 = i BY <2>1
  <2>4. SubSeq(BareLines, 1, u) \in Seq(OutLine) /\ Len(SubSeq(BareLines, 1, u)) = u
        /\ \A i \in 1 .. u : SubSeq(BareLines, 1, u)[i] = BareLines[i]
    BY <2>2, <2>3
  <2> QED BY <2>4 DEF u
<1>6. c \in Seq(OutLine) /\ Len(c) = N BY <1>3, RenderTyped
<1> HIDE DEF b, c
<1>7. /\ h[1] \in Seq(OutLine) /\ Len(h[1]) = v - 1 + N
      /\ \A i \in 1 .. v - 1 : h[1][i] = b[i]
      /\ \A i \in 1 .. N : h[1][v - 1 + i] = c[i]
  <2> DEFINE a == <<>>
  <2>1. a \in Seq(OutLine) /\ Len(a) = 0 OBVIOUS
  <2> HIDE DEF a
  <2>2. /\ a \o b \o c \in Seq(OutLine) /\ Len(a \o b \o c) = Len(a) + Len(b) + Len(c)
        /\ \A i \in 1 .. Len(b) : (a \o b \o c)[Len(a) + i] = b[i]
        /\ \A i \in 1 .. Len(c) : (a \o b \o c)[Len(a) + Len(b) + i] = c[i]
    <3>1. a \in Seq(OutLine) /\ b \in Seq(OutLine) /\ c \in Seq(OutLine) BY <1>5, <1>6, <2>1
    <3> QED BY ONLY <3>1, ThreeParts
  <2>3. h[1] = a \o b \o c BY <1>4 DEF a
  <2> DEFINE e == a \o b \o c
  <2>4. e = h[1] BY <2>3
  <2>5. /\ e \in Seq(OutLine) /\ Len(e) = v - 1 + N
        /\ \A i \in 1 .. v - 1 : e[0 + i] = b[i]
        /\ \A i \in 1 .. N : e[0 + (v - 1) + i] = c[i]
    BY <1>5, <1>6, <2>1, <2>2
  <2> HIDE DEF e
  <2>6. (\A i \in 1 .. v - 1 : 0 + i = i) /\ (\A i \in 1 .. N : 0 + (v - 1) + i = v - 1 + i) BY <1>1, <1>3
  <2> QED BY <2>4, <2>5, <2>6
<1>8. v - 1 + N = v + n - 1 + 1 * (N - n) BY <1>1, <1>3
<1>9. /\ \A i \in 1 .. v - 1 : h[1][i] = BareLines[i]
      /\ v - 1 + N <= Len(h[1])
  BY <1>1, <1>3, <1>5, <1>7
<1> QED BY <1>7, <1>8, <1>9 DEF Grown, c

\* One window more.
LEMMA GrowsMore ==
  ASSUME Inputs, NEW stage, NEW w, IsWindows(w), NEW h, Copied(stage, w, h),
         NEW k \in 1 .. Len(w), k # 1, Grown(stage, w, k - 1, h[k - 1])
  PROVE  Grown(stage, w, k, h[k])
<1> DEFINE n == Len(needle)
           N == Len(new)
           j == k - 1
           v == w[j]
           u == w[k] - 1
           a == h[j]
           b == SubSeq(BareLines, v + n, u)
           c == Render(stage, BareLines, w[k])
<1>1. n \in Nat /\ n > 0 /\ N \in Nat /\ Len(file) \in Nat BY InputsTyped
<1>2. Len(w) \in Nat /\ j \in 1 .. Len(w) - 1 /\ j \in 1 .. Len(w) /\ 1 \in 1 .. Len(w) /\ j + 1 = k BY DEF IsWindows
<1>3. h[k] = a \o b \o c BY DEF Copied
<1>4. Grown(stage, w, j, a) OBVIOUS
<1> HIDE DEF j
<1>5. /\ w[k] \in Nat /\ w[k] > 0 /\ w[k] \in Starts /\ w[k] + n - 1 <= Len(file)
      /\ w[1] \in Nat /\ w[1] > 0
  BY <1>2, WindowBounds
<1>6. v \in Nat /\ v > 0 /\ v + n - 1 <= Len(file) BY <1>2, WindowBounds
<1>7. v + n <= u + 1
  <2>1. w[j] + n <= w[j + 1] BY <1>2 DEF IsWindows
  <2> QED BY <1>2, <1>5, <2>1
<1>8. b \in Seq(OutLine) /\ Len(b) = u - (v + n) + 1
  <2> DEFINE x == v + n
  <2>0. u \in 0 .. Len(file) /\ v + n <= Len(file) + 1
    <3> DEFINE F == Len(file)
               y == w[k]
    <3>1. F \in Nat /\ y \in Nat /\ y > 0 /\ y + n - 1 <= F /\ v \in Nat /\ v + n - 1 <= F BY <1>1, <1>5, <1>6
    <3> HIDE DEF F, y, n, v
    <3>2. n \in Nat /\ n > 0 BY <1>1
    <3>3. y - 1 \in 0 .. F /\ v + n <= F + 1 BY <3>1, <3>2
    <3> QED BY <3>3 DEF F, y
  <2> HIDE DEF u, v
  <2>1. x \in 1 .. Len(file) + 1 /\ u \in 0 .. Len(file) /\ x <= u + 1 BY <1>1, <1>6, <1>7, <2>0
  <2> HIDE DEF x
  <2>2. SubSeq(BareLines, x, u) \in Seq(OutLine) /\ Len(SubSeq(BareLines, x, u)) = u - x + 1 BY <2>1, LinesBetween
  <2> QED BY <2>2 DEF x
<1>9. c \in Seq(OutLine) /\ Len(c) = N BY <1>5, RenderTyped
<1> DEFINE z == w[1] - 1
           r == Render(stage, BareLines, w[1])
<1>10. /\ a \in Seq(OutLine) /\ Len(a) = v + n - 1 + j * (N - n) /\ Len(a) \in Nat
       /\ z + N <= Len(a)
       /\ \A i \in 1 .. z : a[i] = BareLines[i]
       /\ \A i \in 1 .. N : a[z + i] = r[i]
  BY <1>4 DEF Grown
<1>11. u \in Nat /\ z \in Nat BY <1>5
<1> HIDE DEF a, b, c, r
<1>12. /\ h[k] \in Seq(OutLine) /\ Len(h[k]) = Len(a) + Len(b) + Len(c)
       /\ \A i \in 1 .. Len(a) : h[k][i] = a[i]
  <2>1. /\ a \o b \o c \in Seq(OutLine) /\ Len(a \o b \o c) = Len(a) + Len(b) + Len(c)
        /\ \A i \in 1 .. Len(a) : (a \o b \o c)[i] = a[i]
    BY <1>8, <1>9, <1>10, ThreeParts
  <2> QED BY <1>3, <2>1
<1>13. k * (N - n) = j * (N - n) + (N - n)
  <2>1. \A y \in Int : (j + 1) * y = j * y + y BY <1>2
  <2>2. N - n \in Int BY <1>1
  <2> QED BY <1>2, <2>1, <2>2
<1>14. Len(h[k]) = u + 1 + n - 1 + k * (N - n)
  <2> DEFINE g == k * (N - n)
             f == j * (N - n)
  <2>1. f \in Int /\ g = f + (N - n)
    <3>1. \A y \in Int : j * y \in Int BY <1>2
    <3>2. N - n \in Int BY <1>1
    <3> QED BY <1>13, <3>1, <3>2
  <2>2. Len(a) = v + n - 1 + f BY <1>10
  <2>4. Len(h[k]) = Len(a) + Len(b) + Len(c) BY <1>12
  <2> HIDE DEF f, g, u, v
  <2>3. Len(h[k]) = u + 1 + n - 1 + g BY <1>1, <1>6, <1>8, <1>9, <1>11, <2>1, <2>2, <2>4
  <2> QED BY <2>3 DEF g
<1>15. /\ z + N <= Len(h[k])
       /\ \A i \in 1 .. z : h[k][i] = BareLines[i]
       /\ \A i \in 1 .. N : h[k][z + i] = r[i]
  <2> DEFINE la == Len(a)
             lb == Len(b)
             lc == Len(c)
  <2>0. /\ z + N <= la /\ la \in Nat /\ lb \in Nat /\ lc \in Nat /\ z \in Nat /\ N \in Nat
        /\ Len(h[k]) = la + lb + lc
    <3>1. Len(b) \in Nat /\ Len(c) \in Nat BY <1>8, <1>9, LenProperties
    <3> QED BY <1>1, <1>10, <1>11, <1>12, <3>1
  <2> HIDE DEF z, la, lb, lc, N
  <2>1. z + N <= Len(h[k]) BY <2>0
  <2>a. \A i \in 1 .. z : i \in 1 .. la BY <2>0
  <2>b. \A i \in 1 .. N : z + i \in 1 .. la BY <2>0
  <2>2. \A i \in 1 .. z : i \in 1 .. Len(a) BY <2>a DEF la
  <2>3. \A i \in 1 .. N : z + i \in 1 .. Len(a) BY <2>b DEF la
  <2>4. \A i \in 1 .. N : h[k][z + i] = r[i] BY <1>10, <1>12, <2>3
  <2>5. \A i \in 1 .. z : h[k][i] = BareLines[i] BY <1>10, <1>12, <2>2
  <2> QED BY <2>1, <2>4, <2>5
<1>16. u + 1 = w[k] BY <1>5
<1> QED BY <1>12, <1>14, <1>15, <1>16 DEF Grown, r

\* The text without its line endings: the lines outside the windows are those of the file,
\* and what is put into the first window is there.
IsText(stage, w, t) ==
  LET shift == Len(w) * (Len(new) - Len(needle))
  IN  /\ t \in Seq(OutLine) /\ Len(t) = Len(file) + shift /\ w[1] - 1 + Len(new) <= Len(t)
      /\ \A i \in 1 .. w[1] - 1 : t[i] = BareLines[i]
      /\ \A i \in 1 .. Len(new) : t[w[1] - 1 + i] = Render(stage, BareLines, w[1])[i]
      /\ \A i \in w[Len(w)] + Len(needle) .. Len(file) : i + shift \in 1 .. Len(t) /\ t[i + shift] = BareLines[i]

\* The text of all the windows.
LEMMA ReplacedIs ==
  ASSUME Inputs, NEW stage, NEW w, IsWindows(w)
  PROVE  IsText(stage, w, Replaced(stage, BareLines, w))
<1> DEFINE n == Len(needle)
           N == Len(new)
           L == Len(w)
           F == Len(file)
           v == w[L]
           shift == L * (N - n)
           t == Replaced(stage, BareLines, w)
<1>1. n \in Nat /\ n > 0 /\ N \in Nat /\ F \in Nat BY InputsTyped
<1>2. L \in Nat /\ L > 0 /\ L \in 1 .. L /\ 1 \in 1 .. L BY DEF IsWindows
<1>3. PICK h : Copied(stage, w, h) BY CopyExists
<1> DEFINE Good == {k \in 0 .. L : k = 0 \/ Grown(stage, w, k, h[k])}
<1>4. 0 \in Good BY <1>2
<1>5. \A k \in 1 .. L : k - 1 \in Good => k \in Good
  <2>1. ASSUME NEW k \in 1 .. L, k - 1 \in Good PROVE Grown(stage, w, k, h[k])
    <3>1. CASE k = 1 BY <1>3, <3>1, GrowsFirst
    <3>2. CASE k # 1 BY <1>3, <2>1, <3>2, GrowsMore
    <3> QED BY <3>1, <3>2
  <2> QED BY <1>2, <2>1
<1>6. Grown(stage, w, L, h[L])
  <2> HIDE DEF Good
  <2>1. \A k \in 0 .. L : k \in Good BY <1>2, <1>4, <1>5, UpTo
  <2>2. L \in Good /\ L # 0 BY <1>2, <2>1
  <2> QED BY <2>2 DEF Good
<1> HIDE DEF Good
<1> DEFINE a == h[L]
           b == SubSeq(BareLines, v + n, F)
           z == w[1] - 1
           r == Render(stage, BareLines, w[1])
<1>7. t = a \o b BY <1>3 DEF Copied
<1>8. v \in Nat /\ v > 0 /\ v + n - 1 <= F /\ z \in Nat BY <1>2, WindowBounds
<1>9. /\ b \in Seq(OutLine) /\ Len(b) = F - (v + n) + 1
      /\ \A i \in 1 .. F - (v + n) + 1 : b[i] = BareLines[v + n + i - 1]
  <2> DEFINE x == v + n
  <2>1. x \in 1 .. F + 1 /\ F \in 0 .. F /\ x <= F + 1 BY <1>1, <1>8
  <2> HIDE DEF x
  <2>2. /\ SubSeq(BareLines, x, F) \in Seq(OutLine) /\ Len(SubSeq(BareLines, x, F)) = F - x + 1
        /\ \A i \in 1 .. F - x + 1 : SubSeq(BareLines, x, F)[i] = BareLines[x + i - 1]
    BY <2>1, LinesBetween
  <2> QED BY <2>2 DEF x
<1>10. shift \in Int
  <2>1. \A y \in Int : L * y \in Int BY <1>2
  <2>2. N - n \in Int BY <1>1
  <2> QED BY <2>1, <2>2
<1>11. /\ a \in Seq(OutLine) /\ Len(a) = v + n - 1 + shift /\ Len(a) \in Nat
       /\ z + N <= Len(a)
       /\ \A i \in 1 .. z : a[i] = BareLines[i]
       /\ \A i \in 1 .. N : a[z + i] = r[i]
  BY <1>6 DEF Grown
<1> HIDE DEF a, b, r, shift, t
<1> DEFINE p == Len(a)
           q == Len(b)
<1>12. /\ t \in Seq(OutLine) /\ Len(t) = p + q
       /\ \A i \in 1 .. p + q : t[i] = IF i <= p THEN a[i] ELSE b[i - p]
  <2>1. /\ a \o b \in Seq(OutLine) /\ Len(a \o b) = Len(a) + Len(b)
        /\ \A i \in 1 .. Len(a) + Len(b) : (a \o b)[i] = IF i <= Len(a) THEN a[i] ELSE b[i - Len(a)]
    <3>1. a \in Seq(OutLine) /\ b \in Seq(OutLine) BY <1>9, <1>11
    <3> QED BY ONLY <3>1, ConcatProperties
  <2> QED BY <1>7, <2>1
<1>13. p \in Nat /\ q \in Nat /\ p = v + n - 1 + shift /\ q = F - (v + n) + 1 BY <1>9, <1>11
<1>s. z + N <= p BY <1>11
<1> HIDE DEF p, q, z, v
<1>14. Len(t) = F + shift /\ z + N <= Len(t) BY <1>s, <1>1, <1>8, <1>10, <1>12, <1>13
<1>15. \A i \in 1 .. z : t[i] = BareLines[i]
  <2>1. \A i \in 1 .. z : i \in 1 .. p + q /\ i <= p BY <1>s, <1>1, <1>8, <1>13
  <2> QED BY <1>11, <1>12, <2>1
<1>16. \A i \in 1 .. N : t[z + i] = r[i]
  <2>1. \A i \in 1 .. N : z + i \in 1 .. p + q /\ z + i <= p BY <1>s, <1>1, <1>8, <1>13
  <2> QED BY <1>11, <1>12, <2>1
<1>17. ASSUME NEW i \in v + n .. F PROVE i + shift \in 1 .. Len(t) /\ t[i + shift] = BareLines[i]
  <2> DEFINE m == i + shift
             y == m - p
  <2>1. m \in 1 .. p + q /\ ~(m <= p) /\ y \in 1 .. F - (v + n) + 1 /\ v + n + y - 1 = i
    BY <1>1, <1>8, <1>10, <1>13
  <2> HIDE DEF m
  <2>2. t[m] = b[y] BY <1>12, <2>1
  <2> HIDE DEF y
  <2>3. b[y] = BareLines[i] BY <1>9, <2>1
  <2> QED BY <1>12, <2>1, <2>2, <2>3 DEF m
<1> QED BY <1>12, <1>14, <1>15, <1>16, <1>17 DEF IsText, r, z, shift, t, v

StageNames == {"exact", "whitespace-tolerant", "indentation-tolerant", "punctuation-tolerant", "block-anchor"}

\* The windows of a stage are where it matched, and there are some if it matched.
LEMMA FoundFits ==
  ASSUME Inputs, NEW stage \in StageNames
  PROVE  /\ Fits(Found(stage, BareLines), Matching(stage, BareLines), Len(file))
         /\ Matching(stage, BareLines) \subseteq Starts
         /\ Found(stage, BareLines) # <<>> => IsWindows(Found(stage, BareLines))
<1> DEFINE m == Matching(stage, BareLines)
           w == Windows(m)
<1>1. m \subseteq Starts BY DEF Matching, ExactPlaces, LinePlaces, FragmentPlaces, AnchorPlaces, StageNames
<1>2. Starts \subseteq Nat \ {0} BY InputsTyped DEF Starts
<1>3. Found(stage, BareLines) = w BY DEF Found
<1> HIDE DEF m
<1>4. Fits(w, m, Len(file)) BY <1>1, <1>2, WindowsFit
<1> HIDE DEF w
<1>5. ASSUME w # <<>> PROVE IsWindows(w)
  <2>1. w \in Seq(Nat) BY <1>4 DEF Fits
  <2>2. Len(w) > 0 BY <1>5, <2>1
  <2>3. \A i \in 1 .. Len(w) : w[i] \in Starts BY <1>1, <1>4 DEF Fits
  <2>4. \A i \in 1 .. Len(w) - 1 : w[i] + Len(needle) <= w[i + 1] BY <1>4 DEF Fits
  <2> QED BY <2>1, <2>2, <2>3, <2>4 DEF IsWindows
<1> QED BY <1>1, <1>3, <1>4, <1>5 DEF m

\* A place that old_string is quoted from exactly is a window of the first stage.
LEMMA ExactFound ==
  ASSUME Inputs, Places # {}
  PROVE  Found("exact", BareLines) # <<>>
<1>1. Matching("exact", BareLines) = Places BY DEF Matching, Places
<1>2. Fits(Found("exact", BareLines), Places, Len(file)) /\ Places \subseteq Starts
  BY <1>1, FoundFits DEF StageNames
<1>3. PICK i \in Places : TRUE OBVIOUS
<1>4. i \in Starts /\ i <= Len(file) BY <1>2, InputsTyped DEF Starts
<1> QED BY <1>2, <1>4 DEF Fits

\* What an edit that is reported has done.
Edited(stage) ==
  LET w == Found(stage, BareLines)
  IN  /\ result.status = "edited" /\ result.strategy = stage /\ result.at = w
      /\ \E t : result.text = WithEndings(t) /\ IsText(stage, w, t)
      /\ w # <<>> /\ Decides(w)
      /\ Places # {} => stage = "exact"

\* An edit leaves its arguments alone, and what depends on them.
LEMMA LadderFrame ==
  ASSUME UNCHANGED <<file, needle, new, all, escaped>>
  PROVE  /\ BareLines' = BareLines /\ Places' = Places
         /\ \A stage \in StageNames : Found(stage, BareLines)' = Found(stage, BareLines)
         /\ \A w : Decides(w)' = Decides(w)
         /\ \A lines : WithEndings(lines)' = WithEndings(lines)
         /\ \A stage \in StageNames : \A w, t : IsText(stage, w, t)' <=> IsText(stage, w, t)
<1>1. BareLines' = BareLines BY DEF BareLines, Bare
<1>2. \A lines : ExactPlaces(lines)' = ExactPlaces(lines) BY DEF ExactPlaces, Starts, LineEqExact
<1>3. Places' = Places BY <1>1, <1>2 DEF Places
<1>4. \A places : Windows(places)' = Windows(places) BY DEF Windows
<1>5. ASSUME NEW stage \in StageNames, NEW lines PROVE Matching(stage, lines)' = Matching(stage, lines)
  <2>1. CASE stage = "exact" BY <1>2, <2>1 DEF Matching
  <2>2. CASE stage = "whitespace-tolerant" BY <2>2 DEF Matching, LinePlaces, Starts, LineEqRStrip
  <2>3. CASE stage = "indentation-tolerant" BY <2>3 DEF Matching, LinePlaces, Starts, LineEqTrim
  <2>4. CASE stage = "punctuation-tolerant" /\ Len(needle) = 1 BY <2>4 DEF Matching, FragmentPlaces, Starts
  <2>5. CASE stage = "punctuation-tolerant" /\ Len(needle) # 1 BY <2>5 DEF Matching, LinePlaces, Starts, LineEqFold
  <2>6. CASE stage = "block-anchor" BY <2>6 DEF Matching, AnchorPlaces, Starts, LineEqTrim
  <2> QED BY <2>1, <2>2, <2>3, <2>4, <2>5, <2>6 DEF StageNames
<1>6. \A stage \in StageNames : Found(stage, BareLines)' = Found(stage, BareLines) BY <1>1, <1>4, <1>5 DEF Found
<1>7. \A lines : WithEndings(lines)' = WithEndings(lines) BY DEF WithEndings, HadCRLF
<1>8. \A lines, at, l : Reindent(lines, at, l)' = Reindent(lines, at, l) BY DEF Reindent, Pairs, Longest
<1>9. ASSUME NEW stage, NEW lines, NEW at PROVE Render(stage, lines, at)' = Render(stage, lines, at)
  <2>1. Reindents(stage)' <=> Reindents(stage) BY DEF Reindents
  <2>2. KeepsEnds(stage)' <=> KeepsEnds(stage) BY DEF KeepsEnds
  <2>3. CASE Reindents(stage)
    <3>1. Render(stage, lines, at) = [i \in 1 .. Len(new) |-> Reindent(lines, at, new[i])] BY <2>3 DEF Render
    <3>2. Render(stage, lines, at)' = [i \in 1 .. Len(new) |-> Reindent(lines, at, new[i])']
      BY <2>1, <2>3 DEF Render
    <3> QED BY <1>8, <3>1, <3>2
  <2>4. CASE ~Reindents(stage) /\ ~KeepsEnds(stage) BY <2>1, <2>2, <2>4 DEF Render
  <2>5. CASE ~Reindents(stage) /\ KeepsEnds(stage) BY <2>1, <2>2, <2>5 DEF Render
  <2> QED BY <2>3, <2>4, <2>5
<1>10. \A stage, w, t : IsText(stage, w, t)' <=> IsText(stage, w, t) BY <1>1, <1>9 DEF IsText
<1> QED BY <1>1, <1>3, <1>6, <1>7, <1>10 DEF Decides

\* Edit reports what it has done, or that it has done nothing.
LEMMA EditStep ==
  ASSUME Inputs, Edit
  PROVE  (\E stage \in StageNames : Edited(stage)') \/ result'.status \in {"not found", "ambiguous"}
<1> DEFINE hits == {s \in 1 .. Len(Stages) : Found(Stages[s], BareLines) # <<>>}
           first == CHOOSE s \in hits : \A t \in hits : s <= t
           stage == Stages[first]
           w == Found(stage, BareLines)
<1>1. Len(Stages) = 5 /\ Stages[1] = "exact" /\ \A s \in 1 .. 5 : Stages[s] \in StageNames BY DEF Stages, StageNames
<1>2. CASE hits = {} BY <1>2 DEF Edit
<1>3. CASE hits # {} /\ ~Decides(w) BY <1>3 DEF Edit
<1>4. CASE hits # {} /\ Decides(w)
  <2>1. hits \in SUBSET Nat BY <1>1
  <2>2. first \in hits /\ \A t \in hits : first <= t
    <3> HIDE DEF hits
    <3>1. \E s \in hits : \A t \in hits : s <= t BY <1>4, <2>1, LeastIsThere
    <3> QED BY <3>1
  <2>3. result' = [status |-> "edited", strategy |-> Stages[first], at |-> w, unescaped |-> escaped,
                   text |-> WithEndings(Replaced(Stages[first], BareLines, w))]
    BY <1>4 DEF Edit
  <2>4. first \in 1 .. 5 /\ w # <<>> BY <1>1, <2>2
  <2>5. Places # {} => Stages[first] = "exact"
    <3>1. ASSUME Places # {} PROVE Stages[first] = "exact"
      <4>1. 1 \in hits BY <1>1, <3>1, ExactFound
      <4>2. first <= 1 BY <2>2, <4>1
      <4>3. first = 1 BY <2>4, <4>2
      <4> QED BY <1>1, <4>3
    <3> QED BY <3>1
  <2>6. PICK k \in StageNames : k = stage BY <1>1, <2>4
  <2> HIDE DEF hits, first, stage
  <2>7. IsText(k, w, Replaced(k, BareLines, w))
    <3>1. IsWindows(w) BY <2>4, <2>6, FoundFits
    <3> QED BY <3>1, ReplacedIs
  <2>8. UNCHANGED <<file, needle, new, all, escaped>> BY DEF Edit
  <2> DEFINE v == Found(k, BareLines)
             t == Replaced(k, BareLines, v)
  <2>9. v = w /\ v # <<>> /\ Decides(v) /\ IsText(k, v, t) /\ (Places # {} => k = "exact")
    BY <1>4, <2>4, <2>5, <2>6, <2>7 DEF stage
  <2>10. result' = [status |-> "edited", strategy |-> k, at |-> v, unescaped |-> escaped, text |-> WithEndings(t)]
    BY <2>3, <2>6 DEF stage
  <2> HIDE DEF w
  <2>11. PICK x, y : x = v /\ y = t OBVIOUS
  <2>12. /\ result'.status = "edited" /\ result'.strategy = k /\ result'.at = x /\ result'.text = WithEndings(y)
         /\ x # <<>> /\ Decides(x) /\ IsText(k, x, y) /\ (Places # {} => k = "exact") /\ Found(k, BareLines) = x
    BY <2>9, <2>10, <2>11
  <2> HIDE DEF v, t
  <2>13. /\ Found(k, BareLines)' = x /\ Decides(x)' /\ IsText(k, x, y)' /\ WithEndings(y)' = WithEndings(y) /\ Places' = Places
    BY <2>8, <2>12, LadderFrame
  <2>14. Edited(k)'
    <3> DEFINE u == Found(k, BareLines)'
    <3>1. u = x BY <2>13
    <3> QED BY <2>12, <2>13 DEF Edited
  <2> QED BY <2>14
<1> QED BY <1>2, <1>3, <1>4

\* With the line endings put back, a line of the file that was kept is what it was if the
\* file has one kind of them.
LEMMA EndingsKept ==
  ASSUME Inputs, Uniform, Len(file) > 0, NEW t \in Seq(OutLine), NEW k \in 1 .. Len(t)
  PROVE  /\ WithEndings(t)[k].eol = file[1].eol
         /\ \A i \in 1 .. Len(file) : t[k] = BareLines[i] => WithEndings(t)[k] = file[i]
<1> DEFINE y == t[k]
           e == IF HadCRLF THEN "crlf" ELSE "lf"
<1>1. WithEndings(t)[k] = [ind |-> y.ind, txt |-> y.txt, fancy |-> y.fancy, pad |-> y.pad, eol |-> e] BY DEF WithEndings
<1>2. \A i \in 1 .. Len(file) : file[i].eol \in {"lf", "crlf"} /\ file[i] \in FileLine /\ BareLines[i] = Bare(file[i])
  BY LinesTyped DEF FileLine
<1>3. 1 \in 1 .. Len(file) BY InputsTyped
<1>4. \A i \in 1 .. Len(file) : file[i].eol = e
  <2>1. CASE HadCRLF
    <3>1. PICK i \in 1 .. Len(file) : file[i].eol = "crlf" BY <2>1 DEF HadCRLF
    <3> QED BY <2>1, <3>1 DEF Uniform
  <2>2. CASE ~HadCRLF BY <1>2, <2>2 DEF HadCRLF
  <2> QED BY <2>1, <2>2
<1> HIDE DEF e, y
<1>5. ASSUME NEW i \in 1 .. Len(file), y = BareLines[i] PROVE WithEndings(t)[k] = file[i]
  <2> DEFINE x == file[i]
  <2>1. x \in FileLine /\ x.eol = e /\ y = Bare(x) BY <1>2, <1>4, <1>5
  <2> HIDE DEF x
  <2>2. x = [ind |-> x.ind, txt |-> x.txt, fancy |-> x.fancy, pad |-> x.pad, eol |-> x.eol] BY <2>1 DEF FileLine
  <2>3. y.ind = x.ind /\ y.txt = x.txt /\ y.fancy = x.fancy /\ y.pad = x.pad BY <2>1 DEF Bare
  <2>4. WithEndings(t)[k] = x BY <1>1, <2>1, <2>2, <2>3
  <2> QED BY <2>4 DEF x
<1> QED BY <1>1, <1>3, <1>4, <1>5 DEF y

\* The n elements from a on are the same as those from b on.
SameFrom(s, a, t, b, n) == \A i \in 0 .. n - 1 : s[a + i] = t[b + i]

\* What a part of a sequence is made of.
AllIn(s, m, n, U) == \A i \in m .. n : s[i] \in U

LEMMA PartIs ==
  ASSUME NEW U, NEW s, NEW m \in Int, NEW n \in Int, AllIn(s, m, n, U)
  PROVE  /\ SubSeq(s, m, n) \in Seq(U) /\ Len(SubSeq(s, m, n)) = (IF m <= n THEN n - m + 1 ELSE 0)
         /\ \A i \in 1 .. n - m + 1 : SubSeq(s, m, n)[i] = s[m + i - 1]
<1>1. \A i \in m .. n : s[i] \in U BY DEF AllIn
<1> QED BY <1>1, SubSeqProperties

\* Then the parts are the same.
LEMMA SamePart ==
  ASSUME NEW U, NEW s \in Seq(U), NEW t \in Seq(U), NEW a \in Nat, NEW b \in Nat, NEW n \in Nat, a > 0, b > 0,
         a + n - 1 <= Len(s), b + n - 1 <= Len(t),
         SameFrom(s, a, t, b, n)
  PROVE  SubSeq(s, a, a + n - 1) = SubSeq(t, b, b + n - 1)
<1> DEFINE c == a + n - 1
           d == b + n - 1
           p == SubSeq(s, a, c)
           q == SubSeq(t, b, d)
<1>1. c \in Int /\ d \in Int /\ a \in Int /\ b \in Int /\ c - a + 1 = n /\ d - b + 1 = n OBVIOUS
<1>3. AllIn(s, a, c, U) BY DEF AllIn
<1>4. AllIn(t, b, d, U) BY DEF AllIn
<1> HIDE DEF c, d
<1>5. /\ SubSeq(s, a, c) \in Seq(U) /\ Len(SubSeq(s, a, c)) = (IF a <= c THEN c - a + 1 ELSE 0)
      /\ \A i \in 1 .. c - a + 1 : SubSeq(s, a, c)[i] = s[a + i - 1]
  BY <1>1, <1>3, PartIs
<1>6. /\ SubSeq(t, b, d) \in Seq(U) /\ Len(SubSeq(t, b, d)) = (IF b <= d THEN d - b + 1 ELSE 0)
      /\ \A i \in 1 .. d - b + 1 : SubSeq(t, b, d)[i] = t[b + i - 1]
  BY <1>1, <1>4, PartIs
<1>7. (IF a <= c THEN c - a + 1 ELSE 0) = n /\ (IF b <= d THEN d - b + 1 ELSE 0) = n BY <1>1
<1>8. p \in Seq(U) /\ q \in Seq(U) /\ Len(p) = n /\ Len(q) = n BY <1>5, <1>6, <1>7
<1>9. ASSUME NEW i \in 1 .. n PROVE p[i] = q[i]
  <2> DEFINE j == i - 1
  <2>1. j \in 0 .. n - 1 /\ a + j = a + i - 1 /\ b + j = b + i - 1 OBVIOUS
  <2>2. s[a + j] = t[b + j] BY <2>1 DEF SameFrom
  <2>3. p[i] = s[a + i - 1] /\ q[i] = t[b + i - 1] BY <1>1, <1>5, <1>6
  <2> HIDE DEF j, p, q
  <2> QED BY <2>1, <2>2, <2>3
<1> HIDE DEF p, q
<1>10. p = q BY <1>8, <1>9, SeqEqual
<1> QED BY <1>10 DEF p, q, c, d

\* The windows of what was edited and the text without its line endings.
LEMMA EditedIs ==
  ASSUME Inputs, NEW stage \in StageNames, Edited(stage)
  PROVE  /\ IsWindows(result.at) /\ Len(result.at) \in Nat /\ Len(result.at) \in 1 .. Len(result.at) /\ 1 \in 1 .. Len(result.at)
         /\ Fits(result.at, Matching(stage, BareLines), Len(file))
         /\ Len(file) > 0
         /\ \E t \in Seq(OutLine) : /\ result.text = WithEndings(t) /\ IsText(stage, result.at, t)
                                    /\ result.text \in Seq({result.text[i] : i \in 1 .. Len(t)}) /\ Len(result.text) = Len(t)
                                    /\ Len(t) \in Nat
<1> DEFINE w == result.at
<1>1. IsWindows(w) /\ Fits(w, Matching(stage, BareLines), Len(file)) BY FoundFits DEF Edited
<1>2. Len(w) \in Nat /\ Len(w) \in 1 .. Len(w) /\ 1 \in 1 .. Len(w) BY <1>1 DEF IsWindows
<1>3. Len(file) > 0 BY <1>1, <1>2, WindowBounds, InputsTyped
<1>4. PICK t : result.text = WithEndings(t) /\ IsText(stage, w, t) BY DEF Edited
<1>5. t \in Seq(OutLine) /\ Len(t) \in Nat
  <2>1. t \in Seq(OutLine) BY <1>4 DEF IsText
  <2> QED BY <2>1
<1>6. result.text \in Seq({result.text[i] : i \in 1 .. Len(t)}) /\ Len(result.text) = Len(t)
  <2> DEFINE x == result.text
             n == Len(t)
  <2>1. x = [i \in 1 .. n |-> x[i]] BY <1>4 DEF WithEndings
  <2>2. n \in Nat BY <1>5
  <2> HIDE DEF x, n
  <2>3. x \in [1 .. n -> {x[i] : i \in 1 .. n}] BY <2>1
  <2>4. x \in Seq({x[i] : i \in 1 .. n}) /\ Len(x) = n BY <2>2, <2>3
  <2> QED BY <2>4 DEF x, n
<1> QED BY <1>1, <1>2, <1>3, <1>4, <1>5, <1>6

\* The windows are where they may be, and the rest of the file is as it was.
LEMMA SoundPlace == ASSUME Inputs, NEW stage \in StageNames, Edited(stage) PROVE InItsPlace
<1> DEFINE w == result.at
           L == Len(w)
           n == Len(needle)
           N == Len(new)
           F == Len(file)
           x == result.text
           T == {x[i] : i \in 1 .. Len(x)} \cup FileLine
           v == w[L]
           z == w[1] - 1
           shift == L * (N - n)
           last == v + n
           m == Matching(stage, BareLines)
<1>1. n \in Nat /\ n > 0 /\ N \in Nat /\ F \in Nat BY InputsTyped
<1>2. IsWindows(w) /\ L \in Nat /\ L \in 1 .. L /\ 1 \in 1 .. L /\ Fits(w, m, F) /\ F > 0 BY EditedIs
<1>3. PICK t \in Seq(OutLine) : /\ x = WithEndings(t) /\ IsText(stage, w, t)
                                /\ x \in Seq({x[i] : i \in 1 .. Len(t)}) /\ Len(x) = Len(t) /\ Len(t) \in Nat
  BY EditedIs
<1>4. x \in Seq(T) /\ file \in Seq(T)
  <2>1. file \in Seq(FileLine) BY DEF Inputs
  <2>2. x \in Seq({x[i] : i \in 1 .. Len(x)}) BY <1>3
  <2> HIDE DEF x
  <2> QED BY <2>1, <2>2
<1>5. v \in Nat /\ v > 0 /\ v + n - 1 <= F /\ z \in Nat /\ z <= F /\ w[1] \in Nat /\ w[1] > 0 BY <1>1, <1>2, WindowBounds
<1>6. shift \in Int
  <2>1. \A y \in Int : L * y \in Int BY <1>2
  <2>2. N - n \in Int BY <1>1
  <2> QED BY <2>1, <2>2
<1>7. /\ Len(t) = F + shift /\ z + N <= Len(t)
      /\ \A i \in 1 .. z : t[i] = BareLines[i]
      /\ \A i \in last .. F : i + shift \in 1 .. Len(t) /\ t[i + shift] = BareLines[i]
  BY <1>3 DEF IsText
<1>8. ASSUME ~all PROVE L = 1 /\ ~(\E i, j \in Places : i + n <= j)
  <2>1. L = 1 BY <1>8 DEF Edited, Decides
  <2>2. ASSUME NEW i \in Places, NEW j \in Places, i + n <= j PROVE FALSE
    <3>1. stage = "exact" BY DEF Edited
    <3>2. m = Places BY <3>1 DEF Matching, Places
    <3>3. m \subseteq Starts BY FoundFits
    <3>4. i \in Nat /\ j \in Nat /\ i <= F /\ j <= F BY <1>1, <3>2, <3>3 DEF Starts
    <3>5. w[1] <= i /\ j < w[L] + n BY <1>2, <3>2, <3>4 DEF Fits
    <3> QED BY <1>1, <1>5, <2>1, <2>2, <3>4, <3>5
  <2> QED BY <2>1, <2>2
<1>9. ASSUME Places # {} PROVE \A k \in 1 .. L : w[k] \in Places
  <2>1. stage = "exact" BY <1>9 DEF Edited
  <2>2. m = Places BY <2>1 DEF Matching, Places
  <2> QED BY <1>2, <2>2 DEF Fits
<1>10. Len(x) - F = shift BY <1>1, <1>3, <1>6, <1>7
<1> HIDE DEF x, m, w
<1>11. ASSUME Uniform PROVE /\ SubSeq(x, 1, z) = SubSeq(file, 1, z)
                            /\ SubSeq(x, last + shift, Len(x)) = SubSeq(file, last, F)
                            /\ \A i \in 1 .. Len(x) : x[i].eol = file[1].eol
  <2>1. \A k \in 1 .. Len(t) : /\ x[k].eol = file[1].eol
                               /\ \A i \in 1 .. F : t[k] = BareLines[i] => x[k] = file[i]
    BY <1>2, <1>3, <1>11, EndingsKept
  <2>2. \A i \in 1 .. z : i \in 1 .. F /\ i \in 1 .. Len(t)
    <3> DEFINE lt == Len(t)
    <3>1. z \in Nat /\ F \in Nat /\ lt \in Nat /\ N \in Nat /\ z <= F /\ z + N <= lt BY <1>1, <1>3, <1>5, <1>7
    <3> HIDE DEF z, F, lt, N
    <3>2. \A i \in 1 .. z : i \in 1 .. F /\ i \in 1 .. lt BY <3>1
    <3> QED BY <3>2 DEF lt
  <2>3. \A i \in 1 .. z : x[i] = file[i] BY <1>7, <2>1, <2>2
  <2>5. SubSeq(x, 1, z) = SubSeq(file, 1, z)
    <3> HIDE DEF z, T
    <3>1. z \in Nat /\ 1 \in Nat /\ 1 > 0 /\ 1 + z - 1 = z /\ z <= Len(x) /\ z <= Len(file) /\ \A i \in 0 .. z - 1 : 1 + i \in 1 .. z
      <4> DEFINE lx == Len(x)
      <4>1. z \in Nat /\ F \in Nat /\ z <= F BY <1>1, <1>5
      <4>2. N \in Nat /\ lx \in Nat /\ z + N <= lx BY <1>1, <1>3, <1>7
      <4> HIDE DEF lx, F, N
      <4>3. 1 + z - 1 = z /\ z <= lx /\ \A i \in 0 .. z - 1 : 1 + i \in 1 .. z BY <4>1, <4>2
      <4> QED BY <4>1, <4>3 DEF lx, F
    <3>2. SameFrom(x, 1, file, 1, z) BY <2>3, <3>1 DEF SameFrom
    <3>3. 1 + z - 1 <= Len(x) /\ 1 + z - 1 <= Len(file) BY <3>1
    <3>4. SubSeq(x, 1, 1 + z - 1) = SubSeq(file, 1, 1 + z - 1)
      BY ONLY <1>4, <3>1, <3>2, <3>3, SamePart
    <3> QED BY <3>1, <3>4
  <2>6. SubSeq(x, last + shift, Len(x)) = SubSeq(file, last, F)
    <3> DEFINE a == last + shift
               l == F - last + 1
    <3>1. l \in Nat /\ last \in Nat /\ last > 0 /\ last + l - 1 = F /\ a + l - 1 = Len(x) /\ a \in Int
      <4>1. Len(x) = F + shift BY <1>3, <1>7
      <4> HIDE DEF v, F, shift, n
      <4> QED BY <1>1, <1>5, <1>6, <4>1
    <3>2. a \in Nat /\ a > 0
      <4>1. v + n - 1 + shift >= z + N \/ last <= F
        <5>1. CASE last <= F BY <5>1
        <5>2. CASE ~(last <= F)
          <6>1. v + n - 1 = F BY <1>1, <1>5, <5>2
          <6> HIDE DEF v, shift, z
          <6> QED BY <1>1, <1>6, <1>7, <6>1
        <5> QED BY <5>1, <5>2
      <4>2. CASE last <= F
        <5>1. last \in last .. F BY <1>1, <1>5, <4>2
        <5>2. last + shift \in 1 .. Len(t) BY <1>7, <5>1
        <5> QED BY <1>3, <5>2
      <4>3. CASE ~(last <= F)
        <5> HIDE DEF v, shift, z
        <5> QED BY <1>1, <1>5, <1>6, <4>1, <4>3
      <4> QED BY <4>2, <4>3
    <3> HIDE DEF a, last, l, shift
    <3>3. \A i \in 0 .. l - 1 : last + i \in last .. F /\ last + i \in 1 .. F /\ last + i + shift = a + i
      BY <1>1, <1>5, <1>6, <3>1 DEF a
    <3>4. ASSUME NEW i \in 0 .. l - 1 PROVE x[a + i] = file[last + i]
      <4> DEFINE k == a + i
                 j == last + i
      <4>1. j \in last .. F /\ j \in 1 .. F /\ j + shift = k BY <3>3
      <4> HIDE DEF k, j
      <4>2. k \in 1 .. Len(t) /\ t[k] = BareLines[j] BY <1>7, <4>1
      <4>3. x[k] = file[j] BY <2>1, <4>1, <4>2
      <4> QED BY <4>3 DEF k, j
    <3>5. last + l - 1 <= Len(file) /\ a + l - 1 <= Len(x) BY <1>1, <1>3, <3>1
    <3>6. SubSeq(x, a, a + l - 1) = SubSeq(file, last, last + l - 1)
      <4>1. SameFrom(x, a, file, last, l) BY <3>4 DEF SameFrom
      <4>2. x \in Seq(T) /\ file \in Seq(T) BY <1>4
      <4>3. a \in Nat /\ last \in Nat /\ l \in Nat /\ a > 0 /\ last > 0 BY <3>1, <3>2
      <4> HIDE DEF T, F, x
      <4> QED BY ONLY <3>5, <4>1, <4>2, <4>3, SamePart
    <3> QED BY <3>1, <3>6 DEF a
  <2>7. \A i \in 1 .. Len(x) : x[i].eol = file[1].eol BY <1>3, <2>1
  <2> QED BY <2>5, <2>6, <2>7
<1> HIDE DEF shift, last
<1>12. Len(x) - F = shift /\ shift = L * (N - n) /\ last = w[L] + n BY <1>10 DEF shift, last
<1> DEFINE s == Len(x) - F
<1>13. Uniform => /\ SubSeq(x, 1, w[1] - 1) = SubSeq(file, 1, w[1] - 1)
                  /\ SubSeq(x, w[L] + n + s, Len(x)) = SubSeq(file, w[L] + n, F)
                  /\ \A i \in 1 .. Len(x) : x[i].eol = file[1].eol
  BY <1>11, <1>12
<1> QED BY <1>8, <1>9, <1>12, <1>13 DEF InItsPlace, x, w

\* Prefixes.
LEMMA PrefixFacts ==
  ASSUME NEW s \in Seq(STRING), NEW t \in Seq(STRING)
  PROVE  IsPrefix(s, s) /\ (IsPrefix(s, t) => Len(s) <= Len(t) /\ (Len(t) <= Len(s) => s = t))
<1>1. SubSeq(s, 1, Len(s)) = s /\ SubSeq(t, 1, Len(t)) = t /\ Len(s) \in Nat /\ Len(t) \in Nat OBVIOUS
<1>2. ASSUME IsPrefix(s, t), Len(t) <= Len(s) PROVE s = t
  <2>1. Len(s) = Len(t)
    <3>1. Len(s) <= Len(t) BY <1>2 DEF IsPrefix
    <3>2. Len(t) <= Len(s) BY <1>2
    <3>3. Len(s) \in Nat /\ Len(t) \in Nat BY <1>1
    <3> QED BY ONLY <3>1, <3>2, <3>3
  <2>2. SubSeq(s, 1, Len(s)) = SubSeq(t, 1, Len(s)) BY <1>2 DEF IsPrefix
  <2>3. SubSeq(t, 1, Len(s)) = SubSeq(t, 1, Len(t)) BY <2>1
  <2> QED BY <1>1, <2>2, <2>3
<1> QED BY <1>1, <1>2 DEF IsPrefix

\* A line of old_string where it fits is a line of the file.
LEMMA PlaceInFile ==
  ASSUME Inputs, NEW at \in Starts, NEW p \in 1 .. Len(needle) PROVE at + p - 1 \in 1 .. Len(file)
<1> DEFINE n == Len(needle)
           f == Len(file)
<1>1. n \in Nat /\ f \in Nat BY InputsTyped
<1>2. at \in 1 .. f - n + 1 /\ p \in 1 .. n BY DEF Starts
<1> HIDE DEF n, f
<1>3. at + p - 1 \in 1 .. f BY <1>1, <1>2
<1> QED BY <1>3 DEF f

\* A line takes the indentation of what line p of the needle found, which has its own.
TakesIndentOf(at, l, p) ==
  /\ needle[p].txt # NoText /\ needle[p].ind = l.ind
  /\ Reindent(BareLines, at, l) = [l EXCEPT !.ind = BareLines[at + p - 1].ind]

\* A line as deep as a line of old_string is put as deep as that line is in the file.
LEMMA ReindentKnown ==
  ASSUME Inputs, NEW at \in Starts, NEW l \in ArgLine, l.txt # NoText,
         NEW j \in 1 .. Len(needle), needle[j].txt # NoText, needle[j].ind = l.ind
  PROVE  \E p \in 1 .. Len(needle) : TakesIndentOf(at, l, p)
<1> DEFINE n == Len(needle)
           pairs == Pairs(BareLines, at)
           best == Longest(pairs, l.ind)
           p == CHOOSE p \in best : TRUE
           same == {q \in 1 .. n : needle[q].txt # NoText /\ needle[q].ind = l.ind}
<1>1. n \in Nat /\ n > 0 /\ Len(file) \in Nat BY InputsTyped
<1>2. l.ind \in Seq(STRING) /\ \A q \in 1 .. n : needle[q].ind \in Seq(STRING) BY LinesTyped DEF ArgLine
<1>3. PICK q \in same : \A r \in same : q <= r
  <2>1. j \in same OBVIOUS
  <2>2. same \in SUBSET Nat BY <1>1
  <2> HIDE DEF same
  <2> QED BY <2>1, <2>2, LeastIsThere
<1>4. q \in pairs
  <2>0. q \in 1 .. n OBVIOUS
  <2>1. \A r \in 1 .. q - 1 : r \in 1 .. n /\ ~(q <= r)
    <3> HIDE DEF n
    <3> QED BY <1>1, <2>0
  <2>2. \A r \in 1 .. q - 1 : needle[r].txt # NoText => needle[r].ind # needle[q].ind BY <1>3, <2>1
  <2> QED BY <2>2 DEF Pairs
<1>5. \A r \in pairs : r \in 1 .. n /\ needle[r].txt # NoText BY DEF Pairs
<1> HIDE DEF pairs
<1>6. q \in best
  <2>1. needle[q].ind = l.ind OBVIOUS
  <2>2. IsPrefix(needle[q].ind, l.ind) BY <1>2, <2>1, PrefixFacts
  <2>3. \A r \in pairs : IsPrefix(needle[r].ind, l.ind) => Len(needle[r].ind) <= Len(needle[q].ind)
    BY <1>2, <1>5, <2>1, PrefixFacts
  <2> QED BY <1>4, <2>1, <2>2, <2>3 DEF Longest
<1>7. p \in best BY <1>6
<1> HIDE DEF p
<1>8. p \in pairs /\ IsPrefix(needle[p].ind, l.ind) /\ Len(needle[q].ind) <= Len(needle[p].ind)
  <2>1. needle[q].ind = l.ind OBVIOUS
  <2>2. IsPrefix(needle[q].ind, l.ind) BY <1>2, <2>1, PrefixFacts
  <2> QED BY <1>4, <1>7, <2>2 DEF Longest
<1>9. p \in 1 .. n /\ needle[p].txt # NoText /\ needle[p].ind = l.ind BY <1>2, <1>5, <1>8, PrefixFacts
<1> DEFINE to == BareLines[at + p - 1].ind
<1>10. at + p - 1 \in 1 .. Len(file) BY <1>1, <1>9, PlaceInFile
<1>11. to \in Seq(STRING) BY <1>10, LinesTyped
<1>12. SubSeq(l.ind, Len(l.ind) + 1, Len(l.ind)) = <<>>
  <2>1. Len(l.ind) \in Int /\ Len(l.ind) + 1 \in Int /\ Len(l.ind) < Len(l.ind) + 1 BY <1>2
  <2> QED BY <2>1, SubSeqEmpty
<1>13. to \o <<>> = to BY <1>11, ConcatEmptySeq
<1>14. Reindent(BareLines, at, l) = [l EXCEPT !.ind = to \o SubSeq(l.ind, Len(needle[p].ind) + 1, Len(l.ind))]
  <2>1. best # {} BY <1>6
  <2> QED BY <2>1 DEF Reindent, p, pairs
<1>15. Reindent(BareLines, at, l) = [l EXCEPT !.ind = to] BY <1>9, <1>12, <1>13, <1>14
<1> QED BY <1>9, <1>15 DEF TakesIndentOf

\* The lines as deep as one of old_string get the indentation of the file.
LEMMA SoundIndent == ASSUME Inputs, NEW stage \in StageNames, Edited(stage) PROVE KnownIndentKept
<1> SUFFICES ASSUME result.strategy = "indentation-tolerant", NEW d \in {file[i].ind : i \in 1 .. Len(file)}, Deeper(d),
                    NEW i \in 1 .. Len(new), NEW j \in 1 .. Len(needle), needle[j].txt # NoText, needle[j].ind = new[i].ind, new[i].txt # NoText
             PROVE  Written[i] = Indented(d)[i]
  BY DEF KnownIndentKept
<1> DEFINE w == result.at
           v == w[1]
           l == new[i]
           k == v + i - 1
           b == Bare(result.text[k])
<1>1. Len(file) \in Nat /\ Len(needle) \in Nat /\ Len(new) \in Nat BY InputsTyped
<1>2. IsWindows(w) /\ 1 \in 1 .. Len(w) BY EditedIs
<1>3. v \in Nat /\ v > 0 /\ v \in Starts BY <1>2, WindowBounds
<1>4. PICK t \in Seq(OutLine) : result.text = WithEndings(t) /\ IsText(stage, w, t) BY EditedIs
<1>5. l \in ArgLine /\ l.txt # NoText BY LinesTyped
<1>6. Render(stage, BareLines, v)[i] = Reindent(BareLines, v, l)
  <2>1. stage = "indentation-tolerant" BY DEF Edited
  <2> QED BY <2>1 DEF Render, Reindents
<1>7. PICK p \in 1 .. Len(needle) : /\ needle[p].txt # NoText /\ needle[p].ind = l.ind
                                    /\ Reindent(BareLines, v, l) = [l EXCEPT !.ind = BareLines[v + p - 1].ind]
  <2>1. needle[j].txt # NoText /\ needle[j].ind = l.ind OBVIOUS
  <2> HIDE DEF l, v
  <2>2. PICK p \in 1 .. Len(needle) : TakesIndentOf(v, l, p) BY <1>3, <1>5, <2>1, ReindentKnown
  <2> QED BY <2>2 DEF TakesIndentOf
<1>8. BareLines[v + p - 1].ind = d \o l.ind
  <2> DEFINE m == v + p - 1
  <2>1. m \in 1 .. Len(file) BY <1>3, PlaceInFile
  <2>2. file[m].txt = needle[p].txt /\ (file[m].txt # NoText => file[m].ind = d \o needle[p].ind) BY <1>2 DEF Deeper
  <2>3. BareLines[m].ind = file[m].ind
    <3> HIDE DEF m
    <3> QED BY <2>1 DEF BareLines, Bare
  <2> QED BY <1>7, <2>2, <2>3
<1>9. k \in 1 .. Len(t) /\ t[k] = [l EXCEPT !.ind = d \o l.ind]
  <2>1. t[v - 1 + i] = Render(stage, BareLines, v)[i] BY <1>4 DEF IsText
  <2>2. v - 1 + i = k BY <1>1, <1>3
  <2>3. v - 1 + Len(new) <= Len(t) BY <1>4 DEF IsText
  <2>5. Len(t) \in Nat OBVIOUS
  <2>4. k \in 1 .. Len(t)
    <3> DEFINE e == Len(t)
               g == Len(new)
    <3>1. i \in 1 .. g /\ g \in Nat /\ e \in Nat /\ v - 1 + g <= e BY <1>1, <2>3, <2>5
    <3> HIDE DEF e, g, v
    <3> QED BY <1>3, <3>1 DEF e
  <2> QED BY <1>6, <1>7, <1>8, <2>1, <2>2, <2>4
<1>10. b = t[k]
  <2> DEFINE y == t[k]
  <2>1. y \in OutLine
    <3> HIDE DEF k
    <3> QED BY <1>9
  <2> HIDE DEF y, k
  <2>2. y = [ind |-> y.ind, txt |-> y.txt, fancy |-> y.fancy, pad |-> y.pad] BY <2>1 DEF OutLine
  <2>3. b = [ind |-> y.ind, txt |-> y.txt, fancy |-> y.fancy, pad |-> y.pad]
    <3>1. result.text[k] = [ind |-> y.ind, txt |-> y.txt, fancy |-> y.fancy, pad |-> y.pad, eol |-> IF HadCRLF THEN "crlf" ELSE "lf"]
      BY <1>4, <1>9 DEF WithEndings, y
    <3> QED BY <3>1 DEF Bare
  <2> QED BY <2>2, <2>3 DEF y
<1>11. Written[i] = b BY DEF Written
<1>12. Indented(d)[i] = [l EXCEPT !.ind = d \o l.ind] BY DEF Indented
<1> QED BY <1>9, <1>10, <1>11, <1>12

-----------------------------------------------------------------------------

\* Either nothing was edited or the text is the one of the windows that were found.
LadderInv ==
  /\ Inputs
  /\ result = NotRun \/ result.status \in {"not found", "ambiguous"} \/ \E stage \in StageNames : Edited(stage)

\* What was edited is sound.
LEMMA LadderSound == LadderInv => EditsAreSound
<1>1. NotRun.status # "edited" BY DEF NotRun
<1>2. ASSUME Inputs, NEW stage \in StageNames, Edited(stage) PROVE EditsAreSound
  BY <1>2, SoundPlace, SoundIndent DEF EditsAreSound
<1>3. ASSUME result.status # "edited" PROVE EditsAreSound BY <1>3 DEF EditsAreSound, InItsPlace, KnownIndentKept
<1> QED BY <1>1, <1>2, <1>3 DEF LadderInv

\* The inductive invariant holds at first ...
LEMMA LadderStart == LadderInit => LadderInv
<1> SUFFICES ASSUME LadderInit PROVE LadderInv OBVIOUS
<1>1. needle \in Seq(ArgLine) /\ needle # <<>> BY LadderAssumption DEF LadderInit
<1>2. Len(needle) > 0 BY <1>1
<1> QED BY <1>1, <1>2, LadderAssumption DEF LadderInit, LadderInv, Inputs

\* ... and every step keeps it.
LEMMA LadderStep == LadderInv /\ [LadderNext]_ladderVars => LadderInv'
<1> SUFFICES ASSUME LadderInv, [LadderNext]_ladderVars PROVE LadderInv' OBVIOUS
<1>1. CASE Edit
  <2>1. Inputs' BY <1>1 DEF Edit, LadderInv, Inputs
  <2> QED BY <1>1, <2>1, EditStep DEF LadderInv
<1>2. CASE UNCHANGED ladderVars
  <2>1. UNCHANGED <<file, needle, new, all, escaped>> /\ result' = result BY <1>2 DEF ladderVars
  <2>2. Inputs' BY <2>1 DEF LadderInv, Inputs
  <2>3. ASSUME NEW stage \in StageNames, Edited(stage) PROVE Edited(stage)'
    <3>1. PICK t : result.text = WithEndings(t) /\ IsText(stage, result.at, t) BY <2>3 DEF Edited
    <3>2. PICK x : x = result.at OBVIOUS
    <3>3. /\ result.status = "edited" /\ result.strategy = stage /\ result.at = x /\ result.text = WithEndings(t)
          /\ x # <<>> /\ Decides(x) /\ IsText(stage, x, t) /\ (Places # {} => stage = "exact") /\ Found(stage, BareLines) = x
      BY <2>3, <3>1, <3>2 DEF Edited
    <3>4. /\ Found(stage, BareLines)' = x /\ Decides(x)' /\ IsText(stage, x, t)' /\ WithEndings(t)' = WithEndings(t)
          /\ Places' = Places
      BY <2>1, <3>3, LadderFrame
    <3> QED BY <2>1, <3>3, <3>4 DEF Edited
  <2>4. CASE result = NotRun \/ result.status \in {"not found", "ambiguous"} BY <2>1, <2>2, <2>4 DEF LadderInv, NotRun
  <2>5. CASE \E stage \in StageNames : Edited(stage) BY <2>2, <2>3, <2>5 DEF LadderInv
  <2> QED BY <2>4, <2>5 DEF LadderInv
<1> QED BY <1>1, <1>2 DEF LadderNext

\* edit_file puts new_string where its first strategy that matched found old_string, for
\* any file, old_string and new_string (ladderOnce, replaceSpans).
THEOREM LadderInductive == LadderSpec => []LadderInv
<1>1. LadderInit => LadderInv BY LadderStart
<1>2. LadderInv /\ [LadderNext]_ladderVars => LadderInv' BY LadderStep
<1> QED BY <1>1, <1>2, PTL DEF LadderSpec

\* An edit is made in the one place asked for, quoted exactly if it can be, leaves the other
\* lines and their endings alone and keeps the indentation it knows, for any file, old_string
\* and new_string (applyLadderEdit, reindentRenderer, editFile).
THEOREM EditsStaySound == LadderSpec => []EditsAreSound
<1>1. LadderInv => EditsAreSound BY LadderSound
<1> QED BY <1>1, LadderInductive, PTL
=============================================================================
