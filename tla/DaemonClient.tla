---------------------------- MODULE DaemonClient ----------------------------
(***************************************************************************)
(* The daemons of a machine and their clients: daemon/local.go (listener,  *)
(* metadata file, shutdown), the routes of daemon/server.go, `glue connect` *)
(* with its inspections and its diagnosis (cmd/glue), and the daemon client *)
(* of the Telegram channel.                                                *)
(*                                                                         *)
(* Addresses and tokens are numbers: 0 is the address of --listen and the  *)
(* token of GLUE_DAEMON_TOKEN, d the free port and the generated token of  *)
(* daemon d.  Every client makes one call: a run, an inspection or a query. *)
(* A run is named by its client; its goroutine, its permission requests    *)
(* and its subscribers are refined in DaemonRun.                           *)
(***************************************************************************)
EXTENDS Integers, Sequences, FiniteSets

CONSTANTS
  Daemons,         \* processes that serve, numbered from 1
  Catalogs,        \* Catalogs[d]: the catalogs the host of daemon d implements
  Clients,         \* the clients whose calls are followed
  maxRecentErrors, \* of recordError
  MaxAsks          \* bound: permission requests of a run

ASSUME ClientAssumption == Daemons \subseteq Nat \ {0} /\ maxRecentErrors \in Nat

VARIABLES
  life,    \* per daemon: "new", "bound", "written", "serving", "stopping" or "dead"
  at,      \* per daemon: its address, its token, and whether it has a metadata path
  tmp,     \* the daemon described by the file the metadata is written to first
  meta,    \* the daemon described by the metadata file
  errors,  \* per daemon: recentErrors, the clients of the runs that failed, 0 for another
  run,     \* per client: its run on a daemon, with the events it emitted
  client   \* per client: its kind, "cli" (glue connect) or "telegram", and how far its call is

clientVars == <<life, at, tmp, meta, errors, run, client>>

Unset  == -1
NoRun == [on |-> Unset, pc |-> "none", asks |-> 0, ask |-> FALSE, cancelled |-> FALSE, log |-> <<>>, conn |-> "none"]

ClientInit ==
  /\ life = [d \in Daemons |-> "new"] /\ at = [d \in Daemons |-> [addr |-> Unset, token |-> Unset, named |-> FALSE]]
  /\ tmp = Unset /\ meta = Unset /\ errors = [d \in Daemons |-> <<>>]
  /\ run = [c \in Clients |-> NoRun]
  /\ client = [c \in Clients |-> [kind |-> "", pc |-> "idle", addr |-> Unset, token |-> Unset, seen |-> 0, todo |-> {}, result |-> ""]]

-----------------------------------------------------------------------------
(* ServeLocal. *)

Listening(a) == {d \in Daemons : life[d] \in {"bound", "written", "serving"} /\ at[d].addr = a}

\* The token is that of the environment or generated; without a metadata file it
\* must not be generated (serveCommand).
Start(d, a, t, named) ==
  /\ life[d] = "new" /\ a \in {0, d} /\ t \in {0, d} /\ (named \/ t = 0)
  /\ life' = [life EXCEPT ![d] = IF Listening(a) # {} THEN "dead" ELSE IF named THEN "bound" ELSE "serving"]
  /\ at' = [at EXCEPT ![d] = [addr |-> a, token |-> t, named |-> named]]
  /\ UNCHANGED <<tmp, meta, errors, run, client>>

\* WriteMetadata writes a file next to the metadata, and renames it; the name of
\* that file is the same for all, so of two daemons that start together one may
\* rename what the other wrote, which then fails.
WriteTmp(d) ==
  /\ life[d] = "bound"
  /\ tmp' = d /\ life' = [life EXCEPT ![d] = "written"]
  /\ UNCHANGED <<at, meta, errors, run, client>>

Rename(d) ==
  /\ life[d] = "written"
  /\ \/ tmp # Unset /\ meta' = tmp /\ tmp' = Unset /\ life' = [life EXCEPT ![d] = "serving"]
     \/ tmp = Unset /\ life' = [life EXCEPT ![d] = "dead"] /\ UNCHANGED <<meta, tmp>>
  /\ UNCHANGED <<at, errors, run, client>>

\* The context of the process ends: the listener closes, streams stay open.
Stop(d) ==
  /\ life[d] = "serving" /\ life' = [life EXCEPT ![d] = "stopping"]
  /\ UNCHANGED <<at, tmp, meta, errors, run, client>>

\* The end of a shutdown, in time or not, or of the process at any moment: its
\* runs end with it, the metadata file stays.
Die(d) ==
  /\ life[d] \in {"bound", "written", "serving", "stopping"}
  /\ life' = [life EXCEPT ![d] = "dead"]
  /\ run' = [c \in Clients |-> IF run[c].on = d THEN [run[c] EXCEPT !.pc = "lost"] ELSE run[c]]
  /\ UNCHANGED <<at, tmp, meta, errors, client>>

-----------------------------------------------------------------------------
(* The routes: what a request is answered. *)

Lists    == {"tools", "skills", "roles", "memories", "mcp_resources", "mcp_prompts"}
Demands  == {"recall", "memory_forget", "mcp_resource_read", "mcp_prompt_get"}
Requests == Lists \cup Demands \cup {"status", "diagnostics", "permission_grants"}

\* A list the host does not have is empty, and tools cannot fail; a demand it
\* cannot meet is not found.
Handler(d, r) ==
  IF r \in Lists THEN IF r \in Catalogs[d] \ {"tools"} THEN {"ok", "internal"} ELSE {"ok"}
  ELSE IF r \in Demands THEN IF r \in Catalogs[d] THEN {"ok", "internal", "invalid"} ELSE {"not found"}
  ELSE {"ok"}

\* What statusResponse says the daemon can do.
Capable(d) == Catalogs[d] \cup {"tools", "permission_grants", "status", "diagnostics"}

Authorized(d, token) == token = at[d].token

\* The answers to a request sent to an address: a daemon that is bound and does
\* not serve yet keeps it waiting.
Server(a)   == {d \in Daemons : life[d] = "serving" /\ at[d].addr = a}
Waits(a)    == Listening(a) # Server(a)
ReplyTo(a, token, r) ==
  IF Server(a) = {} THEN {"unreachable"}
  ELSE UNION {IF Authorized(d, token) THEN Handler(d, r) ELSE {"unauthorized"} : d \in Server(a)}

-----------------------------------------------------------------------------
(* The configuration of a call: --base-url, --token, the environment, and the *)
(* metadata file, which may describe a daemon that is gone.                *)

Flags == [base : {Unset, 0}, token : {Unset} \cup {0} \cup Daemons, env : BOOLEAN]

Base(f) == IF f.base # Unset THEN f.base ELSE IF meta # Unset THEN at[meta].addr ELSE Unset

\* Mutant: the environment goes before the metadata.
EnvFirst(f) ==
  IF f.token # Unset THEN f.token ELSE IF f.env THEN 0 ELSE IF meta # Unset THEN at[meta].token ELSE Unset

Token(f) ==
  IF f.token # Unset THEN f.token ELSE IF meta # Unset THEN at[meta].token ELSE IF f.env THEN 0 ELSE Unset

Resolved(f) == Base(f) # Unset /\ Token(f) # Unset

\* diagnoseDaemon reads the metadata, the flags and the environment itself.
DiagnosedToken(f) ==
  CASE f.token # Unset -> f.token
    [] f.token = Unset /\ meta # Unset -> at[meta].token
    [] f.token = Unset /\ meta = Unset /\ f.env -> 0
    [] OTHER -> Unset
Diagnosis(f) ==
  LET base == IF f.base # Unset THEN f.base ELSE IF meta = Unset THEN Unset ELSE at[meta].addr
      token == DiagnosedToken(f)
      answer == ReplyTo(base, token, "diagnostics")
  IN CASE base = Unset -> "no_metadata"
       [] base # Unset /\ token = Unset -> "missing_token"
       [] OTHER ->
            IF "unauthorized" \in answer THEN "auth_failed"
            ELSE IF answer = {"ok"} THEN "healthy"
            ELSE IF meta # Unset /\ f.base = Unset THEN "stale_metadata" ELSE "unreachable"

\* resolveConnectConfig.
Configure(c, kind, f) ==
  /\ client[c].pc = "idle"
  /\ client' = [client EXCEPT ![c] =
       IF Resolved(f) THEN [@ EXCEPT !.kind = kind, !.pc = "config", !.addr = Base(f), !.token = Token(f)]
       ELSE [@ EXCEPT !.kind = kind, !.pc = "over", !.result = "unconfigured"]]
  /\ UNCHANGED <<life, at, tmp, meta, errors, run>>

-----------------------------------------------------------------------------
(* Queries and inspections. *)

End(c, result) == client' = [client EXCEPT ![c] = [@ EXCEPT !.pc = "over", !.result = result]]
Can(c) == ~Waits(client[c].addr)

\* fetchDaemonTools, ...; requestDaemonRecall, ....
CliFetches      == Lists \cup {"status", "permission_grants"}
CliDemands      == Demands
MemoryQueries   == {"recall", "memories", "memory_forget", "permission_grants", "status"}
TelegramQueries == {"status", "roles", "skills", "memories", "recall", "memory_forget"}

Request(c, kind, r) ==
  /\ client[c].pc = "config" /\ client[c].kind = kind /\ Can(c)
  /\ \E reply \in ReplyTo(client[c].addr, client[c].token, r) : End(c, reply)
  /\ UNCHANGED <<life, at, tmp, meta, errors, run>>

\* runConnectTools, ..., runConnectMCPPrompt; runConnectRecall, ..., runConnectStatus.
QueryCatalog(c) == \E r \in (CliFetches \cup CliDemands) \ MemoryQueries : Request(c, "cli", r)
QueryMemory(c)  == \E r \in MemoryQueries : Request(c, "cli", r)

Command(c) == \E r \in TelegramQueries : Request(c, "telegram", r)

\* runConnectInspect asks for the status, and one after the other for the tools
\* and for the lists the status names.
Inspected == Lists \cup {"permission_grants"}
Inspect(c) ==
  /\ client[c].pc = "config" /\ client[c].kind = "cli" /\ Can(c)
  /\ \E reply \in ReplyTo(client[c].addr, client[c].token, "status") :
       IF reply = "ok"
         THEN \E d \in Server(client[c].addr) :
                client' = [client EXCEPT ![c] = [@ EXCEPT !.pc = "inspect", !.todo = Capable(d) \cap Inspected]]
         ELSE End(c, reply)
  /\ UNCHANGED <<life, at, tmp, meta, errors, run>>

Listed(c, r) ==
  /\ client[c].pc = "inspect" /\ r \in client[c].todo /\ Can(c)
  /\ \E reply \in ReplyTo(client[c].addr, client[c].token, r) :
       IF reply = "ok" THEN client' = [client EXCEPT ![c].todo = @ \ {r}] ELSE End(c, reply)
  /\ UNCHANGED <<life, at, tmp, meta, errors, run>>

Inspection(c) ==
  /\ client[c].pc = "inspect" /\ client[c].todo = {} /\ End(c, "inspected")
  /\ UNCHANGED <<life, at, tmp, meta, errors, run>>

-----------------------------------------------------------------------------
(* Runs: the server. *)

\* handleStartRun, of a body it takes and a session the host opens.
Accepts(c, d) == run' = [run EXCEPT ![c] = [NoRun EXCEPT !.on = d, !.pc = "prompt"]]

\* The server may refuse the request, and its answer may get lost, which leaves the
\* run to itself.
PostRun(c) ==
  /\ client[c].pc = "config" /\ Can(c)
  /\ IF Server(client[c].addr) = {} THEN End(c, "unreachable") /\ UNCHANGED run
     ELSE \E d \in Server(client[c].addr) :
            IF ~Authorized(d, client[c].token) THEN End(c, "unauthorized") /\ UNCHANGED run
            ELSE \/ \E refusal \in {"invalid", "internal"} : End(c, refusal) /\ UNCHANGED run
                 \/ /\ Accepts(c, d)
                    /\ \/ client' = [client EXCEPT ![c].pc = "started"]
                       \/ End(c, "unreachable")
  /\ UNCHANGED <<life, at, tmp, meta, errors>>

\* The run asks a permission, and gives up waiting for it.
AsksPermission(c) ==
  /\ run[c].pc = "prompt" /\ ~run[c].ask /\ run[c].asks < MaxAsks /\ ~run[c].cancelled
  /\ run' = [run EXCEPT ![c] = [run[c] EXCEPT !.ask = TRUE, !.asks = run[c].asks + 1, !.log = Append(run[c].log, "ask")]]
  /\ UNCHANGED <<life, at, tmp, meta, errors, client>>
Expires(c) ==
  /\ run[c].pc = "prompt" /\ run[c].ask /\ run' = [run EXCEPT ![c].ask = FALSE]
  /\ UNCHANGED <<life, at, tmp, meta, errors, client>>

Newest(s) == IF Len(s) > maxRecentErrors THEN SubSeq(s, 1, maxRecentErrors) ELSE s

\* Prompt returned: run_done is emitted, or the error recorded and run_error emitted.
Succeeds(c) ==
  /\ run[c].pc = "prompt" /\ ~run[c].ask
  /\ run' = [run EXCEPT ![c] = [run[c] EXCEPT !.pc = "over", !.log = Append(run[c].log, "done")]]
  /\ UNCHANGED <<life, at, tmp, meta, errors, client>>

RecordError(c) ==
  /\ run[c].pc = "prompt" /\ ~run[c].ask
  /\ errors' = [errors EXCEPT ![run[c].on] = Newest(<<c>> \o @)]
  /\ run' = [run EXCEPT ![c].pc = "failed"]
  /\ UNCHANGED <<life, at, tmp, meta, client>>
Fails(c) ==
  /\ run[c].pc = "failed"
  /\ run' = [run EXCEPT ![c] = [run[c] EXCEPT !.pc = "over", !.log = Append(run[c].log, "error")]]
  /\ UNCHANGED <<life, at, tmp, meta, errors, client>>

\* A run of another client fails; only those matter that a followed run shares
\* the list with.
AnotherFails(d) ==
  /\ life[d] \in {"serving", "stopping"} /\ \E c \in Clients : run[c].on = d
  /\ errors' = [errors EXCEPT ![d] = Newest(<<0>> \o @)]
  /\ UNCHANGED <<life, at, tmp, meta, run, client>>

\* handleRunEvents finds its client gone, and cancels the run.
Notices(c) ==
  /\ run[c].conn = "broken" /\ run[c].pc # "lost"
  /\ run' = [run EXCEPT ![c] = [@ EXCEPT !.conn = "closed", !.cancelled = TRUE]]
  /\ UNCHANGED <<life, at, tmp, meta, errors, client>>

-----------------------------------------------------------------------------
(* Runs: the clients. *)

Left(c) == IF run[c].conn = "open" THEN "broken" ELSE run[c].conn

\* The daemon that has the run, if it answers at the client's address.
Reached(c) == {d \in Server(client[c].addr) : d = run[c].on}

Subscribe(c) ==
  /\ client[c].pc = "started" /\ Can(c)
  /\ IF Reached(c) # {}
       THEN /\ client' = [client EXCEPT ![c].pc = "stream"]
            /\ run' = [run EXCEPT ![c].conn = "open"]
       ELSE /\ \E reply \in {"unreachable", "unauthorized", "not found"} : End(c, reply)
            /\ UNCHANGED run
  /\ UNCHANGED <<life, at, tmp, meta, errors>>

\* streamDaemonRun and streamRun: the next event.  The CLI reads the answer to a
\* permission request before it reads on, Telegram sends a message with buttons.
Deliver(c) ==
  /\ client[c].pc = "stream" /\ run[c].conn = "open" /\ client[c].seen < Len(run[c].log)
  /\ LET event == run[c].log[client[c].seen + 1]
         seen  == client[c].seen + 1
     IN IF event = "ask"
          THEN client' = [client EXCEPT ![c] =
                 [@ EXCEPT !.seen = seen, !.pc = IF client[c].kind = "cli" THEN "asked" ELSE "stream"]]
          ELSE client' = [client EXCEPT ![c] =
                 [@ EXCEPT !.seen = seen, !.pc = "over", !.result = IF event = "done" THEN "done" ELSE "failed"]]
  /\ run' = [run EXCEPT ![c].conn = IF client'[c].pc = "over" THEN "broken" ELSE @]
  /\ UNCHANGED <<life, at, tmp, meta, errors>>

\* The stream ends without a last event: an error for the CLI, and for Telegram
\* the text there was.
Cut(c) ==
  /\ client[c].pc = "stream" /\ run[c].pc = "lost"
  /\ End(c, IF client[c].kind = "cli" THEN "cut" ELSE "partial")
  /\ UNCHANGED <<life, at, tmp, meta, errors, run>>

\* The decision is posted.  It is not found when the run has given up, and then
\* the CLI gives up its run; to Telegram it is a button that failed.
Answer(c) ==
  /\ client[c].pc = "asked" \/ (client[c].pc = "stream" /\ client[c].kind = "telegram" /\ client[c].seen > 0)
  /\ Can(c)
  /\ IF Reached(c) # {} /\ run[c].ask
       THEN /\ run' = [run EXCEPT ![c].ask = FALSE]
            /\ client' = [client EXCEPT ![c].pc = "stream"]
       ELSE /\ client[c].kind = "cli"
            /\ run' = [run EXCEPT ![c].conn = Left(c)]
            /\ End(c, "undecided")
  /\ UNCHANGED <<life, at, tmp, meta, errors>>

\* The process of the CLI is interrupted.  cancelDaemonRun runs in a goroutine
\* nobody waits for: the request may be sent or not.
Interrupt(c) ==
  /\ client[c].kind = "cli" /\ client[c].pc \in {"config", "inspect", "started", "stream", "asked"}
  /\ End(c, "interrupted")
  /\ \/ run' = [run EXCEPT ![c].conn = Left(c)]
     \/ /\ client[c].pc \in {"started", "stream", "asked"} /\ Reached(c) # {}
        /\ run' = [run EXCEPT ![c] = [@ EXCEPT !.conn = Left(c), !.cancelled = TRUE]]
  /\ UNCHANGED <<life, at, tmp, meta, errors>>

-----------------------------------------------------------------------------
Daemon(d) ==
  \/ \E a \in {0, d}, t \in {0, d}, named \in BOOLEAN : Start(d, a, t, named)
  \/ WriteTmp(d) \/ Rename(d) \/ Stop(d) \/ Die(d) \/ AnotherFails(d)
FollowedStep(c) == AsksPermission(c) \/ Expires(c) \/ Succeeds(c) \/ RecordError(c) \/ Fails(c) \/ Notices(c)
ClientStep(c) ==
  \/ \E kind \in {"cli", "telegram"}, f \in Flags : Configure(c, kind, f)
  \/ QueryCatalog(c) \/ QueryMemory(c) \/ Command(c) \/ \E r \in Inspected : Listed(c, r)
  \/ Inspect(c) \/ Inspection(c) \/ PostRun(c) \/ Subscribe(c) \/ Deliver(c) \/ Cut(c) \/ Answer(c) \/ Interrupt(c)

ClientNext ==
  \/ \E d \in Daemons : Daemon(d)
  \/ \E c \in Clients : FollowedStep(c) \/ ClientStep(c)

ClientSpec == ClientInit /\ [][ClientNext]_clientVars

-----------------------------------------------------------------------------
\* A client that is told its run failed finds the failure among the recent errors
\* of the daemon, unless as many others failed since (executeRun, recordError,
\* streamDaemonRun): it is recorded before it is told.
FailuresAreRecorded ==
  \A c \in Clients : client[c].result = "failed" =>
    LET kept == errors[run[c].on]
    IN (\E i \in DOMAIN kept : kept[i] = c) \/ Len(kept) = maxRecentErrors

\* A run whose client was told it is done is over, on the daemon the client asked
\* (streamDaemonRun, streamRun), and a run whose stream was left before its end is
\* cancelled (handleRunEvents): it does not go on with nobody to see it.
LeftRunsAreCancelled ==
  \A c \in Clients :
    /\ client[c].result = "done" => run[c].pc \in {"over", "lost"}
    /\ run[c].conn = "closed" /\ run[c].pc = "prompt" => run[c].cancelled

\* The diagnosis says healthy exactly of what a run could be started on with the
\* same flags, metadata and environment (diagnoseDaemon, resolveConnectConfig).
DiagnosisAgrees ==
  \A f \in Flags :
    Diagnosis(f) = "healthy" <=>
      Resolved(f) /\ \E d \in Server(Base(f)) : Authorized(d, Token(f))

\* An inspection fails for a daemon that is unreachable, refuses the token or whose
\* host fails, never for what a host does not implement - also when another daemon
\* took the address while it went on (runConnectInspect, handleSkills, ...).
InspectionsAreAnswered ==
  \A c \in Clients : client[c].todo # {} /\ client[c].pc = "over" =>
    client[c].result \in {"unreachable", "unauthorized", "internal", "interrupted"}

\* What the commands and channels tell their users of a daemon and of a run is so,
\* whenever daemons start, stop and die (cmd/glue, daemon_client.go).
ClientsAreToldTheTruth ==
  DiagnosisAgrees /\ InspectionsAreAnswered /\ FailuresAreRecorded /\ LeftRunsAreCancelled

-----------------------------------------------------------------------------
(***************************************************************************)
(* The inductive strengthening: one daemon listens at an address, and for  *)
(* every client what is in the log of its run, and what it was told, agree *)
(* with where the run is and with the recent errors.                       *)
(***************************************************************************)
Addresses == {Unset, 0} \cup Daemons
ClientOutcomes  == {"", "ok", "internal", "invalid", "not found", "unauthorized", "unreachable", "unconfigured",
              "inspected", "interrupted", "undecided", "done", "failed", "cut", "partial"}
FollowedRuns ==
  [on : {Unset} \cup Daemons, pc : {"none", "prompt", "failed", "over", "lost"}, asks : Nat, ask : BOOLEAN,
   cancelled : BOOLEAN, log : Seq({"ask", "done", "error"}), conn : {"none", "open", "broken", "closed"}]
ClientCalls ==
  [kind : {"", "cli", "telegram"}, pc : {"idle", "config", "inspect", "started", "stream", "asked", "over"},
   addr : Addresses, token : Addresses, seen : Nat, todo : SUBSET Inspected, result : ClientOutcomes]

DaemonTypeOK ==
  /\ life \in [Daemons -> {"new", "bound", "written", "serving", "stopping", "dead"}]
  /\ at \in [Daemons -> [addr : Addresses, token : Addresses, named : BOOLEAN]]
  /\ tmp \in {Unset} \cup Daemons /\ meta \in {Unset} \cup Daemons
  /\ errors \in [Daemons -> Seq(Clients \cup {0})]

OneListener == \A d, e \in Daemons : d \in Listening(at[e].addr) /\ e \in Listening(at[e].addr) => d = e

\* A failure is on record, or as many others are.
Recorded(c, d) ==
  (\E i \in DOMAIN errors[d] : errors[d][i] = c) \/ Len(errors[d]) = maxRecentErrors

Logged(r, event) == \E i \in DOMAIN r.log : r.log[i] = event

\* The call of client c and its run.
Told(c, call, r) ==
  /\ call \in ClientCalls /\ r \in FollowedRuns
  /\ r.pc = "none" \/ r.on \in Daemons
  /\ call.pc \in {"idle", "config", "inspect"} => call.result = ""
  /\ call.todo # {} => call.pc \in {"inspect", "over"}
  /\ call.todo # {} /\ call.pc = "over" => call.result \in {"unreachable", "unauthorized", "internal", "interrupted"}
  /\ r.conn = "closed" => r.cancelled
  /\ Logged(r, "done") \/ call.result = "done" => r.pc \in {"over", "lost"}
  /\ r.pc = "failed" \/ Logged(r, "error") \/ call.result = "failed" => r.pc # "none" /\ Recorded(c, r.on)

ClientInv ==
  /\ DaemonTypeOK /\ OneListener
  /\ run \in [Clients -> FollowedRuns] /\ client \in [Clients -> ClientCalls]
  /\ \A c \in Clients : Told(c, client[c], run[c])
  /\ ClientsAreToldTheTruth
=============================================================================
