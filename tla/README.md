# A TLA+ development of glue

`glue` is a Go library and a set of programs for running language-model agents: a
provider-agnostic agent loop, sessions that keep a transcript, tools, a local
daemon that streams runs to clients, and two agents built on it (a code reviewer
and a personal assistant, Peggy, with a Telegram channel and a scheduler). This
directory models its core in TLA+, checks the models with TLC on small instances
and proves some of the results for every instance with TLAPS. Every definition is
translated from the Go code; `PROJECT.json` ("map") names the lines.

## Inventory

| Component | State | Operations | What is hard |
|---|---|---|---|
| Loop guardrails, `loop/guardrails.go` | `guardState`: last call, two streak counters, two flags | `observe` per tool round | resets, thresholds, two streaks competing for one verdict |
| Agent loop, `loop/run.go`, `retry.go`, `autocontinue.go` | transcript, turn, attempt and nudge counters, the round being executed | `Run`, `runAssistantTurnWithRetry`, `executeToolCalls` | cancellation at every point, half-streamed attempts, parallel calls, hooks and handlers that abort |
| Daemon run, `daemon/run.go`, `daemon/server.go` | event log, `pending` requests, done flag, notify channel, grants | `executeRun`, `decidePermission`, `handlePermissionDecision`, `handleRunEvents`, `handleCancelRun` | timer, context and posts racing; wake-ups; slow and vanishing subscribers |
| Permission grants, `daemon/server.go`, `permission_policy.go` | three maps, the grant file | `decidePermission`, `rememberPermission`, `forgetPermission`, restart | grants in memory against grants on disk, scopes and owners |
| Daemon server and its clients, `daemon/`, `cmd/glue` | listener, metadata file, recent errors, the run a client follows | `ServeLocal`, routes, `connect`, diagnosis, inspection | stale metadata, tokens that disagree, a client that goes at any moment |
| Sessions, `session.go`, `agent.go` | transcript in memory and in the store | `Prompt`, `Compact`, `ForkSession`, `CloneSession` | overflow retry after effects, save failing or cancelled, stale copies |
| Session stores, `stores/file`, `stores/sqlite` | files; rows of sessions, messages, index | `Save`, `Load`, `Delete`, `ListSessions`, `Search` | statements and files read one after the other, a writer that ends half way |
| History hardening, `loop/harden.go` | none (pure) | `HardenHistory` | ids that collide or are reused, interrupted rounds |
| Compaction, `compactor.go` | none (pure) | `KeepRecentMessages`, `SummarizingCompactor` | split points inside a tool round, summaries of summaries |
| Goals, `goal.go`, `goal_store.go`, `cmd/glue/tui/goal.go` | checklist, iteration, usage, the stored record | `PursueGoal`, checkpoints, resumption | crash between checkpoints, progress measured over a resume, a cleared loop that still returns |
| Request conversion, `providers/*/convert.go` | none (pure) | `convertMessages`, `ConvertMessages`, `messagesToInput` | roles, grouped results, thought signatures |
| Provider streams, `providers/` | fragments of calls, text, usage | the decoding goroutines | interleaved fragments, streams that end early |
| Failover, `failover.go` | provider index, forwarding goroutine | `Stream` | a consumer that stops, a provider that hangs |
| Codex auth, `providers/codex/auth` | cached and stored tokens, a mutex of the process | `EnsureFresh`, retry on 401 | rotated tokens, failed writes |
| Executor, `executor.go` | head, ring tail, omitted count | `Run`, `limitedOutput.Write` | accounting at the limits, inherited output |
| Workspace tools, `tools/fs` | `ReadLedger`, the file | `read_file`, `edit_file`, `write_file` | files that change, matches that forgive |
| MCP client, `tools/mcp` | child process, request ids, one lock; catalogs | `Request`, `NewManager`, `Tools`, `Resources`, `ReadResource` | cancellation closes the transport, colliding names, pages, replies in frames |
| Scheduler, `agents/peggy/scheduler.go`, `schedule_store.go` | schedules, running set, the file | `Tick`, `execute`, store edits | stale copies, crashes, overlap |
| Telegram, `agents/peggy/channels/telegram` | offset, pending requests, nonces | `Run`, `Decide`, `handleCallback`, the daemon client | a timeout racing a button, updates delivered again |
| Peggy, `agents/peggy` | settings, what was opened, curated memories | `LoadSettings`, doctor, `New`, `Close`, memory commands | conditions checked twice, defaults filled twice, two processes |
| Terminal interface, `cmd/glue/tui` | transcript items, modals, queue of requests | `Update`, `runTurn`, `/resume`, `/goal` | events of a session that was left |

How they interact: a client of the daemon (the terminal, Telegram, the scheduler)
starts a run; the run calls `Session.Prompt`, which calls `loop.Run`; the loop
hardens the history, converts it for a provider, streams the reply, runs tools, and
asks the permission handler it was given, which in the daemon is the broker of that
run. The loop's events come back through callbacks into the run's log, from which
any number of SSE requests stream. Cancelling is a context that reaches all of them.

`PROJECT.json` lists every component with its status and, under "hazards", where
the code is exposed to what, each with the property that would notice it.

## Modules

### The loop and its transcript

`Guardrails` models `guardState` and nothing else. Its state is the struct plus a
history of the rounds with their verdicts, from which the properties read the
streaks independently of the code's counters. One action, `Observe`, is
`guardState.observe` on any round; its parts (`TrackRepeat`, `TrackMistakes`,
`Verdict`, `Remember`) follow the paragraphs of the function.

`AgentLoop` models one call of `loop.Run`. `pc` is where the goroutine is: `turn`
(head of the loop), `attempt` and `stream` (`runAssistantTurn`), `failed` and
`backoff` (`runAssistantTurnWithRetry`), `reply`, `tools` (`executeToolCalls`) and
`done`. The tool calls of a round are processes of their own (`status`), started
in source order; sequential mode (`parallel` false) is a guard on `ToolStart`, as in
the code. The provider is the environment: it refuses, streams, fails, closes early,
repeats itself in the done event. `transcript` is `newMessages`; a call is its
canonical key and a reply its calls and whether it announces an action it does not
take. `ui` is what an observer of the events sees open. `effects` and `approved` are
history. `AgentLoop` instantiates `Guardrails` for the operators, so the composed
behaviour of the two is checked, and `GuardSpec` shows that it drives the guard as
`Guardrails!Spec` says.

`Session` models `Session.Prompt` around an environment that answers as the loop
does: `Lock`, `Prepare` (compaction, environment block), `RunReturns` or `Overflows`
(the retry over a compacted transcript), `Appends` and `Save`, per prompt, for several
prompts and sessions; `Open` is `Agent.Session`, `Fork` the command that copies a
stored session, `StartCompact` and `SaveCompact` the two ends of `/compact`, and a
crash leaves only `disk`. A message is who asked for it, its kind and its attempt.

`SessionStore` is what `Session` takes for granted, refined: each backend's `Save`,
`Load`, `Delete`, `ListSessions` and search, one step per statement or file
operation, by two workers that may end at any step. A state is the number of the
save that wrote it; the header, the messages and the index are three tables.

`History` is what happens to a transcript between two prompts. Its actions let it
grow by rounds, finished or interrupted, and compact it with either shipped
compactor; `HardenHistory` and its parts are operators, applied to every transcript
that is reached. A call id is its text, its spelling and the suffix a collision
gives it. The calls of one reply have different ids, but every reply draws from the same
pool: a provider that gives none makes them up from a name and an index within the reply
(`gemini.go:332-335`, `openaicompat.go:332-335`). A message has words, and a marker the
file ledger of what it replaced; the note of the window compactor is `NoteWords` long,
and nothing compares it with what it stands for.

`GoalLoop` models `PursueGoal` per goroutine (`Plan`, `Top`, `Iterate`, `Maker`,
`Checker`, `Decide`), each step with its checkpoint and the event it sends, the
stored records, and the TUI's `goalState` with the commands that start, pause,
resume and clear a goal. Its variable `tui` names the loop that its cancel function
reaches, which is not always a loop whose messages it gets: messages carry no id.

### The providers

`Conversion` grows a transcript by whole turns, a message of the user or a reply with
the results of its calls behind it, as `HardenHistory` leaves it, and turns it into what Gemini, Chat Completions and
Responses get, message by message as the three converters do, and adds the
signatures a Gemini 3 wants in the active loop. `ProviderStream` goes the other way:
a wire of up to four frames, decoded by each of the three providers, with text,
thoughts, fragments of calls, reasons to finish, ends and errors; a delta is the number
of its frame. A reason to finish fits the calls or not, and the last one counts.
The loops that pick some elements of a sequence are `Selection!Select`.
`FailoverStream` has a provider as a script of what it will do and models
`WithFailover` with its unbuffered and buffered channels and the goroutine that
forwards. `CodexAuth` models `EnsureFresh` of several streams in two processes with
the mutex of each, the file they share and replace, the cache, a server that rotates
tokens and a failing write.

### The daemon and its clients

`DaemonRun` models one run of the daemon at the grain of its critical sections:
`executeRun` (`StartRun` to `FinishRun`), each `decidePermission` (`Ask` to
`Receive` and `Expire`), each `POST` of a decision (`Claim` under the lock, `Send`
after it), each `GET .../events` (`Snapshot`, `WriteEvent`, `Written`,
`Disconnect`). The notify channel, closed and replaced on every signal, is the set
`woken` of subscribers whose copy is closed. `Session.Prompt` is the environment;
what it is assumed to do is what `AgentLoop` shows of the loop.

`DecideOnce` is the abstract specification of the permission exchange: a request
is settled once, by a post or by expiry, the posts are told the truth and the tool
loop gets what settled it. `DaemonRun` is shown to implement it
(`DecideOnceSpec`) with requests settled at the moment they leave `pending`.

`PermissionGrants` is the other half of `decidePermission`: the policy of the
channel, the three maps with their scopes and owners, the file they are saved in,
failed saves, `forget` and restarts. The maps are keyed by names as the request spells
them; a grant, its id and what a restart makes of the file are trimmed (`Trim`, `Grant`).

`DaemonClient` models the daemons of a machine from listener to shutdown, with the
metadata file they share, the routes as far as a client can tell their answers
apart, and the calls of `glue connect` (a run, an inspection, a query, a diagnosis)
and of the Telegram daemon client. Addresses and tokens are numbers. Runs are those
of `DaemonRun`, seen from outside: an event log, a pending request, a subscriber.

`TelegramBot` models the poll loop with its offset and batch, the goroutine of each
message, and both permission prompts, with the four buttons, the allowances for a
session and for a target, and nonces and keyboards that outlive a process. `Tui` models
the `Update` loop: items, the indexes a turn keeps into them by the ids of its calls, which
the rounds of a turn may use again, modals, the queue of requests, switches of session.

### Services and tools

`Scheduler` has the daemon's store, the file, ticks on a clock, flights and the
commands of other processes; an interval keeps its whole seconds, and only the first run
is at the interval that was given (`FirstRun`). `McpStdio` models the stdio transport with its lock,
both pipes and a server that may not read, and may write what does not decode, `McpManager` the namespace
`NewManager` builds and unwinds, `McpCalls` the calls made of it afterwards: pages,
catalogs of several servers, replies in SSE frames, results and what the model gets
of them. `Executor` models `Run` and `limitedOutput` byte by byte, and a command that
does not start. `EditLadder`
models `edit_file` as a function of file, old and new lines, each line opaque but for
what the strategies compare, `FileEdits` the ledger around it while others write the file
and `read_file` returns pages. `Memories` models the curated memories of
several callers and processes, `PeggySetup` the way from settings through doctor and
`New` to `Close`: tiers by channel or by default, a store type that the doctor trims and
`New` does not, server names that only `New` looks at.

### Composition

`AgentLoop` composes with `Guardrails`, `DaemonRun` with `DecideOnce`, by INSTANCE.
Components that meet only through values (`GoalLoop` calls a prompt, the prompt
returns) are separate: each takes the other's result from the set of all results the
other's properties allow. The `MC*` modules name the model values. `MCServices`,
`MCProviders`, `MCAgents` and `MCPeggy` hold several components that do not interact:
the initial state chooses a `part`, and the variables of the other parts stay as they
start (`Off`, where a component is an INSTANCE); a component that is proved about is
extended (`AgentLoop`, `DaemonRun`, `Session`, `McpStdio`, `Executor`, `Scheduler`,
`FailoverStream`, `CodexAuth`, `ProviderStream`, `PermissionGrants`, `TelegramBot`,
`McpManager`, `McpCalls`, `SessionStore`, `DaemonClient`, `Memories`, `PeggySetup`,
`History`, `Conversion`, `EditLadder`, and in `MCAgents` `GoalLoop`), so that the proofs are about the
very definitions that are checked. The state space is the sum of those of the parts, not their product.

## Runs

| Run | Question | Bounds |
|---|---|---|
| `MCDaemonRun_streams` | Does a subscriber miss or oversleep an event, does every `Decide` return and every stream end, is each request settled once? | 2 subscribers, 1 request, 1 post, 1 loop event |
| `MCDaemonRun_disconnect` | Does a disconnect deny the pending request? No: see Findings | 1 request, 1 subscriber |
| `MCSession_overflow` | Does `NewMessages` hold all messages of a prompt? No: see Findings | 2 prompts, 1 session |
| `MCSession_compact` | Does `/compact` free the context? No: see Findings | 2 prompts, 1 session |
| `MCServices` | Do goal loops, runs, schedules and calls end, and is what they report true? | goals: 1 goal, 2 loops; loop: 2 calls, 1 turn; scheduler: a repeating and a single schedule, 2 commands, 4 ticks, 1 crash; MCP: 2 callers, pipes of 1, 2 unasked messages, of 3 texts; executor: 8 bytes, limits 1 to 4 |
| `MCProviders` | Are memory, store and what the model saw one transcript, are requests complete and faithful, is a reply what its stream said, by one provider, and does the login survive? | sessions: 2 prompts, 2 sessions, compaction above 2 messages, 2 environments, 1 crash; history: 5 messages, 3 call ids of one text, each used at will, 2 models, 2 touches, a note of 5 words; conversion: 3 turns; failover: 2 providers of 5 scripts, buffers of 2; stream: 4 frames, 2 calls; auth: 3 streams in 2 processes, 2 tokens, 1 fault |
| `MCAgents` | Are guardrails exact, goal records true, prompts answered once, grants honoured, edits sound, names unambiguous? | guard: 2 keys, 7 rounds, thresholds 3/5/3/6; goals: 2 goals, 2 loops, 2 iterations, 1 fault; terminal: 2 turns, 2 ids of calls, 2 requests, 4 items, 1 switch; Telegram: 3 chats, 3 updates, 2 messages, 2 requests, 1 fault; grants: 2 runs, 4 requests, two of them spellings of one, 2 decisions, 1 fault; files of 3 lines; 5 tool calls, 2 foreign writes; 2 MCP servers |
| `MCPeggy` | Is a transcript paired, complete and honest whatever fails, in both modes of execution, and is the guard driven as specified? Are decisions of parallel requests sound, are clients, stores, catalogs and settings true? | loop: 3 calls, 2 per reply, 2 turns, 1 retry, 1 nudge, guard at 1/2; run: 2 requests of one key, 3 posts; clients: 2 daemons, 1 client, 1 request; stores: 2 sessions, 2 workers, 3 saves; memories: 3 callers in 2 processes, 4 operations, 1 fault; MCP: 2 servers, 3 requests of a catalog; settings: all combinations of what the code tells apart, in three groups |
| `MCGoalLoop_sessions` | Is every iteration's session fresh? No: see Findings | 1 goal, 3 loops |
| `MCTui_indexes` | Does a turn put its events only into items that stream? No: see Findings | 1 turn, 1 request, 1 switch |
| `MCProviders_reused` | Does every call of a request have a result? No: see Findings | as `MCProviders`, 6 messages |
| `MCMcpStdio_unread` | Does every request end with its context? No: see Findings | 2 callers, pipes of 1, 1 unasked message |

Why the bounds are enough. Two turns are what relates a turn to the one before it
(guard streaks at 1/2, a tagged last reply, a result carried into the next request),
two calls every order within a round, one retry "again" and "exhausted"; liveness
needs one turn, since a turn ends by itself or starts the next of a bounded number.
Seven rounds of the guard are one past the longest streak that can halt. Three
posts against two requests leave one that must lose, and two requests under one key
are what a shared grant needs. Two prompts give every order of two callers of one
session and a history that a second prompt builds on; five messages hold two
compactions, an interrupted round before a finished one that uses its ids again, and a
collision of ids across rounds; a third loop lets a goal be resumed twice. Two daemons are what
stale metadata needs, a third would only repeat the first. Two workers and three saves hold a load
between two saves and a crash in a third; two callers of one process and one of
another are the two kinds of overlap memories have. Two pages are "a page and the
next", three requests one more than they need, which is what a looping cursor uses
up. Four frames hold two calls in two fragments each. Eight bytes through limits
up to four wrap the ring more than once.

Runs of components that stop when their bound on rounds, prompts, messages or calls
is used up do not check for deadlock; `MCDaemonRun_streams` does. That a run of the loop
stops nowhere but at its end is the first half of `LoopEnds`.

Fairness. In every module it is goroutines that are scheduled, never people or
networks. `AgentLoop`'s steps are those of a run's goroutines, with hooks, handlers
and executors that return; that the provider closes its streams is an assumption of
the second half of `LoopEnds` itself, the first half, about a cancelled run, does
without. `DaemonRun!Fairness` schedules `executeRun`, the timer every `Decide`
holds, handlers past their unlock and connected subscribers; nobody has to post,
cancel or disconnect. `GoalLoop` schedules each loop and assumes that a prompt
returns, which `LoopEnds` shows. `Scheduler` schedules the ticker, the tick that has
begun and the runs, which return. `McpStdio` schedules the callers and lets
every context end (`CallProgress`), and assumes nothing of the server, so a call must
end against one that never answers. `Executor` schedules the kill that
`exec.CommandContext` promises, the kernel's end of a killed child, and `Run`; an
inherited output, which `Wait` waits for, is excepted in `CallsReturn`, as is a server
that does not read what a caller writes (`WritesUnread`; `MCMcpStdio_unread` shows that
one: `Takes`, its reading, has no fairness).

## Findings

* A subscriber that disconnects while a permission request is pending cancels the
  run, and `Decide` returns the context's error; `docs/adr/0010-daemon-protocol.md`
  promises a denial the model can see (`DisconnectDenies`).
* After a run that overflowed half way, the retry replaces its result: messages of
  the first run, whose tools have had their effects, are in neither the transcript
  nor `NewMessages` (`NewMessagesAreAll`).
* `/compact` rewrites the stored session and not the one in memory, which keeps
  sending its whole transcript and saves it over the summary (`CompactFreesContext`).
* A loop that starts, or works on an iteration, has a record that numbers a
  resumption back to an iteration there was: `/goal clear` and `/goal resume` while
  the cleared loop returns prompt one session from two loops (`FreshSessions`).
* The terminal keeps indexes of the streaming items in the turn, and a command that
  switches or clears the session while the turn runs replaces the items they point
  into (`IndexesAreOfStreamingItems`).
* With ids that come again, as those that `gemini.go` and `openaicompat.go` make up, an interrupted round goes to the provider without results once a later
  round used its ids, for `resultsElsewhere` takes those for its own; `harden.go:15-18`
  promises a synthesized result (`EveryCallGetsAResult`).
* A large MCP request to a server that does not read its input stays in `Encode`, under
  `Client.mu`, whatever its context says; ADR 0011 promises that cancellation ends it
  (`RequestsEnd`).

Divergences and limits noticed while modelling and stated here only. Loop, sessions:

* `withDefaults` (`loop/guardrails.go:72`) never orders the thresholds: a caller
  that only lowers `RepeatHalt` gets `ErrRepeatedToolCalls`, documented as
  "despite a corrective nudge" (60-61), without a nudge. `PolicyOrdered` is the
  assumption of the theorem that excludes it.
* Whether the environment block is sent is decided on the transcript before the run;
  the compaction after an overflow may drop the block that was there, and the retry
  goes without one (`session.go:247,307`, against `agent.go:58-61`).
* `/fork` without an index cuts at the last message of role user, which a corrective
  nudge may be (`cmd/glue/tui/tui.go:1581`, `README.md:433-434`); `/fork N` counts in
  the session in memory and cuts the stored one (`agent.go:154`).
* `KeepRecentMessages` leaves a note of some 15 words for whatever it drops and compares
  lengths nowhere (`compactor.go:542-561`): dropping a short prefix makes the transcript
  longer in words. `CompactionIsSafe` demands fewer words of summaries only.
* The TUI's goal messages carry no goal: when a cleared loop returns, its last
  message marks a goal that was started in between as ended and gives it the other
  goal's checklist (`cmd/glue/tui/goal.go:338-346`). `GoalLoop` has these steps. The
  text of a turn that an old session still runs streams into the transcript of the new.

* A turn of the TUI keeps its tool cards by the id of the call over all its rounds. With
  ids that come again a later call runs in the card of an earlier one (`cmd/glue/tui/tui.go`,
  `handleToolStart`); `ScreenIsTrue` says that such an id has one card, where it came first.

Providers and tools:

* After a 401 the cached token is asked for again and returned while it looks fresh
  (`providers/codex/codex.go:201-216`); `CodexAuth` defines `RetriesAreRefreshed`, which
  does not hold.
* `openaicompat` and `gemini` report Done for a stream that was cut before its end, and
  `openaicompat` the reason `tool_use` without a call when upstream does.
* An empty tool output is left out of the JSON of Codex and Chat Completions, images of
  a user are dropped by `openaicompat`, the error flag of a result is lost in both, and
  text that follows a call in a turn is sent before it.
* `edit_file` makes mixed line endings CRLF; a relative indentation is not always kept
  by the last strategy (`tools/fs/match.go:335-341`, `RelativeIndentKept` of `EditLadder`);
  `write_file` never asks the ledger whether the file is stale, and the sessions of an
  agent share one ledger. `read_file` records the time of the whole file and returns a
  page, so an edit passes the ledger on text the session never saw in its present form
  (against `tools/fs/edit.go:29-31`); `EditsAreInformed` speaks of files looked into.
* One MCP server's error loses the whole catalog. A text on stdout that is no JSON fails
  every later read, one of the wrong shape the read it meets, after which answers are
  one behind (`McpStdio!ReadFails`). The first message of an SSE
  reply is taken for the answer, notifications included; a looping cursor ends only by
  the timeout; a line over the scanner's limit fails; `Mcp-Session-Id` is not sent back.

Daemon, clients, stores:

* A post whose decision was accepted may be followed by a cancelled context, which
  leaves the prompt of the client standing.
* The maps of permission grants are keyed as requests spell their names, the ids of grants
  are trimmed: of two spellings `forget` deletes one, reports success, and the other is
  served on; after a restart only the trimmed one is. `AcknowledgedGrantsHold` states the
  exceptions.
* The temporary name of the metadata is the same for all daemons, and nobody removes
  the metadata (`daemon/local.go:158-180`).
* A client that loses the reply to its start, or is interrupted before it subscribes,
  leaves a run behind: the goroutine that cancels it is not waited for. A late decision
  gets 404, upon which the client gives up and its run is cancelled. A shutdown cannot
  be answered while a permission waits; runs are never removed from `Server.runs`.
* An event of over 1 MB ends the stream of a client. On a stream that is cut, the
  Telegram client returns the text so far without an error
  (`agents/peggy/channels/telegram/daemon_client.go`), and tells every failed run "run
  failed". A permission that timed out may be answered "Allowed." (`permission.go:151`),
  and the buttons of an earlier process decide the request that has their nonce now,
  for nonces start again; `UpdatesAreHandledOnce` states both exceptions.
* `stores/sqlite` states BEGIN IMMEDIATE and begins deferred; header and messages are
  read in two statements; one corrupt file fails `ListSessions` of `stores/file`; prefixes are
  compared without case by one of the two stores.

Peggy:

* A removed schedule comes back when another process writes what it holds
  (`schedule_store.go:102-103`, `Scheduler!RemovedIsNotResurrected`).
* Two processes that change memories lose updates (`MemoriesAreKept` excepts them by
  `crossed`); a forced export truncates its file in place; prompting the session
  `__memories__` overwrites them.
* `New` leaves the store open when coding tools or MCP servers fail; two spellings of one channel give it a tier at
  random; defaults filled twice turn `remember_path: off` on again in what `Settings()`
  shows; the doctor refuses a file store that serves well.
* The doctor trims the type of the store where `buildStore` does not, and makes MCP
  configurations without the checks of names that `NewManager` makes: settings without a
  `FAIL` are refused (against `agents/peggy/README.md:96-98`); `DoctorIsRight` states both
  exceptions.

## Proofs

`Guardrails_proofs` proves, for every set of keys, every policy and every number
of rounds:

* `GuardTypeCorrect`: `Spec => []TypeOK`;
* `GuardInductive`: `Spec => []IInv`. The properties speak of the history and the
  code of its counters, so the invariant has to say that they agree: a counter is
  the length of the longest matching suffix (`CountersMeasureStreaks`), a flag is
  a nudge inside that suffix (`FlagsRememberNudges`), the last verdict is what the
  counters say (`VerdictFollowsCounters`), and a streak past its nudge threshold
  has been nudged, a mistake streak at the latest one round after the repeat nudge
  that took its turn (`StreaksAreNudged`);
* `HaltsAreExact`: `Spec => []HaltsExactlyAtTheLimit`;
* `ResponseIsGraduated`: `Spec => []GraduatedResponse` under `PolicyOrdered`;
* `HaltsStayDue`: `Spec => []HaltsAreDue`, the two together, for every policy.

The proof of the step goes through one lemma per part of the invariant
(`KeepsMeasure`, `KeepsFlags`, `KeepsVerdict`, `KeepsNudged`).

`AgentLoop_proofs` proves, for every set of calls, of gated and of invalid ones,
every bound on turns, retries and nudges and every guard policy:

* `LoopInductive`: `IInv` is inductive. The properties speak of what stands in the
  transcript, of the effects and of the events; the code decides by its local
  variables (`turn`, `attempt`, `calls`, `status`, the draft of a reply). The
  strengthening ties the two: the transcript has one reply per turn and the last one
  is under way exactly while its tools run, its results are a prefix of its calls,
  tools start in source order, every effect belongs to a finished call of a round,
  and the counters of Run count what the transcript and the history hold;
* from it `LoopIsTyped`, `TranscriptsArePaired`, `EffectsAreAccountedFor`,
  `OutcomesMatch` and `EventsAreBalanced` (`Spec => []P`), and the action property
  `RetriesKeepHistory`;
* `DrivesTheGuardrails`: `Spec => GuardSpec`, the refinement of `Guardrails`. The round
  that is complete is an `Observe` of the abstract history; every other step stutters.
  `LoopHaltsAreExact` and `LoopResponseIsGraduated` are the theorems of
  `Guardrails_proofs` carried over to the loop by it.

The step has one lemma per group of actions (`BeginTurn` and the stream, the tools,
the end of a round, the return), each with the parts of `IInv` it disturbs.

And, for the login that the streams of several loops share, with any streams in any
processes:

* `AuthInductive`: `AuthInv` is inductive. `LoginIsKept` speaks of a history in which
  nothing was lost (`faults = 0`), and so does the strengthening: one stream of a process
  refreshes, under the lock (`MutexInv`); every pair was issued by the server, and the
  pair a refresh starts from is the cached one (`TokensInv`); who is about to write the
  file has the newest pair alone (`WriterInv`); a cache is behind only while a stream of
  its process writes, or after another process refreshed (`BehindInv`). Without the last
  one "permanent" could not be traced to the other process;
* `LoginStaysKept`: `AuthSpec => []LoginIsKept`.

`DaemonRun_proofs` proves, for any number of requests, keys, posts and
subscribers, under `DaemonAssumption` (every request has a key, the names of
posts and requests differ from the model's tokens):

* `DaemonInductive`: `DaemonInv` is inductive. No single property of the run is: that a
  post was told "accepted" says nothing unless it is known where the request
  stands. `RequestInv` therefore ties the stage of Decide to one of four
  situations (`Unborn`, `Opened`, `Claimed`, `Over`), each of which fixes what is
  pending, in the channel, returned and told; `PostInv` says that only posts that
  carry a decision are answered; `RunInv` that requests live only while Prompt runs
  and that the terminal event comes last; `StreamInv` that a subscriber's snapshot
  is a prefix of the log and that it is awake whenever it is a proper one;
* from it `DaemonTypeCorrect`, `AcceptedDecisionsDelivered`, `WaitersServed`,
  `WakeupsKept` and `StreamsAreComplete`, each `DaemonSpec => []P` of a part of the
  properties the runs check;
* `GrantsConsented`: a grant goes back to an accepted decision to remember. The step
  needs `DaemonInv` for what is in the channel when `Receive` remembers it
  (`ReceivedIsClaimed`) and that an accepted post stays as it is (`AcceptedStays`);
* `DecisionsSound` and `StreamsSound`: these parts together, as `MCPeggy` and
  `MCDaemonRun_streams` check them;
* `ImplementsDecideOnce`: `DaemonSpec => Once!Spec`. Register opens a request, Claim
  settles it or is refused, Send accepts, an expiry of a pending request expires,
  Receive returns; every other step stutters.

The step has one lemma per action of Decide and of the posts (`AskStep`, ...,
`ClaimStep`, `SendStep`), a frame lemma for the requests it does not concern, and
one lemma per part of `DaemonInv`.

The event log needs no strengthening beyond `RunInv`: `LogsAreWellFormed` is
`DaemonSpec => []EventLogWellFormed`.

`Session_proofs` proves, for every set of sessions and prompts, every rendering of
the environment, threshold and number of crashes, with or without `/fork` and
`/compact`:

* `SessionInductive`: `IInv` is inductive. What is stored comes from memory, what is in
  memory from the store, a fork or a compaction, so the invariant speaks of every
  transcript that is kept anywhere (`Transcripts`): it is well formed, its blocks
  differ (`SoundInv`) and it holds nothing of a prompt that was not run
  (`UnaskedInv`), without which two blocks of messages of one prompt could not be
  excluded. `TurnInv` says that the locals of Session.Prompt agree with memory: the
  base is the transcript in memory, the block to be added is not the last it shows,
  the state to save is the transcript. That holds because only the holder of runMu
  writes it (the lemma `Alone`). `StoreInv` says that memory extends the store or was
  compacted, which is what a later Save needs; `SavedInv` and `AnswerInv` carry a
  prompt from the run over the save into the answer;
* from it `TranscriptsStaySound`, `AnswersStayStored` (`Spec => []P`) and the action
  property `StoreOnlyGrows`.

The lemmas under it are about transcripts as sequences: what the compactors leave
(`Tailed`, `TailedSound`, `KeepsTailed`), what a fork copies (`Cut`, `CutSound`) and
what a run appends (`Extended`, `ExtendedSound`, `KeepsExtended`). The step is stated
once per piece of state (`Progress` for a prompt, `MemStep`, `DiskStep`,
`CompactingStep`), and each part of `IInv` is proved from these.

`McpStdio_proofs` proves, for any number of callers, pipes of any size and any server
(it answers, is slow, does not read, sends messages of its own, writes what does not
decode or exits), under `McpAssumption` (the
name `Nobody` is no caller's):

* `McpInductive`: `IInv` is inductive. `Client.mu` is given up with the answer, an
  error or after the close, so `LockInv` says who has a request under way; `IdsInv`
  that numbers are given once; `WireInv` that a request is on one pipe at most, once,
  and answered under its own number, and that only what the server sends of its own is no
  JSON. `InStep` is the heart of it: as long as the server
  has sent nothing of its own but notifications, a request that is outstanding is that of the caller
  that reads, or the server is gone and nobody reads. It is what the close before the
  unlock in `stdioTransport.Request` is for;
* `AnswersAreOwn`: `Spec => []RepliesAreOwn`;

and for any limits, and output of any size cut into writes in any way, under
`ExecAssumption` (a limit is positive, as 0 stands for the default):

* `ExecInductive`: `ExecInv` is inductive. `ResultsAreTrue` speaks of full buffers; the
  invariant also of those that fill (`OutputInv`): the tail takes nothing before the head
  is full, it is full once anything was left out, and the three parts make up the total.
  The lemmas `Joined` and `Ending` are what appending and cutting do to runs of bytes.
  `RunInv` says that `Run` has waited for everyone before it reports;
* `ResultsStayTrue`: `ExecSpec => []ResultsAreTrue`;

and for any schedules with any intervals, any number of commands, failed saves and
crashes, under `SchedAssumption` (an interval is a natural number, 0 for a schedule
that runs once):

* `SchedInductive`: `SchedInv` is inductive. A run advances the copy it was dispatched
  with and writes it over what the store has by then, so the invariant speaks of every
  copy there is: each is on its cadence (`TablesInv`), and what is listed or runs was due
  and is followed by the store's own (`FlightsInv`, `Follows`), for a schedule can be
  listed again while it runs. `SameIds` says that the store of the daemon and the file
  differ only in schedules that were `shared`; without it a save of the daemon could bring
  back what a command removed alone. That `advance` finds a next instant, and the first,
  are the lemmas `OneComes` and `FirstComes`, the former by division with remainder, the
  latter by well-foundedness;
* `SchedulesStayKept`: `SchedSpec => []SchedulesAreKept`.

`Providers_proofs` proves, for any providers, whatever each of them does, and any
buffer:

* `FailoverInductive`: `FailoverInv` is inductive. What the consumer hears is in the
  channel or received, so the invariant speaks of both together: it is empty until a
  provider is committed to and then as long as what was read of that one (`PhaseInv`);
  the providers asked are those up to the present one, once each, all failed but the
  last (`AttemptsInv`);
* `OneProviderIsHeard`: `FailoverSpec => []OneProviderSpeaks`;

and for any servers, pages of any length, cursors and answers, under `CallsAssumption`:

* `CallsInductive`: `CallsInv` is inductive. A catalog is gathered page by page and server
  by server; the invariant (`ListedInv`) says what was gathered at any moment: the whole
  offers of the servers before this one, then the pages of this one so far, which is a
  statement about a concatenation of concatenations (`PagesMore`, `WholeMore`);
* `CallsStaySound`: `CallsSpec => []CallsAreSound`;

and for any frames, in any order, any number of interleaved calls, and each of the three
providers:

* `StreamInductive`: `StreamInv` is inductive. The final message is compared with what
  the consumer was told, so before the end the parts so far are (`FollowedInv`): the
  deltas of every type, across the borders between parts, and the calls; and the fragments
  that came with an index are those of its call, and the reason to finish is the last one
  on the wire (`Reported`, `ReportedMore`). What a part more, a frame more and an event
  more add is `CoalescedGrows`, `WireMore` and `ToldMore`; that the calls, taken in
  the order of their indices, are the fragments sorted by index is `FinalizedCalls`. The
  proof needs the order in which `Closing` looks at "failed" and "completed", both of which a
  stream may have seen;
* `DoneStaysTheReply`: `StreamSpec => []DoneIsTheReply`;

and for any models, limits and summaries, transcripts of any length and any number of
compactions, under `HistoryAssumption` (files are finitely many, the limits are positive):

* `HistoryInductive`: `HistoryInv` is inductive. Until the window compactor, which loses
  calls by design, dropped something, a result stands behind the call it belongs to with
  nothing but results between them (`Attached`), which is what makes a cut at a safe
  point leave no result behind; and the ledgers in the transcript and the calls after
  them hold every file that was touched. What holds after any cut, and with ids that
  replies use again, is `Rounds`: the calls of one reply have different ids, results that
  follow one another are of different ids, and a result is either behind its reply or among
  those that stand first, behind the note of the window compactor (`LeftOver`). How `SplitByTokenBudget` walks back from the end, adding words, is a
  recursive function, proved about by `Iterates`;
* `CompactionStaysSafe`: `HistorySpec => CompactionIsSafe`, an action property: a
  compaction keeps pairs and the ledger, leaves fewer messages and, if it is a summary,
  which is what the inflation guard is for, fewer words (`SummaryShrinks`; the window
  compactor has `WindowShrinks`, about messages only);
* `RequestsStaySound`: `HistorySpec => []RequestsAreComplete`, from `HardenedIsSound`, which speaks
  of any sequence of messages with `Rounds` and not of the state: hardened, it is paired,
  as far as its ids tell calls apart, and says the same. A call without a result has an id
  that a later reply uses again (`UsedAgain`); where no id is, every call has its result.
  The proof follows `HardenHistory`. `MapIsSound` is about the closure `mapped`, id after
  id: two ids never become one, and a renamed id is never one that a call has already.
  `NumberIsFree`, the pigeonhole principle again, says that the search for a suffix ends.
  `NormalizedIsSound` carries `Rounds` through the renaming: within a reply calls stay
  apart, and so do the results behind it (`SoundCalls`). `KeptIsBlock` and
  `BlockMore` are about the repair, message after message: what is written for a reply is
  one block, the reply with a result for each of its calls, taken from the round behind
  it or made up (`Answered`), so that the blocks one after the other are complete
  (`RepairedIsPaired`) and say what the messages said (`RepairedSaysAll`).

For conversions, of conversations of any length, with any parts, calls and outputs, under
`ConversionAssumption` (users write texts and images, not calls):

* `ConversionInductive`: `ConvInv` is inductive. A reply is followed by the results of its
  calls, in their order, and by no others (`TurnsAreWhole`, by `TurnsGrow`);
* `ConversionStaysSound`: `ConvSpec => []ConversionIsSound`. That Chat Completions and
  Responses tell the whole conversation is shown message by message (`ChatTellsAll`,
  `ItemsTellAll`): a converted message tells what the message says, and a function applied to
  each element of a sequence of sequences is one applied to the elements
  (`ThroughTwice`). For Gemini the results of a turn are grouped, and what is not sent is
  skipped, so the argument is about places: `SelectPositions` gives each content the message
  it comes from, in the same order, `ResultsContent` says that the content of the first
  result has the results of all calls, and `ResultsAreNext` that it is the next one. A content
  that is a genuine turn comes from a message of the user (`GenuineIsAsk`), so a turn of the
  active loop stands behind the last of them (`TurnIsSigned`), and nothing else
  is changed (`OthersAreLeft`).

These are about what loops compute for sequences of any length. The induction theorems
of the library take an operator as a parameter, which no prover here can instantiate; the
lemmas at the head of that part do without. `LeastIsThere` is the well-foundedness
of the natural numbers for a set; from it `UpTo`, induction as a statement about a set of
numbers, `SeqInduction`, the same about a set of sequences, and `Iterates`, the existence of
the function that a recursive definition chooses. On them rest the equations of
`FlattenSeq` and `Select` (`Flattens`, `FlatMore`, `Selects`, `SelectMore`), of a function
applied to every element (`ThroughMore`, `ThroughBoth`), and what they keep.

`PermissionGrants_proofs` proves, for any runs, requests and settings, and any number
of decisions, failed saves and restarts, under `GrantsAssumption` (a tier is one of the
three):

* `GrantsInductive`: `GrantsInv` is inductive. Every grant in memory is the key of a
  decision that was accepted, as it was spelled or, after a restart, trimmed, every one in
  the file is such a trimmed one, and a decision under way is one of them (`DecidedInv`);
  without a store the file is empty (`FileInv`), which is what makes "forgotten" true
  then. That keys are equal only in one scope, and what they share in it, is the lemma
  `KeysCover`; that two keys of one id are two spellings, which is where the property makes
  its exception, `TwoSpellings`;
* `GrantsStayHonoured`: `GrantsSpec => []GrantsAreHonoured`;

and for any chats, requests, updates and faults, under `BotAssumption` (a request has a
tool and a target):

* `BotInductive`: `BotInv` is inductive. A press carries a nonce and the code looks for a
  prompt that has it, so the invariant says whose a nonce is: one request's of a process
  (`NoncesInv`), as shown on the buttons (`ButtonsInv`) and held by the pending prompts,
  whose requests are undecided (`PromptsInv`). A request that a press was claimed for
  agrees with it, one that none was claimed for is allowed by no button (`CallsInv`).
  Every allowance is the key of a request it was given for, with its target if it was given
  for one (`RememberedInv`, `AllowancesLicense`). `BatchInv` says that the batch continues where the loop is, that all before it was
  taken, and once, which is what the offset that is asked for, and confirmed by, means;
* `UpdatesStayHandledOnce`: `BotSpec => []UpdatesAreHandledOnce`;

and for any servers and any tools, under `ManagerAssumption` (servers, tools and the
words of a name stand in a sequence):

* `ManagerInductive`: `ManagerInv` is inductive. The names in use are those of the tools
  so far, each once (`NamesInv`), and the servers that run are those before the one at
  hand (`StartedInv`). That `reserveGeneratedToolName` finds a name is the lemma `OneIsFree`:
  of one number more than there are names, one is free, by the pigeonhole principle;
* `NamesStayUnambiguous`: `ManagerSpec => []NamesAreUnambiguous`;

and for any checklists, limits and budgets, any number of goals, loops and losses, under
`GoalAssumption` (checklists have items, `withDefaults` makes the limits positive):

* `GoalInductive`: `GoalInv` is inductive. A record that says "running" has, while nothing
  was lost, a loop that is alive (`RunningIsAlive`): a cleared loop may write the record of
  its goal over that of its successor, but every loop writes how it ended last.
  `CountsAreTrue` ties `noProgress` and `prevRemaining` to the verdicts, which the code does
  not keep: as many of the latest as were counted, and one more, left the same items
  unfinished (`StuckFor`), except that after a resumption the first may have been
  compared with the empty baseline. The lemma `RecentKeeps` is what the bounded history
  of the model keeps of them;
* `RecordsStayTrue`: `GoalSpec => []RecordsAreTrue`;
* `BlockedStayStuck`: `GoalSpec => BlockedMeansStuck`, an action property, from the
  invariant before the step;

and for any number of turns, ids of calls, permission requests, goal loops and switches
of session, under `TuiAssumption` (a stored transcript has a length, two words are no ids):

* `TuiInductive`: `TuiInv` is inductive. `HeldInv` says that what waits is on the screen
  or in the queue, in the order it came; `AskingInv` that a turn waits for one answer at
  most, without which an answer to a goal loop could resume it; `CardsInv` that one card
  waits at most, so that the latest one is that of the request answered; `TurnInv` that
  the turn has an item of text open exactly while its last event was text, and a card for
  exactly the ids its calls had. What a card
  changes on a screen is the lemma `SameShownShows`, what an event adds to it `ShowsMore`;
* `AsksStayInOrder` and `TurnsAreShownInOrder`: `TuiSpec => []AsksAreHeldInOrder` and
  `TuiSpec => []TurnIsShownInOrder`, together `ScreenStaysTrue`: `TuiSpec => []ScreenIsTrue`;

and, for a session that has its ledger to itself (`OneSession`), any number of tool calls
and of changes by other programs:

* `FilesInductive`: `FilesInv` is inductive. The ledger compares times and the property
  speaks of texts; the invariant relates the two at every point of a call (`CallInv`):
  what a read took is all there is if no time has passed since, and what an edit or a
  write will leave behind is made of what the session looked into, be it a page of it;
* `EditsStayInformed`: `FilesSpec => []EditsAreInformed`. With two sessions it does not
  hold: one may edit a file it never read while the read of another is under way;

and for any file, `old_string` and `new_string` of whole lines, under `LadderAssumption`
(they are made of lines, and `old_string` has one; that `exactSpans`, `match.go:142-157`, also
finds a text within a line is not modelled):

* `LadderInductive`: `LadderInv` is inductive. It says what a reported edit has done in
  terms of the file alone: the windows are those that the first strategy that matches
  finds (`Edited`), and the text is that of the file outside them and the rendered
  `new_string` in the first one (`IsText`). That the windows of a strategy do not overlap
  and miss no place that stands apart is `WindowsFit`, how `replaceSpans` puts the text
  together window by window is `GrowsFirst` and `GrowsMore`;
* `EditsStaySound`: `LadderSpec => []EditsAreSound`. Where a line of `new_string` is as deep
  as one of `old_string`, the longest prefix `reindentRenderer` looks for is the whole of
  the indentation (`ReindentKnown`), which is why the wider claim of the comment, refuted
  above, holds for those lines.

`Clients_proofs` proves what the clients of a daemon and of a store rely on: for any
sessions, workers and saves, in both backends:

* `StoreInductive`: `StoreInv` is inductive. Between two steps the three parts of a
  session, header, messages and index, are of one save (`WholeInv`), since a file is
  renamed and SQLite commits; and the state of a session is one that every operation
  under way has seen (`CurrentInv`, `RowsInv`), which is what makes the header and the
  messages, read apart, two states of the time of the load;
* `StoresStayTrue`: `StoreSpec => []StoresAreTrue`;

and for any daemons and clients and any size of the recent errors, under
`ClientAssumption` (daemons are numbered from 1, as 0 stands for none):

* `ClientInductive`: `ClientInv` is inductive. That one daemon listens at an address
  (`OneListener`) makes the status a diagnosis reads that of the daemon a run reaches.
  `Told` ties the log of a run, the recent errors of its daemon and what its client was
  told to where the run is: a failure is recorded before it is logged, and stays so or
  makes room for as many others;
* `ClientsStayTold`: `ClientSpec => []ClientsAreToldTheTruth`;

and for any callers in any processes, any contents and foreign backups, under
`MemoryAssumption` (a foreign backup has an id per memory, of times before the
model's):

* `MemoryInductive`: `MemoryInv` is inductive. It speaks of every list there is: stored,
  loaded by an operation, exported (`ListsInv`, `EditsInv`). `memoryWriteMu` keeps an
  operation alone in its process, so that as long as no two processes crossed, what it
  loaded is what is stored (`LoadedInv`) and a save undoes nothing. What an operation
  saves are lemmas about lists: `AddedIs`, `WithoutIs`, `ImportedIs`, and for the export,
  which sorts, `InOrderIs`. They rest on `NthIs`, that the ranks in a finite set of numbers
  are its members one by one, by the pigeonhole principle;
* `MemoriesStaySound`: `MemorySpec => []MemoriesAreSound`;

and for any settings files, under `SetupAssumption`:

* `SetupInductive`: `SetupInv` is inductive. What a command works with are the settings of
  its file after the defaults and its flags (`SettingsInv`), and what is open was opened
  under the conditions of `New` (`OpenInv`), which the doctor's checks imply but for blanks
  around the type of the store and the names of MCP servers;
* `SetupsAreSound`: `SetupSpec => []SetupIsSound`.

Only model-checked:

* all liveness, since fairness and ENABLED are out of the prover's reach;
* the runs that end in a violation, which are counterexamples.

## Plan

All of the above is modelled and checked, and every invariant that a run checks is
proved. Each proof goes to the module whose component it works with. What is left is to
model what follows.

## Not modelled

* Rendering: markdown, cards, reports, dashboard, splitting of messages, wording.
* Input: flags, the line editor, pickers, completion, the REPL, templates of prompts.
* Listing, searching and git tools, path checks of the workspace tools, ranking and
  snippets of the full-text search: functions of files and text without a state.
* The login flow of Codex (a browser, one local request) and device codes; model
  lists and schemas of tools; MCP settings with their environment.
* Filters of `/permission_grants`, previews of sessions, goal endpoints: reads of
  state that is modelled.
* Subagents, context files, `agents/glue-review` and the examples: callers of the
  loop and the session that add no state of their own.
