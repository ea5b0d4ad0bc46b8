-------------------------------- MODULE Tui ---------------------------------
(***************************************************************************)
(* The terminal interface (cmd/glue/tui/tui.go, permission.go): the Update   *)
(* loop with its transcript, modals and permission prompts, the goroutine of *)
(* a turn whose events it shows, a goal loop that asks for permission beside *)
(* it, and the commands that change the session.                            *)
(*                                                                         *)
(* A goroutine hands its messages over one by one, so a message and the      *)
(* Update it causes are one step here. Every key is one, too. System notes,  *)
(* which are only ever put at the end, are left out of the transcript.      *)
(***************************************************************************)
EXTENDS Integers, Sequences, SequencesExt, FiniteSets

CONSTANTS
  CallIds,     \* ids of calls, which the rounds of a turn may use again
  MaxTurns,    \* bound: turns that are started
  MaxLength,   \* bound: items of the transcript when an event of a turn adds one
  MaxAsks,     \* bound: permission requests
  MaxSwitches, \* bound: times the transcript is replaced
  Stored       \* lengths of transcripts a stored session can have

ASSUME TuiAssumption == Stored \subseteq Nat /\ {"none", "assistant"} \cap CallIds = {}

VARIABLES
  transcript, \* items: [kind, turn, call, phase]
  turn,       \* Model.turn, or NoTurn
  turnNum,    \* turns started
  prompting,  \* the goroutine of startTurn: what Prompt is doing
  latest,     \* its latest event: "assistant", the start or end of a call, or "none"
  asks,       \* per permission request, by whom and whether its Decide still waits
  pending,    \* Model.pending, the number of a request or 0
  permQueue,  \* Model.permQueue
  modal,      \* a picker or the tree is open
  switching,  \* a sessionSwitchedMsg is being prepared
  state,      \* "open", "quit", or "panic": an index out of range in Update
  \* History.
  replaced,   \* times the transcript was replaced
  intact,     \* it was not, since the turn started
  emitted     \* the items that the events of the turn amount to

tuiVars == <<transcript, turn, turnNum, prompting, latest, asks, pending, permQueue, modal,
             switching, state, replaced, intact, emitted>>

NoTurn == [asst |-> 0, tools |-> [c \in CallIds |-> 0], cancelled |-> FALSE, n |-> 0]

\* What no key or message but its own changes.
transcriptVars == <<transcript, replaced>>
turnVars == <<turn, turnNum, prompting, latest, intact, emitted>>
permVars == <<asks, pending, permQueue>>
modeVars == <<modal, switching, state>>

Item(kind, call, phase) == [kind |-> kind, turn |-> turnNum, call |-> call, phase |-> phase]

TuiInit ==
  /\ turnNum = 0 /\ transcript = <<[kind |-> "block", turn |-> 0, call |-> "none", phase |-> "none"]>>
  /\ turn = NoTurn /\ prompting = "none" /\ latest = "none"
  /\ asks = <<>> /\ pending = 0 /\ permQueue = <<>>
  /\ modal = FALSE /\ switching = FALSE /\ state = "open"
  /\ replaced = 0 /\ intact = TRUE /\ emitted = <<>>

\* Tool cards of a transcript in a phase.
Cards(t, p) == {i \in 1 .. Len(t) : t[i].kind = "tool" /\ t[i].phase = p}
Highest(S) == CHOOSE i \in S : \A j \in S : j <= i

-----------------------------------------------------------------------------
(* Messages of a turn. Its tools have one name. *)

Running == state = "open" /\ prompting # "none"

\* handleTextDelta: the item of the text, or one of its own at the end.
TextDelta ==
  /\ Running /\ prompting = "text" /\ latest' = "assistant"
  /\ IF latest = "assistant" THEN UNCHANGED emitted
     ELSE Len(transcript) < MaxLength /\ emitted' = Append(emitted, "assistant")
  /\ IF turn.asst = 0
     THEN /\ transcript' = Append(transcript, Item("assistant", "none", "none"))
          /\ turn' = [turn EXCEPT !.asst = Len(transcript')] /\ UNCHANGED state
     ELSE /\ state' = IF turn.asst > Len(transcript) THEN "panic" ELSE state
          /\ UNCHANGED <<transcript, turn>>
  /\ UNCHANGED <<turnNum, prompting, intact, replaced, permVars, modal, switching>>

\* handleToolStart: a card of its own, or that of the call of the turn that had the id.
NewCard(c) ==
  /\ turn.tools[c] = 0 /\ Len(transcript) < MaxLength
  /\ transcript' = Append(transcript, Item("tool", c, "running"))
  /\ turn' = [turn EXCEPT !.tools[c] = Len(transcript')] /\ UNCHANGED state
KnownCard(c) ==
  /\ turn.tools[c] # 0 /\ UNCHANGED turn
  /\ IF turn.tools[c] > Len(transcript) THEN state' = "panic" /\ UNCHANGED transcript
     ELSE transcript' = [transcript EXCEPT ![turn.tools[c]].phase = "running"] /\ UNCHANGED state
ToolStart(c) ==
  /\ Running /\ prompting = "text" /\ ~turn.cancelled /\ prompting' = "tool" /\ latest' = c
  /\ emitted' = IF c \in ToSet(emitted) THEN emitted ELSE Append(emitted, c)
  /\ NewCard(c) \/ KnownCard(c)
  /\ UNCHANGED <<turnNum, intact, replaced, permVars, modal, switching>>

\* handleToolEnd.
ToolEnd ==
  /\ Running /\ prompting = "tool" /\ prompting' = "text"
  /\ LET i == turn.tools[latest]
     IN  IF i > Len(transcript) THEN state' = "panic" /\ UNCHANGED transcript
         ELSE transcript' = [transcript EXCEPT ![i].phase = "done"] /\ UNCHANGED state
  /\ turn' = [turn EXCEPT !.asst = 0]
  /\ UNCHANGED <<turnNum, latest, intact, emitted, replaced, permVars, modal, switching>>

\* handleTurnDone; Prompt may fail at any moment.
TurnDone ==
  /\ Running /\ prompting \in {"text", "tool"}
  /\ prompting' = "none" /\ turn' = NoTurn /\ latest' = "none" /\ emitted' = <<>>
  /\ UNCHANGED <<turnNum, intact, transcriptVars, permVars, modeVars>>

-----------------------------------------------------------------------------
(* Permission requests: permissionBridge.Decide. *)

\* markPendingTool: the latest card of a running tool, or a new one.
Marked(t) ==
  IF Cards(t, "running") # {} THEN [t EXCEPT ![Highest(Cards(t, "running"))].phase = "pending"]
  ELSE Append(t, Item("tool", "none", "pending"))

\* The permRequestMsg; Decide then waits for an answer or the end of its context.
Ask(by, cancelled) ==
  /\ Len(asks) < MaxAsks
  /\ asks' = Append(asks, [by |-> by, waits |-> ~cancelled])
  /\ IF pending # 0 THEN permQueue' = Append(permQueue, Len(asks')) /\ UNCHANGED <<pending, transcript>>
     ELSE pending' = Len(asks') /\ transcript' = Marked(transcript) /\ UNCHANGED permQueue
  /\ UNCHANGED <<replaced, modeVars>>
TurnAsks ==
  /\ Running /\ prompting = "tool" /\ Ask("turn", turn.cancelled)
  /\ prompting' = IF turn.cancelled THEN prompting ELSE "asking"
  /\ UNCHANGED <<turn, turnNum, latest, intact, emitted>>
GoalAsks ==
  /\ state = "open" /\ \A n \in 1 .. Len(asks) : asks[n].by = "goal" => ~asks[n].waits
  /\ Ask("goal", FALSE) /\ UNCHANGED turnVars

\* markToolRunning, markToolDenied: the latest pending card.
Settled(phase) ==
  IF Cards(transcript, "pending") = {} THEN transcript
  ELSE [transcript EXCEPT ![Highest(Cards(transcript, "pending"))].phase = phase]

\* Mutant: the next request waits for another key.
PromoteLater(t) == pending' = 0 /\ transcript' = t /\ UNCHANGED permQueue
\* The next request of the queue is shown.
Promote(t) ==
  IF permQueue = <<>> THEN pending' = 0 /\ transcript' = t /\ UNCHANGED permQueue
  ELSE pending' = Head(permQueue) /\ permQueue' = Tail(permQueue) /\ transcript' = Marked(t)

\* Decide returns to the one who asked, which a cancelled turn does by itself.
Resumes(n, cancel) ==
  IF turn # NoTurn /\ ((asks[n].by = "turn" /\ asks[n].waits) \/ (cancel /\ prompting = "asking"))
  THEN prompting' = "tool" ELSE UNCHANGED prompting

\* handlePermissionKey: a decision, or Ctrl+C, which denies and cancels the turn.
Answer(allow, ctrlC) ==
  /\ state = "open" /\ ~modal /\ pending # 0 /\ ~(ctrlC /\ allow)
  /\ asks' = [n \in 1 .. Len(asks) |->
                [asks[n] EXCEPT !.waits = @ /\ n # pending /\ ~(ctrlC /\ asks[n].by = "turn")]]
  /\ Promote(Settled(IF allow THEN "running" ELSE "denied"))
  /\ Resumes(pending, ctrlC)
  /\ turn' = IF ctrlC /\ turn # NoTurn THEN [turn EXCEPT !.cancelled = TRUE] ELSE turn
  /\ UNCHANGED <<turnNum, latest, intact, emitted, replaced, modeVars>>

-----------------------------------------------------------------------------
(* Keys, while nothing is asked and no modal is open. *)

Typing == state = "open" /\ ~modal /\ pending = 0

\* submit of a prompt, and startTurn; a second turn has to wait.
Submit ==
  /\ Typing /\ turnNum < MaxTurns
  /\ IF turn # NoTurn THEN UNCHANGED <<transcript, turnVars>>
     ELSE /\ turnNum' = turnNum + 1
          /\ turn' = [NoTurn EXCEPT !.n = turnNum'] /\ intact' = TRUE /\ latest' = "none" /\ emitted' = <<>>
          /\ prompting' = "text"
          /\ transcript' = Append(transcript, [Item("user", "none", "none") EXCEPT !.turn = turnNum'])
  /\ UNCHANGED <<replaced, permVars, modal, switching, state>>

\* Esc and Ctrl+C cancel the turn.
CancelTurn ==
  /\ Typing /\ turn # NoTurn /\ turn' = [turn EXCEPT !.cancelled = TRUE]
  /\ UNCHANGED <<turnNum, prompting, latest, intact, emitted, transcriptVars, permVars, modal, switching, state>>
\* /quit, or Ctrl+C twice without a turn.
QuitTui ==
  /\ Typing /\ state' = "quit"
  /\ UNCHANGED <<transcriptVars, turnVars, permVars, modal, switching>>

\* The transcript is that of another session; the turn is not looked at.
Replace(t) ==
  /\ replaced < MaxSwitches /\ replaced' = replaced + 1
  /\ transcript' = t /\ intact' = FALSE
StoredItems(n) == [i \in 1 .. n + 1 |-> [kind |-> IF i = 1 THEN "system" ELSE "stored", turn |-> 0, call |-> "none", phase |-> "none"]]
\* /clear and /new.
ClearTranscript ==
  /\ Typing /\ Replace(StoredItems(1))
  /\ UNCHANGED <<turn, turnNum, prompting, latest, emitted, permVars, modeVars>>
\* /resume and /tree open a list; the choice of a session of /resume is loaded at once,
\* that of /tree, like /fork and /clone, by a command that sends a message.
OpenModal ==
  /\ Typing /\ modal' = TRUE
  /\ UNCHANGED <<transcriptVars, turnVars, permVars, switching, state>>
CloseModal ==
  /\ state = "open" /\ modal /\ modal' = FALSE
  /\ UNCHANGED <<transcriptVars, turnVars, permVars, switching, state>>
Pick ==
  /\ state = "open" /\ modal /\ modal' = FALSE
  /\ \E n \in Stored : Replace(StoredItems(n))
  /\ UNCHANGED <<turn, turnNum, prompting, latest, emitted, permVars, switching, state>>
StartSwitch ==
  /\ ~switching /\ switching' = TRUE
  /\ \/ Typing /\ UNCHANGED modal
     \/ state = "open" /\ modal /\ modal' = FALSE
  /\ UNCHANGED <<transcriptVars, turnVars, permVars, state>>
\* sessionSwitchedMsg.
Switched ==
  /\ state = "open" /\ switching /\ switching' = FALSE
  /\ \E n \in Stored : Replace(StoredItems(n))
  /\ UNCHANGED <<turn, turnNum, prompting, latest, emitted, permVars, modal, state>>

TuiNext ==
  \/ TextDelta \/ (\E c \in CallIds : ToolStart(c)) \/ ToolEnd \/ TurnDone \/ TurnAsks \/ GoalAsks
  \/ \E allow, ctrlC \in BOOLEAN : Answer(allow, ctrlC)
  \/ Submit \/ CancelTurn \/ QuitTui \/ ClearTranscript \/ OpenModal \/ CloseModal \/ Pick \/ StartSwitch \/ Switched

TuiSpec == TuiInit /\ [][TuiNext]_tuiVars

-----------------------------------------------------------------------------
\* A request that waits is on the screen or in the queue, once and in order of
\* arrival, whoever asked and whatever was cancelled or switched meanwhile; and a
\* queue has a request on the screen before it (Model.permQueue, tui.go:150-154:
\* a single slot would silently drop one). Cards say so: one at most waits for an
\* answer, and only while a request is shown.
AsksAreHeldInOrder ==
  LET shown == IF pending = 0 THEN <<>> ELSE <<pending>> \o permQueue
  IN  /\ pending = 0 => permQueue = <<>>
      /\ \A i, j \in 1 .. Len(shown) : i < j => shown[i] < shown[j]
      /\ \A n \in 1 .. Len(asks) : asks[n].waits => \E i \in 1 .. Len(shown) : shown[i] = n
      /\ Cardinality(Cards(transcript, "pending")) <= (IF pending = 0 THEN 0 ELSE 1)
      /\ prompting = "asking" => \E n \in 1 .. Len(asks) : asks[n].by = "turn" /\ asks[n].waits

\* The items that show the text and the calls of turn n, and that they show e in order.
OfTurn(t, n) ==
  {i \in 1 .. Len(t) : t[i].turn = n /\ (t[i].kind = "assistant" \/ (t[i].kind = "tool" /\ t[i].call # "none"))}
Shown(x) == IF x.kind = "tool" THEN x.call ELSE x.kind
ShowsAll(t, I, e) ==
  Cardinality(I) = Len(e) /\ \A i \in I : Shown(t[i]) = e[Cardinality({j \in I : j <= i})]

\* The transcript shows the turn in the order of its events, text before and after
\* a tool call in items of their own and each id of a call once, where it came first,
\* unless it was replaced under the turn (handleTextDelta, handleToolStart,
\* handleToolEnd). A call whose id an earlier one of the turn had is shown in its card.
TurnIsShownInOrder == turn # NoTurn /\ intact => ShowsAll(transcript, OfTurn(transcript, turn.n), emitted)

\* What the user is shown is true of the requests and of the turn (Model.permQueue,
\* Model.transcript).
ScreenIsTrue == AsksAreHeldInOrder /\ TurnIsShownInOrder

\* "indexes of currently-streaming items so deltas append cheaply" (tui.go:112): an
\* index of the turn is that of an item of the turn.
IndexesAreOfStreamingItems ==
  turn # NoTurn =>
    /\ turn.asst # 0 => turn.asst <= Len(transcript) /\ transcript[turn.asst].kind = "assistant"
    /\ \A c \in CallIds : turn.tools[c] # 0 =>
         turn.tools[c] <= Len(transcript) /\ transcript[turn.tools[c]].call = c

-----------------------------------------------------------------------------
(* The inductive invariant of ScreenIsTrue. *)

Items == [kind : {"block", "assistant", "tool", "user", "system", "stored"}, turn : 0 .. turnNum, call : CallIds \cup {"none"},
          phase : {"none", "running", "pending", "done", "denied"}]
TuiTypeOK ==
  /\ turnNum \in Nat /\ transcript \in Seq(Items)
  /\ turn \in [asst : Nat, tools : [CallIds -> Nat], cancelled : BOOLEAN, n : 0 .. turnNum]
  /\ prompting \in {"none", "text", "tool", "asking"}
  /\ latest \in CallIds \cup {"none", "assistant"}
  /\ asks \in Seq([by : {"turn", "goal"}, waits : BOOLEAN])
  /\ pending \in 0 .. Len(asks) /\ permQueue \in Seq(1 .. Len(asks))
  /\ modal \in BOOLEAN /\ switching \in BOOLEAN /\ state \in {"open", "quit", "panic"}
  /\ replaced \in Nat /\ intact \in BOOLEAN /\ emitted \in Seq(CallIds \cup {"assistant"})

TurnWaits(n) == asks[n].by = "turn" /\ asks[n].waits

\* The request on the screen came before those of the queue, which are in order.
HeldInv ==
  /\ pending = 0 => permQueue = <<>>
  /\ \A i \in 1 .. Len(permQueue) : pending < permQueue[i]
  /\ \A i, j \in 1 .. Len(permQueue) : i < j => permQueue[i] < permQueue[j]
  /\ \A n \in 1 .. Len(asks) : asks[n].waits => n = pending \/ \E i \in 1 .. Len(permQueue) : permQueue[i] = n
\* A turn waits for one answer at most, and then it does.
AskingInv ==
  /\ \A m, n \in 1 .. Len(asks) : TurnWaits(m) /\ TurnWaits(n) => m = n
  /\ prompting = "asking" <=> \E n \in 1 .. Len(asks) : TurnWaits(n)

CardsInv ==
  /\ pending = 0 => Cards(transcript, "pending") = {}
  /\ \A i, j \in Cards(transcript, "pending") : i = j

\* Between calls, text goes on in the item the turn has for it, if text was the latest
\* event; and the turn knows the calls there were.
TurnInv ==
  /\ prompting = "none" <=> turn = NoTurn
  /\ turn # NoTurn => turnNum > 0 /\ turn.n = turnNum
  /\ prompting = "text" => (turn.asst # 0 <=> latest = "assistant")
  /\ prompting \in {"tool", "asking"} => latest \in CallIds /\ turn.tools[latest] # 0
  /\ turn # NoTurn => \A c \in CallIds : turn.tools[c] # 0 <=> \E k \in DOMAIN emitted : emitted[k] = c

TuiInv == TuiTypeOK /\ HeldInv /\ AskingInv /\ CardsInv /\ TurnInv /\ TurnIsShownInOrder
=============================================================================
