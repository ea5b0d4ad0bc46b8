---------------------------- MODULE TelegramBot ----------------------------
(***************************************************************************)
(* The Telegram channel (agents/peggy/channels/telegram): the poll loop of  *)
(* channel.go, which runs every message in a goroutine and every button     *)
(* press in the loop, and the permission prompts, of its own Peggy           *)
(* (permission.go) or of a daemon (daemon_client.go).                      *)
(*                                                                         *)
(* Every message starts a run that asks one permission. The process may end *)
(* at any moment and start again; Telegram keeps what is not confirmed.     *)
(***************************************************************************)
EXTENDS Integers, Sequences, FiniteSets

CONSTANTS
  Chats,       \* chats that write to the bot
  Allowed,     \* settings.channels.telegram.allow_chats
  Acts,        \* what runs ask to do, as [tool, target]; a tool stands for its action too
  MaxMessages, \* bound: messages
  MaxUpdates,  \* bound: messages and presses
  MaxAsked,    \* bound: permission requests
  MaxFailures    \* bound: requests to Telegram or the daemon that fail, and ends of the process

ASSUME BotAssumption == \A a \in Acts : a = [tool |-> a.tool, target |-> a.target]

VARIABLES
  daemonMode,  \* whether Options.Daemon is set
  updates,     \* what the users did, in the order Telegram numbers it from 1
  confirmed,   \* updates up to this one are not delivered again
  offset,      \* Run's offset, the id of the latest update it took
  batch,       \* the updates of the latest getUpdates still to handle
  calls,       \* the permission requests of all processes, in their order
  nonce,       \* nextNonce
  prompts,     \* pending: [nonce, call]
  keyboards,   \* the messages with buttons in the chats: [nonce, call]
  remembered,  \* sessionAllows and targetAllows
  life,        \* the number of the running process
  failures

botVars == <<daemonMode, updates, confirmed, offset, batch, calls, nonce, prompts, keyboards, remembered, life, failures>>

BotInit ==
  /\ daemonMode \in BOOLEAN /\ updates = <<>> /\ confirmed = 0 /\ offset = 0 /\ batch = <<>>
  /\ calls = <<>> /\ nonce = 0 /\ prompts = {} /\ keyboards = {} /\ remembered = {} /\ life = 1 /\ failures = 0

\* permissionKeyboard.
Actions  == {"deny", "once", "session", "target"}

Messages == {u \in 1 .. Len(updates) : updates[u].text}
Presses  == (1 .. Len(updates)) \ Messages
Live(i) == calls[i].pc # "over"
Fail    == failures < MaxFailures /\ failures' = failures + 1

-----------------------------------------------------------------------------
(* The users and Telegram. *)

Write(c) ==
  /\ Len(updates) < MaxUpdates /\ Cardinality(Messages) < MaxMessages
  /\ updates' = Append(updates, [chat |-> c, text |-> TRUE])
  /\ UNCHANGED <<daemonMode, confirmed, offset, batch, calls, nonce, prompts, keyboards, remembered, life, failures>>

\* A button of any message, also of one that an earlier process sent. told is
\* what answerCallbackQuery shows for it.
Press(k, action) ==
  /\ Len(updates) < MaxUpdates
  /\ updates' = Append(updates, [chat |-> calls[k.call].chat, text |-> FALSE, nonce |-> k.nonce,
                                 on |-> k.call, action |-> action, told |-> "", by |-> 0])
  /\ UNCHANGED <<daemonMode, confirmed, offset, batch, calls, nonce, prompts, keyboards, remembered, life, failures>>

\* getUpdates confirms what is below its offset, even if its answer is lost.
Confirm == confirmed' = IF offset > confirmed THEN offset ELSE confirmed

Poll ==
  /\ batch = <<>> /\ Confirm
  /\ \/ batch' = [i \in 1 .. Len(updates) - confirmed' |-> confirmed' + i] /\ UNCHANGED failures
     \/ UNCHANGED batch /\ Fail
  /\ UNCHANGED <<daemonMode, updates, offset, calls, nonce, prompts, keyboards, remembered, life>>

-----------------------------------------------------------------------------
(* The loop: messages in goroutines, presses one after the other. *)

Take(u) == batch # <<>> /\ u = Head(batch) /\ batch' = Tail(batch) /\ offset' = u

Asking(c, u, act) == [life |-> life, update |-> u, chat |-> c, act |-> act, pc |-> "asking", nonce |-> 0, press |-> 0, out |-> "none"]

\* handleUpdate up to the run's permission request.
HandleMessage(u) ==
  /\ Take(u) /\ updates[u].text
  /\ IF updates[u].chat \in Allowed
       THEN Len(calls) < MaxAsked /\ \E act \in Acts : calls' = Append(calls, Asking(updates[u].chat, u, act))
       ELSE UNCHANGED calls
  /\ UNCHANGED <<daemonMode, updates, confirmed, nonce, prompts, keyboards, remembered, life, failures>>

\* Mutant: the chat of the press is not compared.
MatchNonce(u) == {p \in prompts : p.nonce = updates[u].nonce}
\* The pending request a press is for, if any.
Match(u) == {p \in prompts : p.nonce = updates[u].nonce /\ calls[p.call].chat = updates[u].chat}

Answered(press, text, i) == [press EXCEPT !.told = text, !.by = i]
Tell(u, text, i) == updates' = [updates EXCEPT ![u] = Answered(updates[u], text, i)]
Shows(action) == IF action = "deny" THEN "Denied." ELSE "Allowed."

\* handleCallback: the request is claimed, and its channel has room for one.
HandlePress(u) ==
  /\ Take(u) /\ ~updates[u].text /\ ~daemonMode
  /\ IF Match(u) = {} THEN Tell(u, "expired", 0) /\ UNCHANGED <<calls, prompts>>
     ELSE \E p \in Match(u) :
            /\ prompts' = prompts \ {p}
            /\ calls' = [calls EXCEPT ![p.call].press = u]
            /\ Tell(u, Shows(updates[u].action), p.call)
  /\ UNCHANGED <<daemonMode, confirmed, nonce, keyboards, remembered, life, failures>>

\* DaemonClient.HandleCallback: claimed, then posted. The daemon takes the first
\* decision of a request that has not expired; the post or its answer may be lost.
Claimed(call, u) == [call EXCEPT !.out = updates[u].action, !.press = u]
PostPress(u) ==
  /\ Take(u) /\ ~updates[u].text /\ daemonMode
  /\ IF Match(u) = {} THEN Tell(u, "expired", 0) /\ UNCHANGED <<calls, prompts, failures>>
     ELSE \E p \in Match(u), arrives, answered \in BOOLEAN :
            LET accepted == arrives /\ calls[p.call].out = "none"
            IN  /\ prompts' = prompts \ {p}
                /\ calls' = IF accepted THEN [calls EXCEPT ![p.call] = Claimed(calls[p.call], u)] ELSE calls
                /\ Tell(u, IF accepted /\ answered THEN Shows(updates[u].action) ELSE "failed", p.call)
                /\ IF arrives /\ answered THEN UNCHANGED failures ELSE Fail
  /\ UNCHANGED <<daemonMode, confirmed, nonce, keyboards, remembered, life>>

-----------------------------------------------------------------------------
(* A permission request: Decide, or handlePermissionRequest of the daemon's event. *)

Ended(call, out) == [call EXCEPT !.pc = "over", !.out = IF call.out = "none" THEN out ELSE call.out]
Over(i, out) == [calls EXCEPT ![i] = Ended(calls[i], out)]

\* Mutant: an allowance for a target is one for the tool.
AnyTarget(call, scope) == [scope |-> "session", chat |-> call.chat, tool |-> call.act.tool, target |-> ""]
\* permissionSessionKey, permissionTargetKey; a chat is a session.
AllowKey(call, scope) ==
  [scope |-> scope, chat |-> call.chat, tool |-> call.act.tool,
   target |-> IF scope = "target" THEN call.act.target ELSE ""]
IsRemembered(i) == \E scope \in {"session", "target"} : AllowKey(calls[i], scope) \in remembered

\* A nonce is drawn all the same.
Remembered(i) ==
  /\ Live(i) /\ calls[i].pc = "asking" /\ ~daemonMode /\ IsRemembered(i)
  /\ calls' = Over(i, "remembered") /\ nonce' = nonce + 1
  /\ UNCHANGED <<daemonMode, updates, confirmed, offset, batch, prompts, keyboards, remembered, life, failures>>

Numbered(call, n) == [call EXCEPT !.pc = "sending", !.nonce = n]
Register(i) ==
  /\ Live(i) /\ calls[i].pc = "asking"
  /\ daemonMode \/ ~IsRemembered(i)
  /\ nonce' = nonce + 1 /\ prompts' = prompts \cup {[nonce |-> nonce', call |-> i]}
  /\ calls' = [calls EXCEPT ![i] = Numbered(calls[i], nonce')]
  /\ UNCHANGED <<daemonMode, updates, confirmed, offset, batch, keyboards, remembered, life, failures>>

\* The message is in the chat, and can be pressed, before the call returns.
Show(i) ==
  /\ Live(i) /\ calls[i].pc = "sending"
  /\ keyboards' = keyboards \cup {[nonce |-> calls[i].nonce, call |-> i]}
  /\ calls' = [calls EXCEPT ![i].pc = "shown"]
  /\ UNCHANGED <<daemonMode, updates, confirmed, offset, batch, nonce, prompts, remembered, life, failures>>
Sent(i) ==
  /\ Live(i) /\ calls[i].pc = "shown"
  /\ calls' = [calls EXCEPT ![i].pc = "waiting"]
  /\ UNCHANGED <<daemonMode, updates, confirmed, offset, batch, nonce, prompts, keyboards, remembered, life, failures>>
SendFails(i) ==
  /\ Live(i) /\ calls[i].pc \in {"sending", "shown"} /\ Fail
  /\ prompts' = {p \in prompts : p.call # i} /\ calls' = Over(i, "unsent")
  /\ UNCHANGED <<daemonMode, updates, confirmed, offset, batch, nonce, keyboards, remembered, life>>

\* The decision of a press that was claimed; the daemon's answers at once.
Decided(i) ==
  /\ Live(i) /\ calls[i].pc = "waiting" /\ calls[i].press # 0
  /\ LET action == updates[calls[i].press].action
     IN  /\ calls' = Over(i, action)
         /\ remembered' = remembered \cup
              (IF action \in {"session", "target"} /\ ~daemonMode THEN {AllowKey(calls[i], action)} ELSE {})
  /\ UNCHANGED <<daemonMode, updates, confirmed, offset, batch, nonce, prompts, keyboards, life, failures>>

\* The timer: it does not look whether a press was claimed. The daemon's own
\* timer leaves the client's entry behind.
TimesOut(i) ==
  /\ Live(i)
  /\ IF daemonMode THEN calls[i].pc \in {"sending", "shown", "waiting"} /\ calls[i].out = "none" /\ UNCHANGED prompts
     ELSE calls[i].pc = "waiting" /\ prompts' = {p \in prompts : p.call # i}
  /\ calls' = IF daemonMode THEN [calls EXCEPT ![i].out = "timeout"] ELSE Over(i, "timeout")
  /\ UNCHANGED <<daemonMode, updates, confirmed, offset, batch, nonce, keyboards, remembered, life, failures>>

\* The process ends and starts again: its nonces start again from 1.
StartAgain ==
  /\ Fail /\ life' = life + 1
  /\ offset' = 0 /\ batch' = <<>> /\ nonce' = 0 /\ prompts' = {} /\ remembered' = {}
  /\ calls' = [i \in DOMAIN calls |-> Ended(calls[i], "lost")]
  /\ UNCHANGED <<daemonMode, updates, confirmed, keyboards>>

BotNext ==
  \/ \E c \in Chats : Write(c)
  \/ \E k \in keyboards, a \in Actions : Press(k, a)
  \/ Poll \/ StartAgain
  \/ \E u \in 1 .. Len(updates) : HandleMessage(u) \/ HandlePress(u) \/ PostPress(u)
  \/ \E i \in 1 .. Len(calls) :
       Remembered(i) \/ Register(i) \/ Show(i) \/ Sent(i) \/ SendFails(i) \/ Decided(i) \/ TimesOut(i)

BotSpec == BotInit /\ [][BotNext]_botVars

-----------------------------------------------------------------------------
Permits(a) == a \in {"once", "session", "target"}

\* Request j was allowed for longer than itself, so that request i is.
Licenses(j, i) ==
  /\ calls[j].chat = calls[i].chat /\ calls[j].life = calls[i].life
  /\ calls[j].act.tool = calls[i].act.tool
  /\ calls[j].out \in {"session", "target"}
  /\ calls[j].out = "target" => calls[j].act.target = calls[i].act.target

\* A press decides the request its buttons were shown for, and its chat is told
\* what happened: the tool is allowed only by a press of that request's buttons, in
\* the chat that wrote the message, by an "Allow session" for the same tool there or
\* by an "Allow target" for the same target of it, and "Allowed." is true. Two gaps
\* of the code are part of the statement: the buttons of an earlier process decide
\* whatever request has their nonce now (nextNonce starts again), and in a process of
\* its own a press may be claimed while the wait or the process ends
\* (Permission.Decide asks no one when its timer fires).
PressesDecideTheirRequest ==
  /\ \A i \in 1 .. Len(calls) : Permits(calls[i].out) =>
       \E u \in Presses :
         /\ u = calls[i].press /\ updates[u].action = calls[i].out /\ updates[u].chat = calls[i].chat
         /\ updates[u].on = i \/ calls[updates[u].on].life # calls[i].life
  /\ \A i \in 1 .. Len(calls) : calls[i].out = "remembered" =>
       \E j \in 1 .. Len(calls) : Licenses(j, i)
  /\ \A u \in Presses : updates[u].told = "Allowed." =>
       LET call == calls[updates[u].by]
       IN  call.press = u /\ call.out \in {updates[u].action} \cup (IF daemonMode THEN {} ELSE {"none", "timeout", "unsent", "lost"})
  /\ \A u, v \in Presses : updates[u].by = updates[v].by /\ updates[u].by # 0 => u = v

\* Every message of an allowed chat is taken, once by a process: Telegram is
\* asked from the update after the latest one that was taken, so a failed
\* request loses none and repeats none; a process that ends may lose what it
\* works on or take it again in the next one.
MessagesAreTakenOnce ==
  /\ \A u \in 1 .. confirmed : updates[u].text /\ updates[u].chat \in Allowed =>
       \E i \in 1 .. Len(calls) : calls[i].update = u
  /\ \A i, j \in 1 .. Len(calls) : calls[i].update = calls[j].update /\ calls[i].life = calls[j].life => i = j
  /\ \A i \in 1 .. Len(calls) : calls[i].chat \in Allowed

\* What the channel promises: a press decides only the request its message asked
\* about, and a message is handled once by a process and lost by none that polls on
\* (Permission.handleCallback, DaemonClient.HandleCallback, Channel.Run).
UpdatesAreHandledOnce == PressesDecideTheirRequest /\ MessagesAreTakenOnce

-----------------------------------------------------------------------------
(***************************************************************************)
(* The inductive strengthening: a nonce is one request's in a process, the *)
(* request of a pending prompt is undecided, a claimed one agrees with its *)
(* press, and the loop takes the updates in their order without a gap.     *)
(***************************************************************************)
MessageUpdates == [chat : Chats, text : {TRUE}]
PressUpdates ==
  [chat : Chats, text : {FALSE}, nonce : Nat \ {0}, on : Nat \ {0}, action : Actions,
   told : {"", "expired", "failed", "Denied.", "Allowed."}, by : Nat]
Calls ==
  [life : Nat, update : Nat \ {0}, chat : Chats \cap Allowed, act : Acts, pc : {"asking", "sending", "shown", "waiting", "over"},
   nonce : Nat, press : Nat, out : Actions \cup {"none", "remembered", "unsent", "timeout", "lost"}]
Asks == [nonce : Nat \ {0}, call : Nat \ {0}]

BotTypeOK ==
  /\ daemonMode \in BOOLEAN
  /\ updates \in Seq(MessageUpdates \cup PressUpdates) /\ calls \in Seq(Calls)
  /\ {confirmed, offset, nonce, life, failures} \subseteq Nat
  /\ batch \in Seq(Nat) /\ prompts \subseteq Asks /\ keyboards \subseteq Asks

\* Whatever shows a nonce shows that of its request.
Asked(a) == a.call \in DOMAIN calls /\ calls[a.call].nonce = a.nonce

Unclaimed(i) == calls[i].press = 0 /\ \A u \in Presses : updates[u].by # i

PromptsInv ==
  \A p \in prompts : Asked(p) /\ calls[p.call].pc \in {"sending", "shown", "waiting"} /\ Unclaimed(p.call)

ButtonsInv ==
  /\ \A k \in keyboards : Asked(k)
  /\ \A u \in Presses :
       /\ Asked([nonce |-> updates[u].nonce, call |-> updates[u].on])
       /\ updates[u].by # 0 => updates[u].by \in DOMAIN calls /\ calls[updates[u].by].pc # "asking"
       /\ updates[u].told = "Allowed." => updates[u].by # 0 /\ calls[updates[u].by].press = u
       /\ \A v \in Presses : updates[u].by = updates[v].by /\ updates[u].by # 0 => u = v

\* A nonce is counted by its process, which handles only requests of its own.
NoncesInv ==
  /\ \A i \in DOMAIN calls :
       /\ calls[i].pc # "over" => calls[i].life = life
       /\ calls[i].pc # "over" => (calls[i].pc = "asking" <=> calls[i].nonce = 0)
       /\ calls[i].life <= life
       /\ calls[i].life = life => calls[i].nonce <= nonce /\ calls[i].update <= offset
  /\ \A i, j \in DOMAIN calls : calls[i].life = calls[j].life /\ calls[i].nonce = calls[j].nonce /\ calls[i].nonce # 0 => i = j

\* A request that a press was claimed for agrees with it, and one that none was
\* claimed for is not allowed by a button.
ClaimedInv(i) ==
  LET u == calls[i].press
  IN  /\ u \in Presses /\ updates[u].chat = calls[i].chat /\ calls[i].pc # "asking"
      /\ updates[u].on = i \/ calls[updates[u].on].life # calls[i].life
      /\ calls[i].out \in {updates[u].action} \cup (IF daemonMode THEN {} ELSE {"none", "timeout", "unsent", "lost"})
CallsInv ==
  \A i \in DOMAIN calls :
    /\ calls[i].pc = "over" => calls[i].out # "none"
    /\ calls[i].pc # "over" /\ ~daemonMode => calls[i].out = "none"
    /\ calls[i].press = 0 => calls[i].out \notin Actions
    /\ calls[i].press # 0 => ClaimedInv(i)

RememberedInv ==
  /\ \A k \in remembered : \E j \in DOMAIN calls :
       calls[j].life = life /\ calls[j].out \in {"session", "target"} /\ k = AllowKey(calls[j], calls[j].out)
  /\ \A i \in DOMAIN calls : calls[i].out = "remembered" => \E j \in DOMAIN calls : Licenses(j, i)

\* The latest update the loop took, or an earlier process did.
Taken == IF offset > confirmed THEN offset ELSE confirmed

BatchInv ==
  /\ Taken + Len(batch) <= Len(updates)
  /\ \A k \in DOMAIN batch : batch[k] = Taken + k
  /\ \A u \in 1 .. Taken : updates[u].text /\ updates[u].chat \in Allowed => \E i \in DOMAIN calls : calls[i].update = u
  /\ \A i, j \in DOMAIN calls : calls[i].update = calls[j].update /\ calls[i].life = calls[j].life => i = j

BotInv ==
  /\ BotTypeOK /\ PromptsInv /\ ButtonsInv /\ NoncesInv /\ CallsInv /\ RememberedInv /\ BatchInv
  /\ UpdatesAreHandledOnce
=============================================================================
