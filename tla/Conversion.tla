----------------------------- MODULE Conversion -----------------------------
(***************************************************************************)
(* What the providers make of a hardened transcript: Gemini contents       *)
(* (providers/gemini/convert.go), chat messages (openaicompat/convert.go)  *)
(* and Responses items (codex/convert.go).  The transcript grows by whole  *)
(* turns, as the loop leaves it to HardenHistory.                          *)
(***************************************************************************)
EXTENDS Naturals, Sequences, SequencesExt, Selection

CONSTANTS
  Inputs,    \* what a user message may consist of: sequences of parts
  Turns,     \* what an assistant message may consist of, with numbered calls
  Outputs,   \* what a tool result may consist of
  MaxTurns   \* bound: messages of users and assistants

VARIABLES
  messages,  \* [role, parts, call]
  turns,     \* messages of users and assistants
  modern     \* whether the model is a Gemini 3

convVars == <<messages, turns, modern>>

\* A part: its kind, the call it is, whether a signature came with it.  A blank is a
\* text that is empty.
Part(kind, call, signed) == [kind |-> kind, call |-> call, signed |-> signed]
AnyPart == [kind : {"text", "blank", "image", "thought", "call", "response"}, call : Nat, signed : BOOLEAN]
Written == {p \in AnyPart : p.kind \in {"text", "blank", "image"}}

Spoken(role, parts, call) == [role |-> role, parts |-> parts, call |-> call]
OfKinds(kinds, parts) == Select(parts, {k \in DOMAIN parts : parts[k].kind \in kinds})

ASSUME ConversionAssumption ==
  /\ Inputs \subseteq Seq(Written) /\ Outputs \cup Turns \subseteq Seq(AnyPart)
  /\ MaxTurns \in Nat

ConvInit == messages = <<>> /\ turns = 0 /\ modern \in BOOLEAN

UserAsks(parts) ==
  /\ turns < MaxTurns /\ turns' = turns + 1
  /\ messages' = Append(messages, Spoken("user", parts, 0))
  /\ UNCHANGED modern

\* A turn with the results of its calls; ids are those of the transcript's turn.
Numbered(parts) == [k \in DOMAIN parts |->
  IF parts[k].kind = "call" THEN [parts[k] EXCEPT !.call = 10 * turns + @] ELSE parts[k]]
ModelTurns(parts, output) ==
  /\ turns < MaxTurns /\ turns' = turns + 1
  /\ LET own == Numbered(parts)
         calls == OfKinds({"call"}, own)
     IN messages' = messages \o (<<Spoken("assistant", own, 0)>>
                     \o [k \in DOMAIN calls |-> Spoken("tool", output, calls[k].call)])
  /\ UNCHANGED modern

ConvNext == (\E p \in Inputs : UserAsks(p)) \/ (\E p \in Turns, o \in Outputs : ModelTurns(p, o))

ConvSpec == ConvInit /\ [][ConvNext]_convVars

-----------------------------------------------------------------------------
(* Gemini: contents of a role with parts; a result is the part of a user. *)

ResultPart(x) == Part("response", x.call, FALSE)
GeminiRole(x) == IF x.role = "assistant" THEN "model" ELSE "user"
Shown(x) == OfKinds({"text", "thought", "image", "call"}, x.parts)

\* Consecutive results share the content of the first; an empty message has none.
RunEnd(m, k) ==
  CHOOSE e \in k .. Len(m) :
    /\ \A j \in k + 1 .. e : m[j].role = "tool"
    /\ e < Len(m) => m[e + 1].role # "tool"
HasContent(m, k) ==
  IF m[k].role = "tool" THEN k = 1 \/ m[k - 1].role # "tool" ELSE Shown(m[k]) # <<>>
ContentOf(m, k) ==
  IF m[k].role = "tool"
    THEN [role |-> "user", parts |-> [j \in 1 .. RunEnd(m, k) - k + 1 |-> ResultPart(m[k + j - 1])]]
    ELSE [role |-> GeminiRole(m[k]), parts |-> Shown(m[k])]
Contents(m) == Select([k \in DOMAIN m |-> ContentOf(m, k)], {k \in DOMAIN m : HasContent(m, k)})

\* Mutant: a content of results counts as a turn of the user.
GenuineByRole(content) == content.role = "user"

\* isGenuineUserTurn: not only results.
Genuine(content) ==
  content.role = "user" /\ \E k \in DOMAIN content.parts : content.parts[k].kind # "response"
Firsts(content) ==
  {k \in DOMAIN content.parts : content.parts[k].kind = "call"
     /\ \A j \in 1 .. k - 1 : content.parts[j].kind # "call"}

\* ensureActiveLoopSignatures: from the last genuine user turn on, the first call
\* of each model turn that has no signature gets the one that is not verified.
SignedFirst(content) ==
  [content EXCEPT !.parts =
     [j \in DOMAIN @ |-> IF j \in Firsts(content) THEN [@[j] EXCEPT !.signed = TRUE] ELSE @[j]]]
Signed(contents) ==
  LET asked == {k \in DOMAIN contents : Genuine(contents[k])}
      start == CHOOSE k \in asked : \A j \in asked : j <= k
  IN  IF ~modern \/ asked = {} THEN contents
      ELSE [k \in DOMAIN contents |->
              IF k < start \/ contents[k].role # "model" THEN contents[k] ELSE SignedFirst(contents[k])]

-----------------------------------------------------------------------------
(* Chat completions: the text of a message, then its calls. Images of an        *)
(* assistant are an error, those of a user are left out.                       *)

TextParts(x) == OfKinds({"text"}, x.parts)
CallParts(x) == OfKinds({"call"}, x.parts)
ChatRefuses(m) == \E k \in DOMAIN m : m[k].role = "assistant" /\ OfKinds({"image"}, m[k].parts) # <<>>
ChatMessage(x) ==
  IF x.role = "tool" THEN <<[role |-> "tool", text |-> TextParts(x), calls |-> <<>>, call |-> x.call]>>
  ELSE IF x.role = "assistant" /\ TextParts(x) = <<>> /\ CallParts(x) = <<>> THEN <<>>
  ELSE <<[role |-> x.role, text |-> TextParts(x), calls |-> CallParts(x), call |-> 0]>>
ChatMessages(m) == FlattenSeq([k \in 1 .. Len(m) |-> ChatMessage(m[k])])

(* Responses: items. An image of a user is an error. *)

ResponsesRefuse(m) == \E k \in DOMAIN m : m[k].role = "user" /\ OfKinds({"image"}, m[k].parts) # <<>>
Item(type, text, call) == [type |-> type, text |-> text, call |-> call]
ItemsOf(x) ==
  IF x.role = "tool" THEN <<Item("output", TextParts(x), x.call)>>
  ELSE (IF TextParts(x) = <<>> THEN <<>> ELSE <<Item("message", TextParts(x), 0)>>)
         \o (LET calls == CallParts(x) IN [j \in DOMAIN calls |-> Item("function_call", <<>>, calls[j].call)])
ResponsesItems(m) == FlattenSeq([k \in 1 .. Len(m) |-> ItemsOf(m[k])])

-----------------------------------------------------------------------------
(* The conversation in a wire format, and in the transcript: texts, calls and  *)
(* results, as <<what, call>>.                                                 *)

Talked(what, parts) == [k \in DOMAIN parts |-> <<what, parts[k].call>>]
Result(x) == <<<<"result", x.call>>>>
DialogueOf(x) ==
  IF x.role = "tool" THEN Result(x) ELSE Talked("text", TextParts(x)) \o Talked("call", CallParts(x))
ChatDialogue(c) == IF c.role = "tool" THEN Result(c) ELSE Talked("text", c.text) \o Talked("call", c.calls)
ItemDialogue(i) ==
  CASE i.type = "output"        -> Result(i)
    [] i.type = "function_call" -> <<<<"call", i.call>>>>
    [] i.type = "message"       -> Talked("text", i.text)
Dialogue(m)         == FlattenSeq([k \in 1 .. Len(m) |-> DialogueOf(m[k])])
DialogueOfChat(c)   == FlattenSeq([k \in 1 .. Len(c) |-> ChatDialogue(c[k])])
DialogueOfItems(is) == FlattenSeq([k \in 1 .. Len(is) |-> ItemDialogue(is[k])])
IdsOf(kind, parts)  == LET ps == OfKinds({kind}, parts) IN [k \in DOMAIN ps |-> ps[k].call]

\* The model of each provider gets the same conversation - the texts of a turn first,
\* then its calls: no text, call or result is lost, doubled or moved to another
\* message; for Gemini the results of a turn are one
\* content right after it, in the order of its calls (ConvertMessages,
\* convertMessages, messagesToInput).
TheTalkIsSent ==
  LET contents == Contents(messages)
  IN  /\ ~ChatRefuses(messages) => DialogueOfChat(ChatMessages(messages)) = Dialogue(messages)
      /\ ~ResponsesRefuse(messages) => DialogueOfItems(ResponsesItems(messages)) = Dialogue(messages)
      /\ \A k \in DOMAIN contents :
           LET ids == IdsOf("call", contents[k].parts)
           IN  ids # <<>> => k + 1 \in DOMAIN contents /\ IdsOf("response", contents[k + 1].parts) = ids

\* A Gemini 3 accepts what it is sent: in the active loop the first call of every
\* turn is signed; the turns before it and what the model signed are left alone
\* (ensureActiveLoopSignatures).
TheActiveLoopIsSigned ==
  LET contents == Contents(messages)
      sent == Signed(contents)
      last == {k \in DOMAIN messages : messages[k].role = "user" /\ OfKinds({"text", "image"}, messages[k].parts) # <<>>}
  IN  /\ DOMAIN sent = DOMAIN contents
      /\ modern /\ last # {} =>
           \A k \in DOMAIN messages :
             (messages[k].role = "assistant" /\ CallParts(messages[k]) # <<>> /\ \A j \in last : j < k) =>
               \E c \in DOMAIN sent : /\ IdsOf("call", sent[c].parts) = IdsOf("call", messages[k].parts)
                                      /\ CallParts(sent[c])[1].signed
      /\ \A k \in DOMAIN sent : \A j \in DOMAIN sent[k].parts :
           sent[k].parts[j] # contents[k].parts[j] =>
             /\ modern /\ ~contents[k].parts[j].signed /\ j \in Firsts(contents[k])
             /\ \A i \in k + 1 .. Len(sent) : ~Genuine(sent[i])

\* Every provider sends the conversation whole and in order, and signs the calls of the
\* active loop where a Gemini 3 asks for it (ConvertMessages, convertMessages,
\* messagesToInput, ensureActiveLoopSignatures).
ConversionIsSound == TheTalkIsSent /\ TheActiveLoopIsSigned

-----------------------------------------------------------------------------
(* What is known of a transcript at any point. *)

Utterances == [role : {"user", "assistant", "tool"}, parts : Seq(AnyPart), call : Nat]

\* A turn is followed by the results of its calls in their order, and by no others.
ResultsFollow(m, k) ==
  LET calls == CallParts(m[k])
      n == Len(calls)
  IN  /\ k + n <= Len(m) /\ \A j \in 1 .. n : m[k + j].role = "tool" /\ m[k + j].call = calls[j].call
      /\ k + n < Len(m) => m[k + n + 1].role # "tool"

TurnsAreWhole(m) ==
  \A k \in 1 .. Len(m) :
    /\ m[k].role = "user" => m[k].parts \in Seq(Written)
    /\ m[k].role = "assistant" => ResultsFollow(m, k)
ConvInv ==
  /\ messages \in Seq(Utterances) /\ turns \in Nat /\ modern \in BOOLEAN
  /\ TurnsAreWhole(messages)
=============================================================================
