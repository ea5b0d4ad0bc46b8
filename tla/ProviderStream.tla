--------------------------- MODULE ProviderStream ---------------------------
(***************************************************************************)
(* How the providers turn what arrives from upstream into the events of one *)
(* loop.Provider stream and its final message: Chat Completions            *)
(* (providers/openaicompat), Gemini (providers/gemini) and Codex            *)
(* (providers/codex). A delta is the number of the frame that brought it.   *)
(***************************************************************************)
EXTENDS Naturals, Sequences, SequencesExt, Selection

CONSTANTS
  MaxIndex,   \* indices upstream gives to the tool calls of a reply
  MaxFrames   \* bound: frames of a stream

ASSUME StreamAssumption == {MaxIndex, MaxFrames} \subseteq Nat

Indices == 1 .. MaxIndex

VARIABLES
  provider,  \* "openai", "gemini" or "codex"
  wire,      \* the frames that arrived
  content,   \* output.Content: parts [type, deltas]
  pending,   \* openai: per index the call so far; codex: its calls
  seen,      \* codex: "completed" and "failed"
  finish,    \* openai, gemini: the last finish reason, as mapFinishReason has it
  cancelled, \* the context ended
  sent,      \* the events the consumer took
  open       \* whether the events channel is

streamVars == <<provider, wire, content, pending, seen, finish, cancelled, sent, open>>

NotBegun == [named |-> FALSE, deltas |-> <<>>]

StreamInit ==
  /\ provider \in {"openai", "gemini", "codex"} /\ wire = <<>> /\ content = <<>>
  /\ pending = [i \in Indices |-> NotBegun] /\ seen = {} /\ finish = "stop" /\ cancelled = FALSE
  /\ sent = <<[type |-> "start"]>> /\ open = TRUE

\* mapFinishReason, of convert.go and of gemini.go.
Reasons == IF provider = "openai" THEN {"stop", "length", "tool_use", "error"} ELSE {"stop", "length", "error"}

\* What a frame can be; a fragment of a call may name it or carry arguments.
Kinds ==
  CASE provider = "openai" -> [type : {"text", "thinking"}] \cup [type : {"fragment"}, index : Indices, named : BOOLEAN] \cup [type : {"bad"}] \cup [type : {"finish"}, reason : Reasons]
    [] provider = "gemini" -> [type : {"text", "thinking", "call"}] \cup [type : {"finish"}, reason : Reasons]
    [] provider = "codex"  -> [type : {"text", "call", "completed", "failed"}]

-----------------------------------------------------------------------------
(* Frames. *)

Arriving == Len(wire) + 1
Event(type) == [type |-> type, deltas |-> <<Arriving>>]

\* Mutant: deltas of a type are one part, wherever it is.
CoalescedAnywhere(type) ==
  IF \E i \in 1 .. Len(content) : content[i].type = type
  THEN [i \in 1 .. Len(content) |-> IF content[i].type = type THEN [content[i] EXCEPT !.deltas = Append(@, Arriving)] ELSE content[i]]
  ELSE Append(content, Event(type))
\* appendPart, appendText, appendThinking: consecutive deltas of a type are one part.
Coalesced(type) ==
  IF content # <<>> /\ content[Len(content)].type = type
  THEN [content EXCEPT ![Len(content)].deltas = Append(@, Arriving)]
  ELSE Append(content, Event(type))

\* Codex assembles text, then calls, when the response is complete.
Delta(f) ==
  /\ f.type \in {"text", "thinking"}
  /\ content' = Coalesced(f.type) /\ sent' = Append(sent, Event(f.type))
  /\ UNCHANGED <<pending, seen, finish, open>>

\* Fragments of calls are collected by their index.
Fragment(f) ==
  /\ f.type = "fragment"
  /\ pending' = [pending EXCEPT ![f.index] = [named |-> @.named \/ f.named, deltas |-> Append(@.deltas, Arriving)]]
  /\ UNCHANGED <<content, seen, finish, sent, open>>

\* A whole call: in place for Gemini, after the text for Codex.
WholeCall(f) ==
  /\ f.type = "call"
  /\ content' = Append(content, Event("call")) /\ sent' = Append(sent, Event("call"))
  /\ UNCHANGED <<pending, seen, finish, open>>

\* An error ends a stream, but for Codex, which reads on.
Bad(f) ==
  /\ f.type = "bad" /\ sent' = Append(sent, [type |-> "error"]) /\ open' = FALSE
  /\ UNCHANGED <<content, pending, seen, finish>>
Response(f) ==
  /\ f.type \in {"completed", "failed"} /\ seen' = seen \cup {f.type}
  /\ sent' = IF f.type = "failed" THEN Append(sent, [type |-> "error"]) ELSE sent
  /\ UNCHANGED <<content, pending, finish, open>>

\* Whether or not there were calls; a later reason replaces it.
Finish(f) ==
  /\ f.type = "finish" /\ finish' = f.reason
  /\ UNCHANGED <<content, pending, seen, sent, open>>

Frame(f) ==
  /\ open /\ ~cancelled /\ Len(wire) < MaxFrames /\ wire' = Append(wire, f)
  /\ Delta(f) \/ Fragment(f) \/ WholeCall(f) \/ Bad(f) \/ Response(f) \/ Finish(f)
  /\ UNCHANGED <<provider, cancelled>>

-----------------------------------------------------------------------------
(* The end. *)

CallsOf(parts) == Select(parts, {k \in DOMAIN parts : parts[k].type = "call"})
TextOf(parts)  == Select(parts, {k \in DOMAIN parts : parts[k].type # "call"})

\* finalize, over sortedIndices.
InOrder(numbers, max) == Select([i \in 1 .. max |-> i], numbers)
Begun    == InOrder({i \in Indices : pending[i] # NotBegun}, MaxIndex)
Finalized == [n \in 1 .. Len(Begun) |-> [type |-> "call", deltas |-> pending[Begun[n]].deltas]]
Nameless == {n \in 1 .. Len(Begun) : ~pending[Begun[n]].named}

\* A reply with calls stops for them, another for the reason upstream gave, which can be
\* that of calls even so.
DoneWith(parts) == [type |-> "done", content |-> parts, stop |-> IF CallsOf(parts) = <<>> THEN finish ELSE "tool_use"]

\* What a stream still sends when no more frames come.
Closing ==
  CASE provider = "gemini" -> <<DoneWith(content)>>
    [] provider = "openai" ->
         IF Nameless = {} THEN Finalized \o <<DoneWith(content \o Finalized)>>
         ELSE SubSeq(Finalized, 1, (CHOOSE n \in Nameless : \A k \in Nameless : n <= k) - 1) \o <<[type |-> "error"]>>
    [] provider = "codex"  ->
         CASE "failed" \in seen    -> <<>>
           [] seen = {"completed"} -> <<DoneWith(TextOf(content) \o CallsOf(content))>>
           [] OTHER                -> <<[type |-> "error"]>>

Ends(events) == sent' = sent \o events /\ open' = FALSE /\ UNCHANGED <<provider, wire, content, pending, seen, finish, cancelled>>

\* Upstream closes, completely or not: nobody but Codex can tell.
EndOfStream == open /\ ~cancelled /\ Ends(Closing)
ReadFails   == open /\ ~cancelled /\ Ends(<<[type |-> "error"]>>)

\* After the context ended a send may still be taken; Chat Completions goes on to
\* its last events, since the read failed for being cancelled.
Cancel  == open /\ ~cancelled /\ cancelled' = TRUE /\ UNCHANGED <<provider, wire, content, pending, seen, finish, sent, open>>
Cancels ==
  /\ open /\ cancelled
  /\ \E n \in 0 .. Len(Closing) :
       Ends(IF provider = "openai" THEN SubSeq(Closing, 1, n) ELSE <<>>)

StreamNext == (\E f \in Kinds : Frame(f)) \/ EndOfStream \/ ReadFails \/ Cancel \/ Cancels

StreamSpec == StreamInit /\ [][StreamNext]_streamVars

-----------------------------------------------------------------------------
Deltas(parts, types) == FlattenSeq([i \in 1 .. Len(parts) |-> IF parts[i].type \in types THEN parts[i].deltas ELSE <<>>])
\* The frames with fragments of call i.
Fragments(i) == InOrder({n \in 1 .. Len(wire) : wire[n].type = "fragment" /\ wire[n].index = i}, Len(wire))

\* The last reason to finish that upstream gave, "stop" if none.
Reported(stop) ==
  \/ stop = "stop" /\ \A n \in 1 .. Len(wire) : wire[n].type # "finish"
  \/ \E n \in 1 .. Len(wire) : /\ wire[n].type = "finish" /\ wire[n].reason = stop
                               /\ \A k \in n + 1 .. Len(wire) : wire[k].type # "finish"

\* The final message is the stream: the texts and the calls the consumer saw, in
\* their order, and every call with all its fragments, whatever was interleaved;
\* it is the last event and no error precedes it; and Codex sends it only for a
\* response that was completed. A message with calls says so, whatever upstream reported;
\* one without stops for the last reason upstream gave. (The other two send it for a stream that upstream
\* cut short as well: openaicompat.go:283-312, gemini.go:246-255.)
DoneIsTheReply ==
  LET done == sent[Len(sent)]
      before == SubSeq(sent, 2, Len(sent) - 1)
  IN  /\ \A n \in 1 .. Len(sent) - 1 : sent[n].type # "done"
      /\ done.type = "done" =>
           /\ \A n \in 1 .. Len(sent) : sent[n].type # "error"
           /\ \A t \in {"text", "thinking"} : Deltas(done.content, {t}) = Deltas(before, {t})
           /\ CallsOf(done.content) = CallsOf(before)
           /\ provider # "codex" => Deltas(done.content, {"text", "thinking"}) = Deltas(before, {"text", "thinking"})
           /\ provider = "openai" =>
                [n \in 1 .. Len(CallsOf(done.content)) |-> CallsOf(done.content)[n].deltas] =
                  Select([i \in Indices |-> Fragments(i)], {i \in Indices : Fragments(i) # <<>>})
           /\ provider = "codex" => \E n \in 1 .. Len(wire) : wire[n].type = "completed"
           /\ IF CallsOf(before) # <<>> THEN done.stop = "tool_use" ELSE Reported(done.stop)

-----------------------------------------------------------------------------
(* What is known of a stream at any point. *)

Stops        == {"stop", "length", "tool_use", "error"}
StreamParts  == [type : {"text", "thinking", "call"}, deltas : Seq(Nat)]
StreamEvents == StreamParts \cup [type : {"start", "error"}]
                  \cup [type : {"done"}, content : Seq(StreamParts), stop : Stops]

StreamTypeOK ==
  /\ provider \in {"openai", "gemini", "codex"} /\ wire \in Seq(Kinds)
  /\ content \in Seq(StreamParts) /\ seen \subseteq {"completed", "failed"} /\ finish \in Stops
  /\ pending \in [Indices -> [named : BOOLEAN, deltas : Seq(Nat)]]
  /\ {cancelled, open} \subseteq BOOLEAN /\ sent \in Seq(StreamEvents) /\ Len(sent) > 0

\* What the consumer was told since the start.
Told == SubSeq(sent, 2, Len(sent))

\* Before the end, what was told is what the content holds, only Codex has told of an
\* error and knows it, the fragments that came are with their calls and the last reason
\* to finish is known.
FollowedInv ==
  /\ \A n \in 1 .. Len(sent) : sent[n].type # "done"
  /\ (\E n \in 1 .. Len(sent) : sent[n].type = "error") => provider = "codex" /\ "failed" \in seen
  /\ \A types \in {{"text"}, {"thinking"}, {"text", "thinking"}} : Deltas(content, types) = Deltas(Told, types)
  /\ CallsOf(content) = CallsOf(Told)
  /\ provider = "openai" => CallsOf(content) = <<>>
  /\ \A i \in Indices : /\ pending[i].deltas = Fragments(i)
                        /\ pending[i].named => pending[i].deltas # <<>>
  /\ Reported(finish)
  /\ "completed" \in seen => \E n \in 1 .. Len(wire) : wire[n].type = "completed"

StreamInv == StreamTypeOK /\ DoneIsTheReply /\ (open => FollowedInv)
=============================================================================
