------------------------------ MODULE History ------------------------------
(***************************************************************************)
(* What happens to a transcript between two prompts: the shipped           *)
(* compactors (compactor.go) rewrite it, and HardenHistory (loop/harden.go)*)
(* repairs the copy that goes to the provider.                             *)
(*                                                                         *)
(* The transcript grows by whole rounds, as AgentLoop leaves them: a reply *)
(* with calls is followed by all its results or, interrupted, by none.     *)
(***************************************************************************)
EXTENDS Integers, Sequences, FiniteSets, SequencesExt, Selection

CONSTANTS
  Touches,     \* what a call can do to a file: a path, read or modified
  Models,
  Proper,      \* the spelling [A-Za-z0-9_-]{1,64}
  Pool,        \* call ids as the providers give them, again and again where they make them up
  Windows,     \* n of KeepRecentMessages
  NoteWords,   \* words of the note it leaves
  KeepRecent,  \* SummarizingCompactor.KeepRecent
  Budgets,     \* values of KeepRecentTokens, 0 for none
  Target,      \* SummarizingCompactor.TargetTokens
  Summaries,   \* words a summary can have, with the handoff prefix
  MaxMessages  \* bound: length of the transcript

ASSUME HistoryAssumption ==
  /\ Windows \cup Summaries \cup {NoteWords} \subseteq Nat \ {0} /\ Budgets \subseteq Nat
  /\ KeepRecent \in Nat \ {0} /\ {Target, MaxMessages} \subseteq Nat
  /\ IsFiniteSet(Touches)
  /\ \A id \in Pool : id.n \in Nat /\ id = [text |-> id.text, spelling |-> id.spelling, n |-> id.n]

VARIABLES
  transcript, \* Session.messages
  model,      \* the model of the next prompt
  touched,    \* history: what the calls there were have touched
  lossy       \* history: KeepRecentMessages dropped something

historyVars == <<transcript, model, touched, lossy>>

\* An id: its text, how it is spelled (valid, or in a way that is not) and its _n suffix.
Id(t, spelling, n) == [text |-> t, spelling |-> spelling, n |-> n]
Nothing == ""
NoId == Id(Nothing, Proper, 0)

\* The model of a reply counts only where it thinks.
Message(role, calls, of, says, thinks, words, ledger) ==
  [role |-> role, calls |-> calls, of |-> of, says |-> says, thinks |-> thinks,
   model |-> IF thinks THEN model ELSE Nothing, words |-> words, ledger |-> ledger]

Call(id, touch) == [id |-> id, touch |-> touch]
TouchedBy(m)    == m.ledger \cup {m.calls[i].touch : i \in DOMAIN m.calls}

HistoryInit == transcript = <<>> /\ model \in Models /\ touched = {} /\ lossy = FALSE

-----------------------------------------------------------------------------
(* The transcript grows. *)

Append1(ms) ==
  /\ Len(transcript) + Len(ms) <= MaxMessages
  /\ transcript' = transcript \o ms

Ask ==
  /\ Append1(<<Message("user", <<>>, NoId, TRUE, FALSE, 1, {})>>)
  /\ UNCHANGED <<model, touched, lossy>>

ModelsTurn == transcript # <<>> /\ Last(transcript).role \in {"user", "tool"}

Answer ==
  /\ ModelsTurn
  /\ \E says, thinks \in BOOLEAN :
       /\ ~(says /\ thinks)
       /\ Append1(<<Message("assistant", <<>>, NoId, says, thinks, 1, {})>>)
  /\ UNCHANGED <<model, touched, lossy>>

\* The calls of one reply have ids of their own; a reply may use those of another
\* again, as the ids do that a provider makes of a name and an index ("read_0").
Work ==
  /\ ModelsTurn
  /\ \E n \in 1 .. 2 : \E t \in [1 .. n -> Touches], id \in [1 .. n -> Pool], finished \in BOOLEAN :
       LET calls   == [i \in 1 .. n |-> Call(id[i], t[i])]
           results == [i \in 1 .. n |-> Message("tool", <<>>, id[i], TRUE, FALSE, 1, {})]
       IN  /\ IsInjective(id)
           /\ Append1(<<Message("assistant", calls, NoId, FALSE, FALSE, 2 * n, {})>>
                        \o (IF finished THEN results ELSE <<>>))
           /\ touched' = touched \cup {t[i] : i \in 1 .. n}
  /\ UNCHANGED <<model, lossy>>

SwitchModel == model' \in Models \ {model} /\ UNCHANGED <<transcript, touched, lossy>>

-----------------------------------------------------------------------------
(* compactor.go. *)

Marker(words, ledger) == Message("assistant", <<>>, NoId, TRUE, FALSE, words, ledger)

\* KeepRecentMessages(n), with more than n messages.
KeepRecentMessages(m, n) ==
  <<Marker(NoteWords, {})>> \o SubSeq(m, Len(m) - n + 1, Len(m))

Words(m) ==
  LET upTo[k \in 0 .. Len(m)] == IF k = 0 THEN 0 ELSE upTo[k - 1] + m[k].words
  IN  upTo[Len(m)]

\* estimateTokens: three quarters of the words, rounded up.
Tokens(m) == (3 * Words(m) + 3) \div 4

\* splitByTokenBudget: how many messages are older than the tail that fits.
SplitByTokenBudget(m, budget) ==
  LET tail[j \in 1 .. Len(m) + 1] == IF j > Len(m) THEN 0 ELSE tail[j + 1] + Tokens(<<m[j]>>)
      over == {j \in 1 .. Len(m) - 1 : tail[j] > budget}
  IN  IF over = {} THEN 0 ELSE CHOOSE j \in over : \A k \in over : k <= j

\* Mutant: the tail may start inside a round.
AnySplit(m, split) == split

\* safeSplitPoint: the tail does not start with a result.
SafeSplitPoint(m, split) ==
  LET safe == {0} \cup {s \in 1 .. split : m[s + 1].role # "tool"}
  IN  CHOOSE s \in safe : \A r \in safe : r <= s

\* extractFileLedger: the calls of the region and the ledgers of earlier markers.
Ledger(m) == UNION {TouchedBy(x) : x \in ToSet(m)}

Split(m, budget) ==
  SafeSplitPoint(m, IF budget > 0 THEN SplitByTokenBudget(m, budget) ELSE Len(m) - KeepRecent)

\* The inflation guard.
Replaced(m, older, marker) ==
  IF Tokens(<<marker>>) >= Tokens(older) THEN m ELSE <<marker>> \o SubSeq(m, Len(older) + 1, Len(m))
SummaryOf(older, words) == Marker(words + Cardinality(Ledger(older)), Ledger(older))

\* What SummarizingCompactor.Compact can return: its input, or a marker and the tail.
Summarized(m, budget, words) ==
  IF \/ Len(m) <= KeepRecent /\ budget = 0
     \/ Tokens(m) <= Target
     \/ Split(m, budget) <= 0
    THEN m
    ELSE LET older == SubSeq(m, 1, Split(m, budget)) IN Replaced(m, older, SummaryOf(older, words))

\* Session.maybeCompact: a result of the same length is dropped.
Compacts(out) == Len(out) # Len(transcript) /\ transcript' = out

CompactByWindow ==
  /\ \E n \in Windows : Len(transcript) > n /\ Compacts(KeepRecentMessages(transcript, n))
  /\ lossy' = TRUE /\ UNCHANGED <<model, touched>>

CompactBySummary ==
  /\ \E b \in Budgets, w \in Summaries : Compacts(Summarized(transcript, b, w))
  /\ UNCHANGED <<model, touched, lossy>>

HistoryNext == Ask \/ Answer \/ Work \/ SwitchModel \/ CompactByWindow \/ CompactBySummary
HistorySpec == HistoryInit /\ [][HistoryNext]_historyVars

-----------------------------------------------------------------------------
(* loop/harden.go. *)

CallIds(m)    == [i \in DOMAIN m.calls |-> m.calls[i].id]
AllCalls(m)   == UNION {ToSet(CallIds(x)) : x \in ToSet(m)}
Occurrences(m) ==
  FlattenSeq([k \in 1 .. Len(m) |-> IF m[k].role = "tool" THEN <<m[k].of>> ELSE CallIds(m[k])])
Valid(id)     == id.spelling = Proper
Sanitize(id)  == [id EXCEPT !.spelling = Proper]

\* Mutant: collisions are not looked for.
Blind(ids, id) == [ids EXCEPT !.map = [i \in DOMAIN @ \cup {id} |-> IF i = id THEN Sanitize(id) ELSE @[i]]]

\* The closure "mapped": an id that is not valid gets its sanitized text, with the
\* next free number when that is in use.
Mapped(ids, id) ==
  IF id \in DOMAIN ids.map THEN ids
  ELSE IF Valid(id) THEN [ids EXCEPT !.used = @ \cup {id}]
  ELSE LET s     == Sanitize(id)
           free  == CHOOSE k \in ids.next + 1 .. ids.next + Cardinality(ids.used) + 1 :
                      /\ [s EXCEPT !.n = k] \notin ids.used
                      /\ \A j \in ids.next + 1 .. k - 1 : [s EXCEPT !.n = j] \in ids.used
           taken == s \in ids.used
           new   == IF taken THEN [s EXCEPT !.n = free] ELSE s
       IN  [map  |-> [i \in DOMAIN ids.map \cup {id} |-> IF i = id THEN new ELSE ids.map[i]],
            used |-> ids.used \cup {new},
            next |-> IF taken THEN free ELSE ids.next]

\* normalizeToolCallIDs.
To(ids, id) == IF id \in DOMAIN ids THEN ids[id] ELSE id
WithIds(calls, ids) == [i \in DOMAIN calls |-> Call(To(ids, calls[i].id), calls[i].touch)]
Renamed(m, ids) ==
  [k \in DOMAIN m |-> [m[k] EXCEPT !.of = To(ids, @), !.calls = WithIds(@, ids)]]
Unmapped(m) == [map |-> <<>>, used |-> {id \in AllCalls(m) : Valid(id)}, next |-> 0]
AllMapped(m) ==
  LET ids == Occurrences(m)
      upTo[k \in 0 .. Len(ids)] == IF k = 0 THEN Unmapped(m) ELSE Mapped(upTo[k - 1], ids[k])
  IN  upTo[Len(ids)]
NormalizeIDs(m) == Renamed(m, AllMapped(m).map)

\* sanitizeForeignTurn.
Sanitized(m) == [m EXCEPT !.thinks = @ /\ m.model = model]

\* Mutant: a reply of nothing but calls counts as empty.
MeaningfulText(m) == m.says \/ m.thinks

Meaningful(m) == m.says \/ m.thinks \/ m.calls # <<>>

Synthetic(c) == Message("tool", <<>>, c.id, TRUE, FALSE, 1, {})

\* The calls that no result answers, here or later.
Unanswered(calls, rest, seen) ==
  LET open == Select(calls, {i \in DOMAIN calls :
                               calls[i].id \notin seen /\ \A x \in ToSet(rest) : x.role = "tool" => x.of # calls[i].id})
  IN  [i \in DOMAIN open |-> Synthetic(open[i])]

\* Where the results that follow message k end.
RoundEnd(m, k) ==
  CHOOSE e \in k .. Len(m) :
    /\ \A j \in k + 1 .. e : m[j].role = "tool"
    /\ e < Len(m) => m[e + 1].role # "tool"

\* The results of the calls in "known", among ms.
Known(ms, known) == Select(ms, {i \in DOMAIN ms : ms[i].of \in known})

\* Reply k, the results up to message e and those it lacks.
Round(m, k, e, results) ==
  <<Sanitized(m[k])>> \o results
    \o Unanswered(m[k].calls, SubSeq(m, e + 1, Len(m)), {x.of : x \in ToSet(results)})

\* Result k follows a reply that is kept, which absorbs it.
Absorbed(m, k) ==
  \E j \in 1 .. k - 1 :
    /\ m[j].role = "assistant" /\ Meaningful(Sanitized(m[j]))
    /\ \A i \in j + 1 .. k : m[i].role = "tool"

Kept(m, k, e, known) ==
  CASE m[k].role = "assistant" ->
         IF Meaningful(Sanitized(m[k])) THEN Round(m, k, e, Known(SubSeq(m, k + 1, e), known)) ELSE <<>>
    [] m[k].role = "tool"      -> IF Absorbed(m, k) THEN <<>> ELSE Known(<<m[k]>>, known)
    [] m[k].role = "user"      -> <<m[k]>>

Repaired(m, known) == FlattenSeq([k \in 1 .. Len(m) |-> Kept(m, k, RoundEnd(m, k), known)])

Hardened(m)             == Repaired(m, AllCalls(m))
HardenHistory(messages) == Hardened(NormalizeIDs(messages))

-----------------------------------------------------------------------------
\* A reply after k has a call of this id.
UsedAgain(h, k, id) == \E l \in k + 1 .. Len(h) : id \in ToSet(CallIds(h[l]))

\* Each reply with calls is followed at once by one result for each of them and by no
\* other.  A call may lack its result only where a later reply uses its id again:
\* resultsElsewhere takes the result of the one for that of the other.  And a result
\* that lost its reply to KeepRecentMessages is left only where a later call has its id.
RepliesAreAnswered(h) ==
  \A k \in DOMAIN h : h[k].role = "assistant" =>
    LET answers == k + 1 .. RoundEnd(h, k)
        ids     == ToSet(CallIds(h[k]))
        got     == {h[i].of : i \in answers}
    IN  /\ \A id \in ids \ got : UsedAgain(h, k, id)
        /\ \A id \in got \ ids : UsedAgain(h, k, id) /\ h[k].calls = <<>>
        /\ h[k].calls # <<>> => \A i, j \in answers : h[i].of = h[j].of => i = j

\* There are no other results.
ResultsFollowReplies(h) ==
  \A k \in DOMAIN h : h[k].role = "tool" => k > 1 /\ h[k - 1].role # "user"

\* The calls of a reply have ids of their own, which the provider accepts.
CallsAreDistinct(h) ==
  \A k \in DOMAIN h : \A i, j \in DOMAIN h[k].calls : h[k].calls[i].id = h[k].calls[j].id => i = j

Paired(h) ==
  /\ RepliesAreAnswered(h) /\ ResultsFollowReplies(h)
  /\ CallsAreDistinct(h) /\ \A id \in AllCalls(h) : Valid(id)

\* Calls that had different ids have different ids in what is sent.
IdsStayApart(m) ==
  LET ids == AllMapped(m).map IN \A x, y \in AllCalls(m) : To(ids, x) = To(ids, y) => x = y

\* What goes to the provider is complete as far as the ids tell: a result for every call
\* at once, no other results, and ids it accepts, whatever was interrupted, renamed or
\* compacted away.
RequestsArePaired == Paired(HardenHistory(transcript)) /\ IdsStayApart(transcript)

\* Hardening drops nothing the conversation consists of: what was asked, said and
\* called reaches the provider in order, and so does every result of a call there.
Said(x) ==
  IF x.role # "tool" /\ (x.says \/ x.calls # <<>>)
    THEN <<[role |-> x.role, touches |-> [i \in DOMAIN x.calls |-> x.calls[i].touch]]>> ELSE <<>>
Conversation(m) == FlattenSeq([k \in 1 .. Len(m) |-> Said(m[k])])
ContentSurvives == Conversation(HardenHistory(transcript)) = Conversation(transcript)

\* Every request the provider gets carries the whole conversation and, where no id is
\* used again, complete pairs of calls and results under distinct ids it accepts; where
\* one is, only calls of that id can lack a result (HardenHistory).
RequestsAreComplete == RequestsArePaired /\ ContentSurvives

\* "Every assistant tool call gets a result" (harden.go), in the request a prompt starts
\* with.  A reply that was interrupted gets none where a later one used its ids again, as
\* those do that gemini.go and openaicompat.go make up.
EveryCallGetsAResult ==
  transcript # <<>> /\ Last(transcript).role = "user" =>
    LET h == HardenHistory(transcript)
    IN  \A k \in DOMAIN h : ToSet(CallIds(h[k])) \subseteq {h[i].of : i \in k + 1 .. RoundEnd(h, k)}

\* A summary never separates a result from its call ("an orphaned pair is a
\* provider 400"): the raw transcript stays paired over any number of compactions.
SummariesKeepPairs ==
  lossy \/ \A k \in DOMAIN transcript : transcript[k].role = "tool" =>
             \E j \in 1 .. k - 1 :
               /\ transcript[k].of \in ToSet(CallIds(transcript[j]))
               /\ RoundEnd(transcript, j) >= k

\* "What was read and modified survives every compaction": each path a tool was
\* called with is in a call or in the ledger of a marker of the transcript.
LedgerIsCumulative == lossy \/ touched \subseteq Ledger(transcript)

\* A compaction, a step that does more than append, splits no round, keeps a cumulative
\* ledger of the files and makes the transcript smaller (safeSplitPoint,
\* extractFileLedger): in messages, and a summary, which has the inflation guard, in words
\* too.  The note of KeepRecentMessages can be longer than what it stands for.
Compaction == ~IsPrefix(transcript, transcript')
CompactionShrinks ==
  /\ Len(transcript') < Len(transcript)
  /\ Words(transcript') < Words(transcript) \/ CompactByWindow
CompactionIsSafe ==
  [][Compaction => SummariesKeepPairs' /\ LedgerIsCumulative' /\ CompactionShrinks]_historyVars

-----------------------------------------------------------------------------
(* What is known of a transcript at any point. *)

Messages ==
  [role : {"user", "assistant", "tool"}, calls : Seq([id : Pool, touch : Touches]), of : Pool \cup {NoId},
   says : BOOLEAN, thinks : BOOLEAN, model : Models \cup {Nothing}, words : Nat \ {0}, ledger : SUBSET Touches]

HistoryTypeOK ==
  /\ transcript \in Seq(Messages) /\ model \in Models
  /\ touched \subseteq Touches /\ lossy \in BOOLEAN

\* Result k stands after the reply it belongs to, with nothing but results between.
AfterReply(m, k) ==
  \E j \in 1 .. k - 1 :
    /\ \E i \in DOMAIN m[j].calls : m[j].calls[i].id = m[k].of
    /\ \A i \in j + 1 .. k : m[i].role = "tool"
Attached(m) == \A k \in DOMAIN m : m[k].role = "tool" => AfterReply(m, k)

\* Result k, behind the marker of the window compactor, has lost its reply.
LeftOver(m, k) ==
  /\ m[1].role = "assistant" /\ m[1].says /\ m[1].calls = <<>>
  /\ \A i \in 2 .. k : m[i].role = "tool"
Placed(m, k) == AfterReply(m, k) \/ LeftOver(m, k)

\* Results that follow one another are of different calls.
ResultsDiffer(m) ==
  \A k \in DOMAIN m : \A l \in k .. Len(m) :
    (\A i \in k .. l : m[i].role = "tool") /\ m[k].of = m[l].of => k = l

Rounds(m) ==
  /\ CallsAreDistinct(m) /\ ResultsDiffer(m)
  /\ \A k \in DOMAIN m : m[k].calls # <<>> => m[k].role = "assistant"
  /\ \A k \in DOMAIN m : m[k].role = "tool" => Placed(m, k)

HistoryInv ==
  /\ HistoryTypeOK /\ Rounds(transcript)
  /\ (lossy \/ Attached(transcript)) /\ LedgerIsCumulative
=============================================================================
