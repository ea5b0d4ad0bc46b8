----------------------------- MODULE EditLadder -----------------------------
(***************************************************************************)
(* edit_file (tools/fs/edit.go, match.go): where old_string is found in a    *)
(* file, by comparisons that forgive more and more, what is put there, and   *)
(* the line endings of the file that is written.                            *)
(*                                                                         *)
(* A line is its indentation, a text nothing has to look into, whether the   *)
(* text has typographic punctuation, its trailing blanks and, in the file,   *)
(* its line ending. A newline that ends old_string and a byte order mark are *)
(* left out.                                                               *)
(***************************************************************************)
EXTENDS Integers, Sequences, SequencesExt, FiniteSets

CONSTANTS
  Files,    \* files, as sequences of lines
  Needles,  \* old_string, as sequences of lines
  News      \* new_string, as sequences of lines

ArgLine  == [ind : Seq(STRING), txt : STRING, fancy : BOOLEAN, pad : Nat]
FileLine == [ind : Seq(STRING), txt : STRING, fancy : BOOLEAN, pad : Nat, eol : {"lf", "crlf"}]

ASSUME LadderAssumption ==
  Files \subseteq Seq(FileLine) /\ Needles \subseteq Seq(ArgLine) \ {<<>>} /\ News \subseteq Seq(ArgLine)

VARIABLES
  file,    \* the file before the edit
  needle, new, all,  \* the arguments: old_string, new_string, replace_all
  escaped, \* old_string and new_string came with \n for a newline
  result   \* [status, strategy, at, unescaped, text]

ladderVars == <<file, needle, new, all, escaped, result>>

NoText == ""  \* what a blank line says
NotRun == [status |-> "none"]
LadderInit ==
  /\ file \in Files /\ needle \in Needles /\ new \in News /\ needle # new
  /\ all \in BOOLEAN /\ escaped \in {FALSE, Len(needle) > 1}
  /\ result = NotRun

Bare(l) == [ind |-> l.ind, txt |-> l.txt, fancy |-> l.fancy, pad |-> l.pad]
BareLines == [i \in 1 .. Len(file) |-> Bare(file[i])]

-----------------------------------------------------------------------------
(* Comparisons of a line of the file with one of old_string. *)

LineEqRStrip(l, o) ==
  /\ l.txt = o.txt /\ l.fancy = o.fancy
  /\ l.txt = NoText \/ l.ind = o.ind  \* a blank line has nothing but trailing blanks
LineEqTrim(l, o) == l.txt = o.txt /\ l.fancy = o.fancy
LineEqFold(l, o) == l.txt = o.txt

\* exactSpans: the first line may be matched from inside its indentation on, the
\* last one up to inside its trailing blanks.
LineEqExact(l, o, isFirst, isLast) ==
  /\ l.txt = o.txt /\ l.fancy = o.fancy
  /\ IF isFirst THEN IsSuffix(o.ind, l.ind) ELSE l.ind = o.ind
  /\ IF isLast THEN o.pad <= l.pad ELSE o.pad = l.pad

\* From the top, the places that no place taken before overlaps.
Windows(places) ==
  LET upTo[k \in 0 .. Len(file)] ==
        IF k = 0 THEN <<>>
        ELSE IF k \in places /\ (upTo[k - 1] = <<>> \/ Last(upTo[k - 1]) + Len(needle) <= k)
               THEN Append(upTo[k - 1], k)
             ELSE upTo[k - 1]
  IN  upTo[Len(file)]

\* Where old_string fits into the file, and where each of its lines is there.
Starts == 1 .. Len(file) - Len(needle) + 1
LinePlaces(lines, Eq(_, _)) == {i \in Starts : \A j \in 1 .. Len(needle) : Eq(lines[i + j - 1], needle[j])}
ExactPlaces(lines) ==
  {i \in Starts : \A j \in 1 .. Len(needle) : LineEqExact(lines[i + j - 1], needle[j], j = 1, j = Len(needle))}
\* foldedFragmentSpans: one line, anywhere in a line of the file.
FragmentPlaces(lines) ==
  {i \in Starts : /\ lines[i].txt = needle[1].txt /\ IsSuffix(needle[1].ind, lines[i].ind)
                  /\ needle[1].pad <= lines[i].pad}
\* blockAnchorSpans: only the ends of at least three lines are compared.
AnchorPlaces(lines) ==
  LET n == Len(needle)
  IN  {i \in Starts : /\ n >= 3 /\ needle[1].txt # NoText /\ needle[n].txt # NoText
                      /\ LineEqTrim(lines[i], needle[1]) /\ LineEqTrim(lines[i + n - 1], needle[n])}

\* Mutant: whitespace is forgiven before the exact places are looked for.
StagesForgiving == <<"whitespace-tolerant", "exact", "indentation-tolerant", "punctuation-tolerant", "block-anchor">>
Stages == <<"exact", "whitespace-tolerant", "indentation-tolerant", "punctuation-tolerant", "block-anchor">>
Matching(stage, lines) ==
  CASE stage = "exact"                -> ExactPlaces(lines)
    [] stage = "whitespace-tolerant"  -> LinePlaces(lines, LineEqRStrip)
    [] stage = "indentation-tolerant" -> LinePlaces(lines, LineEqTrim)
    [] stage = "punctuation-tolerant" ->
         IF Len(needle) = 1 THEN FragmentPlaces(lines) ELSE LinePlaces(lines, LineEqFold)
    [] stage = "block-anchor"         -> AnchorPlaces(lines)
Found(stage, lines) == Windows(Matching(stage, lines))

-----------------------------------------------------------------------------
(* What replaces a window. *)

Reindents(stage) ==
  stage \in {"indentation-tolerant", "block-anchor"} \/ (stage = "punctuation-tolerant" /\ Len(needle) > 1)
\* A fragment of the first and the last line of the window may stay.
KeepsEnds(stage) == stage = "exact" \/ (stage = "punctuation-tolerant" /\ Len(needle) = 1)

\* reindentRenderer: an indentation of old_string stands for that of the first
\* line of the file it was paired with. Blank lines of old_string do not count.
Pairs(lines, at) ==
  {p \in 1 .. Len(needle) :
     /\ needle[p].txt # NoText
     /\ \A q \in 1 .. p - 1 : needle[q].txt # NoText => needle[q].ind # needle[p].ind}
\* The longest indentation of old_string that the line starts with; the empty one
\* is only for a line without any.
Longest(pairs, ind) ==
  {p \in pairs :
     /\ IsPrefix(needle[p].ind, ind) /\ (needle[p].ind = <<>> => ind = <<>>)
     /\ \A q \in pairs : IsPrefix(needle[q].ind, ind) => Len(needle[q].ind) <= Len(needle[p].ind)}
Reindent(lines, at, l) ==
  LET pairs == Pairs(lines, at)
      best  == Longest(pairs, l.ind)
  IN  IF (l.txt = NoText /\ l.ind = <<>> /\ l.pad = 0) \/ best = {} THEN l
      ELSE LET p == CHOOSE p \in best : TRUE
           IN  [l EXCEPT !.ind = lines[at + p - 1].ind \o SubSeq(l.ind, Len(needle[p].ind) + 1, Len(l.ind))]

Render(stage, lines, at) ==
  IF Reindents(stage) THEN [i \in 1 .. Len(new) |-> Reindent(lines, at, new[i])]
  ELSE IF ~KeepsEnds(stage) THEN new
  ELSE LET kept == SubSeq(lines[at].ind, 1, Len(lines[at].ind) - Len(needle[1].ind))
           rest == lines[at + Len(needle) - 1].pad - needle[Len(needle)].pad
       IN  [i \in 1 .. Len(new) |->
              [new[i] EXCEPT !.ind = IF i = 1 THEN kept \o @ ELSE @,
                             !.pad = IF i = Len(new) THEN @ + rest ELSE @]]

\* replaceSpans.
Replaced(stage, lines, windows) ==
  LET upTo[k \in 0 .. Len(windows)] ==
        IF k = 0 THEN <<>>
        ELSE upTo[k - 1]
             \o SubSeq(lines, IF k = 1 THEN 1 ELSE windows[k - 1] + Len(needle), windows[k] - 1)
             \o Render(stage, lines, windows[k])
  IN  upTo[Len(windows)] \o SubSeq(lines, windows[Len(windows)] + Len(needle), Len(lines))

-----------------------------------------------------------------------------
(* editFile. *)

\* The file has CRLF line endings if one of its lines has.
HadCRLF == \E i \in 1 .. Len(file) : file[i].eol = "crlf"
WithEndings(lines) ==
  [i \in 1 .. Len(lines) |-> [ind |-> lines[i].ind, txt |-> lines[i].txt, fancy |-> lines[i].fancy,
                              pad |-> lines[i].pad, eol |-> IF HadCRLF THEN "crlf" ELSE "lf"]]

\* Which windows are acceptable in a stage that has some.
Decides(windows) == Len(windows) = 1 \/ all

\* ladderOnce, and once more unescaped when several lines came as one: the first
\* try finds nothing then, for no line of a file here has a backslash.
Edit ==
  /\ result = NotRun
  /\ LET lines == BareLines
         hits  == {s \in 1 .. Len(Stages) : Found(Stages[s], lines) # <<>>}
         first == CHOOSE s \in hits : \A t \in hits : s <= t
         found == Found(Stages[first], lines)
     IN  result' =
           IF hits = {} THEN [status |-> "not found"]
           ELSE IF ~Decides(found) THEN [status |-> "ambiguous"]
           ELSE [status |-> "edited", strategy |-> Stages[first], at |-> found,
                 unescaped |-> escaped,
                 text |-> WithEndings(Replaced(Stages[first], lines, found))]
  /\ UNCHANGED <<file, needle, new, all, escaped>>

LadderNext == Edit
LadderSpec == LadderInit /\ [][LadderNext]_ladderVars

-----------------------------------------------------------------------------
(* Properties. *)

Places == ExactPlaces(BareLines)
Uniform == \A i, j \in 1 .. Len(file) : file[i].eol = file[j].eol

\* The file holds old_string d deeper: every line the same indentation more.
Deeper(d) ==
  \A k \in 1 .. Len(result.at), j \in 1 .. Len(needle) :
    LET l == file[result.at[k] + j - 1]
    IN  l.txt = needle[j].txt /\ (l.txt # NoText => l.ind = d \o needle[j].ind)
\* new_string with the same put before its lines.
Indented(d) == [i \in 1 .. Len(new) |-> IF new[i].txt = NoText THEN new[i] ELSE [new[i] EXCEPT !.ind = d \o @]]
Written == LET k == result.at[1] IN [i \in 1 .. Len(new) |-> Bare(result.text[k + i - 1])]

\* match.go:336-341 says the substitution preserves relative indentation: a block
\* found d deeper than it was quoted is replaced by new_string d deeper.
RelativeIndentKept ==
  result.status = "edited" /\ result.strategy = "indentation-tolerant" =>
    \A d \in {file[i].ind : i \in 1 .. Len(file)} : Deeper(d) => Written = Indented(d)

\* That holds for the lines of new_string as deep as some line of old_string.
KnownIndentKept ==
  result.status = "edited" /\ result.strategy = "indentation-tolerant" =>
    \A d \in {file[i].ind : i \in 1 .. Len(file)} : Deeper(d) =>
      \A i \in 1 .. Len(new) :
        (\E j \in 1 .. Len(needle) : needle[j].txt # NoText /\ needle[j].ind = new[i].ind /\ new[i].txt # NoText)
          => Written[i] = Indented(d)[i]

\* An edit that is reported was made in one place unless all were asked for, in a
\* place quoted exactly if there is one, and the lines outside the places stay as
\* they were, line endings included if the file has one kind (applyLadderEdit,
\* editFile).
InItsPlace ==
  result.status = "edited" =>
    LET at    == result.at
        last  == at[Len(at)] + Len(needle)
        shift == Len(result.text) - Len(file)
        apart == \E i, j \in Places : i + Len(needle) <= j
    IN  /\ ~all => Len(at) = 1 /\ ~apart
        /\ Places # {} => \A k \in 1 .. Len(at) : at[k] \in Places
        /\ shift = Len(at) * (Len(new) - Len(needle))
        /\ Uniform =>
             /\ SubSeq(result.text, 1, at[1] - 1) = SubSeq(file, 1, at[1] - 1)
             /\ SubSeq(result.text, last + shift, Len(result.text)) = SubSeq(file, last, Len(file))
             /\ \A i \in 1 .. Len(result.text) : result.text[i].eol = file[1].eol

\* An edit changes the places its strategy found and no others, and the indentation it
\* writes is that of the file (applyLadderEdit, reindentRenderer).
EditsAreSound == InItsPlace /\ KnownIndentKept
=============================================================================
