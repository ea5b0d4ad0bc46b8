------------------------------ MODULE Selection ------------------------------
(***************************************************************************)
(* The elements of a sequence at some of its positions, in their order: the *)
(* loops of the code that keep what passes a test.  (SelectSeq takes the    *)
(* test as an operator; taking its positions, Select is a function of data, *)
(* and what holds of it can be stated and proved once, for every test.)     *)
(***************************************************************************)
EXTENDS Naturals, Sequences

Select(s, positions) ==
  LET upTo[k \in 0 .. Len(s)] ==
        IF k = 0 THEN <<>>
        ELSE IF k \in positions THEN Append(upTo[k - 1], s[k]) ELSE upTo[k - 1]
  IN  upTo[Len(s)]
=============================================================================
