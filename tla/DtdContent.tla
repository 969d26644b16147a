----------------------------- MODULE DtdContent -----------------------------
(* The matcher of DTD content models (dtd/content_check.c).  A model is its   *)
(* tokens, w the names of the children; s = [pos, idx] is the lexer and the   *)
(* child it has come to, and Fail the failure of a match (whose lexer nobody  *)
(* reads: every caller goes back to a position of its own).                   *)
EXTENDS ContentLanguage

Marks == {"?", "*", "+"}
Punct == {"(", ")", ",", "|"} \cup Marks
Fail  == [pos |-> 0, idx |-> 0]

At(m, pos) == IF pos \in DOMAIN m THEN m[pos] ELSE "end"

\* The occurrence mark at pos, "1" when there is none, and the place after it.
Mark(m, pos) == IF At(m, pos) \in Marks THEN At(m, pos) ELSE "1"
Past(m, pos) == IF At(m, pos) \in Marks THEN pos + 1 ELSE pos

\* Slip: the loop over a name does not stop after one child for "?".
HitsSlip(w, idx, name, mark) ==
  LET run == {n \in 0..(Len(w) - idx) : \A k \in 1..n : w[idx + k] = name}
      max == CHOOSE n \in run : n + 1 \notin run
  IN IF mark = "1" /\ max > 1 THEN 1 ELSE max

\* Children from idx on with the name, as many as the mark lets the loop take.
Hits(w, idx, name, mark) ==
  LET run == {n \in 0..(Len(w) - idx) : \A k \in 1..n : w[idx + k] = name}
      max == CHOOSE n \in run : n + 1 \notin run
  IN IF mark \in {"1", "?"} /\ max > 1 THEN 1 ELSE max

NameTerm(m, w, s) ==
  LET mark == Mark(m, s.pos + 1)
      n == Hits(w, s.idx, At(m, s.pos), mark)
  IN IF n = 0 /\ mark \in {"1", "+"} THEN Fail
     ELSE [pos |-> Past(m, s.pos + 1), idx |-> s.idx + n]

\* Slip: the bar of a nested group is taken for the next alternative.
SkipAlternativeSlip(m, pos, depth) ==
  LET to == {k \in pos..(Len(m) + 1) : At(m, k) \in {")", "|", "end"}}
  IN CHOOSE k \in to : \A j \in to : k <= j

\* cm_skip_alternative: the next '|' or ')' at the depth of pos.
RECURSIVE SkipAlternative(_, _, _)
SkipAlternative(m, pos, depth) ==
  LET c == At(m, pos)
  IN IF c = "end" \/ (depth = 0 /\ c \in {")", "|"}) THEN pos
     ELSE SkipAlternative(m, pos + 1, depth + (CASE c = "(" -> 1 [] c = ")" -> -1 [] OTHER -> 0))

RECURSIVE SkipRest(_, _)
SkipRest(m, pos) == IF At(m, pos) = "|" THEN SkipRest(m, SkipAlternative(m, pos + 1, 0)) ELSE pos

RECURSIVE Expr(_, _, _), SequenceFrom(_, _, _), Again(_, _, _, _)

\* One instance of the group that opens at `open'.
GroupOnce(m, w, open, idx) ==
  LET s == Expr(m, w, [pos |-> open + 1, idx |-> idx])
  IN IF s = Fail \/ At(m, s.pos) # ")" THEN Fail ELSE [s EXCEPT !.pos = @ + 1]

\* More instances while they match and take children; a further instance leaves the
\* lexer on the mark that the first one had read past.
Again(m, w, open, s) ==
  LET r == GroupOnce(m, w, open, s.idx)
  IN IF r = Fail THEN s ELSE IF r.idx = s.idx THEN r ELSE Again(m, w, open, r)

\* The mark of a group is only looked at when one instance has matched.
GroupTerm(m, w, s) ==
  LET one == GroupOnce(m, w, s.pos, s.idx)
      after == [one EXCEPT !.pos = Past(m, @)]
  IN IF one = Fail THEN Fail
     ELSE IF Mark(m, one.pos) \in {"1", "?"} THEN after
     ELSE Again(m, w, s.pos, after)

Term(m, w, s) ==
  IF At(m, s.pos) = "(" THEN GroupTerm(m, w, s)
  ELSE IF At(m, s.pos) \in Punct \cup {"end"} THEN Fail
  ELSE NameTerm(m, w, s)

SequenceFrom(m, w, s) ==
  LET r == Term(m, w, s)
  IN IF r = Fail \/ At(m, r.pos) # "," THEN r ELSE SequenceFrom(m, w, [r EXCEPT !.pos = @ + 1])

\* The first alternative that matches wins; a failed one is skipped from its start.
Expr(m, w, s) ==
  LET r == SequenceFrom(m, w, s)
      next == SkipAlternative(m, s.pos, 0)
  IN IF r # Fail THEN [r EXCEPT !.pos = SkipRest(m, @)]
     ELSE IF At(m, next) # "|" THEN Fail
     ELSE Expr(m, w, [s EXCEPT !.pos = next + 1])

\* leptris_content_model_match: every child has to be taken.
ModelMatch(m, w) == LET s == Expr(m, w, [pos |-> 1, idx |-> 0]) IN s # Fail /\ s.idx = Len(w)

\* The validator asks only about elements that have child elements.
DtdValid(m, w) == w # <<>> => ModelMatch(m, w)

-----------------------------------------------------------------------------
(* How a declaration writes a model down.                                     *)

Suffix(p) ==
  CASE p.min = 1 /\ p.max = 1 -> <<>>
    [] p.min = 0 /\ p.max = 1 -> <<"?">>
    [] p.min = 0 /\ p.max = Unbounded -> <<"*">>
    [] p.min = 1 /\ p.max = Unbounded -> <<"+">>

RECURSIVE Written(_)
Written(p) ==
  IF p.kind = "particle" THEN <<CHOOSE n \in p.admits : TRUE>> \o Suffix(p)
  ELSE LET bar == IF p.kind = "choice" THEN "|" ELSE ","
           RECURSIVE Parts(_)
           Parts(i) == IF i = 1 THEN Written(p.parts[1]) ELSE Parts(i - 1) \o <<bar>> \o Written(p.parts[i])
       IN <<"(">> \o Parts(Len(p.parts)) \o <<")">> \o Suffix(p)
=============================================================================
