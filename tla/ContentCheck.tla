---------------------------- MODULE ContentCheck ----------------------------
(* An element whose children are checked against its declaration: a DTD       *)
(* content model, an XSD complex type or a RELAX NG element pattern.  The     *)
(* children come one after the other; XSD moves its live states at each, the  *)
(* other two look at all of them at once.                                     *)
EXTENDS DtdContent, XsdContent, RngContent

CONSTANTS
  Names,        \* the names of elements
  Schemas,      \* the declarations: [lang, model, open]
  MaxKids       \* bound on the children

VARIABLES
  schema,       \* the declaration of the element
  kids,         \* the names of the children gathered so far
  nfa,          \* XSD: the automaton of the model
  live          \* XSD: its live states

vars == <<schema, kids, nfa, live>>

Model == schema.model
Tokens == Written(Model)

Init ==
  /\ schema \in Schemas
  /\ kids = <<>>
  /\ nfa = IF schema.lang = "xsd" THEN Nfa(Model, schema.open) ELSE EmptyNfa
  /\ live = IF schema.lang = "xsd" THEN Close(nfa, {0}) ELSE {}

NextChild(name) ==
  /\ Len(kids) < MaxKids
  /\ kids' = Append(kids, name)
  /\ live' = Moved(nfa, live, name)
  /\ UNCHANGED <<schema, nfa>>

Next == \E name \in Names : NextChild(name)

Spec == Init /\ [][Next]_vars

-----------------------------------------------------------------------------

\* What the declaration means, with the open content of XSD 1.1 around a sequence.
Meant ==
  LET K == DOMAIN kids
      Kept(S) == Share(kids, [k \in K |-> IF k \in S THEN 1 ELSE 0], 1)
      Open(S) == \A k \in S : kids[k] \in schema.open.admits
  IN CASE schema.open.mode = "none" -> In(Model, kids)
       [] schema.open.mode = "suffix" -> \E n \in 0..Len(kids) : In(Model, Take(kids, n)) /\ Open(K \ 1..n)
       [] schema.open.mode = "interleave" -> \E S \in SUBSET K : In(Model, Kept(K \ S)) /\ Open(S)

IsDtd == schema.lang = "dtd"
IsXsd == schema.lang = "xsd"
IsRng == schema.lang = "rng"

\* No group below the outermost one is repeated or can be left out, and neither can all
\* the terms of an alternative.
RECURSIVE OnceOnly(_)
OnceOnly(p) ==
  \A i \in DOMAIN p.parts :
    LET q == p.parts[i]
    IN /\ q.kind # "particle" => Single(q) = q /\ OnceOnly(q)
       /\ p.kind = "choice" => ~Nullable(q)

Plain == OnceOnly(Model) /\ Deterministic(Model)

\* The model in which the branches of an interleave come one after the other.
RECURSIVE Contiguous(_)
Contiguous(p) ==
  LET parts == [i \in DOMAIN p.parts |-> Contiguous(p.parts[i])]
      orders == SetToSeq({f \in [DOMAIN parts -> DOMAIN parts] : IsInjective(f)})
      InOrder(f) == Node("seq", [i \in DOMAIN parts |-> parts[f[i]]])
  IN IF p.kind # "all" THEN [p EXCEPT !.parts = parts]
     ELSE [p EXCEPT !.kind = "choice", !.parts = [k \in DOMAIN orders |-> InOrder(orders[k])]]

\* The DTD matcher accepts no list of children that the declaration does not allow, also
\* when a repeated group leaves the lexer on its mark (content_check.c:164-206: sequences,
\* choices and marks on a backtracking cursor).
DtdSound == IsDtd /\ kids # <<>> /\ ModelMatch(Tokens, kids) => Meant

\* It accepts every list that is allowed as long as groups occur once: a failed
\* alternative, however far it got, leaves nothing behind for the next one.
DtdPlainExact == IsDtd /\ kids # <<>> /\ Plain => (DtdValid(Tokens, kids) = Meant)

\* The verdict on a complex type is right for every list of the run's children; it is "too big" only
\* when the automaton crosses the limit, which the estimate made before never claims in vain,
\* and an automaton that was cut off never decides.
XsdExact == IsXsd =>
  XsdVerdict(Model, nfa, live, kids) = IF ~IsAllRoot(Model) /\ nfa.over THEN -2 ELSE IF Meant THEN 1 ELSE 0

\* The greedy RELAX NG matcher accepts no list of children that a deterministic pattern
\* does not allow, and every list in which the children of an interleaved branch stand
\* together, in whatever order the branches come (validate.c:443-494).  Whether branches that
\* take turns are accepted is left open: the comment there says so (444-451), but a branch
\* that has taken children is passed over from then on (463, 466).
RngContiguous == IsRng =>
  /\ RngValid(Model.parts, kids) => In(Model, kids)
  /\ In(Contiguous(Model), kids) => RngValid(Model.parts, kids)

\* Nothing but single children is repeated, chosen or interleaved.
RECURSIVE Flat(_)
Flat(p) == \A i \in DOMAIN p.parts :
  LET q == p.parts[i]
  IN IF q.kind \in {"seq", "ref"} /\ ~Wrapper(q) THEN Flat(q)
     ELSE \A k \in DOMAIN q.parts : q.parts[k].kind = "particle"

\* Verdict and explanation come from two matchers: an element that is rejected has a row in
\* the list of errors (leptris.h:1016-1017), provided no group is repeated or chosen.
RngExplained == IsRng /\ Flat(Model) /\ ~RngValid(Model.parts, kids) => Diagnosed(Model.parts, kids) > 0
=============================================================================
