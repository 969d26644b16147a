----------------------------- MODULE RngContent -----------------------------
(* The content of an element in RELAX NG (rng/validate.c): a greedy matcher   *)
(* gives the verdict, and when it is no, a walk by derivatives lists what is  *)
(* wrong.  A wrapper (optional, zeroOrMore, oneOrMore) is a particle or node  *)
(* with its bounds, a "seq" when it has several children; a group is a "seq"  *)
(* that occurs once, an interleave an "all", a reference a "ref".             *)
(* Not modelled: attributes, text, the content of the children, the wording   *)
(* of the list, recursive definitions.                                        *)
EXTENDS ContentLanguage

CONSTANT KidCap     \* the 64 children that elem_children collects

ASSUME KidCapAssumption == KidCap \in Nat \ {0}

None == -1          \* (size_t)-1

Wrapper(p) == p.min = 0 \/ p.max # 1

\* The pattern that a wrapper repeats: of several children, the first.
Wrapped(p) == IF p.kind = "seq" THEN Head(p.parts) ELSE Single(p)

Kids(w) == Take(w, IF Len(w) < KidCap THEN Len(w) ELSE KidCap)

RECURSIVE Match(_, _, _), MatchList(_, _, _), Repeat(_, _, _), Turns(_, _, _, _)

\* The parts of a group one after the other.
MatchList(ps, w, i) ==
  IF i = None \/ ps = <<>> THEN i ELSE MatchList(Tail(ps), w, Match(Head(ps), w, i))

Repeat(p, w, i) ==
  LET r == Match(p, w, i) IN IF r = None \/ r = i THEN i ELSE Repeat(p, w, r)

\* Slip: every branch has one turn only.
TurnsSlip(ps, w, i, used) ==
  LET Turn(s, b) == LET r == IF b \in s.used THEN None ELSE Match(ps[b], w, s.at)
                    IN IF r > s.at THEN [at |-> r, used |-> s.used \cup {b}] ELSE s
  IN FoldLeft(Turn, [at |-> i, used |-> used], [b \in DOMAIN ps |-> b])

\* One branch after the other takes children as long as any of them does, each once.
Turns(ps, w, i, used) ==
  LET Turn(s, b) == LET r == IF b \in s.used THEN None ELSE Match(ps[b], w, s.at)
                    IN IF r > s.at THEN [at |-> r, used |-> s.used \cup {b}] ELSE s
      pass == FoldLeft(Turn, [at |-> i, used |-> used], [b \in DOMAIN ps |-> b])
  IN IF pass.used = used THEN pass ELSE Turns(ps, w, pass.at, pass.used)

\* match_seq: the index after what p takes of the children from i on.
Match(p, w, i) ==
  LET inner == Match(Wrapped(p), w, i)
      ends == [b \in DOMAIN p.parts |-> Match(p.parts[b], w, i)]
      takes == SelectSeq(ends, LAMBDA r : r > i)
      last == Turns(p.parts, w, i, {})
  IN CASE Wrapper(p) /\ inner = None -> IF p.min = 1 THEN None ELSE i
       [] Wrapper(p) /\ inner # None -> IF p.max = 1 THEN inner ELSE Repeat(Wrapped(p), w, inner)
       [] ~Wrapper(p) /\ p.kind = "particle" -> IF i < Len(w) /\ w[i + 1] \in p.admits THEN i + 1 ELSE None
       [] ~Wrapper(p) /\ p.kind \in {"seq", "ref"} -> MatchList(p.parts, w, i)
       [] ~Wrapper(p) /\ p.kind = "choice" ->
            IF takes # <<>> THEN Head(takes) ELSE IF i \in Range(ends) THEN i ELSE None
       [] ~Wrapper(p) /\ p.kind = "all" ->
            IF \A b \in DOMAIN p.parts \ last.used : Match(p.parts[b], w, last.at) = last.at
            THEN last.at ELSE None

\* fold_list: the patterns of an element; only a choice among them is tried again.
RECURSIVE FoldList(_, _, _)
FoldList(ps, w, i) ==
  IF ps = <<>> THEN i = Len(w)
  ELSE LET p == Head(ps)
       IN IF p.kind = "choice" /\ ~Wrapper(p)
          THEN \E b \in DOMAIN p.parts : /\ Match(p.parts[b], w, i) # None
                                         /\ FoldList(Tail(ps), w, Match(p.parts[b], w, i))
          ELSE Match(p, w, i) # None /\ FoldList(Tail(ps), w, Match(p, w, i))

\* element_ok, for the content model of an element: the list of its patterns.
RngValid(ps, w) == FoldList(ps, Kids(w), 0)

-----------------------------------------------------------------------------
(* The walk that lists the errors.  Its state is the patterns that are left.  *)

RECURSIVE NullableItem(_), Derive(_, _), Named(_)

\* deref: of the members of a definition, the first.
Deref(p) == IF p.kind = "ref" /\ ~Wrapper(p) THEN Head(p.parts) ELSE p

NullableItem(q) ==
  LET p == Deref(q)
  IN \/ p.min = 0
     \/ Wrapper(p) /\ NullableItem(Wrapped(p))
     \/ ~Wrapper(p) /\ p.kind = "choice" /\ \E i \in DOMAIN p.parts : NullableItem(p.parts[i])
     \/ ~Wrapper(p) /\ p.kind \in {"all", "seq"} /\ \A i \in DOMAIN p.parts : NullableItem(p.parts[i])

Stuck == [ok |-> FALSE, left |-> <<>>]
Taken(left) == [ok |-> TRUE, left |-> left]

\* What is left of one pattern when it takes x: of a choice, nothing; of an interleave, the
\* other branches; a repeat stays.
DeriveItem(q, x) ==
  LET p == Deref(q)
      group == Derive(p.parts, x)
      can == {i \in DOMAIN p.parts : Derive(<<p.parts[i]>>, x).ok}
      others == RemoveAt(p.parts, CHOOSE i \in can : \A j \in can : i <= j)
      Rest(ps) == Taken(IF ps = <<>> THEN <<>> ELSE <<[p EXCEPT !.parts = ps]>>)
  IN CASE Wrapper(p) -> IF ~Derive(<<Wrapped(p)>>, x).ok THEN Stuck
                        ELSE Taken(IF p.max = 1 THEN <<>> ELSE <<[p EXCEPT !.min = 0]>>)
       [] ~Wrapper(p) /\ p.kind = "particle" -> IF x \in p.admits THEN Taken(<<>>) ELSE Stuck
       [] ~Wrapper(p) /\ p.kind = "choice" -> IF can = {} THEN Stuck ELSE Taken(<<>>)
       [] ~Wrapper(p) /\ p.kind = "seq" -> IF group.ok THEN Rest(group.left) ELSE Stuck
       [] ~Wrapper(p) /\ p.kind = "all" -> IF can = {} THEN Stuck ELSE Rest(others)

\* Slip: a pattern that cannot be left out is passed over.
DeriveSlip(state, x) ==
  IF state = <<>> THEN Stuck
  ELSE LET r == DeriveItem(Head(state), x)
       IN IF r.ok THEN Taken(r.left \o Tail(state)) ELSE Derive(Tail(state), x)

\* d_state: the first pattern that takes x; those before it can be empty.
Derive(state, x) ==
  IF state = <<>> THEN Stuck
  ELSE LET r == DeriveItem(Head(state), x)
       IN IF r.ok THEN Taken(r.left \o Tail(state))
          ELSE IF NullableItem(Head(state)) THEN Derive(Tail(state), x)
          ELSE Stuck

\* cell_push: groups and references are laid out flat.
RECURSIVE Cells(_)
Cells(ps) ==
  IF ps = <<>> THEN <<>>
  ELSE LET p == Head(ps)
       IN (IF p.kind \in {"seq", "ref"} /\ ~Wrapper(p) THEN Cells(p.parts) ELSE <<p>>) \o Cells(Tail(ps))

\* first_names_item: the names a pattern mentions, in their order.
Named(q) ==
  LET p == Deref(q)
  IN IF p.kind = "particle" THEN SetToSeq(p.admits) ELSE FlattenSeq([i \in DOMAIN p.parts |-> Named(p.parts[i])])

\* first_required_name of what is left: the first name of the first pattern that is not nullable.
Required(state) ==
  LET at == {j \in DOMAIN state : ~NullableItem(state[j])}
      names == Named(state[CHOOSE j \in at : \A k \in at : j <= k])
  IN IF at = {} \/ names = <<>> THEN {} ELSE {Head(names)}

\* A child that comes later is taken with a row for what is missing; another one is left out.
Recover(state, x) ==
  LET at == {k \in DOMAIN state : Derive(Drop(state, k - 1), x).ok}
      k == CHOOSE k \in at : \A j \in at : k <= j
  IN IF at # {} /\ \E j \in 1..k : Required(Drop(state, j - 1)) \ {x} # {}
     THEN Derive(Drop(state, k - 1), x).left ELSE state

RECURSIVE Rows(_, _)
Rows(state, w) ==
  IF w = <<>> THEN IF \A i \in DOMAIN state : NullableItem(state[i]) THEN 0 ELSE 1
  ELSE LET r == Derive(state, Head(w))
       IN IF r.ok THEN Rows(r.left, Tail(w)) ELSE 1 + Rows(Recover(state, Head(w)), Tail(w))

\* diagnose_element: how many rows the walk adds for the children.
Diagnosed(ps, w) == Rows(Cells(ps), Kids(w))
=============================================================================
