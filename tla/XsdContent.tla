----------------------------- MODULE XsdContent -----------------------------
(* The content models of XML Schema (xsd/content_model.c): the model becomes  *)
(* an automaton with empty edges, and the children move a set of live states. *)
(* n = [count, edges, over] is the automaton while it is built; an edge       *)
(* without names is empty.  open = [mode, admits] is the open content of the  *)
(* root particle.  Not modelled: wildcard and namespace grammars (a particle  *)
(* lists the names it admits), cyclic group references, allocation failures.  *)
EXTENDS ContentLanguage

CONSTANT NfaMax     \* XSD_CM_NFA_MAX

ASSUME NfaMaxAssumption == NfaMax \in Nat

NoOpen == [mode |-> "none", admits |-> {}]

EmptyNfa == [count |-> 0, edges |-> <<>>, over |-> FALSE]

\* nfa_state; the new state is the count before the call, 0 once the limit is crossed.
Fresh(n) == IF n.over THEN n
            ELSE IF n.count >= NfaMax THEN [n EXCEPT !.over = TRUE]
            ELSE [n EXCEPT !.count = @ + 1]
Id(n) == IF Fresh(n).over THEN 0 ELSE n.count

Edge(n, from, names, to) ==
  IF n.over THEN n
  ELSE IF Len(n.edges) >= NfaMax THEN [n EXCEPT !.over = TRUE]
  ELSE [n EXCEPT !.edges = Append(@, [from |-> from, names |-> names, to |-> to])]

Skip(n, from, to) == Edge(n, from, {}, to)

OpenLoop(n, open, at) == IF open.mode = "none" THEN n ELSE Edge(n, at, open.admits, at)

RECURSIVE Build(_, _, _, _, _), Occurs(_, _, _, _, _), Chain(_, _, _, _, _), Copies(_, _, _, _, _, _), Branches(_, _, _, _)

\* The parts one after the other; xs:all below the root is read in the order it is written.
Chain(n, parts, from, to, open) ==
  LET m == IF open.mode = "interleave" THEN OpenLoop(n, open, from) ELSE n
      mid == Id(m)
  IN IF Len(parts) > 1
     THEN Chain(Occurs(Fresh(m), Head(parts), from, mid, NoOpen), Tail(parts), mid, to, open)
     ELSE OpenLoop(Occurs(m, Head(parts), from, to, NoOpen), open, to)

Branches(n, parts, from, to) ==
  IF parts = <<>> THEN n ELSE Branches(Occurs(n, Head(parts), from, to, NoOpen), Tail(parts), from, to)

\* cm_build: one occurrence; the bounds of the model that a reference names are not read.
Build(n, p, from, to, open) ==
  CASE p.kind = "particle" -> Edge(n, from, p.admits, to)
    [] p.kind # "particle" /\ p.parts = <<>> -> Skip(n, from, to)
    [] p.kind \in {"seq", "all"} /\ p.parts # <<>> -> Chain(n, p.parts, from, to, open)
    [] p.kind = "ref" /\ p.parts # <<>> -> Build(n, Head(p.parts), from, to, NoOpen)
    [] p.kind = "choice" /\ p.parts # <<>> -> Branches(n, p.parts, from, to)

\* k copies one after the other, each of which can be left out when optional.
Copies(n, p, k, optional, from, open) ==
  IF k = 0 \/ n.over THEN [nfa |-> n, at |-> from, skips |-> {}]
  ELSE LET r == Build(Fresh(n), p, from, Id(n), open)
           rest == Copies(r, p, k - 1, optional, Id(n), open)
       IN [rest EXCEPT !.skips = IF optional THEN @ \cup {from} ELSE @]

\* Slip: an unbounded particle loops where it starts, without a state of its own.
OccursSlip(n, p, from, to, open) ==
  LET must == Copies(n, p, p.min, FALSE, from, open)
  IN IF p.max = Unbounded
     THEN Skip(Build(must.nfa, p, must.at, must.at, open), must.at, to)
     ELSE LET may == Copies(must.nfa, p, p.max - p.min, TRUE, must.at, open)
          IN Skip(FoldLeft(LAMBDA q, s : Skip(q, s, to), may.nfa, SetToSeq(may.skips)), may.at, to)

\* cm_build_occurrence: the required copies, then a loop or the optional copies.
Occurs(n, p, from, to, open) ==
  LET must == Copies(n, p, p.min, FALSE, from, open)
      loop == Id(must.nfa)
  IN IF n.over THEN n
     ELSE IF p.max = Unbounded
     THEN Skip(Build(Skip(Fresh(must.nfa), must.at, loop), p, loop, loop, open), loop, to)
     ELSE LET may == Copies(must.nfa, p, p.max - p.min, TRUE, must.at, open)
          IN Skip(FoldLeft(LAMBDA q, s : Skip(q, s, to), may.nfa, SetToSeq(may.skips)), may.at, to)

\* State 0 is the start of the automaton and state 1 accepts.
Nfa(p, open) == Occurs(Fresh(Fresh(EmptyNfa)), p, 0, 1, open)

-----------------------------------------------------------------------------
(* cm_bound_over: an estimate made before the automaton is built.             *)

Over == -1

RECURSIVE Bound(_)
Bound(p) ==
  LET Sum(S, i) == IF S = Over \/ S > NfaMax \/ Bound(p.parts[i]) = Over THEN Over ELSE S + Bound(p.parts[i])
      sub == CASE p.kind = "particle" -> 1
               [] p.kind = "ref" -> IF p.parts = <<>> \/ Bound(Head(p.parts)) = Over THEN 1 ELSE Bound(Head(p.parts))
               [] OTHER -> FoldLeft(Sum, 0, [i \in DOMAIN p.parts |-> i])
      copies == IF p.max = Unbounded THEN p.min + 1 ELSE p.max
  IN IF sub = Over THEN Over
     ELSE IF copies = 0 THEN 0
     ELSE IF sub * copies > NfaMax \/ sub * copies + 1 > NfaMax THEN Over
     ELSE sub * copies + 1

-----------------------------------------------------------------------------
(* The simulation.                                                            *)

RECURSIVE Close(_, _)
Close(n, live) ==
  LET more == live \cup {n.edges[i].to : i \in {i \in DOMAIN n.edges : n.edges[i].from \in live /\ n.edges[i].names = {}}}
  IN IF more = live THEN live ELSE Close(n, more)

Moved(n, live, name) ==
  Close(n, {n.edges[i].to : i \in {i \in DOMAIN n.edges : n.edges[i].from \in live /\ name \in n.edges[i].names}})

\* all_root_valid: an xs:all at the root is not built but counted.
AllRootValid(p, w) ==
  LET Count(q) == Len(SelectSeq(w, LAMBDA x : x \in q.admits))
  IN \/ w = <<>> /\ p.min = 0
     \/ /\ \A i \in DOMAIN p.parts :
             LET q == p.parts[i] IN Count(q) >= q.min /\ (q.max # Unbounded => Count(q) <= q.max)
        /\ \A k \in DOMAIN w : \E i \in DOMAIN p.parts : w[k] \in p.parts[i].admits

IsAllRoot(p) == p.kind = "all" /\ p.parts # <<>>
TooBig(p, n) == Bound(p) = Over \/ n.over

\* xsd_content_valid: -2 is no verdict but "too big".
XsdVerdict(p, n, live, w) ==
  IF IsAllRoot(p) THEN IF AllRootValid(p, w) THEN 1 ELSE 0
  ELSE IF TooBig(p, n) THEN -2
  ELSE IF 1 \in live THEN 1 ELSE 0
=============================================================================
