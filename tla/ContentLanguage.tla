-------------------------- MODULE ContentLanguage --------------------------
(* What a content model means: the reference the three matchers (DTD, XSD,   *)
(* RELAX NG) are held against.  A model is a tree of particles              *)
(*   [kind, admits, min, max, parts]                                         *)
(* of kind "particle" (one child, whose name is in admits), "seq", "choice", *)
(* "all" (its parts interleaved) or "ref" (a named model); it occurs min to  *)
(* max times, and Unbounded is a max without limit.  The names an element    *)
(* declaration, a wildcard or a substitution group stands for are the set    *)
(* admits.                                                                   *)
EXTENDS Integers, Sequences, SequencesExt

Unbounded == -1

Particle(S)    == [kind |-> "particle", admits |-> S, min |-> 1, max |-> 1, parts |-> <<>>]
Node(k, ps)    == [kind |-> k, admits |-> {}, min |-> 1, max |-> 1, parts |-> ps]
Times(p, m, n) == [p EXCEPT !.min = m, !.max = n]
Single(p)      == Times(p, 1, 1)

Take(w, n) == SubSeq(w, 1, n)
Drop(w, n) == SubSeq(w, n + 1, Len(w))

\* One occurrence fewer is left to find.
Less(p) == Times(p, IF p.min = 0 THEN 0 ELSE p.min - 1, IF p.max = Unbounded THEN p.max ELSE p.max - 1)

\* The subsequence of w that f gives to i.
Share(w, f, i) ==
  LET RECURSIVE Pick(_)
      Pick(k) == IF k = 0 THEN <<>> ELSE IF f[k] = i THEN Append(Pick(k - 1), w[k]) ELSE Pick(k - 1)
  IN Pick(Len(w))

RECURSIVE Once(_, _), In(_, _)

\* w is one occurrence of p.
Once(p, w) ==
  CASE p.kind = "particle" -> Len(w) = 1 /\ w[1] \in p.admits
    [] p.kind = "choice" -> \/ p.parts = <<>> /\ w = <<>>
                            \/ \E i \in DOMAIN p.parts : In(p.parts[i], w)
    [] p.kind \in {"seq", "ref"} ->
         IF p.parts = <<>> THEN w = <<>>
         ELSE \E n \in 0..Len(w) : /\ In(Head(p.parts), Take(w, n))
                                   /\ Once([p EXCEPT !.parts = Tail(@)], Drop(w, n))
    [] p.kind = "all" ->
         \E f \in [DOMAIN w -> DOMAIN p.parts] :
           \A i \in DOMAIN p.parts : In(p.parts[i], Share(w, f, i))

\* w is as many occurrences of p as its bounds allow.
In(p, w) ==
  \/ p.min = 0 /\ w = <<>>
  \/ p.max # 0 /\ \E n \in 0..Len(w) : /\ n > 0 \/ p.min > 0
                                       /\ Once(p, Take(w, n))
                                       /\ In(Less(p), Drop(w, n))

-----------------------------------------------------------------------------
(* Deterministic models: the next name says which particle it belongs to.    *)

Nullable(p) == In(p, <<>>)

RECURSIVE First(_), Then(_)

\* Part i is followed directly by part j in some word.
Skips(ps, i, j) == \A k \in (i + 1)..(j - 1) : Nullable(ps[k])

First(p) ==
  CASE p.kind = "particle" -> p.admits
    [] p.kind \in {"choice", "all"} -> UNION {First(p.parts[i]) : i \in DOMAIN p.parts}
    [] p.kind \in {"seq", "ref"} -> UNION {First(p.parts[j]) : j \in {j \in DOMAIN p.parts : Skips(p.parts, 0, j)}}

\* The names that can go on with a word of p that is already complete.
Then(p) ==
  (IF p.max = 1 THEN {} ELSE First(p)) \cup
  (CASE p.kind = "particle" -> {}
     [] p.kind = "choice" -> UNION {Then(p.parts[i]) : i \in DOMAIN p.parts}
     [] p.kind = "all" -> UNION {Then(p.parts[i]) \cup First(p.parts[i]) : i \in DOMAIN p.parts}
     [] p.kind \in {"seq", "ref"} ->
          LET last == Len(p.parts)
          IN UNION {Then(p.parts[j]) \cup (IF Nullable(p.parts[j]) THEN First(p.parts[j]) ELSE {}) :
                      j \in {j \in DOMAIN p.parts : Skips(p.parts, j, last + 1)}})

RECURSIVE Deterministic(_)
Deterministic(p) ==
  /\ \A i \in DOMAIN p.parts : Deterministic(p.parts[i])
  /\ p.max # 1 => Then(Single(p)) \cap First(p) = {}
  /\ \A i, j \in DOMAIN p.parts :
       i < j => CASE p.kind \in {"choice", "all"} -> First(p.parts[i]) \cap First(p.parts[j]) = {}
                  [] OTHER -> Skips(p.parts, i, j) =>
                                (Then(p.parts[i]) \cup (IF Nullable(p.parts[i]) THEN First(p.parts[i]) ELSE {}))
                                  \cap First(p.parts[j]) = {}
=============================================================================
