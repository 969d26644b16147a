---------------------------- MODULE MCXPathAstCache ----------------------------
(* Small instances of XPathAstCache.  Expressions are e1, e2, e3; with two  *)
(* slots e1 and e2 share a home slot, so that probing and eviction meet.    *)
EXTENDS XPathAstCache, TLC

CONSTANTS e1, e2, e3

OneHome == [e \in Exprs |-> 0]
TwoHomes == [e \in Exprs |-> IF e = e3 THEN 1 ELSE 0]

Symmetry == Permutations(Threads) \cup Permutations(Asts)
              \cup Permutations(Bcs) \cup Permutations(Handles)
================================================================================
