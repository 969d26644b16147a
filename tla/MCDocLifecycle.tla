---------------------------- MODULE MCDocLifecycle -----------------------------
(* Small instances of DocLifecycle.                                         *)
EXTENDS DocLifecycle, TLC

CONSTANT MaxSize   \* bound on the documents and nodes that exist at a time

Symmetry == Permutations(Docs) \cup Permutations(Elems)
Bounded ==
  Cardinality(live) + Cardinality({e \in Elems : heap.pool[e] # None}) <= MaxSize
================================================================================
