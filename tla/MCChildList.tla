------------------------------ MODULE MCChildList ------------------------------
(* Small instances of ChildList: elements share one cache entry or have two *)
(* between them, as colliding and as distinct addresses do.  The functions  *)
(* that keep the tail cache up to date are not mixed with those that do not *)
(* (see StaleTail).                                                         *)
EXTENDS ChildList, TLC

CONSTANT e1

TwoSlots == [p \in Elems |-> IF p = e1 THEN 0 ELSE 1]

Appends == {"append", "unlink", "remove", "remove_all"}
Inserts == {"prepend", "before", "after", "unlink", "remove", "remove_all"}
ChainInserts == {"prepend", "before", "after", "detached", "unlink"}
Apart == {Appends, Inserts, ChainInserts}
StaleTail == {{"append", "after"}}
(* Chains are explored over elements only.                                 *)
ElementChains ==
  Chains => \A t \in Texts : /\ dom.parent[t] = None /\ dom.next[t] = None
                             /\ \A n \in Nodes : dom.next[n] # t
Symmetry == Permutations(Texts)
================================================================================
