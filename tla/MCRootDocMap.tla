---- MODULE MCRootDocMap ----
EXTENDS RootDocMap, TLC
CONSTANTS r1, r2, r3
TwoBuckets == [r \in Roots |-> IF r = r3 THEN 1 ELSE 0]
Symmetry == Permutations(Threads) \cup Permutations(Docs) \cup Permutations(Entries)
\* While the third address is in use one thread has all the documents.
OneForThird ==
  pool[r3] # None => \E t \in Threads : \A d \in Docs : users[d] \subseteq {t}
\* Only whether a memo is of the current generation matters, not the number; and what
\* is left in a spare entry is overwritten before it is read.
Fresh == <<buckets, chains, docs, call,
           [e \in Entries |-> IF e \in spare THEN None ELSE entry[e]],
           [t \in Threads |-> [root |-> memo[t].root, doc |-> memo[t].doc, now |-> memo[t].gen = gen]]>>
====
