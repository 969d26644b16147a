---------------------------- MODULE ChildListProofs ----------------------------
(* Theorems of ChildList, for any number of nodes and any addresses: the     *)
(* parent edges and the child lists agree, counters are exact, a cached tail *)
(* is the last child, every walk ends, and the lists implement sequences.    *)
EXTENDS ChildList, Sequences, FiniteSetTheorems, TLAPS
Lists == INSTANCE ChainsProofs

(* First edges F, next edges X and parent edges P that tell the same lists:  *)
(* said of single edges, not of walks.                                       *)
Maps(F, X, P) ==
  /\ F \in [Elems -> Nodes \cup {None}] /\ X \in [Nodes -> Nodes \cup {None}]
  /\ P \in [Nodes -> Elems \cup {None}]
Linked(F, X, P) ==
  /\ \A p \in Elems : F[p] # None => P[F[p]] = p
  /\ \A n \in Nodes : X[n] # None => P[X[n]] = P[n] /\ P[n] # None
  /\ \A n \in Nodes, p \in Elems : X[n] # None => X[n] # F[p]
  /\ \A n, m \in Nodes : X[n] = X[m] /\ X[n] # None => n = m
  /\ \A n \in Nodes : P[n] # None => F[P[n]] = n \/ \E m \in Nodes : X[m] = n
Ordered(X, pos) ==
  pos \in [Nodes -> Nat] /\ \A n \in Nodes : X[n] # None => pos[n] < pos[X[n]]

(* Edges G, Y, Q after node c has been put first below p, behind m, or taken *)
(* out, and after all children of p have been.                               *)
Fronts(F, X, P, G, Y, Q, p, c) ==
  /\ \A q \in Elems : G[q] = IF q = p THEN c ELSE F[q]
  /\ \A n \in Nodes : Y[n] = IF n = c THEN F[p] ELSE X[n]
  /\ \A n \in Nodes : Q[n] = IF n = c THEN p ELSE P[n]
Follows(F, X, P, G, Y, Q, m, c) ==
  /\ \A q \in Elems : G[q] = F[q]
  /\ \A n \in Nodes : Y[n] = IF n = c THEN X[m] ELSE IF n = m THEN c ELSE X[n]
  /\ \A n \in Nodes : Q[n] = IF n = c THEN P[m] ELSE P[n]
Leaves(F, X, P, G, Y, Q, c) ==
  /\ \A q \in Elems : G[q] = IF F[q] = c THEN X[c] ELSE F[q]
  /\ \A n \in Nodes : Y[n] = IF n = c THEN None ELSE IF X[n] = c THEN X[c] ELSE X[n]
  /\ \A n \in Nodes : Q[n] = IF n = c THEN None ELSE P[n]
Empties(F, X, P, G, Y, Q, p) ==
  /\ \A q \in Elems : G[q] = IF q = p THEN None ELSE F[q]
  /\ \A n \in Nodes : Y[n] = IF P[n] = p THEN None ELSE X[n]
  /\ \A n \in Nodes : Q[n] = IF P[n] = p THEN None ELSE P[n]

LEMMA Sorts ==
  /\ Elems \subseteq Nodes /\ None \notin Nodes /\ None \notin Elems /\ IsFiniteSet(Nodes)
BY ChildListAssumption DEF Nodes

LEMMA FrontLinks ==
  ASSUME NEW F, NEW X, NEW P, Maps(F, X, P), Linked(F, X, P), NEW G, NEW Y, NEW Q,
         NEW p \in Elems, NEW c \in Nodes, P[c] = None, X[c] = None, Fronts(F, X, P, G, Y, Q, p, c)
  PROVE  Linked(G, Y, Q)
<1>0. None \notin Nodes /\ None \notin Elems /\ Elems \subseteq Nodes
  BY Sorts
<1>1. /\ \A q \in Elems : F[q] \in Nodes \cup {None} /\ F[q] # c
      /\ \A n \in Nodes : X[n] \in Nodes \cup {None} /\ X[n] # c /\ P[n] \in Elems \cup {None}
  BY <1>0 DEF Maps, Linked
<1>2. \A q \in Elems : G[q] # None => Q[G[q]] = q
  BY <1>0, <1>1 DEF Linked, Fronts
<1>3. \A n \in Nodes : Y[n] # None => Q[Y[n]] = Q[n] /\ Q[n] # None
  BY <1>0, <1>1 DEF Linked, Fronts
<1>4. \A n \in Nodes, q \in Elems : Y[n] # None => Y[n] # G[q]
  BY <1>0, <1>1 DEF Linked, Fronts
<1>5. \A n, m \in Nodes : Y[n] = Y[m] /\ Y[n] # None => n = m
  BY <1>0, <1>1 DEF Linked, Fronts
<1>6. ASSUME NEW n \in Nodes, Q[n] # None PROVE G[Q[n]] = n \/ \E m \in Nodes : Y[m] = n
  <2>1. CASE n = c
    BY <2>1 DEF Fronts
  <2>2. CASE n # c /\ F[P[n]] = n
    BY <1>0, <1>1, <1>6, <2>2 DEF Fronts
  <2>3. CASE n # c /\ \E m \in Nodes : X[m] = n
    BY <1>0, <1>1, <2>3 DEF Fronts
  <2>4. n # c => P[n] # None
    BY <1>6 DEF Fronts
  <2> QED
    BY <2>1, <2>2, <2>3, <2>4 DEF Linked
<1> QED
  BY <1>2, <1>3, <1>4, <1>5, <1>6 DEF Linked

LEMMA FollowLinks ==
  ASSUME NEW F, NEW X, NEW P, Maps(F, X, P), Linked(F, X, P), NEW G, NEW Y, NEW Q,
         NEW m \in Nodes, NEW c \in Nodes, P[c] = None, X[c] = None, P[m] # None,
         Follows(F, X, P, G, Y, Q, m, c)
  PROVE  Linked(G, Y, Q)
<1>0. None \notin Nodes /\ None \notin Elems /\ Elems \subseteq Nodes /\ m # c
  BY Sorts
<1>1. /\ \A q \in Elems : F[q] \in Nodes \cup {None} /\ F[q] # c
      /\ \A n \in Nodes : X[n] \in Nodes \cup {None} /\ X[n] # c /\ P[n] \in Elems \cup {None}
  BY <1>0 DEF Maps, Linked
<1>2. \A q \in Elems : G[q] # None => Q[G[q]] = q
  BY <1>0, <1>1 DEF Linked, Follows
<1>3. \A n \in Nodes : Y[n] # None => Q[Y[n]] = Q[n] /\ Q[n] # None
  BY <1>0, <1>1 DEF Linked, Follows
<1>4. \A n \in Nodes, q \in Elems : Y[n] # None => Y[n] # G[q]
  BY <1>0, <1>1 DEF Linked, Follows
<1>5. \A n, k \in Nodes : Y[n] = Y[k] /\ Y[n] # None => n = k
  BY <1>0, <1>1 DEF Linked, Follows
<1>6. ASSUME NEW n \in Nodes, Q[n] # None PROVE G[Q[n]] = n \/ \E k \in Nodes : Y[k] = n
  <2>1. CASE n = c
    BY <1>0, <2>1 DEF Follows
  <2>2. CASE n # c /\ F[P[n]] = n
    BY <1>0, <1>1, <1>6, <2>2 DEF Follows
  <2>3. ASSUME n # c, NEW k \in Nodes, X[k] = n PROVE \E j \in Nodes : Y[j] = n
    <3>1. k # c
      BY <1>0, <2>3
    <3>2. CASE k = m
      BY <2>3, <3>2 DEF Follows
    <3>3. CASE k # m
      BY <2>3, <3>1, <3>3 DEF Follows
    <3> QED
      BY <3>2, <3>3
  <2>4. n # c => P[n] # None
    BY <1>6 DEF Follows
  <2> QED
    BY <2>1, <2>2, <2>3, <2>4 DEF Linked
<1> QED
  BY <1>2, <1>3, <1>4, <1>5, <1>6 DEF Linked

LEMMA LeaveLinks ==
  ASSUME NEW F, NEW X, NEW P, Maps(F, X, P), Linked(F, X, P), NEW G, NEW Y, NEW Q,
         NEW c \in Nodes, X[c] # c, Leaves(F, X, P, G, Y, Q, c)
  PROVE  Linked(G, Y, Q)
<1>0. None \notin Nodes /\ None \notin Elems /\ Elems \subseteq Nodes
  BY Sorts
<1>1. /\ \A q \in Elems : F[q] \in Nodes \cup {None}
      /\ \A n \in Nodes : X[n] \in Nodes \cup {None} /\ P[n] \in Elems \cup {None}
  BY DEF Maps
<1>2. \A q \in Elems : G[q] # None => Q[G[q]] = q
  BY <1>0, <1>1 DEF Linked, Leaves
<1>3. \A n \in Nodes : Y[n] # None => Q[Y[n]] = Q[n] /\ Q[n] # None
  BY <1>0, <1>1 DEF Linked, Leaves
<1>4. \A n \in Nodes, q \in Elems : Y[n] # None => Y[n] # G[q]
  BY <1>0, <1>1 DEF Linked, Leaves
<1>5. \A n, k \in Nodes : Y[n] = Y[k] /\ Y[n] # None => n = k
  BY <1>0, <1>1 DEF Linked, Leaves
<1>6. ASSUME NEW n \in Nodes, Q[n] # None PROVE G[Q[n]] = n \/ \E k \in Nodes : Y[k] = n
  <2>1. n # c /\ P[n] # None /\ Q[n] = P[n] /\ P[n] \in Elems
    BY <1>1, <1>6 DEF Leaves
  <2>2. CASE F[P[n]] = n
    BY <2>1, <2>2 DEF Leaves
  <2>3. ASSUME NEW k \in Nodes, X[k] = n PROVE G[Q[n]] = n \/ \E j \in Nodes : Y[j] = n
    <3>1. CASE k # c
      BY <2>1, <2>3, <3>1 DEF Leaves
    <3>2. CASE k = c
      <4>1. P[c] = P[n]
        BY <1>0, <2>3, <3>2 DEF Linked
      <4>2. CASE F[P[c]] = c
        BY <2>1, <2>3, <3>2, <4>1, <4>2 DEF Leaves
      <4>3. ASSUME NEW j \in Nodes, X[j] = c PROVE Y[j] = n
        BY <2>3, <3>2, <4>3 DEF Leaves
      <4> QED
        BY <2>1, <4>1, <4>2, <4>3 DEF Linked
    <3> QED
      BY <3>1, <3>2
  <2> QED
    BY <2>1, <2>2, <2>3 DEF Linked
<1> QED
  BY <1>2, <1>3, <1>4, <1>5, <1>6 DEF Linked

LEMMA EmptyLinks ==
  ASSUME NEW F, NEW X, NEW P, Maps(F, X, P), Linked(F, X, P), NEW G, NEW Y, NEW Q,
         NEW p \in Elems, Empties(F, X, P, G, Y, Q, p)
  PROVE  Linked(G, Y, Q)
<1>0. None \notin Nodes /\ None \notin Elems /\ Elems \subseteq Nodes
  BY Sorts
<1>1. /\ \A q \in Elems : F[q] \in Nodes \cup {None}
      /\ \A n \in Nodes : X[n] \in Nodes \cup {None} /\ P[n] \in Elems \cup {None}
  BY DEF Maps
<1>2. \A q \in Elems : G[q] # None => Q[G[q]] = q
  BY <1>0, <1>1 DEF Linked, Empties
<1>3. \A n \in Nodes : Y[n] # None => Q[Y[n]] = Q[n] /\ Q[n] # None
  BY <1>0, <1>1 DEF Linked, Empties
<1>4. \A n \in Nodes, q \in Elems : Y[n] # None => Y[n] # G[q]
  BY <1>0, <1>1 DEF Linked, Empties
<1>5. \A n, k \in Nodes : Y[n] = Y[k] /\ Y[n] # None => n = k
  BY <1>0, <1>1 DEF Linked, Empties
<1>6. ASSUME NEW n \in Nodes, Q[n] # None PROVE G[Q[n]] = n \/ \E k \in Nodes : Y[k] = n
  <2>1. P[n] # None /\ Q[n] = P[n] /\ P[n] \in Elems /\ P[n] # p
    BY <1>0, <1>1, <1>6 DEF Empties
  <2>2. CASE F[P[n]] = n
    BY <2>1, <2>2 DEF Empties
  <2>3. ASSUME NEW k \in Nodes, X[k] = n PROVE Y[k] = n
    <3>1. P[k] = P[n]
      BY <1>0, <2>3 DEF Linked
    <3> QED
      BY <2>1, <2>3, <3>1 DEF Empties
  <2> QED
    BY <2>1, <2>2, <2>3 DEF Linked
<1> QED
  BY <1>2, <1>3, <1>4, <1>5, <1>6 DEF Linked

-------------------------------------------------------------------------------
(* Along the edges of a list the places grow: there are as many as needed,   *)
(* whatever is moved.                                                        *)
Sound(F, X, P) == Linked(F, X, P) /\ \E pos : Ordered(X, pos)

LEMMA FrontSound ==
  ASSUME NEW F, NEW X, NEW P, Maps(F, X, P), Sound(F, X, P), NEW G, NEW Y, NEW Q,
         NEW p \in Elems, NEW c \in Nodes, P[c] = None, X[c] = None, Fronts(F, X, P, G, Y, Q, p, c)
  PROVE  Sound(G, Y, Q)
<1>0. None \notin Nodes /\ None \notin Elems /\ Elems \subseteq Nodes
  BY Sorts
<1>1. PICK pos : Ordered(X, pos)
  BY DEF Sound
<1>2. /\ F[p] \in Nodes \cup {None} /\ F[p] # c
      /\ \A n \in Nodes : X[n] \in Nodes \cup {None} /\ X[n] # c
  BY <1>0 DEF Maps, Sound, Linked
<1>3. PICK new : new = [n \in Nodes |-> IF n = c THEN 0 ELSE pos[n] + 1]
  OBVIOUS
<1>4. new \in [Nodes -> Nat] /\ \A n \in Nodes : new[n] = IF n = c THEN 0 ELSE pos[n] + 1
  BY <1>1, <1>3 DEF Ordered
<1>5. \A n \in Nodes : Y[n] # None => new[n] < new[Y[n]]
  BY <1>0, <1>1, <1>2, <1>4 DEF Ordered, Fronts
<1> QED
  BY <1>4, <1>5, FrontLinks DEF Sound, Ordered

LEMMA FollowSound ==
  ASSUME NEW F, NEW X, NEW P, Maps(F, X, P), Sound(F, X, P), NEW G, NEW Y, NEW Q,
         NEW m \in Nodes, NEW c \in Nodes, P[c] = None, X[c] = None, P[m] # None,
         Follows(F, X, P, G, Y, Q, m, c)
  PROVE  Sound(G, Y, Q)
<1>0. None \notin Nodes /\ None \notin Elems /\ Elems \subseteq Nodes /\ m # c
  BY Sorts
<1>1. PICK pos : Ordered(X, pos)
  BY DEF Sound
<1>2. \A n \in Nodes : X[n] \in Nodes \cup {None} /\ X[n] # c
  BY <1>0 DEF Maps, Sound, Linked
<1>3. PICK new : new = [n \in Nodes |-> IF n = c THEN pos[m] + pos[m] + 1 ELSE pos[n] + pos[n]]
  OBVIOUS
<1>4. /\ new \in [Nodes -> Nat]
      /\ \A n \in Nodes : new[n] = IF n = c THEN pos[m] + pos[m] + 1 ELSE pos[n] + pos[n]
  BY <1>1, <1>3 DEF Ordered
<1>5. ASSUME NEW n \in Nodes, Y[n] # None PROVE new[n] < new[Y[n]]
  <2>1. \A x \in Nodes : pos[x] \in Nat /\ (X[x] # None => pos[x] < pos[X[x]])
    BY <1>1 DEF Ordered
  <2>2. CASE n = c
    BY <1>0, <1>2, <1>4, <1>5, <2>1, <2>2 DEF Follows
  <2>3. CASE n = m
    BY <1>0, <1>2, <1>4, <1>5, <2>1, <2>3 DEF Follows
  <2>4. CASE n # c /\ n # m
    BY <1>0, <1>2, <1>4, <1>5, <2>1, <2>4 DEF Follows
  <2> QED
    BY <2>2, <2>3, <2>4
<1> QED
  BY <1>4, <1>5, FollowLinks DEF Sound, Ordered

LEMMA LeaveSound ==
  ASSUME NEW F, NEW X, NEW P, Maps(F, X, P), Sound(F, X, P), NEW G, NEW Y, NEW Q,
         NEW c \in Nodes, Leaves(F, X, P, G, Y, Q, c)
  PROVE  Sound(G, Y, Q)
<1>1. PICK pos : Ordered(X, pos)
  BY DEF Sound
<1>2. \A n \in Nodes : X[n] \in Nodes \cup {None} /\ pos[n] \in Nat /\ (X[n] # None => pos[n] < pos[X[n]])
  BY <1>1 DEF Maps, Ordered
<1>3. None \notin Nodes /\ X[c] # c
  BY <1>2, Sorts
<1>4. \A n \in Nodes : Y[n] # None => pos[n] < pos[Y[n]]
  BY <1>2, <1>3 DEF Leaves
<1> QED
  BY <1>1, <1>3, <1>4, LeaveLinks DEF Sound, Ordered

LEMMA EmptySound ==
  ASSUME NEW F, NEW X, NEW P, Maps(F, X, P), Sound(F, X, P), NEW G, NEW Y, NEW Q,
         NEW p \in Elems, Empties(F, X, P, G, Y, Q, p)
  PROVE  Sound(G, Y, Q)
<1>1. PICK pos : Ordered(X, pos)
  BY DEF Sound
<1>2. \A n \in Nodes : Y[n] # None => pos[n] < pos[Y[n]]
  BY <1>1 DEF Ordered, Empties
<1> QED
  BY <1>1, <1>2, EmptyLinks DEF Sound, Ordered

-------------------------------------------------------------------------------
(* Walks.  Every walk of the module takes N steps from a along edges E.      *)
Walking(f, a, E, n) ==
  f = [k \in 0 .. n |-> IF k = 0 THEN a ELSE LET q == f[k - 1] IN IF q = None THEN None ELSE E[q]]
Steps(f, a, E) ==
  f[0] = a /\ \A k \in 1 .. N : f[k] = IF f[k - 1] = None THEN None ELSE E[f[k - 1]]

LEMMA NIsNat == N \in Nat
BY Sorts, FS_CardinalityType DEF N

LEMMA WalkOn ==
  ASSUME NEW a, NEW E, NEW n \in Nat, NEW f, Walking(f, a, E, n)
  PROVE  \E g : Walking(g, a, E, n + 1)
<1> DEFINE step(k) == IF k = 0 THEN a ELSE IF f[k - 1] = None THEN None ELSE E[f[k - 1]]
           g == [k \in 0 .. n + 1 |-> step(k)]
<1>1. f = [k \in 0 .. n |-> step(k)]
  BY DEF Walking
<1>2. \A k \in 0 .. n : g[k] = f[k]
  <2> HIDE DEF step
  <2> QED
    BY <1>1
<1>3. \A k \in 0 .. n + 1 : k # 0 => k - 1 \in 0 .. n
  OBVIOUS
<1>4. \A k \in 0 .. n + 1 : step(k) = IF k = 0 THEN a ELSE IF g[k - 1] = None THEN None ELSE E[g[k - 1]]
  <2> HIDE DEF g
  <2> QED
    BY <1>2, <1>3
<1>5. g = [k \in 0 .. n + 1 |-> IF k = 0 THEN a ELSE IF g[k - 1] = None THEN None ELSE E[g[k - 1]]]
  BY <1>4
<1> HIDE DEF g
<1> QED
  BY <1>5 DEF Walking

LEMMA WalkExists ==
  ASSUME NEW a, NEW E PROVE \E f : Walking(f, a, E, N)
<1>0. N \in Nat
  BY NIsNat
<1> DEFINE Far == {k \in Nat : \E f : Walking(f, a, E, k)}
<1>1. 0 \in Far
  <2>1. PICK f : f = [k \in 0 .. 0 |-> a]
    OBVIOUS
  <2>2. f = [k \in 0 .. 0 |-> IF k = 0 THEN a ELSE LET q == f[k - 1] IN IF q = None THEN None ELSE E[q]]
    <3>1. \A k \in 0 .. 0 : k = 0
      OBVIOUS
    <3> QED
      BY <2>1, <3>1, Zenon
  <2> QED
    BY <2>2 DEF Walking
<1>2. \A k \in 0 .. N - 1 : k \in Far => k + 1 \in Far
  BY WalkOn
<1>3. N \in Far
  <2> HIDE DEF Far
  <2>1. N \in 0 .. N
    BY <1>0
  <2> QED
    BY <1>0, <1>1, <1>2, <2>1, Lists!UpTo
<1> QED
  BY <1>3

LEMMA WalkSteps ==
  ASSUME NEW a, NEW E, NEW f, Walking(f, a, E, N) PROVE Steps(f, a, E)
<1>0. N \in Nat
  BY NIsNat
<1>1. \A k \in 0 .. N : f[k] = IF k = 0 THEN a ELSE IF f[k - 1] = None THEN None ELSE E[f[k - 1]]
  BY DEF Walking
<1>2. 0 \in 0 .. N /\ \A k \in 1 .. N : k \in 0 .. N /\ k # 0
  BY <1>0
<1> QED
  BY <1>1, <1>2 DEF Steps

LEMMA AtSteps ==
  ASSUME NEW d, NEW p PROVE Steps(At(d, p), d.first[p], d.next)
<1> DEFINE w == CHOOSE f : Walking(f, d.first[p], d.next, N)
<1>1. Walking(w, d.first[p], d.next, N)
  BY WalkExists
<1>2. At(d, p) = w
  BY DEF At, Walking
<1> HIDE DEF w
<1> QED
  BY <1>1, <1>2, WalkSteps

LEMMA Climbs ==
  ASSUME NEW E \in [Nodes -> Nodes \cup {None}], NEW pos, Ordered(E, pos),
         NEW a \in Nodes \cup {None}, NEW f, Steps(f, a, E)
  PROVE  /\ \A k \in 0 .. N : f[k] \in Nodes \cup {None}
         /\ \A k \in 0 .. N : f[k] # None => k < N /\ f[k + 1] = E[f[k]]
         /\ \A j, k \in 0 .. N : j < k /\ f[k] # None => f[j] # None /\ pos[f[j]] < pos[f[k]]
         /\ f[N] = None
<1>0. N \in Nat /\ None \notin Nodes /\ \A n \in Nodes : E[n] \in Nodes \cup {None}
  BY NIsNat, Sorts
<1>1. f[0] = a /\ \A k \in 0 .. N - 1 : f[k + 1] = IF f[k] = None THEN None ELSE E[f[k]]
  <2>1. \A k \in 0 .. N - 1 : k + 1 \in 1 .. N /\ (k + 1) - 1 = k
    BY <1>0
  <2> QED
    BY <2>1 DEF Steps
<1>2. \A k \in 0 .. N : f[k] \in Nodes \cup {None}
  <2> DEFINE In == {k \in Nat : f[k] \in Nodes \cup {None}}
  <2>1. 0 \in In
    BY <1>1
  <2>2. \A k \in 0 .. N - 1 : k \in In => k + 1 \in In
    BY <1>0, <1>1
  <2>3. \A k \in 0 .. N : k \in In
    <3> HIDE DEF In
    <3> QED
      BY <1>0, <2>1, <2>2, Lists!UpTo
  <2> QED
    BY <2>3
<1>3. \A j, k \in 0 .. N : j < k /\ f[k] # None => f[j] # None /\ pos[f[j]] < pos[f[k]]
  <2> DEFINE In == {k \in Nat : \A j \in 0 .. N : j < k /\ f[k] # None => f[j] # None /\ pos[f[j]] < pos[f[k]]}
  <2>1. 0 \in In
    BY <1>0
  <2>2. ASSUME NEW k \in 0 .. N - 1, k \in In PROVE k + 1 \in In
    <3>1. ASSUME NEW j \in 0 .. N, j < k + 1, f[k + 1] # None
          PROVE  f[j] # None /\ pos[f[j]] < pos[f[k + 1]]
      <4>1. f[k] # None /\ f[k + 1] = E[f[k]] /\ k \in 0 .. N /\ f[k] \in Nodes /\ k + 1 \in 0 .. N
        BY <1>0, <1>1, <1>2, <2>2, <3>1
      <4>2. pos[f[k]] < pos[f[k + 1]] /\ f[k + 1] \in Nodes
        BY <1>2, <3>1, <4>1 DEF Ordered
      <4>3. CASE j = k
        BY <4>1, <4>2, <4>3
      <4>4. CASE j # k
        <5>1. j < k
          BY <1>0, <2>2, <3>1, <4>4
        <5>2. f[j] # None /\ pos[f[j]] < pos[f[k]]
          BY <2>2, <3>1, <4>1, <5>1
        <5>3. f[j] \in Nodes
          BY <1>2, <3>1, <5>2
        <5>4. pos[f[j]] \in Nat /\ pos[f[k]] \in Nat /\ pos[f[k + 1]] \in Nat
          BY <4>1, <4>2, <5>3 DEF Ordered
        <5> QED
          BY <4>2, <5>2, <5>4
      <4> QED
        BY <4>3, <4>4
    <3> QED
      BY <2>2, <3>1
  <2>3. \A k \in 0 .. N : k \in In
    <3> HIDE DEF In
    <3> QED
      BY <1>0, <2>1, <2>2, Lists!UpTo
  <2> QED
    BY <2>3
<1>4. f[N] = None
  <2> SUFFICES ASSUME f[N] # None PROVE FALSE
    OBVIOUS
  <2>1. \A k \in 0 .. N : f[k] \in Nodes
    BY <1>0, <1>2, <1>3
  <2>2. PICK g : g = [k \in 0 .. N |-> f[k]]
    OBVIOUS
  <2>3. g \in [0 .. N -> Nodes]
    BY <2>1, <2>2
  <2>4. IsFiniteSet(0 .. N) /\ Cardinality(0 .. N) = N + 1
    BY <1>0, FS_Interval
  <2>5. PICK x, y \in 0 .. N : x # y /\ g[x] = g[y]
    <3>1. Cardinality(Nodes) < Cardinality(0 .. N)
      BY <1>0, <2>4 DEF N
    <3> QED
      BY <2>3, <2>4, <3>1, FS_PigeonHole, Sorts, ZenonT(30)
  <2>6. f[x] = f[y] /\ pos[f[x]] \in Nat /\ (x < y \/ y < x)
    BY <1>0, <2>1, <2>2, <2>5 DEF Ordered
  <2> QED
    BY <1>3, <2>1, <2>5, <2>6, <1>0
<1>5. \A k \in 0 .. N : f[k] # None => k < N /\ f[k + 1] = E[f[k]]
  <2>1. ASSUME NEW k \in 0 .. N, f[k] # None PROVE k \in 0 .. N - 1
    BY <1>0, <1>4, <2>1
  <2> QED
    BY <1>0, <1>1, <2>1
<1> QED
  BY <1>2, <1>3, <1>4, <1>5

(* The walk from the first child meets the nodes whose parent edge names p.  *)
LEMMA Reaches ==
  ASSUME NEW F, NEW X, NEW P, Maps(F, X, P), Sound(F, X, P), NEW p \in Elems,
         NEW f, Steps(f, F[p], X)
  PROVE  /\ f[N] = None /\ {f[k] : k \in 0 .. N} \ {None} = {n \in Nodes : P[n] = p}
         /\ F[p] # None => \E z \in Nodes : /\ P[z] = p /\ X[z] = None
                                           /\ \A n \in Nodes : P[n] = p /\ X[n] = None => n = z
<1>1. PICK pos : Ordered(X, pos) /\ Linked(F, X, P)
  BY DEF Sound
<1>2. /\ N \in Nat /\ None \notin Nodes /\ p # None /\ Elems \subseteq Nodes
      /\ F[p] \in Nodes \cup {None} /\ X \in [Nodes -> Nodes \cup {None}]
      /\ \A n \in Nodes : X[n] \in Nodes \cup {None} /\ P[n] \in Elems \cup {None} /\ pos[n] \in Nat
  BY <1>1, NIsNat, Sorts DEF Maps, Ordered
<1>3. /\ \A k \in 0 .. N : f[k] \in Nodes \cup {None}
      /\ \A k \in 0 .. N : f[k] # None => k < N /\ f[k + 1] = X[f[k]]
      /\ \A j, k \in 0 .. N : j < k /\ f[k] # None => f[j] # None /\ pos[f[j]] < pos[f[k]]
      /\ f[N] = None
  BY <1>1, <1>2, Climbs
<1>4. f[0] = F[p] /\ 0 \in 0 .. N
  BY <1>2 DEF Steps
<1> DEFINE S == {f[k] : k \in 0 .. N} \ {None}
<1>5. S \subseteq {n \in Nodes : P[n] = p}
  <2> DEFINE In == {k \in Nat : f[k] # None => P[f[k]] = p}
  <2>1. 0 \in In
    BY <1>1, <1>4 DEF Linked
  <2>2. ASSUME NEW k \in 0 .. N - 1, k \in In PROVE k + 1 \in In
    <3>1. k \in 0 .. N /\ k + 1 \in 0 .. N /\ k < k + 1
      BY <1>2
    <3>2. ASSUME f[k + 1] # None PROVE P[f[k + 1]] = p
      <4>1. f[k] # None /\ f[k] \in Nodes /\ f[k + 1] = X[f[k]]
        BY <1>3, <3>1, <3>2
      <4> QED
        BY <1>1, <2>2, <3>2, <4>1 DEF Linked
    <3> QED
      BY <3>1, <3>2
  <2>3. \A k \in 0 .. N : k \in In
    <3> HIDE DEF In
    <3> QED
      BY <1>2, <2>1, <2>2, Lists!UpTo
  <2> QED
    BY <1>3, <2>3
<1>6. ASSUME NEW z \in Nodes, P[z] = p PROVE z \in S
  <2>1. F[p] # None => F[p] \in S
    BY <1>4
  <2>2. \A n \in S : X[n] # None => X[n] \in S
    <3>1. ASSUME NEW k \in 0 .. N, f[k] # None, X[f[k]] # None PROVE X[f[k]] \in S
      <4>1. k + 1 \in 0 .. N /\ f[k + 1] = X[f[k]]
        BY <1>2, <1>3, <3>1
      <4> QED
        BY <3>1, <4>1
    <3> QED
      BY <3>1
  <2> HIDE DEF S
  <2> DEFINE In == {b \in Nat : \A n \in Nodes : P[n] = p /\ pos[n] <= b => n \in S}
  <2>3. ASSUME NEW n \in Nodes, P[n] = p,
               \A m \in Nodes : P[m] = p /\ pos[m] < pos[n] => m \in S
        PROVE  n \in S
    <3>1. F[p] = n \/ \E m \in Nodes : X[m] = n
      BY <1>1, <1>2, <2>3 DEF Linked
    <3>2. CASE F[p] = n
      BY <1>2, <2>1, <3>2
    <3>3. ASSUME NEW m \in Nodes, X[m] = n PROVE n \in S
      <4>1. P[m] = p /\ pos[m] < pos[n]
        BY <1>1, <1>2, <2>3, <3>3 DEF Linked, Ordered
      <4> QED
        BY <1>2, <2>2, <2>3, <3>3, <4>1
    <3> QED
      BY <3>1, <3>2, <3>3
  <2>4. 0 \in In
    <3>1. ASSUME NEW n \in Nodes, P[n] = p, pos[n] <= 0 PROVE n \in S
      <4>1. \A m \in Nodes : ~ (pos[m] < pos[n])
        BY <1>2, <3>1
      <4> QED
        BY <2>3, <3>1, <4>1
    <3> QED
      BY <3>1
  <2>5. ASSUME NEW b \in 0 .. pos[z] - 1, b \in In PROVE b + 1 \in In
    <3>1. ASSUME NEW n \in Nodes, P[n] = p, pos[n] <= b + 1 PROVE n \in S
      <4>1. \A m \in Nodes : pos[m] < pos[n] => pos[m] <= b
        BY <1>2, <3>1
      <4> QED
        BY <2>3, <2>5, <3>1, <4>1
    <3> QED
      BY <2>5, <3>1
  <2>6. \A b \in 0 .. pos[z] : b \in In
    <3> HIDE DEF In
    <3> QED
      BY <1>2, <2>4, <2>5, Lists!UpTo
  <2>7. pos[z] \in 0 .. pos[z] /\ pos[z] <= pos[z]
    BY <1>2
  <2> QED
    BY <1>6, <2>6, <2>7
<1>7. ASSUME F[p] # None
      PROVE  \E z \in Nodes : /\ P[z] = p /\ X[z] = None
                              /\ \A n \in Nodes : P[n] = p /\ X[n] = None => n = z
  <2>1. PICK k \in 0 .. N - 1 : f[k] # None /\ f[k + 1] = None
    <3> DEFINE In == {k \in Nat : f[k] # None}
    <3> SUFFICES ASSUME \A k \in 0 .. N - 1 : k \in In => k + 1 \in In PROVE FALSE
      BY <1>2
    <3>1. 0 \in In
      BY <1>4, <1>7
    <3>2. N \in In
      <4>1. N \in 0 .. N
        BY <1>2
      <4> HIDE DEF In
      <4> QED
        BY <1>2, <3>1, <4>1, Lists!UpTo
    <3> QED
      BY <1>3, <3>2
  <2>2. k \in 0 .. N /\ f[k] \in Nodes /\ X[f[k]] = None /\ f[k] \in S
    BY <1>2, <1>3, <2>1
  <2>3. ASSUME NEW n \in Nodes, P[n] = p, X[n] = None PROVE n = f[k]
    <3>1. PICK j \in 0 .. N : f[j] = n
      BY <1>6, <2>3
    <3>2. j < N /\ f[j + 1] = None
      BY <1>2, <1>3, <2>3, <3>1
    <3>3. CASE j < k
      <4>1. j + 1 \in 0 .. N /\ (j + 1 < k \/ j + 1 = k)
        BY <2>1, <3>1, <3>2, <3>3, <1>2
      <4> QED
        BY <1>3, <2>1, <2>2, <3>2, <4>1
    <3>4. CASE k < j
      <4>1. k + 1 \in 0 .. N /\ (k + 1 < j \/ k + 1 = j)
        BY <2>1, <3>1, <3>4, <1>2
      <4> QED
        BY <1>2, <1>3, <2>1, <2>3, <3>1, <4>1
    <3> QED
      BY <1>2, <2>1, <3>1, <3>3, <3>4
  <2> QED
    BY <1>5, <2>2, <2>3
<1> QED
  BY <1>3, <1>5, <1>6, <1>7

-------------------------------------------------------------------------------
(* The same of a state of the nodes.                                         *)
Typed(d) == d \in [parent : [Nodes -> Elems \cup {None}], next : [Nodes -> Nodes \cup {None}],
                   first : [Elems -> Nodes \cup {None}], count : [Elems -> 0 .. CountMod - 1]]
SoundDom(d) == Typed(d) /\ Sound(d.first, d.next, d.parent)

LEMMA TypedFields ==
  ASSUME NEW d, Typed(d)
  PROVE  Maps(d.first, d.next, d.parent) /\ d.count \in [Elems -> 0 .. CountMod - 1]
BY DEF Typed, Maps

LEMMA ChildrenAre ==
  ASSUME NEW d, SoundDom(d), NEW p \in Elems
  PROVE  /\ Children(d, p) = {n \in Nodes : d.parent[n] = p} /\ Ends(d, p)
         /\ d.first[p] # None =>
              /\ Last(d, p) \in Nodes /\ d.parent[Last(d, p)] = p /\ d.next[Last(d, p)] = None
              /\ \A n \in Nodes : d.parent[n] = p /\ d.next[n] = None => n = Last(d, p)
<1>1. PICK f : f = At(d, p) /\ Steps(f, d.first[p], d.next)
  BY AtSteps
<1>2. Maps(d.first, d.next, d.parent) /\ Sound(d.first, d.next, d.parent)
  BY TypedFields DEF SoundDom
<1>3. /\ f[N] = None /\ {f[k] : k \in 0 .. N} \ {None} = {n \in Nodes : d.parent[n] = p}
      /\ d.first[p] # None =>
           \E z \in Nodes : /\ d.parent[z] = p /\ d.next[z] = None
                            /\ \A n \in Nodes : d.parent[n] = p /\ d.next[n] = None => n = z
  BY <1>1, <1>2, Reaches
<1>4. Children(d, p) = {n \in Nodes : d.parent[n] = p} /\ Ends(d, p)
  BY <1>1, <1>3 DEF Children, Ends
<1> QED
  BY <1>3, <1>4 DEF Last

PredOf(d, p, c) == CHOOSE n \in Children(d, p) : d.next[n] = c

LEMMA PredIs ==
  ASSUME NEW d, SoundDom(d), NEW p \in Elems, NEW c \in Nodes, d.parent[c] = p, d.first[p] # c
  PROVE  LET m == PredOf(d, p, c)
         IN  /\ m \in Nodes /\ d.next[m] = c /\ d.parent[m] = p /\ m # c
             /\ d.next[c] # m /\ d.next[c] # c
<1>1. Linked(d.first, d.next, d.parent) /\ Children(d, p) = {n \in Nodes : d.parent[n] = p}
  BY ChildrenAre DEF SoundDom, Sound
<1>2. PICK pos : Ordered(d.next, pos)
  BY DEF SoundDom, Sound
<1>3. p # None /\ c # None /\ None \notin Nodes
  BY Sorts
<1>4. PICK m \in Nodes : d.next[m] = c
  BY <1>1, <1>3 DEF Linked
<1>5. m \in Children(d, p)
  BY <1>1, <1>3, <1>4 DEF Linked
<1>6. \A n \in Nodes : pos[n] \in Nat /\ (d.next[n] # None => pos[n] < pos[d.next[n]])
  BY <1>2 DEF Ordered
<1>7. PICK k : k = PredOf(d, p, c) /\ k \in Children(d, p) /\ d.next[k] = c
  BY <1>4, <1>5 DEF PredOf
<1>8. k \in Nodes /\ d.parent[k] = p
  BY <1>1, <1>7
<1>9. k # c /\ d.next[c] # k /\ d.next[c] # c
  <2>1. pos[k] < pos[c] /\ pos[k] \in Nat /\ pos[c] \in Nat
    BY <1>3, <1>6, <1>7, <1>8
  <2>2. d.next[c] # None => pos[c] < pos[d.next[c]]
    BY <1>6
  <2>3. k # None
    BY <1>3, <1>8
  <2>4. d.next[c] # k
    BY <2>1, <2>2, <2>3
  <2>5. d.next[c] # c
    BY <1>3, <2>1, <2>2
  <2> QED
    BY <2>1, <2>4, <2>5
<1> QED
  BY <1>7, <1>8, <1>9

-------------------------------------------------------------------------------
(* Single edges are set.                                                     *)
NextSet(d, n, m, e) ==
  /\ Typed(e) /\ e.first = d.first /\ e.parent = d.parent /\ e.count = d.count
  /\ \A x \in Nodes : e.next[x] = IF x = n THEN m ELSE d.next[x]
FirstSet(d, p, m, e) ==
  /\ Typed(e) /\ e.next = d.next /\ e.parent = d.parent /\ e.count = d.count
  /\ \A q \in Elems : e.first[q] = IF q = p THEN m ELSE d.first[q]
ParentSet(d, c, p, e) ==
  /\ Typed(e) /\ e.next = d.next /\ e.first = d.first /\ e.count = d.count
  /\ \A x \in Nodes : e.parent[x] = IF x = c THEN p ELSE d.parent[x]
CountSet(d, p, k, e) ==
  /\ Typed(e) /\ e.next = d.next /\ e.first = d.first /\ e.parent = d.parent
  /\ \A q \in Elems : e.count[q] = IF q = p THEN k ELSE d.count[q]

LEMMA SetNextTyped ==
  ASSUME NEW d, Typed(d), NEW n, NEW m \in Nodes \cup {None}
  PROVE  Typed([d EXCEPT !.next[n] = m]) /\ NextSet(d, n, m, [d EXCEPT !.next[n] = m])
BY DEF Typed, NextSet

LEMMA SetNextIs ==
  ASSUME NEW d, Typed(d), NEW n, NEW m \in Nodes \cup {None}
  PROVE  NextSet(d, n, IF m = n THEN None ELSE m, SetNext(d, n, m))
<1>1. (IF m = n THEN None ELSE m) \in Nodes \cup {None}
  OBVIOUS
<1> QED
  BY <1>1, SetNextTyped DEF SetNext

LEMMA SetFirstIs ==
  ASSUME NEW d, Typed(d), NEW p, NEW m \in Nodes \cup {None}
  PROVE  FirstSet(d, p, m, [d EXCEPT !.first[p] = m])
BY DEF Typed, FirstSet

LEMMA SetParentIs ==
  ASSUME NEW d, Typed(d), NEW c, NEW p \in Elems \cup {None}
  PROVE  ParentSet(d, c, p, [d EXCEPT !.parent[c] = p])
BY DEF Typed, ParentSet

LEMMA SetCountIs ==
  ASSUME NEW d, Typed(d), NEW p, NEW k \in 0 .. CountMod - 1
  PROVE  CountSet(d, p, k, [d EXCEPT !.count[p] = k])
BY DEF Typed, CountSet

LEMMA CountRange ==
  /\ CountMod \in Nat /\ CountMod >= 2 /\ 0 \in 0 .. CountMod - 1
  /\ \A k \in 0 .. CountMod - 1 : /\ (k + 1) % CountMod = IF k + 1 = CountMod THEN 0 ELSE k + 1
                                  /\ (k + CountMod - 1) % CountMod = IF k = 0 THEN CountMod - 1 ELSE k - 1
                                  /\ (k + 1) % CountMod \in 0 .. CountMod - 1
                                  /\ (k + CountMod - 1) % CountMod \in 0 .. CountMod - 1
<1>1. PICK m \in Nat : m = CountMod /\ m >= 2
  BY ChildListAssumption
<1>2. ASSUME NEW k \in 0 .. m - 1
      PROVE  /\ (k + 1) % m = IF k + 1 = m THEN 0 ELSE k + 1
             /\ (k + m - 1) % m = IF k = 0 THEN m - 1 ELSE k - 1
  <2>1. (k + 1) % m = IF k + 1 = m THEN 0 ELSE k + 1
    <3>1. CASE k + 1 = m
      <4>1. (0 + m) % m = 0
        BY <1>1
      <4> QED
        BY <1>1, <3>1, <4>1
    <3>2. CASE k + 1 # m
      <4>1. k + 1 \in 0 .. m - 1
        BY <1>1, <1>2, <3>2
      <4> QED
        BY <1>1, <3>2, <4>1
    <3> QED
      BY <3>1, <3>2
  <2>2. (k + m - 1) % m = IF k = 0 THEN m - 1 ELSE k - 1
    <3>1. CASE k = 0
      BY <1>1, <3>1
    <3>2. CASE k # 0
      <4>1. PICK y \in 0 .. m - 1 : y = k - 1
        BY <1>1, <1>2, <3>2
      <4>2. (y + m) % m = y
        BY <1>1
      <4>3. k + m - 1 = y + m
        BY <1>1, <1>2, <4>1
      <4> QED
        BY <3>2, <4>1, <4>2, <4>3
    <3> QED
      BY <3>1, <3>2
  <2> QED
    BY <2>1, <2>2
<1>3. \A k \in 0 .. m - 1 : /\ (k + 1) % m = IF k + 1 = m THEN 0 ELSE k + 1
                            /\ (k + m - 1) % m = IF k = 0 THEN m - 1 ELSE k - 1
                            /\ (k + 1) % m \in 0 .. m - 1 /\ (k + m - 1) % m \in 0 .. m - 1
  <2>1. ASSUME NEW k \in 0 .. m - 1
        PROVE  (IF k + 1 = m THEN 0 ELSE k + 1) \in 0 .. m - 1 /\ (IF k = 0 THEN m - 1 ELSE k - 1) \in 0 .. m - 1
    BY <1>1, <2>1
  <2> QED
    BY <1>2, <2>1
<1>4. 0 \in 0 .. m - 1
  BY <1>1
<1> QED
  BY <1>1, <1>3, <1>4, Zenon

(* Node c leaves the list of its parent.                                     *)
Spliced(d, c, e) ==
  /\ Typed(e) /\ e.parent = d.parent /\ e.count = d.count
  /\ \A q \in Elems : e.first[q] = IF d.first[q] = c THEN d.next[c] ELSE d.first[q]
  /\ \A n \in Nodes : e.next[n] = IF d.next[n] = c THEN d.next[c] ELSE d.next[n]

LEMMA SpliceTyped ==
  ASSUME NEW d, Typed(d), NEW p, NEW c \in Nodes
  PROVE  Typed(SpliceOut(d, p, c))
<1>1. d.next[c] \in Nodes \cup {None}
  BY TypedFields DEF Maps
<1>2. Typed([d EXCEPT !.first[p] = d.next[c]])
  BY <1>1, SetFirstIs DEF FirstSet
<1>3. \A n : Typed(SetNext(d, n, d.next[c]))
  BY <1>1, SetNextIs DEF NextSet
<1> QED
  BY <1>2, <1>3 DEF SpliceOut

LEMMA SpliceIs ==
  ASSUME NEW d, SoundDom(d), NEW p \in Elems, NEW c \in Nodes, d.parent[c] = p
  PROVE  Spliced(d, c, SpliceOut(d, p, c))
<1>1. /\ Typed(d) /\ Linked(d.first, d.next, d.parent) /\ Maps(d.first, d.next, d.parent)
      /\ d.next[c] \in Nodes \cup {None} /\ c # None /\ p # None
  BY TypedFields, Sorts DEF SoundDom, Sound, Maps
<1>2. CASE d.first[p] = c
  <2>1. PICK e : e = SpliceOut(d, p, c) /\ FirstSet(d, p, d.next[c], e)
    BY <1>1, <1>2, SetFirstIs DEF SpliceOut
  <2>2. \A q \in Elems : d.first[q] = c => q = p
    BY <1>1 DEF Linked
  <2>3. \A n \in Nodes : d.next[n] # c
    BY <1>1, <1>2 DEF Linked
  <2>4. Spliced(d, c, e)
    BY <1>2, <2>1, <2>2, <2>3 DEF FirstSet, Spliced
  <2> QED
    BY <2>1, <2>4
<1>3. CASE d.first[p] # c
  <2>1. PICK m : m = PredOf(d, p, c)
    OBVIOUS
  <2>2. m \in Nodes /\ d.next[m] = c /\ d.next[c] # m
    BY <1>3, <2>1, PredIs
  <2>3. PICK e : e = SpliceOut(d, p, c) /\ NextSet(d, m, d.next[c], e)
    <3>1. SpliceOut(d, p, c) = SetNext(d, m, d.next[c])
      BY <1>3, <2>1 DEF SpliceOut, PredOf
    <3>2. NextSet(d, m, IF d.next[c] = m THEN None ELSE d.next[c], SetNext(d, m, d.next[c]))
      BY <1>1, SetNextIs
    <3> QED
      BY <2>2, <3>1, <3>2
  <2>4. \A q \in Elems : d.first[q] # c
    BY <1>1, <1>3 DEF Linked
  <2>5. \A n \in Nodes : d.next[n] = c => n = m
    BY <1>1, <2>2 DEF Linked
  <2>6. Spliced(d, c, e)
    BY <2>2, <2>3, <2>4, <2>5 DEF NextSet, Spliced
  <2> QED
    BY <2>3, <2>6
<1> QED
  BY <1>2, <1>3

(* Types are kept by every helper, whatever the lists look like.             *)
LEMMA TakeTyped ==
  ASSUME NEW s, Typed(s), NEW c \in Nodes, NEW p, NEW v \in Elems \cup {None},
         NEW k, p \in Elems => k \in 0 .. CountMod - 1
  PROVE  Typed([s EXCEPT !.next[c] = None, !.parent[c] = v, !.count[p] = k])
BY DEF Typed

TookOut(s, c, p, k, e) ==
  /\ Typed(e) /\ e.first = s.first
  /\ \A n \in Nodes : e.next[n] = IF n = c THEN None ELSE s.next[n]
  /\ \A n \in Nodes : e.parent[n] = IF n = c THEN None ELSE s.parent[n]
  /\ \A q \in Elems : e.count[q] = IF q = p THEN k ELSE s.count[q]
LEMMA TakeIs ==
  ASSUME NEW s, Typed(s), NEW c \in Nodes, NEW p \in Elems, NEW k \in 0 .. CountMod - 1
  PROVE  TookOut(s, c, p, k, [s EXCEPT !.next[c] = None, !.parent[c] = None, !.count[p] = k])
BY DEF Typed, TookOut

LEMMA UnlinkTyped ==
  ASSUME NEW d, Typed(d), NEW c \in Nodes PROVE Typed(Unlinked(d, c))
<1>1. PICK p : p = d.parent[c]
  OBVIOUS
<1>2. PICK s : s = SpliceOut(d, p, c) /\ Typed(s)
  BY SpliceTyped
<1>3. PICK v : v = IF c \in Refs THEN s.parent[c] ELSE None
  OBVIOUS
<1>4. v \in Elems \cup {None}
  BY <1>2, <1>3, TypedFields DEF Maps
<1>5. PICK k : k = IF c \in Elems /\ s.count[p] > 0 THEN s.count[p] - 1 ELSE s.count[p]
  OBVIOUS
<1>6. p \in Elems => k \in 0 .. CountMod - 1
  BY <1>2, <1>5, TypedFields, CountRange
<1>7. Typed([s EXCEPT !.next[c] = None, !.parent[c] = v, !.count[p] = k])
  BY <1>2, <1>4, <1>6, TakeTyped
<1>8. Unlinked(d, c) = d \/ Unlinked(d, c) = [s EXCEPT !.next[c] = None, !.parent[c] = v, !.count[p] = k]
  BY <1>1, <1>2, <1>3, <1>5 DEF Unlinked
<1> QED
  BY <1>7, <1>8

LEMMA DetachTyped ==
  ASSUME NEW d, Typed(d), NEW c \in Nodes PROVE Typed(Detached(d, c))
BY UnlinkTyped DEF Detached

LEMMA CountedTyped ==
  ASSUME NEW d, Typed(d), NEW p, NEW c PROVE Typed(Counted(d, p, c))
<1>1. CASE c \in Elems
  <2>1. PICK k : k = (d.count[p] + 1) % CountMod
    OBVIOUS
  <2>2. p \in Elems => k \in 0 .. CountMod - 1
    BY <2>1, TypedFields, CountRange
  <2>3. Typed([d EXCEPT !.count[p] = k])
    BY <2>2 DEF Typed
  <2> QED
    BY <1>1, <2>1, <2>3 DEF Counted
<1>2. CASE c \notin Elems
  BY <1>2 DEF Counted
<1> QED
  BY <1>1, <1>2

(* Counters, and what joins and leaves them.                                 *)
Below(P, p) == {n \in Elems : P[n] = p}
Counts(d) == \A p \in Elems : d.count[p] = Cardinality(Below(d.parent, p))

Taken(d, c, e) ==
  /\ Typed(e) /\ Leaves(d.first, d.next, d.parent, e.first, e.next, e.parent, c)
  /\ Counts(d) =>
       \A q \in Elems : e.count[q] = IF c \in Elems /\ q = d.parent[c] THEN d.count[q] - 1 ELSE d.count[q]

LEMMA BelowFinite ==
  ASSUME NEW P, NEW p PROVE IsFiniteSet(Below(P, p)) /\ Cardinality(Below(P, p)) \in Nat
<1>1. IsFiniteSet(Elems)
  BY Sorts, FS_Subset
<1>2. Below(P, p) \in SUBSET Elems
  BY DEF Below
<1> QED
  BY <1>1, <1>2, FS_Subset, FS_CardinalityType

LEMMA TakenKeeps ==
  ASSUME NEW d, SoundDom(d), NEW c \in Nodes, NEW e, Taken(d, c, e), d.parent[c] # None
  PROVE  SoundDom(e) /\ (Counts(d) => Counts(e)) /\ e.parent[c] = None /\ e.next[c] = None
<1>1. SoundDom(e) /\ e.parent[c] = None /\ e.next[c] = None
  <2>1. Sound(e.first, e.next, e.parent)
    BY TypedFields, LeaveSound DEF SoundDom, Taken
  <2> QED
    BY <2>1 DEF Taken, SoundDom, Leaves
<1>2. ASSUME Counts(d), NEW p \in Elems PROVE e.count[p] = Cardinality(Below(e.parent, p))
  <2>1. Below(e.parent, p) = Below(d.parent, p) \ {c}
    BY <1>2, Sorts DEF Below, Taken, Leaves
  <2>2. IsFiniteSet(Below(d.parent, p)) /\ Cardinality(Below(d.parent, p)) \in Nat
    BY BelowFinite
  <2>3. Cardinality(Below(e.parent, p)) =
          IF c \in Below(d.parent, p) THEN Cardinality(Below(d.parent, p)) - 1
          ELSE Cardinality(Below(d.parent, p))
    BY <2>1, <2>2, FS_RemoveElement
  <2>4. c \in Below(d.parent, p) <=> c \in Elems /\ p = d.parent[c]
    BY DEF Below
  <2> QED
    BY <1>2, <2>3, <2>4 DEF Counts, Taken
<1> QED
  BY <1>1, <1>2 DEF Counts

(* A child counts at least once.                                             *)
LEMMA CountPositive ==
  ASSUME NEW d, Counts(d), NEW c \in Elems, NEW p \in Elems, d.parent[c] = p
  PROVE  d.count[p] \in Nat /\ d.count[p] > 0
<1>1. c \in Below(d.parent, p) /\ IsFiniteSet(Below(d.parent, p)) /\ Cardinality(Below(d.parent, p)) \in Nat
  BY BelowFinite DEF Below
<1>2. Cardinality(Below(d.parent, p)) # 0
  BY <1>1, FS_EmptySet
<1> QED
  BY <1>1, <1>2 DEF Counts

LEMMA UnlinkIs ==
  ASSUME Refs = {}, NEW d, SoundDom(d), NEW c \in Nodes, d.parent[c] # None
  PROVE  Taken(d, c, Unlinked(d, c))
<1>0. Typed(d) /\ Maps(d.first, d.next, d.parent)
  BY TypedFields DEF SoundDom
<1>1. PICK p \in Elems : p = d.parent[c]
  BY <1>0 DEF Maps
<1>2. PICK s : s = SpliceOut(d, p, c) /\ Spliced(d, c, s)
  BY <1>1, SpliceIs
<1>3. c \in Children(d, p)
  BY <1>1, ChildrenAre
<1>4. PICK k : k = IF c \in Elems /\ s.count[p] > 0 THEN s.count[p] - 1 ELSE s.count[p]
  OBVIOUS
<1>5. /\ k \in 0 .. CountMod - 1
      /\ Counts(d) => k = IF c \in Elems THEN d.count[p] - 1 ELSE d.count[p]
  <2>1. s.count[p] = d.count[p] /\ d.count[p] \in 0 .. CountMod - 1
    BY <1>0, <1>2, TypedFields DEF Spliced
  <2>2. Counts(d) /\ c \in Elems => d.count[p] > 0
    BY <1>1, CountPositive
  <2> QED
    BY <1>4, <2>1, <2>2, CountRange
<1>6. PICK e : e = [s EXCEPT !.next[c] = None, !.parent[c] = None, !.count[p] = k]
  OBVIOUS
<1>7. TookOut(s, c, p, k, e)
  <2>1. Typed(s) /\ p \in Elems /\ k \in 0 .. CountMod - 1
    BY <1>1, <1>2, <1>5 DEF Spliced
  <2> QED
    BY <1>6, <2>1, TakeIs
<1>8. Unlinked(d, c) = e
  BY <1>1, <1>2, <1>3, <1>4, <1>6 DEF Unlinked
<1>9. Taken(d, c, e)
  BY <1>1, <1>2, <1>5, <1>7 DEF Taken, TookOut, Leaves, Spliced
<1> QED
  BY <1>8, <1>9

(* After leptris_node_unlink of an attached node, or nothing for a detached. *)
LEMMA DetachKeeps ==
  ASSUME Refs = {}, NEW d, SoundDom(d), NEW c \in Nodes, NEW e, e = Detached(d, c)
  PROVE  /\ SoundDom(e) /\ (Counts(d) => Counts(e)) /\ e.parent[c] = None /\ e.next[c] = None
         /\ \A n \in Nodes : n # c => e.parent[n] = d.parent[n] /\ (d.next[n] = None => e.next[n] = None)
<1>1. CASE d.parent[c] = None
  <2>1. e = d /\ d.next[c] = None
    BY <1>1, Sorts DEF Detached, SoundDom, Sound, Linked
  <2> QED
    BY <1>1, <2>1
<1>2. CASE d.parent[c] # None
  <2>1. Taken(d, c, e)
    BY <1>2, UnlinkIs DEF Detached
  <2>2. SoundDom(e) /\ (Counts(d) => Counts(e)) /\ e.parent[c] = None /\ e.next[c] = None
    BY <1>2, <2>1, TakenKeeps
  <2>3. \A n \in Nodes : n # c => e.parent[n] = d.parent[n] /\ (d.next[n] = None => e.next[n] = None)
    BY <2>1, Sorts DEF Taken, Leaves
  <2> QED
    BY <2>2, <2>3
<1> QED
  BY <1>1, <1>2

-------------------------------------------------------------------------------
(* Along the parent edges heights grow.  A node may come below p when it is  *)
(* outside a set that holds p and whatever is above its members.             *)
Over(f) == {f[k] : k \in 0 .. N} \ {None}
Upward(P, A, p) == A \subseteq Nodes /\ p \in A /\ \A q \in A : P[q] # None => P[q] \in A
Free(P, c, p) == \E A : Upward(P, A, p) /\ c \notin A
Drops(P, Q) == \A n \in Nodes : Q[n] = P[n] \/ Q[n] = None
Reparents(P, Q, c, p) == \A n \in Nodes : Q[n] = IF n = c THEN p ELSE P[n]

LEMMA DropOrdered ==
  ASSUME NEW P, NEW top, Ordered(P, top), NEW Q, Drops(P, Q) PROVE Ordered(Q, top)
BY DEF Ordered, Drops

LEMMA MoveOrdered ==
  ASSUME NEW P \in [Nodes -> Nodes \cup {None}], NEW top, Ordered(P, top),
         NEW c \in Nodes, NEW p, Free(P, c, p), NEW Q, Reparents(P, Q, c, p)
  PROVE  \E new : Ordered(Q, new)
<1>1. PICK A : Upward(P, A, p) /\ c \notin A
  BY DEF Free
<1>2. PICK new : new = [n \in Nodes |-> IF n \in A THEN top[n] + top[c] + 1 ELSE top[n]]
  OBVIOUS
<1>3. \A n \in Nodes : top[n] \in Nat /\ (P[n] # None => P[n] \in Nodes /\ top[n] < top[P[n]])
  BY DEF Ordered
<1>4. new \in [Nodes -> Nat] /\ \A n \in Nodes : new[n] = IF n \in A THEN top[n] + top[c] + 1 ELSE top[n]
  BY <1>2, <1>3
<1>5. ASSUME NEW n \in Nodes, Q[n] # None PROVE new[n] < new[Q[n]]
  <2>1. CASE n = c
    <3>1. Q[n] = p /\ p \in A /\ p \in Nodes /\ n \notin A
      BY <1>1, <2>1 DEF Upward, Reparents
    <3> QED
      BY <1>3, <1>4, <2>1, <3>1
  <2>2. CASE n # c
    <3>1. Q[n] = P[n] /\ P[n] \in Nodes /\ (n \in A => P[n] \in A)
      BY <1>1, <1>3, <1>5, <2>2 DEF Upward, Reparents
    <3> QED
      BY <1>3, <1>4, <1>5, <3>1
  <2> QED
    BY <2>1, <2>2
<1> QED
  BY <1>4, <1>5 DEF Ordered

(* The nodes a walk along the parent edges of s meets.                       *)
LEMMA Uphill ==
  ASSUME NEW P \in [Nodes -> Nodes \cup {None}], NEW top, Ordered(P, top),
         NEW s \in Nodes, NEW f, Steps(f, P[s], P)
  PROVE  /\ Over(f) \subseteq Nodes /\ s \notin Over(f)
         /\ P[s] # None => P[s] \in Over(f)
         /\ \A q \in Over(f) : P[q] # None => P[q] \in Over(f)
         /\ \A c : (\A n \in Nodes : P[n] # c) => c \notin Over(f)
<1>0. N \in Nat /\ 0 \in 0 .. N /\ P[s] \in Nodes \cup {None} /\ None \notin Nodes
  BY NIsNat, Sorts
<1>1. /\ \A k \in 0 .. N : f[k] \in Nodes \cup {None}
      /\ \A k \in 0 .. N : f[k] # None => k < N /\ f[k + 1] = P[f[k]]
      /\ \A j, k \in 0 .. N : j < k /\ f[k] # None => f[j] # None /\ top[f[j]] < top[f[k]]
  BY <1>0, Climbs
<1>2. f[0] = P[s]
  BY DEF Steps
<1>3. Over(f) \subseteq Nodes /\ (P[s] # None => P[s] \in Over(f))
  BY <1>0, <1>1, <1>2 DEF Over
<1>4. ASSUME NEW k \in 0 .. N, f[k] # None, P[f[k]] # None PROVE P[f[k]] \in Over(f)
  <2>1. k + 1 \in 0 .. N /\ f[k + 1] = P[f[k]]
    BY <1>0, <1>1, <1>4
  <2> QED
    BY <1>4, <2>1 DEF Over
<1>5. ASSUME NEW k \in 0 .. N, f[k] # None PROVE f[k] # s
  <2>1. f[0] # None /\ (k # 0 => top[f[0]] < top[f[k]]) /\ f[0] \in Nodes /\ f[k] \in Nodes
    BY <1>0, <1>1, <1>5
  <2>2. top[s] < top[f[0]] /\ top[s] \in Nat /\ top[f[0]] \in Nat /\ top[f[k]] \in Nat
    BY <1>2, <2>1 DEF Ordered
  <2> QED
    BY <2>1, <2>2
<1>6. ASSUME NEW c, \A n \in Nodes : P[n] # c, NEW k \in 0 .. N, f[k] # None PROVE f[k] # c
  <2>1. CASE k = 0
    BY <1>2, <1>6, <2>1
  <2>2. CASE k # 0
    <3>1. k - 1 \in 0 .. N /\ k - 1 < k /\ (k - 1) + 1 = k
      BY <1>0, <2>2
    <3>2. f[k - 1] \in Nodes /\ f[k] = P[f[k - 1]]
      BY <1>1, <1>6, <3>1
    <3> QED
      BY <1>6, <3>2
  <2> QED
    BY <2>1, <2>2
<1> QED
  BY <1>3, <1>4, <1>5, <1>6 DEF Over

LEMMA AncestorsAre ==
  ASSUME NEW d, NEW p PROVE \E f : Ancestors(d, p) = Over(f) /\ Steps(f, d.parent[p], d.parent)
<1> DEFINE w == CHOOSE f : Walking(f, d.parent[p], d.parent, N)
<1>1. Walking(w, d.parent[p], d.parent, N)
  BY WalkExists
<1>2. Ancestors(d, p) = Over(w)
  BY DEF Ancestors, Up, Walking, Over
<1> HIDE DEF w
<1> QED
  BY <1>1, <1>2, WalkSteps

LEMMA StandsUnderAre ==
  ASSUME Comments = {}, Refs = {}, NEW s
  PROVE  \E f : StandsUnder(s) = Over(f) /\ Steps(f, dom.parent[s], dom.parent)
<1>1. \A n : ReadAsElement(n) = dom.parent[n]
  BY DEF ReadAsElement
<1> DEFINE Is(f) == f = [k \in 0 .. N |-> IF k = 0 THEN ReadAsElement(s)
                          ELSE LET q == f[k - 1] IN IF q = None THEN None ELSE ReadAsElement(q)]
           w == CHOOSE f : Is(f)
<1>2. StandsUnder(s) = Over(w)
  BY DEF StandsUnder, Over
<1>3. \A f : Is(f) <=> Walking(f, dom.parent[s], dom.parent, N)
  BY <1>1 DEF Walking
<1>4. Is(w)
  <2>1. \E f : Is(f)
    <3> HIDE DEF Is
    <3> QED
      BY <1>3, WalkExists
  <2> HIDE DEF Is
  <2> QED
    BY <2>1
<1> HIDE DEF w, Is
<1> QED
  BY <1>2, <1>3, <1>4, WalkSteps

(* What each check on the way in lets through.                               *)
Parents(d) == d.parent \in [Nodes -> Nodes \cup {None}]

LEMMA TypedParents == ASSUME NEW d, Typed(d) PROVE Parents(d)
BY Sorts, TypedFields DEF Parents, Maps

LEMMA NotAbove ==
  ASSUME NEW d, Parents(d), NEW top, Ordered(d.parent, top), NEW p \in Nodes
  PROVE  /\ p \notin Ancestors(d, p)
         /\ \A c : (\A n \in Nodes : d.parent[n] # c) => c \notin Ancestors(d, p)
<1>1. PICK f : Ancestors(d, p) = Over(f) /\ Steps(f, d.parent[p], d.parent)
  BY AncestorsAre
<1> QED
  BY <1>1, Uphill DEF Parents

LEMMA OutsideFree ==
  ASSUME NEW d, Parents(d), NEW top, Ordered(d.parent, top),
         NEW p \in Nodes, NEW c, p # c, c \notin Ancestors(d, p)
  PROVE  Free(d.parent, c, p)
<1>1. PICK f : Ancestors(d, p) = Over(f) /\ Steps(f, d.parent[p], d.parent)
  BY AncestorsAre
<1>2. /\ Over(f) \subseteq Nodes
      /\ d.parent[p] # None => d.parent[p] \in Over(f)
      /\ \A q \in Over(f) : d.parent[q] # None => d.parent[q] \in Over(f)
  BY <1>1, Uphill DEF Parents
<1>3. Upward(d.parent, Over(f) \cup {p}, p)
  BY <1>2 DEF Upward
<1> QED
  BY <1>1, <1>3 DEF Free

LEMMA StandFree ==
  ASSUME Comments = {}, Refs = {}, Typed(dom), NEW top, Ordered(dom.parent, top),
         NEW s \in Nodes, NEW c, dom.parent[s] # None, MayStandBy(s, c)
  PROVE  Free(dom.parent, c, dom.parent[s])
<1>0. Parents(dom) /\ \A n \in Nodes : dom.parent[n] \in Elems \cup {None}
  BY TypedParents, TypedFields DEF Maps
<1>1. PICK f : StandsUnder(s) = Over(f) /\ Steps(f, dom.parent[s], dom.parent)
  BY StandsUnderAre
<1>2. Parents(dom) =>
      /\ Over(f) \subseteq Nodes
      /\ dom.parent[s] # None => dom.parent[s] \in Over(f)
      /\ \A q \in Over(f) : dom.parent[q] # None => dom.parent[q] \in Over(f)
      /\ (\A n \in Nodes : dom.parent[n] # c) => c \notin Over(f)
  BY <1>1, Uphill DEF Parents
<1>3. c \notin Over(f)
  <2>1. CASE c \in Elems
    BY <1>1, <2>1 DEF MayStandBy
  <2>2. CASE c \notin Elems /\ c # None
    BY <1>0, <1>2, <2>2
  <2>3. CASE c = None
    BY <2>3 DEF Over
  <2> QED
    BY <2>1, <2>2, <2>3
<1>4. Upward(dom.parent, Over(f), dom.parent[s])
  BY <1>0, <1>2 DEF Upward
<1> QED
  BY <1>3, <1>4 DEF Free

LEMMA PrependFree ==
  ASSUME Typed(dom), NEW top, Ordered(dom.parent, top),
         NEW p \in Elems, NEW c \in Nodes, p # c, c \in Elems => c \notin Ancestors(dom, p)
  PROVE  Free(dom.parent, c, p)
<1>0. p \in Nodes /\ Parents(dom) /\ \A n \in Nodes : dom.parent[n] \in Elems \cup {None}
  BY TypedParents, TypedFields, Sorts DEF Maps
<1>1. c \notin Ancestors(dom, p)
  <2>1. CASE c \notin Elems
    <3>1. \A n \in Nodes : dom.parent[n] # c
      BY <1>0, <2>1, Sorts
    <3> QED
      BY <1>0, <3>1, NotAbove
  <2> QED
    BY <2>1
<1> QED
  BY <1>0, <1>1, OutsideFree

LEMMA NoChildren ==
  ASSUME NEW d, SoundDom(d), NEW c \in Elems, d.first[c] = None
  PROVE  \A n \in Nodes : d.parent[n] # c
<1>1. PICK f : f = At(d, c) /\ Steps(f, d.first[c], d.next)
  BY AtSteps
<1>2. PICK pos : Ordered(d.next, pos)
  BY DEF SoundDom, Sound
<1>3. d.next \in [Nodes -> Nodes \cup {None}]
  BY TypedFields DEF SoundDom, Maps
<1>4. N \in Nat /\ 0 \in 0 .. N
  BY NIsNat
<1>5. f[0] = None
  BY <1>1 DEF Steps
<1>6. \A j, k \in 0 .. N : j < k /\ f[k] # None => f[j] # None
  BY <1>1, <1>2, <1>3, Climbs
<1>7. \A k \in 0 .. N : f[k] = None
  BY <1>4, <1>5, <1>6
<1>8. Children(d, c) = {}
  BY <1>1, <1>7 DEF Children
<1> QED
  BY <1>8, ChildrenAre

LEMMA AdoptFree ==
  ASSUME SoundDom(dom), NEW top, Ordered(dom.parent, top),
         NEW p \in Elems, NEW c \in Nodes, MayAdopt(p, c), Ancestors(dom, p) = Nearest(dom, p)
  PROVE  Free(dom.parent, c, p)
<1>0. p \in Nodes /\ Parents(dom) /\ p # c
  BY TypedParents, Sorts DEF SoundDom, MayAdopt
<1>1. c \notin Ancestors(dom, p)
  <2>1. CASE c \in Elems /\ dom.first[c] = None
    <3>1. \A n \in Nodes : dom.parent[n] # c
      BY <2>1, NoChildren
    <3> QED
      BY <1>0, <3>1, NotAbove
  <2> QED
    BY <2>1 DEF MayAdopt
<1> QED
  BY <1>0, <1>1, OutsideFree

(* append_child looks at the WalkCap nearest ancestors of the parent: what   *)
(* it lets through is safe as long as no element has more than those.        *)
Shallow == "append" \in calls => \A p \in Elems : Ancestors(dom, p) = Nearest(dom, p)

-------------------------------------------------------------------------------
(* What the calls that insert write, at the front or behind a node.          *)
Tallied(d, p, c, e) ==
  \A q \in Elems : e.count[q] = IF c \in Elems /\ q = p THEN (d.count[q] + 1) % CountMod ELSE d.count[q]
AtFront(d, p, c, x, e) ==
  /\ Typed(e) /\ Reparents(d.parent, e.parent, c, p) /\ Tallied(d, p, c, e)
  /\ \A q \in Elems : e.first[q] = IF q = p THEN c ELSE d.first[q]
  /\ \A n \in Nodes : e.next[n] = IF n = c THEN x ELSE d.next[n]
Behind(d, p, c, m, x, e) ==
  /\ Typed(e) /\ Reparents(d.parent, e.parent, c, p) /\ Tallied(d, p, c, e)
  /\ e.first = d.first
  /\ m # c => \A n \in Nodes : e.next[n] = IF n = c THEN x ELSE IF n = m THEN c ELSE d.next[n]

LEMMA CountedIs ==
  ASSUME NEW d, Typed(d), NEW p \in Elems, NEW c
  PROVE  \E e : /\ e = Counted(d, p, c) /\ Typed(e) /\ Tallied(d, p, c, e)
                /\ e.first = d.first /\ e.next = d.next /\ e.parent = d.parent
<1>1. CASE c \in Elems
  <2>1. PICK k : k = (d.count[p] + 1) % CountMod
    OBVIOUS
  <2>2. k \in 0 .. CountMod - 1
    BY <2>1, TypedFields, CountRange
  <2>3. PICK e : e = [d EXCEPT !.count[p] = k] /\ CountSet(d, p, k, e)
    BY <2>2, SetCountIs
  <2>4. Typed(e) /\ e.first = d.first /\ e.next = d.next /\ e.parent = d.parent
    BY <2>3 DEF CountSet
  <2>5. Tallied(d, p, c, e)
    BY <1>1, <2>1, <2>3 DEF CountSet, Tallied
  <2>6. e = Counted(d, p, c)
    BY <1>1, <2>1, <2>3 DEF Counted
  <2> QED
    BY <2>4, <2>5, <2>6
<1>2. CASE c \notin Elems
  BY <1>2 DEF Counted, Tallied
<1> QED
  BY <1>1, <1>2

LEMMA CountAtFront ==
  ASSUME NEW d, NEW p \in Elems, NEW c \in Nodes, NEW x, NEW s, Typed(s),
         Reparents(d.parent, s.parent, c, p), s.count = d.count,
         \A q \in Elems : s.first[q] = IF q = p THEN c ELSE d.first[q],
         \A n \in Nodes : s.next[n] = IF n = c THEN x ELSE d.next[n]
  PROVE  AtFront(d, p, c, x, Counted(s, p, c))
<1>1. PICK e : /\ e = Counted(s, p, c) /\ Typed(e) /\ Tallied(s, p, c, e)
               /\ e.first = s.first /\ e.next = s.next /\ e.parent = s.parent
  BY CountedIs
<1>2. AtFront(d, p, c, x, e)
  BY <1>1 DEF AtFront, Tallied
<1> QED
  BY <1>1, <1>2

LEMMA CountBehind ==
  ASSUME NEW d, NEW p \in Elems, NEW c \in Nodes, NEW m, NEW x, NEW s, Typed(s),
         Reparents(d.parent, s.parent, c, p), s.count = d.count, s.first = d.first,
         m # c => \A n \in Nodes : s.next[n] = IF n = c THEN x ELSE IF n = m THEN c ELSE d.next[n]
  PROVE  Behind(d, p, c, m, x, Counted(s, p, c))
<1>1. PICK e : /\ e = Counted(s, p, c) /\ Typed(e) /\ Tallied(s, p, c, e)
               /\ e.first = s.first /\ e.next = s.next /\ e.parent = s.parent
  BY CountedIs
<1>2. Behind(d, p, c, m, x, e)
  BY <1>1 DEF Behind, Tallied
<1> QED
  BY <1>1, <1>2

(* With the new child's own edge written, and with it left as it was.        *)
PlacedAt(d, p, c, s) ==
  /\ Typed(s) /\ Reparents(d.parent, s.parent, c, p) /\ s.count = d.count /\ s.next = d.next
  /\ \A q \in Elems : s.first[q] = IF q = p THEN c ELSE d.first[q]

LEMMA PlaceIs ==
  ASSUME NEW d, Typed(d), NEW p \in Elems, NEW c \in Nodes
  PROVE  PlacedAt(d, p, c, [d EXCEPT !.parent[c] = p, !.first[p] = c])
BY DEF Typed, PlacedAt, Reparents

LEMMA FrontAlone ==
  ASSUME NEW d, Typed(d), NEW p \in Elems, NEW c \in Nodes
  PROVE  AtFront(d, p, c, d.next[c], Counted([d EXCEPT !.parent[c] = p, !.first[p] = c], p, c))
<1>1. PICK s : s = [d EXCEPT !.parent[c] = p, !.first[p] = c]
  OBVIOUS
<1>2. PlacedAt(d, p, c, s)
  BY <1>1, PlaceIs
<1>3. AtFront(d, p, c, d.next[c], Counted(s, p, c))
  <2>1. \A n \in Nodes : s.next[n] = IF n = c THEN d.next[c] ELSE d.next[n]
    BY <1>2 DEF PlacedAt
  <2> QED
    BY <1>2, <2>1, CountAtFront DEF PlacedAt
<1> QED
  BY <1>1, <1>3

LEMMA FrontOf ==
  ASSUME NEW d, Typed(d), NEW p \in Elems, NEW c \in Nodes, NEW m \in Nodes \cup {None}
  PROVE  AtFront(d, p, c, IF m = c THEN None ELSE m,
                 Counted(SetNext([d EXCEPT !.parent[c] = p, !.first[p] = c], c, m), p, c))
<1>1. PICK s : s = [d EXCEPT !.parent[c] = p, !.first[p] = c]
  OBVIOUS
<1>2. PlacedAt(d, p, c, s) /\ Typed(s)
  <2>1. PlacedAt(d, p, c, s)
    BY <1>1, PlaceIs
  <2> QED
    BY <2>1 DEF PlacedAt
<1>3. PICK x : x = IF m = c THEN None ELSE m
  OBVIOUS
<1>4. PICK t : t = SetNext(s, c, m)
  OBVIOUS
<1>5. NextSet(s, c, x, t)
  BY <1>2, <1>3, <1>4, SetNextIs
<1>6. /\ Typed(t) /\ Reparents(d.parent, t.parent, c, p) /\ t.count = d.count
      /\ \A q \in Elems : t.first[q] = IF q = p THEN c ELSE d.first[q]
      /\ \A n \in Nodes : t.next[n] = IF n = c THEN x ELSE d.next[n]
  BY <1>2, <1>5 DEF PlacedAt, NextSet
<1>7. AtFront(d, p, c, x, Counted(t, p, c))
  BY <1>6, CountAtFront
<1> QED
  BY <1>1, <1>3, <1>4, <1>7

LEMMA FirstBefore ==
  ASSUME NEW d, Typed(d), NEW p \in Elems, NEW c \in Nodes, NEW s \in Nodes \ {c}
  PROVE  AtFront(d, p, c, s,
                 Counted([SetNext([d EXCEPT !.parent[c] = p], c, s) EXCEPT !.first[p] = c], p, c))
<1>1. PICK t : t = [d EXCEPT !.parent[c] = p]
  OBVIOUS
<1>2. ParentSet(d, c, p, t) /\ Typed(t)
  BY <1>1, SetParentIs DEF ParentSet
<1>3. PICK u : u = SetNext(t, c, s)
  OBVIOUS
<1>4. NextSet(t, c, s, u) /\ Typed(u)
  <2>1. (IF s = c THEN None ELSE s) = s
    OBVIOUS
  <2> QED
    BY <1>2, <1>3, <2>1, SetNextIs DEF NextSet
<1>5. PICK v : v = [u EXCEPT !.first[p] = c]
  OBVIOUS
<1>6. FirstSet(u, p, c, v)
  BY <1>4, <1>5, SetFirstIs
<1>7. /\ Typed(v) /\ Reparents(d.parent, v.parent, c, p) /\ v.count = d.count
      /\ \A q \in Elems : v.first[q] = IF q = p THEN c ELSE d.first[q]
      /\ \A n \in Nodes : v.next[n] = IF n = c THEN s ELSE d.next[n]
  BY <1>2, <1>4, <1>6 DEF ParentSet, NextSet, FirstSet, Reparents
<1>8. AtFront(d, p, c, s, Counted(v, p, c))
  BY <1>7, CountAtFront
<1> QED
  BY <1>1, <1>3, <1>5, <1>8

LEMMA BehindAlone ==
  ASSUME NEW d, Typed(d), NEW p \in Elems, NEW c \in Nodes, NEW m
  PROVE  Behind(d, p, c, m, d.next[c], Counted(SetNext([d EXCEPT !.parent[c] = p], m, c), p, c))
<1>1. PICK t : t = [d EXCEPT !.parent[c] = p]
  OBVIOUS
<1>2. ParentSet(d, c, p, t) /\ Typed(t)
  BY <1>1, SetParentIs DEF ParentSet
<1>3. PICK u : u = SetNext(t, m, c)
  OBVIOUS
<1>4. NextSet(t, m, IF c = m THEN None ELSE c, u)
  BY <1>2, <1>3, SetNextIs
<1>5. /\ Typed(u) /\ Reparents(d.parent, u.parent, c, p) /\ u.count = d.count /\ u.first = d.first
      /\ m # c => \A n \in Nodes : u.next[n] = IF n = c THEN d.next[c] ELSE IF n = m THEN c ELSE d.next[n]
  BY <1>2, <1>4 DEF ParentSet, NextSet, Reparents
<1>6. Behind(d, p, c, m, d.next[c], Counted(u, p, c))
  BY <1>5, CountBehind
<1> QED
  BY <1>1, <1>3, <1>6

LEMMA BehindOf ==
  ASSUME NEW d, Typed(d), NEW p \in Elems, NEW c \in Nodes, NEW m, NEW y \in Nodes \cup {None}
  PROVE  LET x == IF y = c THEN None ELSE y
             t == [d EXCEPT !.parent[c] = p]
         IN  /\ Behind(d, p, c, m, x, Counted(SetNext(SetNext(t, m, c), c, y), p, c))
             /\ Behind(d, p, c, m, x, Counted(SetNext(SetNext(t, c, y), m, c), p, c))
<1>1. PICK t : t = [d EXCEPT !.parent[c] = p]
  OBVIOUS
<1>2. ParentSet(d, c, p, t) /\ Typed(t)
  BY <1>1, SetParentIs DEF ParentSet
<1>3. PICK x : x = IF y = c THEN None ELSE y
  OBVIOUS
<1>4. PICK z : z = IF c = m THEN None ELSE c
  OBVIOUS
<1>5. PICK u : u = SetNext(t, m, c)
  OBVIOUS
<1>6. PICK v : v = SetNext(u, c, y)
  OBVIOUS
<1>7. PICK i : i = SetNext(t, c, y)
  OBVIOUS
<1>8. PICK j : j = SetNext(i, m, c)
  OBVIOUS
<1>9. NextSet(t, m, z, u) /\ Typed(u)
  BY <1>2, <1>4, <1>5, SetNextIs DEF NextSet
<1>10. NextSet(u, c, x, v)
  BY <1>3, <1>6, <1>9, SetNextIs
<1>11. NextSet(t, c, x, i) /\ Typed(i)
  BY <1>2, <1>3, <1>7, SetNextIs DEF NextSet
<1>12. NextSet(i, m, z, j)
  BY <1>4, <1>8, <1>11, SetNextIs
<1>13. Behind(d, p, c, m, x, Counted(v, p, c))
  <2>1. /\ Typed(v) /\ Reparents(d.parent, v.parent, c, p) /\ v.count = d.count /\ v.first = d.first
        /\ m # c => \A n \in Nodes : v.next[n] = IF n = c THEN x ELSE IF n = m THEN c ELSE d.next[n]
    BY <1>2, <1>4, <1>9, <1>10 DEF ParentSet, NextSet, Reparents
  <2> QED
    BY <2>1, CountBehind
<1>14. Behind(d, p, c, m, x, Counted(j, p, c))
  <2>1. /\ Typed(j) /\ Reparents(d.parent, j.parent, c, p) /\ j.count = d.count /\ j.first = d.first
        /\ m # c => \A n \in Nodes : j.next[n] = IF n = c THEN x ELSE IF n = m THEN c ELSE d.next[n]
    BY <1>2, <1>4, <1>11, <1>12 DEF ParentSet, NextSet, Reparents
  <2> QED
    BY <2>1, CountBehind
<1> QED
  BY <1>1, <1>3, <1>5, <1>6, <1>7, <1>8, <1>13, <1>14

LEMMA BeforeOf ==
  ASSUME NEW d, Typed(d), NEW p \in Elems, NEW s \in Nodes, NEW c \in Nodes \ {s}, NEW m
  PROVE  Behind(d, p, c, m, s, Counted(SetNext(SetNext([d EXCEPT !.parent[c] = p], c, s), m, c), p, c))
<1>1. (IF s = c THEN None ELSE s) = s
  OBVIOUS
<1> QED
  BY <1>1, BehindOf

(* An insertion keeps the lists and the counters.                            *)
LEMMA FrontKeeps ==
  ASSUME NEW d, SoundDom(d), NEW p \in Elems, NEW c \in Nodes, d.parent[c] = None, d.next[c] = None,
         NEW e, AtFront(d, p, c, d.first[p], e)
  PROVE  SoundDom(e)
<1>1. Fronts(d.first, d.next, d.parent, e.first, e.next, e.parent, p, c) /\ Typed(e)
  BY DEF AtFront, Fronts, Reparents
<1>2. Maps(d.first, d.next, d.parent) /\ Sound(d.first, d.next, d.parent)
  BY TypedFields DEF SoundDom
<1>3. Sound(e.first, e.next, e.parent)
  BY <1>1, <1>2, FrontSound
<1> QED
  BY <1>1, <1>3 DEF SoundDom

LEMMA BehindKeeps ==
  ASSUME NEW d, SoundDom(d), NEW m \in Nodes, NEW p \in Elems, d.parent[m] = p,
         NEW c \in Nodes, d.parent[c] = None, d.next[c] = None,
         NEW e, Behind(d, p, c, m, d.next[m], e)
  PROVE  SoundDom(e)
<1>0. p # None /\ m # c
  BY Sorts
<1>1. Follows(d.first, d.next, d.parent, e.first, e.next, e.parent, m, c) /\ Typed(e)
  BY <1>0 DEF Behind, Follows, Reparents
<1>2. Maps(d.first, d.next, d.parent) /\ Sound(d.first, d.next, d.parent)
  BY TypedFields DEF SoundDom
<1>3. Sound(e.first, e.next, e.parent)
  BY <1>0, <1>1, <1>2, FollowSound
<1> QED
  BY <1>1, <1>3 DEF SoundDom

LEMMA TallyKeeps ==
  ASSUME Cardinality(Elems) <= CountMod, NEW d, Counts(d), NEW p \in Elems, NEW c \in Nodes,
         d.parent[c] = None, c # p, d.parent[p] # p,
         NEW e, Reparents(d.parent, e.parent, c, p), Tallied(d, p, c, e)
  PROVE  Counts(e)
<1>0. p # None /\ Elems \subseteq Nodes /\ IsFiniteSet(Elems)
  BY Sorts, FS_Subset
<1>1. ASSUME NEW q \in Elems PROVE e.count[q] = Cardinality(Below(e.parent, q))
  <2>1. IsFiniteSet(Below(d.parent, q)) /\ Cardinality(Below(d.parent, q)) \in Nat
    BY BelowFinite
  <2>2. d.count[q] = Cardinality(Below(d.parent, q))
    BY DEF Counts
  <2>3. CASE c \in Elems /\ q = p
    <3>1. Below(e.parent, q) = Below(d.parent, q) \cup {c} /\ c \notin Below(d.parent, q)
      BY <1>0, <2>3 DEF Below, Reparents
    <3>2. Cardinality(Below(e.parent, q)) = d.count[q] + 1
      BY <2>1, <2>2, <3>1, FS_AddElement
    <3>3. Below(e.parent, q) \subseteq Elems /\ p \notin Below(e.parent, q)
      BY <1>0, <2>3, <3>1 DEF Below
    <3>4. Cardinality(Below(e.parent, q)) < Cardinality(Elems)
      <4>1. Below(e.parent, q) \in SUBSET Elems /\ Below(e.parent, q) # Elems
        BY <3>3
      <4>2. /\ Cardinality(Below(e.parent, q)) <= Cardinality(Elems)
            /\ Cardinality(Below(e.parent, q)) = Cardinality(Elems) => Below(e.parent, q) = Elems
        BY <1>0, <4>1, FS_Subset
      <4>3. Cardinality(Below(e.parent, q)) \in Nat /\ Cardinality(Elems) \in Nat
        BY <1>0, BelowFinite, FS_CardinalityType
      <4> QED
        BY <4>1, <4>2, <4>3
    <3>5. d.count[q] + 1 < CountMod
      <4>1. Cardinality(Elems) \in Nat /\ CountMod \in Nat
        BY <1>0, FS_CardinalityType, CountRange
      <4> QED
        BY <2>1, <2>2, <3>2, <3>4, <4>1
    <3>6. (d.count[q] + 1) % CountMod = d.count[q] + 1
      <4>1. d.count[q] \in 0 .. CountMod - 1 /\ d.count[q] + 1 # CountMod
        BY <2>1, <2>2, <3>5, CountRange
      <4> QED
        BY <4>1, CountRange
    <3> QED
      BY <2>3, <3>2, <3>6 DEF Tallied
  <2>4. CASE ~(c \in Elems /\ q = p)
    <3>1. Below(e.parent, q) = Below(d.parent, q)
      BY <1>0, <2>4, Sorts DEF Below, Reparents
    <3> QED
      BY <2>2, <2>4, <3>1 DEF Tallied
  <2> QED
    BY <2>3, <2>4
<1> QED
  BY <1>1 DEF Counts

-------------------------------------------------------------------------------
(* What taking out leaves of the parent edges, in whatever state.            *)
LEMMA SpliceParent ==
  ASSUME NEW d, Typed(d), NEW p, NEW c \in Nodes
  PROVE  SpliceOut(d, p, c).parent = d.parent /\ SpliceOut(d, p, c).count = d.count
<1>1. d.next[c] \in Nodes \cup {None}
  BY TypedFields DEF Maps
<1>2. CASE d.first[p] = c
  <2>1. FirstSet(d, p, d.next[c], [d EXCEPT !.first[p] = d.next[c]])
    BY <1>1, SetFirstIs
  <2> QED
    BY <1>2, <2>1 DEF SpliceOut, FirstSet
<1>3. CASE d.first[p] # c
  <2>1. PICK m : m = CHOOSE n \in Children(d, p) : d.next[n] = c
    OBVIOUS
  <2>2. NextSet(d, m, IF d.next[c] = m THEN None ELSE d.next[c], SetNext(d, m, d.next[c]))
    BY <1>1, SetNextIs
  <2> QED
    BY <1>3, <2>1, <2>2 DEF SpliceOut, NextSet
<1> QED
  BY <1>2, <1>3

LEMMA TakeParent ==
  ASSUME NEW s, Typed(s), NEW c \in Nodes, NEW p, NEW v \in Elems \cup {None}, NEW k
  PROVE  Reparents(s.parent, [s EXCEPT !.next[c] = None, !.parent[c] = v, !.count[p] = k].parent, c, v)
BY DEF Typed, Reparents

LEMMA DetachParent ==
  ASSUME NEW d, Typed(d), NEW c \in Nodes
  PROVE  \E v : (v = d.parent[c] \/ v = None) /\ Reparents(d.parent, Detached(d, c).parent, c, v)
<1>1. CASE Detached(d, c) = d
  <2>1. Reparents(d.parent, d.parent, c, d.parent[c])
    BY DEF Reparents
  <2> QED
    BY <1>1, <2>1
<1>2. CASE Detached(d, c) # d
  <2>1. PICK p : p = d.parent[c]
    OBVIOUS
  <2>2. PICK s : s = SpliceOut(d, p, c)
    OBVIOUS
  <2>3. Typed(s) /\ s.parent = d.parent
    BY <2>2, SpliceTyped, SpliceParent
  <2>4. PICK v : v = IF c \in Refs THEN s.parent[c] ELSE None
    OBVIOUS
  <2>5. v \in Elems \cup {None} /\ (v = d.parent[c] \/ v = None)
    BY <2>3, <2>4, TypedFields DEF Maps
  <2>6. PICK k : k = IF c \in Elems /\ s.count[p] > 0 THEN s.count[p] - 1 ELSE s.count[p]
    OBVIOUS
  <2>7. Detached(d, c) = [s EXCEPT !.next[c] = None, !.parent[c] = v, !.count[p] = k]
    BY <1>2, <2>1, <2>2, <2>4, <2>6 DEF Detached, Unlinked
  <2>8. Reparents(s.parent, Detached(d, c).parent, c, v)
    BY <2>3, <2>5, <2>7, TakeParent
  <2> QED
    BY <2>3, <2>5, <2>8
<1> QED
  BY <1>1, <1>2

(* leptris_element_remove_child.                                             *)
Removed(d, p, c) ==
  [SpliceOut(d, p, c) EXCEPT
     !.next[c] = None, !.parent[c] = None,
     !.count[p] = IF c \in Elems THEN (@ + CountMod - 1) % CountMod ELSE @]

Less(d, p, c) == IF c \in Elems THEN (d.count[p] + CountMod - 1) % CountMod ELSE d.count[p]
TakenOut(s, c, p, k) == [s EXCEPT !.next[c] = None, !.parent[c] = None, !.count[p] = k]

LEMMA RemovedAs ==
  ASSUME NEW d, Typed(d), NEW p \in Elems, NEW c \in Nodes
  PROVE  /\ Less(d, p, c) \in 0 .. CountMod - 1
         /\ Removed(d, p, c) = TakenOut(SpliceOut(d, p, c), c, p, Less(d, p, c))
<1>1. PICK s : s = SpliceOut(d, p, c)
  OBVIOUS
<1>2. s.count = d.count
  BY <1>1, SpliceParent
<1>3. Less(d, p, c) \in 0 .. CountMod - 1
  BY TypedFields, CountRange DEF Less
<1>4. Removed(d, p, c) = TakenOut(s, c, p, Less(d, p, c))
  BY <1>1, <1>2 DEF Removed, TakenOut, Less
<1> QED
  BY <1>1, <1>3, <1>4

LEMMA RemovedTyped ==
  ASSUME NEW d, Typed(d), NEW p \in Elems, NEW c \in Nodes
  PROVE  Typed(Removed(d, p, c)) /\ Reparents(d.parent, Removed(d, p, c).parent, c, None)
<1>1. PICK s : s = SpliceOut(d, p, c)
  OBVIOUS
<1>2. Typed(s) /\ s.parent = d.parent
  BY <1>1, SpliceTyped, SpliceParent
<1>3. PICK k : k = Less(d, p, c) /\ k \in 0 .. CountMod - 1
  BY RemovedAs
<1>4. Typed(TakenOut(s, c, p, k))
  BY <1>2, <1>3, TakeTyped DEF TakenOut
<1>5. Reparents(s.parent, TakenOut(s, c, p, k).parent, c, None)
  BY <1>2, TakeParent DEF TakenOut
<1>6. Removed(d, p, c) = TakenOut(s, c, p, k)
  BY <1>1, <1>3, RemovedAs
<1> QED
  BY <1>2, <1>4, <1>5, <1>6

LEMMA RemovedIs ==
  ASSUME NEW d, SoundDom(d), NEW p \in Elems, NEW c \in Nodes, d.parent[c] = p
  PROVE  Taken(d, c, Removed(d, p, c))
<1>0. Typed(d)
  BY DEF SoundDom
<1>1. PICK s : s = SpliceOut(d, p, c)
  OBVIOUS
<1>2. Spliced(d, c, s)
  BY <1>1, SpliceIs
<1>3. Typed(s)
  BY <1>2 DEF Spliced
<1>4. PICK k : k = Less(d, p, c) /\ k \in 0 .. CountMod - 1
  BY <1>0, RemovedAs
<1>5. Counts(d) => k = IF c \in Elems THEN d.count[p] - 1 ELSE d.count[p]
  <2>1. d.count[p] \in 0 .. CountMod - 1
    BY <1>0, TypedFields
  <2>2. Counts(d) /\ c \in Elems => d.count[p] > 0
    BY CountPositive
  <2>3. PICK x : x = (d.count[p] + CountMod - 1) % CountMod
    OBVIOUS
  <2>4. x = IF d.count[p] = 0 THEN CountMod - 1 ELSE d.count[p] - 1
    BY <2>1, <2>3, CountRange
  <2>5. k = IF c \in Elems THEN x ELSE d.count[p]
    BY <1>4, <2>3 DEF Less
  <2> QED
    BY <2>1, <2>2, <2>4, <2>5
<1>6. PICK e : e = Removed(d, p, c)
  OBVIOUS
<1>7. TookOut(s, c, p, k, e)
  <2>1. TookOut(s, c, p, k, TakenOut(s, c, p, k))
    BY <1>3, <1>4, TakeIs DEF TakenOut
  <2>2. Removed(d, p, c) = TakenOut(s, c, p, k)
    BY <1>0, <1>1, <1>4, RemovedAs
  <2> QED
    BY <1>6, <2>1, <2>2
<1>8. Taken(d, c, e)
  BY <1>2, <1>5, <1>7 DEF Taken, TookOut, Leaves, Spliced
<1> QED
  BY <1>6, <1>8

(* leptris_element_remove_all_children.                                      *)
Emptied(d, p) ==
  [d EXCEPT !.first[p] = None, !.count[p] = 0,
     !.parent = [n \in Nodes |-> IF n \in Children(d, p) THEN None ELSE @[n]],
     !.next = [n \in Nodes |-> IF n \in Children(d, p) THEN None ELSE @[n]]]

EmptiedOf(d, p, K, e) ==
  /\ Typed(e)
  /\ \A q \in Elems : e.first[q] = IF q = p THEN None ELSE d.first[q]
  /\ \A q \in Elems : e.count[q] = IF q = p THEN 0 ELSE d.count[q]
  /\ \A n \in Nodes : e.next[n] = IF n \in K THEN None ELSE d.next[n]
  /\ \A n \in Nodes : e.parent[n] = IF n \in K THEN None ELSE d.parent[n]

LEMMA ClearIs ==
  ASSUME NEW d, Typed(d), NEW p \in Elems, NEW K, 0 \in 0 .. CountMod - 1
  PROVE  EmptiedOf(d, p, K, [d EXCEPT !.first[p] = None, !.count[p] = 0,
                               !.parent = [n \in Nodes |-> IF n \in K THEN None ELSE @[n]],
                               !.next = [n \in Nodes |-> IF n \in K THEN None ELSE @[n]]])
BY DEF Typed, EmptiedOf

LEMMA EmptiedIs ==
  ASSUME NEW d, Typed(d), NEW p \in Elems
  PROVE  EmptiedOf(d, p, Children(d, p), Emptied(d, p))
<1>1. 0 \in 0 .. CountMod - 1
  BY CountRange
<1> QED
  BY <1>1, ClearIs DEF Emptied

LEMMA EmptiedKeeps ==
  ASSUME NEW d, SoundDom(d), NEW p \in Elems, NEW e, e = Emptied(d, p)
  PROVE  SoundDom(e) /\ (Counts(d) => Counts(e))
<1>1. PICK K : K = Children(d, p) /\ EmptiedOf(d, p, K, e)
  BY EmptiedIs DEF SoundDom
<1>2. K = {n \in Nodes : d.parent[n] = p}
  BY <1>1, ChildrenAre
<1>3. Empties(d.first, d.next, d.parent, e.first, e.next, e.parent, p)
  BY <1>1, <1>2 DEF EmptiedOf, Empties
<1>4. Typed(e)
  BY <1>1 DEF EmptiedOf
<1>5. Maps(d.first, d.next, d.parent) /\ Sound(d.first, d.next, d.parent)
  BY TypedFields DEF SoundDom
<1>6. Sound(e.first, e.next, e.parent)
  BY <1>3, <1>5, EmptySound
<1>7. ASSUME Counts(d), NEW q \in Elems PROVE e.count[q] = Cardinality(Below(e.parent, q))
  <2>1. CASE q = p
    <3>1. Below(e.parent, q) = {}
      BY <1>3, <2>1, Sorts DEF Below, Empties
    <3> QED
      BY <1>1, <2>1, <3>1, FS_EmptySet DEF EmptiedOf
  <2>2. CASE q # p
    <3>1. Below(e.parent, q) = Below(d.parent, q)
      BY <1>3, <2>2, Sorts DEF Below, Empties
    <3> QED
      BY <1>1, <1>7, <2>2, <3>1 DEF EmptiedOf, Counts
  <2> QED
    BY <2>1, <2>2
<1> QED
  BY <1>4, <1>6, <1>7 DEF SoundDom, Counts

-------------------------------------------------------------------------------
(* How the functions may be mixed.  Only append maintains the tail cache, so *)
(* a program that appends calls no other function that inserts (#1220), nor  *)
(* do the sets of ChildLists; the walk of insert_before and insert_after     *)
(* reads a comment as an element; an entity reference keeps its parent edge. *)
KnownUse ==
  /\ Refs = {}
  /\ \A P \in Programs :
       /\ "append" \in P => P \cap {"prepend", "before", "after", "detached"} = {}
       /\ P \cap {"before", "after"} # {} => Comments = {}

(* The inductive invariant.  Lists and counters stand while no chain of      *)
(* detached nodes is built; heights always do.                               *)
Few == Cardinality(Elems) <= CountMod
Rising(d) == \E top : Ordered(d.parent, top)
Listed(d) == SoundDom(d) /\ (Few => Counts(d))
Tails(d, t) ==
  \A p \in Elems : LET s == t[SlotOf[p]]
                   IN  s.parent = p /\ s.child # None /\ d.parent[s.child] = p => d.next[s.child] = None
TailTyped(t) == t \in [Slots -> [parent : Elems \cup {None}, child : Nodes \cup {None}]]
Good(d, t) ==
  /\ Typed(d) /\ TailTyped(t) /\ Rising(d)
  /\ ~Chains => Listed(d)
  /\ "append" \in calls => Tails(d, t)
LInv == calls \in Programs /\ Good(dom, mut_tail)

LEMMA TailFields ==
  ASSUME NEW t, TailTyped(t), NEW p \in Elems
  PROVE  /\ SlotOf[p] \in Slots /\ t[SlotOf[p]].parent \in Elems \cup {None}
         /\ t[SlotOf[p]].child \in Nodes \cup {None}
<1>1. SlotOf[p] \in Slots
  BY ChildListAssumption
<1> QED
  BY <1>1 DEF TailTyped

LEMMA TailsStay ==
  ASSUME NEW d, NEW t, TailTyped(t), Tails(d, t), NEW e,
         \A n \in Nodes : e.parent[n] # None =>
            e.parent[n] = d.parent[n] /\ (d.next[n] = None => e.next[n] = None)
  PROVE  Tails(e, t)
<1>1. ASSUME NEW p \in Elems, NEW s, s = t[SlotOf[p]], s.parent = p, s.child # None, e.parent[s.child] = p
      PROVE  e.next[s.child] = None
  <2>1. s.child \in Nodes /\ p # None
    BY <1>1, TailFields, Sorts
  <2> QED
    BY <1>1, <2>1 DEF Tails
<1> QED
  BY <1>1 DEF Tails

LEMMA DropRising ==
  ASSUME NEW d, Rising(d), NEW e, Drops(d.parent, e.parent) PROVE Rising(e)
BY DropOrdered DEF Rising

LEMMA DetachGood ==
  ASSUME KnownUse, LInv, NEW c \in Nodes, NEW d, d = Detached(dom, c)
  PROVE  /\ Good(d, mut_tail)
         /\ \E v : Reparents(dom.parent, d.parent, c, v)
         /\ ~Chains => d.parent[c] = None /\ d.next[c] = None
<1>1. Typed(dom) /\ Rising(dom) /\ TailTyped(mut_tail) /\ Typed(d)
  BY DetachTyped DEF LInv, Good
<1>2. PICK v : (v = dom.parent[c] \/ v = None) /\ Reparents(dom.parent, d.parent, c, v)
  BY <1>1, DetachParent
<1>3. Rising(d)
  <2>1. Drops(dom.parent, d.parent)
    BY <1>2 DEF Drops, Reparents
  <2> QED
    BY <1>1, <2>1, DropRising
<1>4. ASSUME ~Chains
      PROVE  /\ SoundDom(d) /\ (Counts(dom) => Counts(d)) /\ d.parent[c] = None /\ d.next[c] = None
             /\ \A n \in Nodes : n # c => d.parent[n] = dom.parent[n] /\ (dom.next[n] = None => d.next[n] = None)
  BY <1>4, DetachKeeps DEF KnownUse, LInv, Good, Listed
<1>5. ~Chains => Listed(d)
  BY <1>4 DEF LInv, Good, Listed
<1>6. ASSUME "append" \in calls PROVE Tails(d, mut_tail)
  <2>1. ~Chains /\ Tails(dom, mut_tail)
    BY <1>6 DEF KnownUse, LInv, Good, Chains
  <2>2. \A n \in Nodes : d.parent[n] # None =>
            d.parent[n] = dom.parent[n] /\ (dom.next[n] = None => d.next[n] = None)
    BY <1>4, <2>1
  <2> QED
    BY <1>1, <2>1, <2>2, TailsStay
<1> QED
  BY <1>1, <1>2, <1>3, <1>4, <1>5, <1>6 DEF Good

LEMMA InsertGood ==
  ASSUME KnownUse, LInv, NEW p \in Elems, NEW c \in Nodes, Free(dom.parent, c, p),
         NEW d, d = Detached(dom, c), NEW e, Typed(e),
         Reparents(d.parent, e.parent, c, p), Tallied(d, p, c, e), ~Chains => SoundDom(e)
  PROVE  Rising(e) /\ (~Chains => Listed(e))
<1>1. Typed(dom) /\ Parents(dom)
  BY TypedParents DEF LInv, Good
<1>2. PICK top : Ordered(dom.parent, top)
  BY DEF LInv, Good, Rising
<1>3. PICK v : Reparents(dom.parent, d.parent, c, v)
  BY DetachGood
<1>4. Reparents(dom.parent, e.parent, c, p)
  BY <1>3 DEF Reparents
<1>5. Rising(e)
  BY <1>1, <1>2, <1>4, MoveOrdered DEF Rising, Parents
<1>6. ASSUME ~Chains, Few PROVE Counts(e)
  <2>1. Counts(d) /\ d.parent[c] = None
    BY <1>6, DetachGood DEF Good, Listed
  <2>2. p \in Nodes /\ c # p
    BY Sorts DEF Free, Upward
  <2>3. dom.parent[p] # p
    BY <1>2, <2>2, Sorts DEF Ordered
  <2>4. d.parent[p] # p
    BY <1>3, <2>2, <2>3 DEF Reparents
  <2> QED
    BY <1>6, <2>1, <2>2, <2>4, TallyKeeps DEF Few
<1> QED
  BY <1>5, <1>6 DEF Listed

(* Where each function that inserts puts the child, and what it starts from. *)
Ready(d, p, c) ==
  /\ Typed(d) /\ p \in Elems /\ Free(dom.parent, c, p) /\ TailTyped(mut_tail)
  /\ ~Chains => SoundDom(d) /\ d.parent[c] = None /\ d.next[c] = None

LEMMA AppendPlaces ==
  ASSUME KnownUse, Shallow, LInv, NEW p \in Elems, NEW c \in Nodes, AppendChild(p, c),
         NEW d, d = Detached(dom, c)
  PROVE  /\ Ready(d, p, c) /\ "append" \in calls /\ ~Chains /\ Tails(d, mut_tail)
         /\ d.first[p] = None => AtFront(d, p, c, d.first[p], dom')
         /\ d.first[p] # None => \E m \in Nodes : /\ d.parent[m] = p /\ d.next[m] = None
                                                  /\ Behind(d, p, c, m, d.next[m], dom')
<1>1. "append" \in calls /\ ~Chains /\ TailTyped(mut_tail)
  BY DEF AppendChild, KnownUse, LInv, Good, Chains
<1>2. SoundDom(d) /\ Typed(d) /\ Tails(d, mut_tail) /\ d.parent[c] = None /\ d.next[c] = None
  BY <1>1, DetachGood DEF Good, Listed
<1>3. Free(dom.parent, c, p)
  <2>1. PICK top : Ordered(dom.parent, top)
    BY DEF LInv, Good, Rising
  <2>2. SoundDom(dom) /\ MayAdopt(p, c)
    BY <1>1 DEF LInv, Good, Listed, AppendChild
  <2>3. Ancestors(dom, p) = Nearest(dom, p)
    BY <1>1 DEF Shallow
  <2> QED
    BY <2>1, <2>2, <2>3, AdoptFree
<1>4. PICK m : m = IF CachedTail(d, p) # None THEN CachedTail(d, p) ELSE Last(d, p)
  OBVIOUS
<1>5. ASSUME d.first[p] # None PROVE m \in Nodes /\ d.parent[m] = p /\ d.next[m] = None
  <2>1. CASE CachedTail(d, p) # None
    <3>1. m \in Nodes \cup {None}
      BY <1>1, <1>4, <2>1, TailFields DEF CachedTail
    <3>2. m # None /\ d.parent[m] = p /\ d.next[m] = None
      BY <1>2, <1>4, <2>1 DEF CachedTail, Tails
    <3> QED
      BY <3>1, <3>2
  <2>2. CASE CachedTail(d, p) = None
    BY <1>2, <1>4, <1>5, <2>2, ChildrenAre
  <2> QED
    BY <2>1, <2>2
<1>6. PICK e : e = dom'
  OBVIOUS
<1>7. ASSUME d.first[p] = None PROVE AtFront(d, p, c, d.first[p], e)
  <2>1. e = Counted([d EXCEPT !.parent[c] = p, !.first[p] = c], p, c)
    BY <1>6, <1>7 DEF AppendChild
  <2> QED
    BY <1>2, <1>7, <2>1, FrontAlone
<1>8. ASSUME d.first[p] # None PROVE Behind(d, p, c, m, d.next[m], e)
  <2>1. e = Counted(SetNext([d EXCEPT !.parent[c] = p], m, c), p, c)
    BY <1>4, <1>6, <1>8 DEF AppendChild
  <2>2. Behind(d, p, c, m, d.next[c], e)
    BY <1>2, <2>1, BehindAlone
  <2> QED
    BY <1>2, <1>5, <1>8, <2>2
<1> QED
  BY <1>1, <1>2, <1>3, <1>5, <1>6, <1>7, <1>8 DEF Ready

LEMMA PrependPlaces ==
  ASSUME KnownUse, LInv, NEW p \in Elems, NEW c \in Nodes, PrependChild(p, c),
         NEW d, d = Detached(dom, c)
  PROVE  /\ Ready(d, p, c) /\ "append" \notin calls
         /\ \E x : AtFront(d, p, c, x, dom') /\ (~Chains => x = d.first[p])
<1>1. "append" \notin calls /\ TailTyped(mut_tail)
  BY DEF PrependChild, KnownUse, LInv, Good
<1>2. /\ Typed(d) /\ d.first[p] \in Nodes \cup {None}
      /\ ~Chains => SoundDom(d) /\ d.parent[c] = None /\ d.next[c] = None
  <2>1. Typed(d) /\ (~Chains => SoundDom(d) /\ d.parent[c] = None /\ d.next[c] = None)
    BY DetachGood DEF Good, Listed
  <2> QED
    BY <2>1, TypedFields DEF Maps
<1>3. Free(dom.parent, c, p)
  <2>1. PICK top : Ordered(dom.parent, top)
    BY DEF LInv, Good, Rising
  <2>2. Typed(dom) /\ p # c /\ (c \in Elems => c \notin Ancestors(dom, p))
    BY DEF LInv, Good, PrependChild
  <2> QED
    BY <2>1, <2>2, PrependFree
<1>4. PICK e : e = dom'
  OBVIOUS
<1>5. PICK x : /\ AtFront(d, p, c, x, e)
               /\ d.first[p] = None => x = d.next[c]
               /\ d.first[p] # None /\ d.first[p] # c => x = d.first[p]
  <2>1. CASE d.first[p] = None
    <3>1. e = Counted([d EXCEPT !.parent[c] = p, !.first[p] = c], p, c)
      BY <1>4, <2>1 DEF PrependChild
    <3>2. AtFront(d, p, c, d.next[c], e)
      BY <1>2, <3>1, FrontAlone
    <3> QED
      BY <2>1, <3>2
  <2>2. CASE d.first[p] # None
    <3>1. e = Counted(SetNext([d EXCEPT !.parent[c] = p, !.first[p] = c], c, d.first[p]), p, c)
      BY <1>4, <2>2 DEF PrependChild
    <3>2. PICK x : x = IF d.first[p] = c THEN None ELSE d.first[p]
      OBVIOUS
    <3>3. AtFront(d, p, c, x, e)
      BY <1>2, <3>1, <3>2, FrontOf
    <3> QED
      BY <2>2, <3>2, <3>3
  <2> QED
    BY <2>1, <2>2
<1>6. ASSUME ~Chains PROVE x = d.first[p]
  <2>1. d.first[p] # c
    BY <1>2, <1>6, Sorts DEF SoundDom, Sound, Linked
  <2> QED
    BY <1>2, <1>5, <1>6, <2>1
<1> QED
  BY <1>1, <1>2, <1>3, <1>4, <1>5, <1>6 DEF Ready

(* The sibling's parent is where insert_before and insert_after put a node.  *)
LEMMA BesideReady ==
  ASSUME KnownUse, LInv, calls \cap {"before", "after"} # {},
         NEW s \in Nodes, NEW c \in Nodes \ {s}, MayStandBy(s, c), dom.parent[s] # None,
         NEW p, p = dom.parent[s], NEW d, d = Detached(dom, c)
  PROVE  Ready(d, p, c) /\ "append" \notin calls /\ d.parent[s] = p /\ d.next[s] \in Nodes \cup {None}
<1>1. "append" \notin calls /\ TailTyped(mut_tail) /\ Comments = {} /\ Refs = {}
  BY DEF KnownUse, LInv, Good
<1>2. Typed(dom) /\ p \in Elems
  BY TypedFields DEF LInv, Good, Maps
<1>3. PICK top : Ordered(dom.parent, top)
  BY DEF LInv, Good, Rising
<1>4. Free(dom.parent, c, p)
  BY <1>1, <1>2, <1>3, StandFree
<1>5. Typed(d) /\ (~Chains => SoundDom(d) /\ d.parent[c] = None /\ d.next[c] = None)
  BY DetachGood DEF Good, Listed
<1>6. PICK v : Reparents(dom.parent, d.parent, c, v)
  BY DetachGood
<1>7. d.parent[s] = p
  BY <1>6 DEF Reparents
<1>8. d.next[s] \in Nodes \cup {None}
  BY <1>5, TypedFields DEF Maps
<1> QED
  BY <1>1, <1>2, <1>4, <1>5, <1>7, <1>8 DEF Ready

LEMMA BeforePlaces ==
  ASSUME KnownUse, LInv, NEW s \in Nodes, NEW c \in Nodes \ {s}, InsertBefore(s, c),
         NEW d, d = Detached(dom, c), NEW p, p = dom.parent[s]
  PROVE  /\ Ready(d, p, c) /\ "append" \notin calls /\ d.parent[s] = p
         /\ \/ s \notin Children(d, p) /\ dom' = d
            \/ d.first[p] = s /\ AtFront(d, p, c, s, dom')
            \/ \E m : /\ Behind(d, p, c, m, s, dom')
                      /\ ~Chains => m \in Nodes /\ d.parent[m] = p /\ d.next[m] = s
<1>1. calls \cap {"before", "after"} # {} /\ MayStandBy(s, c) /\ dom.parent[s] # None
  BY DEF InsertBefore
<1>2. Ready(d, p, c) /\ "append" \notin calls /\ d.parent[s] = p /\ Typed(d) /\ p \in Elems
  BY <1>1, BesideReady DEF Ready
<1>3. PICK e : e = dom'
  OBVIOUS
<1>4. ASSUME s \notin Children(d, p) PROVE e = d
  BY <1>3, <1>4 DEF InsertBefore
<1>5. ASSUME s \in Children(d, p), d.first[p] = s PROVE AtFront(d, p, c, s, e)
  <2>1. e = Counted([SetNext([d EXCEPT !.parent[c] = p], c, s) EXCEPT !.first[p] = c], p, c)
    BY <1>3, <1>5 DEF InsertBefore
  <2> QED
    BY <1>2, <2>1, FirstBefore
<1>6. PICK m : m = PredOf(d, p, s)
  OBVIOUS
<1>7. ASSUME s \in Children(d, p), d.first[p] # s PROVE Behind(d, p, c, m, s, e)
  <2>1. e = Counted(SetNext(SetNext([d EXCEPT !.parent[c] = p], c, s), m, c), p, c)
    BY <1>3, <1>6, <1>7 DEF InsertBefore, PredOf
  <2> QED
    BY <1>2, <2>1, BeforeOf
<1>8. ASSUME ~Chains, d.first[p] # s PROVE m \in Nodes /\ d.parent[m] = p /\ d.next[m] = s
  <2>1. SoundDom(d) /\ d.parent[s] = p /\ p \in Elems
    BY <1>2, <1>8 DEF Ready
  <2>2. PredOf(d, p, s) \in Nodes /\ d.parent[PredOf(d, p, s)] = p /\ d.next[PredOf(d, p, s)] = s
    BY <1>8, <2>1, PredIs
  <2> QED
    BY <1>6, <2>2
<1> QED
  BY <1>2, <1>3, <1>4, <1>5, <1>7, <1>8

LEMMA AfterPlaces ==
  ASSUME KnownUse, LInv, NEW s \in Nodes, NEW c \in Nodes \ {s}, InsertAfter(s, c),
         NEW d, d = Detached(dom, c), NEW p, p = dom.parent[s]
  PROVE  /\ Ready(d, p, c) /\ "append" \notin calls /\ d.parent[s] = p
         /\ \E x : Behind(d, p, c, s, x, dom') /\ (~Chains => x = d.next[s])
<1>1. calls \cap {"before", "after"} # {} /\ MayStandBy(s, c) /\ dom.parent[s] # None
  BY DEF InsertAfter
<1>2. /\ Ready(d, p, c) /\ "append" \notin calls /\ d.parent[s] = p /\ Typed(d) /\ p \in Elems
      /\ d.next[s] \in Nodes \cup {None}
  BY <1>1, BesideReady DEF Ready
<1>3. PICK e : e = dom'
  OBVIOUS
<1>4. e = Counted(SetNext(SetNext([d EXCEPT !.parent[c] = p], s, c), c, d.next[s]), p, c)
  BY <1>3 DEF InsertAfter
<1>5. PICK x : x = IF d.next[s] = c THEN None ELSE d.next[s]
  OBVIOUS
<1>6. Behind(d, p, c, s, x, e)
  BY <1>2, <1>4, <1>5, BehindOf
<1>7. ASSUME ~Chains PROVE x = d.next[s]
  BY <1>2, <1>5, <1>7, Sorts DEF Ready, SoundDom, Sound, Linked
<1> QED
  BY <1>2, <1>3, <1>6, <1>7

(* One lemma per function.                                                   *)
LEMMA AppendStep ==
  ASSUME KnownUse, Shallow, LInv, NEW p \in Elems, NEW c \in Nodes, AppendChild(p, c)
  PROVE  Good(dom', mut_tail') /\ calls' = calls
<1>1. PICK d : d = Detached(dom, c)
  OBVIOUS
<1>2. mut_tail' = [mut_tail EXCEPT ![SlotOf[p]] = [parent |-> p, child |-> c]] /\ calls' = calls
  BY DEF AppendChild
<1>3. PICK e : e = dom'
  OBVIOUS
<1>4. /\ Ready(d, p, c) /\ "append" \in calls /\ ~Chains /\ Tails(d, mut_tail)
      /\ d.first[p] = None => AtFront(d, p, c, d.first[p], e)
      /\ d.first[p] # None => \E m \in Nodes : /\ d.parent[m] = p /\ d.next[m] = None
                                               /\ Behind(d, p, c, m, d.next[m], e)
  BY <1>1, <1>3, AppendPlaces
<1>5. SoundDom(d) /\ d.parent[c] = None /\ d.next[c] = None /\ TailTyped(mut_tail) /\ Free(dom.parent, c, p)
  BY <1>4 DEF Ready
<1>6. /\ SoundDom(e) /\ Typed(e) /\ Reparents(d.parent, e.parent, c, p) /\ Tallied(d, p, c, e)
      /\ e.next[c] = None /\ \A n \in Nodes : d.parent[n] # p /\ d.next[n] = None /\ n # c => e.next[n] = None
  <2>1. CASE d.first[p] = None
    <3>1. AtFront(d, p, c, d.first[p], e)
      BY <1>4, <2>1
    <3>2. SoundDom(e)
      BY <1>5, <3>1, FrontKeeps
    <3> QED
      BY <2>1, <3>1, <3>2 DEF AtFront
  <2>2. CASE d.first[p] # None
    <3>1. PICK m \in Nodes : d.parent[m] = p /\ d.next[m] = None /\ Behind(d, p, c, m, d.next[m], e)
      BY <1>4, <2>2
    <3>2. m # c
      BY <1>5, <3>1, Sorts
    <3>3. SoundDom(e)
      BY <1>5, <3>1, BehindKeeps
    <3> QED
      BY <3>1, <3>2, <3>3 DEF Behind
  <2> QED
    BY <2>1, <2>2
<1>9. Rising(e) /\ Listed(e)
  BY <1>1, <1>4, <1>5, <1>6, InsertGood
<1>10. PICK t : t = mut_tail'
  OBVIOUS
<1>11. t[SlotOf[p]] = [parent |-> p, child |-> c] /\ TailTyped(t)
       /\ \A q \in Elems : SlotOf[q] # SlotOf[p] => t[SlotOf[q]] = mut_tail[SlotOf[q]]
  <2>1. SlotOf[p] \in Slots /\ \A q \in Elems : SlotOf[q] \in Slots
    BY ChildListAssumption
  <2> QED
    BY <1>2, <1>5, <1>10, <2>1 DEF TailTyped
<1>12. Tails(e, t)
  <2>1. ASSUME NEW q \in Elems, NEW s, s = t[SlotOf[q]], s.parent = q, s.child # None, e.parent[s.child] = q
        PROVE  e.next[s.child] = None
    <3>1. CASE SlotOf[q] = SlotOf[p]
      BY <1>6, <1>11, <2>1, <3>1
    <3>2. CASE SlotOf[q] # SlotOf[p]
      <4>1. s = mut_tail[SlotOf[q]] /\ s.child \in Nodes /\ q # p
        BY <1>5, <1>11, <2>1, <3>2, TailFields
      <4>2. s.child # c /\ d.parent[s.child] = q
        BY <1>6, <2>1, <4>1 DEF Reparents
      <4>3. d.next[s.child] = None
        BY <1>4, <2>1, <4>1, <4>2 DEF Tails
      <4> QED
        BY <1>6, <4>1, <4>2, <4>3
    <3> QED
      BY <3>1, <3>2
  <2> QED
    BY <2>1 DEF Tails
<1>13. Good(e, t)
  BY <1>6, <1>9, <1>11, <1>12 DEF Good
<1> QED
  BY <1>2, <1>3, <1>10, <1>13 DEF Good, Chains

LEMMA PrependStep ==
  ASSUME KnownUse, LInv, NEW p \in Elems, NEW c \in Nodes, PrependChild(p, c)
  PROVE  Good(dom', mut_tail)
<1>1. PICK d : d = Detached(dom, c)
  OBVIOUS
<1>2. PICK e : e = dom'
  OBVIOUS
<1>3. PICK x : Ready(d, p, c) /\ "append" \notin calls /\ AtFront(d, p, c, x, e) /\ (~Chains => x = d.first[p])
  BY <1>1, <1>2, PrependPlaces
<1>4. Typed(e) /\ Reparents(d.parent, e.parent, c, p) /\ Tallied(d, p, c, e)
  BY <1>3 DEF AtFront
<1>5. ~Chains => SoundDom(e)
  BY <1>3, FrontKeeps DEF Ready
<1>6. Rising(e) /\ (~Chains => Listed(e))
  BY <1>1, <1>3, <1>4, <1>5, InsertGood DEF Ready
<1>7. Good(e, mut_tail)
  BY <1>3, <1>4, <1>6 DEF Good, Ready
<1> QED
  BY <1>2, <1>7

LEMMA BeforeStep ==
  ASSUME KnownUse, LInv, NEW s \in Nodes, NEW c \in Nodes \ {s}, InsertBefore(s, c)
  PROVE  Good(dom', mut_tail)
<1>1. PICK d : d = Detached(dom, c)
  OBVIOUS
<1>2. PICK p : p = dom.parent[s]
  OBVIOUS
<1>3. PICK e : e = dom'
  OBVIOUS
<1>4. /\ Ready(d, p, c) /\ "append" \notin calls /\ d.parent[s] = p
      /\ \/ s \notin Children(d, p) /\ e = d
         \/ d.first[p] = s /\ AtFront(d, p, c, s, e)
         \/ \E m : /\ Behind(d, p, c, m, s, e)
                   /\ ~Chains => m \in Nodes /\ d.parent[m] = p /\ d.next[m] = s
  BY <1>1, <1>2, <1>3, BeforePlaces
<1>5. CASE e = d
  BY <1>1, <1>3, <1>5, DetachGood
<1>6. ASSUME Typed(e), Reparents(d.parent, e.parent, c, p), Tallied(d, p, c, e), ~Chains => SoundDom(e)
      PROVE  Good(e, mut_tail)
  <2>1. Rising(e) /\ (~Chains => Listed(e))
    BY <1>1, <1>4, <1>6, InsertGood DEF Ready
  <2> QED
    BY <1>4, <1>6, <2>1 DEF Good, Ready
<1>7. ASSUME d.first[p] = s, AtFront(d, p, c, s, e) PROVE Good(e, mut_tail)
  <2>1. AtFront(d, p, c, d.first[p], e)
    BY <1>7
  <2>2. ~Chains => SoundDom(e)
    BY <1>4, <2>1, FrontKeeps DEF Ready
  <2> QED
    BY <1>6, <1>7, <2>2 DEF AtFront
<1>8. ASSUME NEW m, Behind(d, p, c, m, s, e), ~Chains => m \in Nodes /\ d.parent[m] = p /\ d.next[m] = s
      PROVE  Good(e, mut_tail)
  <2>1. ASSUME ~Chains PROVE SoundDom(e)
    <3>1. m \in Nodes /\ d.parent[m] = p /\ Behind(d, p, c, m, d.next[m], e)
      BY <1>8, <2>1
    <3> QED
      BY <1>4, <2>1, <3>1, BehindKeeps DEF Ready
  <2> QED
    BY <1>6, <1>8, <2>1 DEF Behind
<1> QED
  BY <1>3, <1>4, <1>5, <1>7, <1>8

LEMMA AfterStep ==
  ASSUME KnownUse, LInv, NEW s \in Nodes, NEW c \in Nodes \ {s}, InsertAfter(s, c)
  PROVE  Good(dom', mut_tail)
<1>1. PICK d : d = Detached(dom, c)
  OBVIOUS
<1>2. PICK p : p = dom.parent[s]
  OBVIOUS
<1>3. PICK e : e = dom'
  OBVIOUS
<1>4. PICK x : /\ Ready(d, p, c) /\ "append" \notin calls /\ d.parent[s] = p
               /\ Behind(d, p, c, s, x, e) /\ (~Chains => x = d.next[s])
  BY <1>1, <1>2, <1>3, AfterPlaces
<1>5. Typed(e) /\ Reparents(d.parent, e.parent, c, p) /\ Tallied(d, p, c, e)
  BY <1>4 DEF Behind
<1>6. ~Chains => SoundDom(e)
  BY <1>4, BehindKeeps DEF Ready
<1>7. Rising(e) /\ (~Chains => Listed(e))
  BY <1>1, <1>4, <1>5, <1>6, InsertGood DEF Ready
<1>8. Good(e, mut_tail)
  BY <1>4, <1>5, <1>7 DEF Good, Ready
<1> QED
  BY <1>3, <1>8

(* Beside a detached sibling only next edges are written.                    *)
LEMMA ChainStep ==
  ASSUME KnownUse, LInv, NEW s \in Nodes, NEW c \in Nodes \ {s},
         InsertBeforeDetached(s, c) \/ InsertAfterDetached(s, c)
  PROVE  Good(dom', mut_tail)
<1>1. PICK d : d = Detached(dom, c)
  OBVIOUS
<1>2. Chains /\ "append" \notin calls /\ TailTyped(mut_tail)
  <2>1. "detached" \in calls
    BY DEF InsertBeforeDetached, InsertAfterDetached
  <2> QED
    BY <2>1 DEF KnownUse, LInv, Good, Chains
<1>3. Typed(d) /\ Rising(d)
  BY <1>1, DetachGood DEF Good
<1>4. d.next[s] \in Nodes \cup {None}
  BY <1>3, TypedFields DEF Maps
<1>5. \A t : Typed(t) /\ Rising(t) =>
        \A n, m : m \in Nodes \cup {None} => Typed(SetNext(t, n, m)) /\ Rising(SetNext(t, n, m))
  BY SetNextIs DEF NextSet, Rising
<1>6. dom' = SetNext(d, c, s) \/ dom' = SetNext(SetNext(d, s, c), c, d.next[s])
  BY <1>1 DEF InsertBeforeDetached, InsertAfterDetached
<1>7. PICK e : e = dom'
  OBVIOUS
<1>8. Typed(e) /\ Rising(e)
  BY <1>3, <1>4, <1>5, <1>6, <1>7
<1>9. Good(e, mut_tail)
  BY <1>2, <1>8 DEF Good
<1> QED
  BY <1>7, <1>9

LEMMA UnlinkStep ==
  ASSUME KnownUse, LInv, NEW c \in Nodes, NodeUnlink(c)
  PROVE  Good(dom', mut_tail)
<1>1. PICK d : d = Detached(dom, c)
  OBVIOUS
<1>2. dom' = d
  BY <1>1 DEF NodeUnlink, Detached
<1> QED
  BY <1>1, <1>2, DetachGood

LEMMA RemoveStep ==
  ASSUME KnownUse, LInv, NEW p \in Elems, NEW c \in Nodes, RemoveChild(p, c)
  PROVE  Good(dom', mut_tail)
<1>0. Typed(dom) /\ TailTyped(mut_tail) /\ Rising(dom) /\ c \in Children(dom, p)
  BY DEF LInv, Good, RemoveChild
<1>1. PICK e : e = dom'
  OBVIOUS
<1>2. e = Removed(dom, p, c)
  BY <1>1 DEF RemoveChild, Removed
<1>3. Typed(e) /\ Reparents(dom.parent, e.parent, c, None)
  BY <1>0, <1>2, RemovedTyped
<1>4. Rising(e)
  <2>1. Drops(dom.parent, e.parent)
    BY <1>3 DEF Drops, Reparents
  <2> QED
    BY <1>0, <2>1, DropRising
<1>5. ASSUME ~Chains PROVE Listed(e) /\ Taken(dom, c, e)
  <2>1. SoundDom(dom) /\ (Few => Counts(dom))
    BY <1>5 DEF LInv, Good, Listed
  <2>2. dom.parent[c] = p /\ p # None
    BY <1>0, <2>1, ChildrenAre, Sorts
  <2>3. Taken(dom, c, e)
    BY <1>2, <2>1, <2>2, RemovedIs
  <2> QED
    BY <2>1, <2>2, <2>3, TakenKeeps DEF Listed
<1>6. ASSUME "append" \in calls PROVE Tails(e, mut_tail)
  <2>1. ~Chains /\ Tails(dom, mut_tail)
    BY <1>6 DEF KnownUse, LInv, Good, Chains
  <2>2. \A n \in Nodes : e.parent[n] # None =>
            e.parent[n] = dom.parent[n] /\ (dom.next[n] = None => e.next[n] = None)
    BY <1>5, <2>1, Sorts DEF Taken, Leaves
  <2> QED
    BY <1>0, <2>1, <2>2, TailsStay
<1>7. Good(e, mut_tail)
  BY <1>0, <1>3, <1>4, <1>5, <1>6 DEF Good
<1> QED
  BY <1>1, <1>7

LEMMA RemoveAllStep ==
  ASSUME KnownUse, LInv, NEW p \in Elems, RemoveAllChildren(p)
  PROVE  Good(dom', mut_tail)
<1>0. Typed(dom) /\ TailTyped(mut_tail) /\ Rising(dom)
  BY DEF LInv, Good
<1>1. PICK e : e = dom'
  OBVIOUS
<1>2. e = Emptied(dom, p)
  BY <1>1 DEF RemoveAllChildren, Emptied
<1>3. EmptiedOf(dom, p, Children(dom, p), e)
  BY <1>0, <1>2, EmptiedIs
<1>4. Rising(e)
  <2>1. Drops(dom.parent, e.parent)
    BY <1>3 DEF Drops, EmptiedOf
  <2> QED
    BY <1>0, <2>1, DropRising
<1>5. ~Chains => Listed(e)
  BY <1>2, EmptiedKeeps DEF LInv, Good, Listed
<1>6. ASSUME "append" \in calls PROVE Tails(e, mut_tail)
  <2>1. Tails(dom, mut_tail)
    BY <1>6 DEF LInv, Good
  <2>2. \A n \in Nodes : e.parent[n] # None =>
            e.parent[n] = dom.parent[n] /\ (dom.next[n] = None => e.next[n] = None)
    BY <1>3 DEF EmptiedOf
  <2> QED
    BY <1>0, <2>1, <2>2, TailsStay
<1>7. Good(e, mut_tail)
  BY <1>0, <1>3, <1>4, <1>5, <1>6 DEF Good, EmptiedOf
<1> QED
  BY <1>1, <1>7

LEMMA InitL == Init => LInv
<1> SUFFICES ASSUME Init PROVE LInv
  OBVIOUS
<1>1. PICK d : d = dom
  OBVIOUS
<1>2. /\ d = [parent |-> [n \in Nodes |-> None], next |-> [n \in Nodes |-> None],
              first |-> [p \in Elems |-> None], count |-> [p \in Elems |-> 0]]
      /\ mut_tail = [s \in Slots |-> [parent |-> None, child |-> None]] /\ calls \in Programs
  BY <1>1 DEF Init
<1>3. Typed(d)
  <2>1. 0 \in 0 .. CountMod - 1
    BY CountRange
  <2> QED
    BY <1>2, <2>1 DEF Typed
<1>4. /\ \A n \in Nodes : d.parent[n] = None /\ d.next[n] = None
      /\ \A p \in Elems : d.first[p] = None /\ d.count[p] = 0
  BY <1>2
<1>5. \A E : (\A n \in Nodes : E[n] = None) => \E pos : Ordered(E, pos)
  <2>1. [n \in Nodes |-> 0] \in [Nodes -> Nat]
    OBVIOUS
  <2> QED
    BY <2>1 DEF Ordered
<1>6. Rising(d) /\ SoundDom(d)
  BY <1>3, <1>4, <1>5 DEF Rising, SoundDom, Sound, Linked
<1>7. Counts(d)
  <2>1. ASSUME NEW p \in Elems PROVE d.count[p] = Cardinality(Below(d.parent, p))
    <3>1. Below(d.parent, p) = {}
      BY <1>4, Sorts DEF Below
    <3> QED
      BY <1>4, <3>1, FS_EmptySet
  <2> QED
    BY <2>1 DEF Counts
<1>8. TailTyped(mut_tail)
  BY <1>2 DEF TailTyped
<1>9. Tails(d, mut_tail)
  <2>1. \A p \in Elems : mut_tail[SlotOf[p]].child = None
    BY <1>2, <1>8, ChildListAssumption
  <2> QED
    BY <2>1 DEF Tails
<1> QED
  BY <1>1, <1>2, <1>3, <1>6, <1>7, <1>8, <1>9 DEF LInv, Good, Listed

LEMMA StepL == KnownUse /\ Shallow /\ LInv /\ [Next]_vars => LInv'
<1> SUFFICES ASSUME KnownUse, Shallow, LInv, [Next]_vars PROVE LInv'
  OBVIOUS
<1>1. Good(dom', mut_tail') /\ calls' = calls
  <2>1. CASE UNCHANGED vars
    BY <2>1 DEF vars, LInv
  <2>2. ASSUME NEW p \in Elems, NEW c \in Nodes, AppendChild(p, c)
        PROVE  Good(dom', mut_tail') /\ calls' = calls
    BY <2>2, AppendStep
  <2>3. ASSUME NEW p \in Elems, NEW c \in Nodes, PrependChild(p, c)
        PROVE  Good(dom', mut_tail') /\ calls' = calls
    <3>1. mut_tail' = mut_tail /\ calls' = calls
      BY <2>3 DEF PrependChild
    <3> QED
      BY <2>3, <3>1, PrependStep
  <2>4. ASSUME NEW p \in Elems, NEW c \in Nodes, RemoveChild(p, c)
        PROVE  Good(dom', mut_tail') /\ calls' = calls
    <3>1. mut_tail' = mut_tail /\ calls' = calls
      BY <2>4 DEF RemoveChild
    <3> QED
      BY <2>4, <3>1, RemoveStep
  <2>5. ASSUME NEW s \in Nodes, NEW c \in Nodes \ {s}, InsertBefore(s, c)
        PROVE  Good(dom', mut_tail') /\ calls' = calls
    <3>1. mut_tail' = mut_tail /\ calls' = calls
      BY <2>5 DEF InsertBefore
    <3> QED
      BY <2>5, <3>1, BeforeStep
  <2>6. ASSUME NEW s \in Nodes, NEW c \in Nodes \ {s}, InsertAfter(s, c)
        PROVE  Good(dom', mut_tail') /\ calls' = calls
    <3>1. mut_tail' = mut_tail /\ calls' = calls
      BY <2>6 DEF InsertAfter
    <3> QED
      BY <2>6, <3>1, AfterStep
  <2>7. ASSUME NEW s \in Nodes, NEW c \in Nodes \ {s},
               InsertBeforeDetached(s, c) \/ InsertAfterDetached(s, c)
        PROVE  Good(dom', mut_tail') /\ calls' = calls
    <3>1. mut_tail' = mut_tail /\ calls' = calls
      BY <2>7 DEF InsertBeforeDetached, InsertAfterDetached
    <3> QED
      BY <2>7, <3>1, ChainStep
  <2>8. ASSUME NEW c \in Nodes, NodeUnlink(c)
        PROVE  Good(dom', mut_tail') /\ calls' = calls
    <3>1. mut_tail' = mut_tail /\ calls' = calls
      BY <2>8 DEF NodeUnlink
    <3> QED
      BY <2>8, <3>1, UnlinkStep
  <2>9. ASSUME NEW p \in Elems, RemoveAllChildren(p)
        PROVE  Good(dom', mut_tail') /\ calls' = calls
    <3>1. mut_tail' = mut_tail /\ calls' = calls
      BY <2>9 DEF RemoveAllChildren
    <3> QED
      BY <2>9, <3>1, RemoveAllStep
  <2> QED
    BY <2>1, <2>2, <2>3, <2>4, <2>5, <2>6, <2>7, <2>8, <2>9 DEF Next
<1> QED
  BY <1>1 DEF LInv, Good, Chains

LEMMA ListsKept == KnownUse => (Spec /\ []Shallow => []LInv)
<1> SUFFICES ASSUME KnownUse PROVE Spec /\ []Shallow => []LInv
  OBVIOUS
<1>1. Shallow /\ LInv /\ [Next]_vars => LInv'
  BY StepL
<1> QED
  BY <1>1, InitL, PTL DEF Spec

-------------------------------------------------------------------------------
(* Every edge stays an edge to a node of its kind and every counter within   *)
(* sixteen bits, for every mix of functions, even where the lists do not     *)
(* hold (dom/element.h).                                                     *)
THEOREM EdgesTyped == Spec => []TypeOK
<1>1. Init => TypeOK
  BY InitL DEF LInv, Good, TypeOK, Typed, TailTyped
<1>2. TypeOK /\ [Next]_vars => TypeOK'
  <2> SUFFICES ASSUME TypeOK, [Next]_vars PROVE TypeOK'
    OBVIOUS
  <2>0. Typed(dom) /\ TailTyped(mut_tail) /\ calls \in Programs
    BY DEF TypeOK, Typed, TailTyped
  <2>a. \A c \in Nodes : Typed(Detached(dom, c))
    BY <2>0, DetachTyped
  <2>b. \A t : Typed(t) => \A n, m : m \in Nodes \cup {None} => Typed(SetNext(t, n, m))
    BY SetNextIs DEF NextSet
  <2>c. \A t : Typed(t) => /\ \A q \in Elems : t.first[q] \in Nodes \cup {None}
                           /\ \A n \in Nodes : t.next[n] \in Nodes \cup {None} /\ t.parent[n] \in Elems \cup {None}
    BY TypedFields DEF Maps
  <2>1. CASE UNCHANGED vars
    BY <2>1 DEF vars, TypeOK
  <2>2. ASSUME NEW p \in Elems, NEW c \in Nodes, AppendChild(p, c)
        PROVE  Typed(dom') /\ TailTyped(mut_tail') /\ calls' = calls
    <3>1. PICK d : d = Detached(dom, c)
      OBVIOUS
    <3>2. PICK m : m = IF CachedTail(d, p) # None THEN CachedTail(d, p) ELSE Last(d, p)
      OBVIOUS
    <3>3. Typed(d)
      BY <2>a, <3>1
    <3>4. \/ dom' = Counted([d EXCEPT !.parent[c] = p, !.first[p] = c], p, c)
          \/ dom' = Counted(SetNext([d EXCEPT !.parent[c] = p], m, c), p, c)
      BY <2>2, <3>1, <3>2 DEF AppendChild
    <3>5. /\ Typed(Counted([d EXCEPT !.parent[c] = p, !.first[p] = c], p, c))
          /\ Typed(Counted(SetNext([d EXCEPT !.parent[c] = p], m, c), p, c))
      BY <3>3, FrontAlone, BehindAlone DEF AtFront, Behind
    <3>6. TailTyped(mut_tail')
      BY <2>0, <2>2 DEF AppendChild, TailTyped
    <3> QED
      BY <2>2, <3>4, <3>5, <3>6 DEF AppendChild
  <2>3. ASSUME NEW p \in Elems, NEW c \in Nodes, PrependChild(p, c)
        PROVE  Typed(dom') /\ UNCHANGED <<mut_tail, calls>>
    <3>1. PICK d : d = Detached(dom, c)
      OBVIOUS
    <3>2. Typed(d) /\ d.first[p] \in Nodes \cup {None}
      BY <2>a, <2>c, <3>1
    <3>3. \/ dom' = Counted([d EXCEPT !.parent[c] = p, !.first[p] = c], p, c)
          \/ dom' = Counted(SetNext([d EXCEPT !.parent[c] = p, !.first[p] = c], c, d.first[p]), p, c)
      BY <2>3, <3>1 DEF PrependChild
    <3>4. Typed(Counted([d EXCEPT !.parent[c] = p, !.first[p] = c], p, c))
      BY <3>2, FrontAlone DEF AtFront
    <3>5. Typed(Counted(SetNext([d EXCEPT !.parent[c] = p, !.first[p] = c], c, d.first[p]), p, c))
      BY <3>2, FrontOf DEF AtFront
    <3> QED
      BY <2>3, <3>3, <3>4, <3>5 DEF PrependChild
  <2>4. ASSUME NEW p \in Elems, NEW c \in Nodes, RemoveChild(p, c)
        PROVE  Typed(dom') /\ UNCHANGED <<mut_tail, calls>>
    <3>1. dom' = Removed(dom, p, c) /\ UNCHANGED <<mut_tail, calls>>
      BY <2>4 DEF RemoveChild, Removed
    <3> QED
      BY <2>0, <3>1, RemovedTyped
  <2>5. ASSUME NEW s \in Nodes, NEW c \in Nodes \ {s}, InsertBefore(s, c)
        PROVE  Typed(dom') /\ UNCHANGED <<mut_tail, calls>>
    <3>1. PICK d : d = Detached(dom, c)
      OBVIOUS
    <3>2. PICK p : p = dom.parent[s]
      OBVIOUS
    <3>3. Typed(d) /\ p \in Elems
      BY <2>0, <2>a, <2>c, <2>5, <3>1, <3>2 DEF InsertBefore
    <3>4. PICK m : m = CHOOSE n \in Children(d, p) : d.next[n] = s
      OBVIOUS
    <3>5. \/ dom' = d
          \/ dom' = Counted([SetNext([d EXCEPT !.parent[c] = p], c, s) EXCEPT !.first[p] = c], p, c)
          \/ dom' = Counted(SetNext(SetNext([d EXCEPT !.parent[c] = p], c, s), m, c), p, c)
      BY <2>5, <3>1, <3>2, <3>4 DEF InsertBefore
    <3>6. Typed(Counted([SetNext([d EXCEPT !.parent[c] = p], c, s) EXCEPT !.first[p] = c], p, c))
      BY <3>3, FirstBefore DEF AtFront
    <3>7. Typed(Counted(SetNext(SetNext([d EXCEPT !.parent[c] = p], c, s), m, c), p, c))
      BY <3>3, BehindOf DEF Behind
    <3> QED
      BY <2>5, <3>3, <3>5, <3>6, <3>7 DEF InsertBefore
  <2>6. ASSUME NEW s \in Nodes, NEW c \in Nodes \ {s}, InsertAfter(s, c)
        PROVE  Typed(dom') /\ UNCHANGED <<mut_tail, calls>>
    <3>1. PICK d : d = Detached(dom, c)
      OBVIOUS
    <3>2. PICK p : p = dom.parent[s]
      OBVIOUS
    <3>3. Typed(d) /\ p \in Elems /\ d.next[s] \in Nodes \cup {None}
      BY <2>0, <2>a, <2>c, <2>6, <3>1, <3>2 DEF InsertAfter
    <3>4. dom' = Counted(SetNext(SetNext([d EXCEPT !.parent[c] = p], s, c), c, d.next[s]), p, c)
      BY <2>6, <3>1, <3>2 DEF InsertAfter
    <3>5. Typed(Counted(SetNext(SetNext([d EXCEPT !.parent[c] = p], s, c), c, d.next[s]), p, c))
      BY <3>3, BehindOf DEF Behind
    <3> QED
      BY <2>6, <3>4, <3>5 DEF InsertAfter
  <2>7. ASSUME NEW s \in Nodes, NEW c \in Nodes \ {s},
               InsertBeforeDetached(s, c) \/ InsertAfterDetached(s, c)
        PROVE  Typed(dom') /\ UNCHANGED <<mut_tail, calls>>
    <3>1. PICK d : d = Detached(dom, c)
      OBVIOUS
    <3>2. Typed(d) /\ d.next[s] \in Nodes \cup {None}
      BY <2>a, <2>c, <3>1
    <3>3. dom' = SetNext(d, c, s) \/ dom' = SetNext(SetNext(d, s, c), c, d.next[s])
      BY <2>7, <3>1 DEF InsertBeforeDetached, InsertAfterDetached
    <3>4. Typed(SetNext(d, c, s)) /\ Typed(SetNext(SetNext(d, s, c), c, d.next[s]))
      BY <2>b, <3>2
    <3> QED
      BY <2>7, <3>3, <3>4 DEF InsertBeforeDetached, InsertAfterDetached
  <2>8. ASSUME NEW c \in Nodes, NodeUnlink(c)
        PROVE  Typed(dom') /\ UNCHANGED <<mut_tail, calls>>
    BY <2>0, <2>8, UnlinkTyped DEF NodeUnlink
  <2>9. ASSUME NEW p \in Elems, RemoveAllChildren(p)
        PROVE  Typed(dom') /\ UNCHANGED <<mut_tail, calls>>
    <3>1. dom' = Emptied(dom, p) /\ UNCHANGED <<mut_tail, calls>>
      BY <2>9 DEF RemoveAllChildren, Emptied
    <3>2. Typed(Emptied(dom, p))
      BY <2>0, EmptiedIs DEF EmptiedOf
    <3> QED
      BY <3>1, <3>2
  <2>10. CASE ~UNCHANGED vars
    <3>1. Typed(dom') /\ TailTyped(mut_tail') /\ calls' = calls
      BY <2>0, <2>2, <2>3, <2>4, <2>5, <2>6, <2>7, <2>8, <2>9, <2>10 DEF Next
    <3> QED
      BY <2>0, <3>1 DEF TypeOK, Typed, TailTyped
  <2> QED
    BY <2>1, <2>10
<1> QED
  BY <1>1, <1>2, PTL DEF Spec

(* A node has a parent exactly when it is in that parent's list, whatever    *)
(* the functions did before: no call loses a node, and a detached node has   *)
(* no parent (dom/element.c, element_modify.c, node_public.c).               *)
THEOREM ParentsAndLists == KnownUse => (Spec /\ []Shallow => []ParentsAgree)
<1>1. LInv => ParentsAgree
  <2> SUFFICES ASSUME LInv, ~Chains, NEW p \in Elems, NEW n \in Nodes
      PROVE  dom.parent[n] = p <=> n \in Children(dom, p)
    BY DEF ParentsAgree
  <2>1. Children(dom, p) = {x \in Nodes : dom.parent[x] = p}
    BY ChildrenAre DEF LInv, Good, Listed
  <2> QED
    BY <2>1
<1> QED
  BY <1>1, ListsKept, PTL

(* child_count is the number of element children as long as no element can   *)
(* have more than its sixteen bits count.                                    *)
THEOREM CountsAreExact ==
  KnownUse /\ Cardinality(Elems) <= CountMod => (Spec /\ []Shallow => []CountExact)
<1> SUFFICES ASSUME KnownUse, Few PROVE Spec /\ []Shallow => []CountExact
  BY DEF Few
<1>1. LInv => CountExact
  <2> SUFFICES ASSUME LInv, ~Chains, NEW p \in Elems
      PROVE  dom.count[p] = Cardinality(Children(dom, p) \cap Elems)
    BY DEF CountExact
  <2>1. SoundDom(dom) /\ Counts(dom)
    BY DEF LInv, Good, Listed
  <2>2. Children(dom, p) \cap Elems = Below(dom.parent, p)
    BY <2>1, ChildrenAre, Sorts DEF Below
  <2> QED
    BY <2>1, <2>2 DEF Counts
<1> QED
  BY <1>1, ListsKept, PTL

(* A cached tail that passes its check is the last child, whichever elements *)
(* share the entry and whatever was unlinked or removed since (#1220).       *)
THEOREM CachedTailIsLast == KnownUse => (Spec /\ []Shallow => []TailIsLast)
<1>1. KnownUse /\ LInv => TailIsLast
  <2> SUFFICES ASSUME KnownUse, LInv, "append" \in calls, NEW p \in Elems,
                      CachedTail(dom, p) # None, dom.first[p] # None
      PROVE  CachedTail(dom, p) = Last(dom, p)
    BY DEF TailIsLast
  <2>1. SoundDom(dom) /\ Tails(dom, mut_tail) /\ TailTyped(mut_tail)
    BY DEF KnownUse, LInv, Good, Listed, Chains
  <2>2. PICK n : n = CachedTail(dom, p)
    OBVIOUS
  <2>3. n \in Nodes \cup {None}
    BY <2>1, <2>2, TailFields DEF CachedTail
  <2>4. n \in Nodes /\ dom.parent[n] = p /\ dom.next[n] = None
    BY <2>1, <2>2, <2>3 DEF CachedTail, Tails
  <2> QED
    BY <2>1, <2>2, <2>4, ChildrenAre
<1> QED
  <2> SUFFICES ASSUME KnownUse PROVE Spec /\ []Shallow => []TailIsLast
    OBVIOUS
  <2>1. LInv => TailIsLast
    BY <1>1
  <2> QED
    BY <2>1, ListsKept, PTL

(* No walk over siblings or ancestors runs for ever: no function ties a loop *)
(* (#1636), chains of detached nodes or not, when the functions are mixed as *)
(* KnownUse says and append_child looks at all ancestors (Shallow).          *)
THEOREM EveryWalkEnds == KnownUse => (Spec /\ []Shallow => []WalksEnd)
<1>1. LInv => WalksEnd
  <2> SUFFICES ASSUME LInv PROVE WalksEnd
    OBVIOUS
  <2>1. ASSUME ~Chains, NEW n \in Nodes
        PROVE  LET at[k \in 0 .. N] == IF k = 0 THEN n
                                       ELSE LET m == at[k - 1] IN IF m = None THEN None ELSE dom.next[m]
               IN  at[N] = None
    <3> DEFINE w == CHOOSE f : Walking(f, n, dom.next, N)
    <3>1. Walking(w, n, dom.next, N)
      BY WalkExists
    <3>2. Steps(w, n, dom.next)
      <4> HIDE DEF w
      <4> QED
        BY <3>1, WalkSteps
    <3>3. PICK pos : Ordered(dom.next, pos)
      BY <2>1 DEF LInv, Good, Listed, SoundDom, Sound
    <3>4. dom.next \in [Nodes -> Nodes \cup {None}]
      BY TypedFields DEF LInv, Good, Maps
    <3>5. w[N] = None
      <4> HIDE DEF w
      <4> QED
        BY <3>2, <3>3, <3>4, Climbs
    <3> QED
      BY <3>5 DEF Walking
  <2>2. ASSUME NEW p \in Elems PROVE p \notin Ancestors(dom, p)
    <3>1. Parents(dom) /\ p \in Nodes
      BY TypedParents, Sorts DEF LInv, Good
    <3> QED
      BY <3>1, NotAbove DEF LInv, Good, Rising
  <2> QED
    BY <2>1, <2>2 DEF WalksEnd
<1> QED
  BY <1>1, ListsKept, PTL

-------------------------------------------------------------------------------
(* The lists as sequences.  A sequence spells the list that starts at a.     *)
Spells(t, a, X) ==
  /\ t \in Seq(Nodes) /\ a = IF Len(t) = 0 THEN None ELSE t[1]
  /\ \A i \in 1 .. Len(t) : X[t[i]] = IF i < Len(t) THEN t[i + 1] ELSE None
Once(t) == \A i, j \in 1 .. Len(t) : t[i] = t[j] => i = j
Holds(t, c) == \E i \in 1 .. Len(t) : t[i] = c

LEMMA SpellUnique ==
  ASSUME NEW t, NEW u, NEW a, NEW X, Spells(t, a, X), Spells(u, a, X) PROVE t = u
<1>0. /\ t \in Seq(Nodes) /\ u \in Seq(Nodes) /\ Len(t) \in Nat /\ Len(u) \in Nat
      /\ \A i \in 1 .. Len(t) : t[i] \in Nodes /\ t[i] # None
      /\ \A i \in 1 .. Len(u) : u[i] \in Nodes /\ u[i] # None
  BY Sorts DEF Spells
<1>1. Len(t) = 0 <=> Len(u) = 0
  <2>1. Len(t) # 0 => 1 \in 1 .. Len(t)
    BY <1>0
  <2>2. Len(u) # 0 => 1 \in 1 .. Len(u)
    BY <1>0
  <2> QED
    BY <1>0, <2>1, <2>2 DEF Spells
<1> DEFINE Same == {k \in Nat : k < Len(t) => k < Len(u) /\ t[k + 1] = u[k + 1]}
<1>2. 0 \in Same
  BY <1>0, <1>1 DEF Spells
<1>3. ASSUME NEW k \in 0 .. Len(t) - 1, k \in Same PROVE k + 1 \in Same
  <2>1. ASSUME k + 1 < Len(t) PROVE k + 1 < Len(u) /\ t[k + 2] = u[k + 2]
    <3>1. k + 1 \in 1 .. Len(t) /\ k + 1 \in 1 .. Len(u) /\ k + 2 \in 1 .. Len(t) /\ t[k + 1] = u[k + 1]
      BY <1>0, <1>3, <2>1
    <3>2. X[t[k + 1]] = t[k + 2] /\ t[k + 2] # None
      BY <1>0, <2>1, <3>1 DEF Spells
    <3>3. X[u[k + 1]] = IF k + 1 < Len(u) THEN u[k + 2] ELSE None
      BY <3>1 DEF Spells
    <3> QED
      BY <3>1, <3>2, <3>3
  <2>2. k + 1 \in Nat /\ (k + 1) + 1 = k + 2
    BY <1>3
  <2> QED
    BY <2>1, <2>2
<1>4. \A k \in 0 .. Len(t) : k \in Same
  <2> HIDE DEF Same
  <2> QED
    BY <1>0, <1>2, <1>3, Lists!UpTo
<1>5. \A i \in 1 .. Len(t) : i <= Len(u) /\ t[i] = u[i]
  <2>1. ASSUME NEW i \in 1 .. Len(t) PROVE i <= Len(u) /\ t[i] = u[i]
    <3>1. i - 1 \in 0 .. Len(t) /\ i - 1 < Len(t) /\ (i - 1) + 1 = i
      BY <1>0
    <3>2. i - 1 < Len(u) /\ t[i] = u[i]
      BY <1>4, <3>1
    <3> QED
      BY <1>0, <3>2
  <2> QED
    BY <2>1
<1>6. Len(t) = Len(u)
  <2>1. CASE Len(t) = 0
    BY <1>1, <2>1
  <2>2. CASE Len(t) # 0
    <3>1. Len(t) \in 1 .. Len(t) /\ Len(t) \in 1 .. Len(u) /\ t[Len(t)] = u[Len(t)]
      BY <1>0, <1>5, <2>2
    <3>2. X[t[Len(t)]] = None
      BY <1>0, <3>1 DEF Spells
    <3>3. ~ (Len(t) < Len(u))
      <4> SUFFICES ASSUME Len(t) < Len(u) PROVE FALSE
        OBVIOUS
      <4>1. Len(t) + 1 \in 1 .. Len(u)
        BY <1>0
      <4>2. X[u[Len(t)]] = u[Len(t) + 1]
        BY <3>1 DEF Spells
      <4> QED
        BY <1>0, <3>1, <3>2, <4>1, <4>2
    <3> QED
      BY <1>0, <3>1, <3>3
  <2> QED
    BY <2>1, <2>2
<1> QED
  BY <1>0, <1>5, <1>6

(* The helpers of the abstract specification, place by place.                *)
RemovedOf(t, i, u) ==
  /\ u \in Seq(Nodes) /\ Len(u) = Len(t) - 1
  /\ \A j \in 1 .. Len(u) : u[j] = IF j < i THEN t[j] ELSE t[j + 1]
InsertedOf(t, i, c, u) ==
  /\ u \in Seq(Nodes) /\ Len(u) = Len(t) + 1
  /\ \A j \in 1 .. Len(u) : u[j] = IF j < i THEN t[j] ELSE IF j = i THEN c ELSE t[j - 1]

LEMMA Part ==
  ASSUME NEW t \in Seq(Nodes), NEW i \in Nat, NEW n \in Nat, i >= 1, n <= Len(t), i <= n + 1
  PROVE  /\ SubSeq(t, i, n) \in Seq(Nodes) /\ Len(SubSeq(t, i, n)) = n - i + 1
         /\ \A j \in 1 .. n - i + 1 : SubSeq(t, i, n)[j] = t[i + j - 1]
<1>1. \A j \in i .. n : t[j] \in Nodes
  OBVIOUS
<1> QED
  BY <1>1

LEMMA RemovedAt ==
  ASSUME NEW t \in Seq(Nodes), Once(t), NEW i \in 1 .. Len(t), NEW c, t[i] = c
  PROVE  RemovedOf(t, i, Seqs!RemoveFirst(t, c))
<1>1. {j \in 1 .. Len(t) : t[j] = c} = {i}
  BY DEF Once
<1>2. Seqs!Min({i}) = i
  BY DEF Seqs!Min
<1>3. Seqs!RemoveFirst(t, c) = SubSeq(t, 1, i - 1) \o SubSeq(t, i + 1, Len(t))
  BY <1>1, <1>2 DEF Seqs!RemoveFirst, Seqs!SelectInSeq, Seqs!RemoveAt
<1>4. PICK a : a = SubSeq(t, 1, i - 1)
  OBVIOUS
<1>5. PICK b : b = SubSeq(t, i + 1, Len(t))
  OBVIOUS
<1>6. a \in Seq(Nodes) /\ Len(a) = i - 1 /\ \A j \in 1 .. i - 1 : a[j] = t[j]
  BY <1>4, Part
<1>7. b \in Seq(Nodes) /\ Len(b) = Len(t) - i /\ \A j \in 1 .. Len(t) - i : b[j] = t[i + j]
  BY <1>5, Part
<1>8. PICK u : u = a \o b
  OBVIOUS
<1>9. u \in Seq(Nodes) /\ Len(u) = Len(t) - 1
  BY <1>6, <1>7, <1>8
<1>10. ASSUME NEW j \in 1 .. Len(u) PROVE u[j] = IF j < i THEN t[j] ELSE t[j + 1]
  <2>1. u[j] = IF j <= Len(a) THEN a[j] ELSE b[j - Len(a)]
    BY <1>6, <1>7, <1>8, <1>9
  <2>2. CASE j < i
    BY <1>6, <2>1, <2>2
  <2>3. CASE ~(j < i)
    <3>1. j - Len(a) \in 1 .. Len(t) - i /\ i + (j - Len(a)) = j + 1 /\ ~(j <= Len(a))
      BY <1>6, <1>9, <2>3
    <3> QED
      BY <1>7, <2>1, <2>3, <3>1
  <2> QED
    BY <2>2, <2>3
<1>11. RemovedOf(t, i, u)
  BY <1>9, <1>10 DEF RemovedOf
<1> QED
  BY <1>3, <1>4, <1>5, <1>8, <1>11

LEMMA NotRemoved ==
  ASSUME NEW t, NEW c, ~Holds(t, c) PROVE Seqs!RemoveFirst(t, c) = t
BY DEF Holds, Seqs!RemoveFirst

LEMMA InsertedAt ==
  ASSUME NEW t \in Seq(Nodes), NEW i \in 1 .. Len(t) + 1, NEW c \in Nodes
  PROVE  InsertedOf(t, i, c, Seqs!InsertAt(t, i, c))
<1>1. PICK a : a = SubSeq(t, 1, i - 1)
  OBVIOUS
<1>2. PICK b : b = SubSeq(t, i, Len(t))
  OBVIOUS
<1>3. a \in Seq(Nodes) /\ Len(a) = i - 1 /\ \A j \in 1 .. i - 1 : a[j] = t[j]
  BY <1>1, Part
<1>4. b \in Seq(Nodes) /\ Len(b) = Len(t) - i + 1 /\ \A j \in 1 .. Len(t) - i + 1 : b[j] = t[i + j - 1]
  BY <1>2, Part
<1>5. PICK v : v = a \o <<c>>
  OBVIOUS
<1>6. v \in Seq(Nodes) /\ Len(v) = i /\ v[i] = c /\ \A j \in 1 .. i - 1 : v[j] = t[j]
  BY <1>3, <1>5
<1>7. PICK u : u = v \o b
  OBVIOUS
<1>8. u \in Seq(Nodes) /\ Len(u) = Len(t) + 1
  BY <1>4, <1>6, <1>7
<1>9. ASSUME NEW j \in 1 .. Len(u) PROVE u[j] = IF j < i THEN t[j] ELSE IF j = i THEN c ELSE t[j - 1]
  <2>1. u[j] = IF j <= Len(v) THEN v[j] ELSE b[j - Len(v)]
    BY <1>4, <1>6, <1>7, <1>8
  <2>2. CASE j <= i
    BY <1>6, <2>1, <2>2
  <2>3. CASE ~(j <= i)
    <3>1. PICK k \in 1 .. Len(t) - i + 1 : k = j - Len(v) /\ i + k - 1 = j - 1
      BY <1>6, <1>8, <2>3
    <3>2. u[j] = b[k]
      BY <1>6, <2>1, <2>3, <3>1
    <3>3. b[k] = t[j - 1]
      BY <1>4, <3>1
    <3> QED
      BY <2>3, <3>2, <3>3
  <2> QED
    BY <2>2, <2>3
<1>10. InsertedOf(t, i, c, u)
  BY <1>8, <1>9 DEF InsertedOf
<1> QED
  BY <1>1, <1>2, <1>5, <1>7, <1>10 DEF Seqs!InsertAt

(* Taking a node out of a sequence, and putting one in.                      *)
LEMMA SpellLeft ==
  ASSUME NEW F, NEW X, NEW P, Maps(F, X, P), NEW G, NEW Y, NEW Q, NEW c \in Nodes,
         Leaves(F, X, P, G, Y, Q, c), NEW p \in Elems, NEW t, Spells(t, F[p], X), Once(t)
  PROVE  Spells(Seqs!RemoveFirst(t, c), G[p], Y)
<1>0. /\ t \in Seq(Nodes) /\ Len(t) \in Nat /\ None \notin Nodes
      /\ \A i \in 1 .. Len(t) : t[i] \in Nodes /\ t[i] # None
      /\ \A i \in 1 .. Len(t) : X[t[i]] = IF i < Len(t) THEN t[i + 1] ELSE None
      /\ F[p] = IF Len(t) = 0 THEN None ELSE t[1]
  BY Sorts DEF Spells
<1>1. ASSUME NEW i \in 1 .. Len(t), t[i] = c PROVE Spells(Seqs!RemoveFirst(t, c), G[p], Y)
  <2>0. PICK u : u = Seqs!RemoveFirst(t, c)
    OBVIOUS
  <2>1. /\ u \in Seq(Nodes) /\ Len(u) = Len(t) - 1
        /\ \A j \in 1 .. Len(u) : u[j] = IF j < i THEN t[j] ELSE t[j + 1]
    <3>1. RemovedOf(t, i, u)
      BY <1>0, <1>1, <2>0, RemovedAt
    <3> QED
      BY <3>1 DEF RemovedOf
  <2>2. \A j \in 1 .. Len(t) : t[j] = c => j = i
    BY <1>1 DEF Once
  <2>3. X[c] = IF i < Len(t) THEN t[i + 1] ELSE None
    BY <1>0, <1>1
  <2>4. G[p] = IF Len(u) = 0 THEN None ELSE u[1]
    <3>1. F[p] = t[1] /\ 1 \in 1 .. Len(t)
      BY <1>0, <1>1
    <3>2. CASE i = 1
      <4>1. G[p] = X[c]
        BY <1>1, <3>1, <3>2 DEF Leaves
      <4>2. Len(u) # 0 => 1 \in 1 .. Len(u) /\ u[1] = t[2]
        BY <1>0, <2>1, <3>2
      <4> QED
        BY <1>0, <2>1, <2>3, <3>2, <4>1, <4>2
    <3>3. CASE i # 1
      <4>1. F[p] # c
        BY <2>2, <3>1, <3>3
      <4>2. 1 \in 1 .. Len(u) /\ 1 < i
        BY <1>0, <1>1, <2>1, <3>3
      <4>3. u[1] = t[1]
        BY <2>1, <4>2
      <4>4. G[p] = F[p]
        BY <4>1 DEF Leaves
      <4>5. Len(u) # 0
        BY <1>0, <2>1, <4>2
      <4> QED
        BY <3>1, <4>3, <4>4, <4>5
    <3> QED
      BY <3>2, <3>3
  <2>5. ASSUME NEW j \in 1 .. Len(u) PROVE Y[u[j]] = IF j < Len(u) THEN u[j + 1] ELSE None
    <3>1. PICK k \in 1 .. Len(t) : k = IF j < i THEN j ELSE j + 1
      BY <1>0, <2>1
    <3>2. u[j] = t[k] /\ k # i /\ t[k] \in Nodes /\ t[k] # c
      BY <1>0, <2>1, <2>2, <3>1
    <3>3. Y[t[k]] = IF X[t[k]] = c THEN X[c] ELSE X[t[k]]
      BY <3>2 DEF Leaves
    <3>4. X[t[k]] = IF k < Len(t) THEN t[k + 1] ELSE None
      BY <1>0
    <3>5. CASE k + 1 = i
      <4>1. X[t[k]] = c /\ j = k
        BY <1>0, <1>1, <3>1, <3>4, <3>5
      <4>2. j < Len(u) => u[j + 1] = t[i + 1]
        BY <2>1, <3>1, <3>5, <4>1
      <4> QED
        BY <1>0, <2>1, <2>3, <3>2, <3>3, <3>5, <4>1, <4>2
    <3>6. CASE k + 1 # i
      <4>1. X[t[k]] # c
        BY <1>0, <2>2, <3>1, <3>4, <3>6
      <4>2. j < Len(u) <=> k < Len(t)
        BY <1>0, <2>1, <3>1, <3>6
      <4>3. j < Len(u) => u[j + 1] = t[k + 1]
        BY <2>1, <3>1, <3>6
      <4> QED
        BY <3>2, <3>3, <3>4, <4>1, <4>2, <4>3
    <3> QED
      BY <3>5, <3>6
  <2>6. Spells(u, G[p], Y)
    BY <2>1, <2>4, <2>5 DEF Spells
  <2> QED
    BY <2>0, <2>6
<1>2. CASE ~Holds(t, c)
  <2>1. \A i \in 1 .. Len(t) : t[i] # c
    BY <1>2 DEF Holds
  <2>2. G[p] = F[p]
    <3>1. F[p] # c
      <4>1. Len(t) # 0 => 1 \in 1 .. Len(t)
        BY <1>0
      <4> QED
        BY <1>0, <2>1, <4>1
    <3> QED
      BY <3>1 DEF Leaves
  <2>3. ASSUME NEW i \in 1 .. Len(t) PROVE Y[t[i]] = X[t[i]]
    <3>1. X[t[i]] # c
      <4>1. i < Len(t) => i + 1 \in 1 .. Len(t)
        BY <1>0
      <4> QED
        BY <1>0, <2>1, <4>1
    <3> QED
      BY <1>0, <2>1, <3>1 DEF Leaves
  <2>4. Spells(t, G[p], Y)
    BY <1>0, <2>2, <2>3 DEF Spells
  <2> QED
    BY <1>2, <2>4, NotRemoved
<1> QED
  BY <1>1, <1>2 DEF Holds

LEMMA SpellFront ==
  ASSUME NEW F, NEW X, NEW P, NEW G, NEW Y, NEW Q, NEW c \in Nodes, NEW p \in Elems,
         Fronts(F, X, P, G, Y, Q, p, c), NEW q \in Elems, NEW t, Spells(t, F[q], X), ~Holds(t, c)
  PROVE  Spells(IF q = p THEN Seqs!InsertAt(t, 1, c) ELSE t, G[q], Y)
<1>0. /\ t \in Seq(Nodes) /\ Len(t) \in Nat
      /\ \A i \in 1 .. Len(t) : t[i] \in Nodes /\ t[i] # c
      /\ \A i \in 1 .. Len(t) : X[t[i]] = IF i < Len(t) THEN t[i + 1] ELSE None
      /\ F[q] = IF Len(t) = 0 THEN None ELSE t[1]
  BY DEF Spells, Holds
<1>1. \A i \in 1 .. Len(t) : Y[t[i]] = X[t[i]]
  BY <1>0 DEF Fronts
<1>2. CASE q = p
  <2>1. 1 \in 1 .. Len(t) + 1
    BY <1>0
  <2>a. PICK u : u = Seqs!InsertAt(t, 1, c)
    OBVIOUS
  <2>2. /\ u \in Seq(Nodes) /\ Len(u) = Len(t) + 1
        /\ \A j \in 1 .. Len(u) : u[j] = IF j < 1 THEN t[j] ELSE IF j = 1 THEN c ELSE t[j - 1]
    <3>1. InsertedOf(t, 1, c, u)
      BY <1>0, <2>1, <2>a, InsertedAt
    <3> QED
      BY <3>1 DEF InsertedOf
  <2>3. 1 \in 1 .. Len(u) /\ u[1] = c /\ Len(u) # 0 /\ G[p] = c
    BY <1>0, <2>2 DEF Fronts
  <2>4. ASSUME NEW j \in 1 .. Len(u) PROVE Y[u[j]] = IF j < Len(u) THEN u[j + 1] ELSE None
    <3>1. CASE j = 1
      <4>1. Y[c] = F[p]
        BY DEF Fronts
      <4>2. j < Len(u) <=> Len(t) # 0
        BY <1>0, <2>2, <3>1
      <4>3. Len(t) # 0 => u[2] = t[1]
        BY <1>0, <2>2
      <4> QED
        BY <1>0, <1>2, <2>3, <3>1, <4>1, <4>2, <4>3
    <3>2. CASE j # 1
      <4>1. PICK k \in 1 .. Len(t) : k = j - 1 /\ u[j] = t[k] /\ (j < Len(u) <=> k < Len(t))
        BY <1>0, <2>2, <3>2
      <4>2. j < Len(u) => u[j + 1] = t[k + 1]
        BY <2>2, <4>1
      <4> QED
        BY <1>0, <1>1, <4>1, <4>2
    <3> QED
      BY <3>1, <3>2
  <2>5. Spells(u, G[q], Y)
    BY <1>2, <2>2, <2>3, <2>4 DEF Spells
  <2> QED
    BY <1>2, <2>a, <2>5
<1>3. CASE q # p
  <2>1. G[q] = F[q]
    BY <1>3 DEF Fronts
  <2>2. Spells(t, G[q], Y)
    BY <1>0, <1>1, <2>1 DEF Spells
  <2> QED
    BY <1>3, <2>2
<1> QED
  BY <1>2, <1>3

LEMMA SpellBehind ==
  ASSUME NEW F, NEW X, NEW P, NEW G, NEW Y, NEW Q, NEW c \in Nodes, NEW m \in Nodes,
         Follows(F, X, P, G, Y, Q, m, c), NEW p \in Elems, NEW t, Spells(t, F[p], X),
         ~Holds(t, c), Once(t), m # c
  PROVE  /\ \A i \in 1 .. Len(t) : t[i] = m => Spells(Seqs!InsertAt(t, i + 1, c), G[p], Y)
         /\ ~Holds(t, m) => Spells(t, G[p], Y)
<1>0. /\ t \in Seq(Nodes) /\ Len(t) \in Nat
      /\ \A i \in 1 .. Len(t) : t[i] \in Nodes /\ t[i] # c
      /\ \A i \in 1 .. Len(t) : X[t[i]] = IF i < Len(t) THEN t[i + 1] ELSE None
      /\ F[p] = IF Len(t) = 0 THEN None ELSE t[1]
      /\ G[p] = F[p]
  BY DEF Spells, Holds, Follows
<1>1. \A i \in 1 .. Len(t) : t[i] # m => Y[t[i]] = X[t[i]]
  BY <1>0 DEF Follows
<1>2. Y[m] = c /\ Y[c] = X[m]
  BY DEF Follows
<1>3. ASSUME NEW i \in 1 .. Len(t), t[i] = m PROVE Spells(Seqs!InsertAt(t, i + 1, c), G[p], Y)
  <2>1. i + 1 \in 1 .. Len(t) + 1 /\ \A j \in 1 .. Len(t) : t[j] = m => j = i
    BY <1>0, <1>3 DEF Once
  <2>2. PICK n : n = i + 1
    OBVIOUS
  <2>a. PICK u : u = Seqs!InsertAt(t, n, c)
    OBVIOUS
  <2>3. /\ u \in Seq(Nodes) /\ Len(u) = Len(t) + 1
        /\ \A j \in 1 .. Len(u) : u[j] = IF j < n THEN t[j] ELSE IF j = n THEN c ELSE t[j - 1]
    <3>1. InsertedOf(t, n, c, u)
      BY <1>0, <2>1, <2>2, <2>a, InsertedAt
    <3> QED
      BY <3>1 DEF InsertedOf
  <2>4. G[p] = IF Len(u) = 0 THEN None ELSE u[1]
    <3>1. 1 \in 1 .. Len(u) /\ 1 < n /\ Len(t) # 0
      BY <1>0, <2>2, <2>3, <1>3
    <3>2. u[1] = t[1]
      BY <2>3, <3>1
    <3> QED
      BY <1>0, <2>3, <3>1, <3>2
  <2>5. ASSUME NEW j \in 1 .. Len(u) PROVE Y[u[j]] = IF j < Len(u) THEN u[j + 1] ELSE None
    <3>1. CASE j = n
      <4>1. u[j] = c /\ Y[c] = X[t[i]]
        BY <1>2, <1>3, <2>3, <3>1
      <4>2. (j < Len(u) <=> i < Len(t)) /\ (j < Len(u) => u[j + 1] = t[i + 1])
        BY <1>0, <2>2, <2>3, <3>1
      <4> QED
        BY <1>0, <4>1, <4>2
    <3>2. CASE j = i
      <4>1. u[j] = m /\ j + 1 = n /\ j < Len(u) /\ j + 1 \in 1 .. Len(u)
        BY <1>0, <1>3, <2>2, <2>3, <3>2
      <4>2. u[j + 1] = c
        BY <2>3, <4>1
      <4> QED
        BY <1>2, <4>1, <4>2
    <3>3. CASE j # n /\ j # i
      <4>1. PICK k \in 1 .. Len(t) : k = IF j < n THEN j ELSE j - 1
        BY <1>0, <2>2, <2>3, <3>3
      <4>2. u[j] = t[k] /\ k # i
        BY <2>2, <2>3, <3>3, <4>1
      <4>3. Y[t[k]] = X[t[k]]
        BY <1>1, <2>1, <4>2
      <4>4. j < Len(u) <=> k < Len(t)
        BY <1>0, <1>3, <2>2, <2>3, <3>3, <4>1
      <4>5. ASSUME j < Len(u) PROVE u[j + 1] = t[k + 1]
        <5>1. j + 1 \in 1 .. Len(u)
          BY <1>0, <2>3, <4>5
        <5>2. u[j + 1] = IF j + 1 < n THEN t[j + 1] ELSE IF j + 1 = n THEN c ELSE t[j]
          BY <2>3, <5>1
        <5> QED
          BY <1>0, <2>2, <3>3, <4>1, <5>2
      <4> QED
        BY <1>0, <4>2, <4>3, <4>4, <4>5
    <3> QED
      BY <3>1, <3>2, <3>3
  <2>6. Spells(u, G[p], Y)
    BY <2>3, <2>4, <2>5 DEF Spells
  <2> QED
    BY <2>2, <2>a, <2>6
<1>4. ASSUME ~Holds(t, m) PROVE Spells(t, G[p], Y)
  <2>1. \A i \in 1 .. Len(t) : t[i] # m
    BY <1>4 DEF Holds
  <2> QED
    BY <1>0, <1>1, <2>1 DEF Spells
<1> QED
  BY <1>3, <1>4

(* The walk from the first child, as a sequence.                             *)
LEMMA KidsSpell ==
  ASSUME NEW d, SoundDom(d), NEW p \in Elems
  PROVE  /\ Spells(KidsOf(d, p), d.first[p], d.next) /\ Once(KidsOf(d, p))
         /\ \A n \in Nodes : Holds(KidsOf(d, p), n) <=> d.parent[n] = p
<1>1. PICK f : f = At(d, p) /\ Steps(f, d.first[p], d.next)
  BY AtSteps
<1>2. PICK pos : Ordered(d.next, pos)
  BY DEF SoundDom, Sound
<1>3. /\ d.next \in [Nodes -> Nodes \cup {None}] /\ d.first[p] \in Nodes \cup {None}
      /\ N \in Nat /\ None \notin Nodes /\ 0 \in 0 .. N
  BY TypedFields, NIsNat, Sorts DEF SoundDom, Maps
<1>4. /\ \A k \in 0 .. N : f[k] \in Nodes \cup {None}
      /\ \A k \in 0 .. N : f[k] # None => k < N /\ f[k + 1] = d.next[f[k]]
      /\ \A j, k \in 0 .. N : j < k /\ f[k] # None => f[j] # None /\ pos[f[j]] < pos[f[k]]
      /\ f[N] = None
  BY <1>1, <1>2, <1>3, Climbs
<1>5. f[0] = d.first[p]
  BY <1>1 DEF Steps
<1>6. PICK len \in 0 .. N : \A k \in 0 .. N : f[k] # None <=> k < len
  <2>1. CASE f[0] = None
    <3>1. \A k \in 0 .. N : f[k] # None <=> k < 0
      BY <1>3, <1>4, <2>1
    <3> QED
      BY <1>3, <3>1
  <2>2. CASE f[0] # None
    <3>1. PICK k \in 0 .. N - 1 : f[k] # None /\ f[k + 1] = None
      <4> DEFINE In == {k \in Nat : f[k] # None}
      <4> SUFFICES ASSUME \A k \in 0 .. N - 1 : k \in In => k + 1 \in In PROVE FALSE
        BY <1>3
      <4>1. 0 \in In
        BY <2>2
      <4>2. N \in In
        <5>1. N \in 0 .. N
          BY <1>3
        <5> HIDE DEF In
        <5> QED
          BY <1>3, <4>1, <5>1, Lists!UpTo
      <4> QED
        BY <1>4, <4>2
    <3>2. k + 1 \in 0 .. N /\ k \in 0 .. N
      BY <1>3, <3>1
    <3>3. ASSUME NEW j \in 0 .. N PROVE f[j] # None <=> j < k + 1
      BY <1>4, <3>1, <3>2, <3>3
    <3> QED
      BY <3>2, <3>3
  <2> QED
    BY <2>1, <2>2
<1>7. Children(d, p) = {f[k] : k \in 0 .. N} \ {None}
  BY <1>1 DEF Children
<1>8. PICK t : t = [k \in 1 .. len |-> f[k - 1]]
  OBVIOUS
<1>9. /\ t \in Seq(Nodes) /\ Len(t) = len /\ t \in [1 .. len -> Nodes]
      /\ \A i \in 1 .. len : i - 1 \in 0 .. N /\ t[i] = f[i - 1] /\ f[i - 1] # None /\ t[i] \in Nodes
  <2>1. \A i \in 1 .. len : i - 1 \in 0 .. N /\ i - 1 < len
    BY <1>3, <1>6
  <2>2. \A i \in 1 .. len : f[i - 1] # None /\ f[i - 1] \in Nodes
    BY <1>4, <1>6, <2>1
  <2>3. t \in [1 .. len -> Nodes] /\ \A i \in 1 .. len : t[i] = f[i - 1]
    BY <1>8, <2>2
  <2> QED
    BY <1>6, <2>1, <2>2, <2>3
<1>10. Once(t)
  <2>1. ASSUME NEW i \in 1 .. len, NEW j \in 1 .. len, i < j PROVE t[i] # t[j]
    <3>1. i - 1 < j - 1 /\ i - 1 \in 0 .. N /\ j - 1 \in 0 .. N
      BY <1>3, <1>6, <2>1
    <3>2. t[i] = f[i - 1] /\ t[j] = f[j - 1] /\ f[j - 1] # None /\ t[i] \in Nodes
      BY <1>9, <2>1
    <3>3. pos[f[i - 1]] < pos[f[j - 1]]
      BY <1>4, <3>1, <3>2
    <3>4. pos[t[i]] \in Nat
      BY <1>2, <3>2 DEF Ordered
    <3> QED
      BY <3>2, <3>3, <3>4
  <2> QED
    BY <1>6, <1>9, <2>1 DEF Once
<1>11. \A n \in Nodes : Holds(t, n) <=> n \in Children(d, p)
  <2>1. ASSUME NEW i \in 1 .. len PROVE t[i] \in Children(d, p)
    BY <1>3, <1>7, <1>9, <2>1
  <2>2. ASSUME NEW n \in Children(d, p) PROVE Holds(t, n)
    <3>1. PICK k \in 0 .. N : f[k] = n /\ n # None
      BY <1>7, <2>2
    <3>2. k + 1 \in 1 .. len /\ (k + 1) - 1 = k
      BY <1>6, <3>1
    <3>3. t[k + 1] = n
      BY <1>9, <3>1, <3>2
    <3> QED
      BY <1>9, <3>2, <3>3 DEF Holds
  <2> QED
    BY <1>9, <2>1, <2>2 DEF Holds
<1>12. Cardinality(Children(d, p)) = len
  <2>1. Children(d, p) = {n \in Nodes : d.parent[n] = p}
    BY ChildrenAre
  <2>2. t \in [1 .. len -> Children(d, p)]
    <3>1. \A i \in 1 .. len : t[i] \in Children(d, p)
      BY <1>9, <1>11 DEF Holds
    <3> QED
      BY <1>9, <3>1
  <2>3. \A n \in Children(d, p) : \E i \in 1 .. len : t[i] = n
    BY <1>9, <1>11, <2>1 DEF Holds
  <2>4. \A i, j \in 1 .. len : t[i] = t[j] => i = j
    BY <1>9, <1>10 DEF Once
  <2>5. t \in Bijection(1 .. len, Children(d, p))
    BY <2>2, <2>3, <2>4 DEF Bijection, Injection, Surjection, IsInjective
  <2> QED
    BY <1>6, <2>5, FS_CountingElements DEF ExistsBijection
<1>13. KidsOf(d, p) = t
  BY <1>1, <1>8, <1>12 DEF KidsOf
<1>14. \A i \in 1 .. len : d.next[t[i]] = IF i < len THEN t[i + 1] ELSE None
  <2>1. ASSUME NEW i \in 1 .. len PROVE d.next[t[i]] = IF i < len THEN t[i + 1] ELSE None
    <3>1. i - 1 \in 0 .. N /\ (i - 1) + 1 = i /\ t[i] = f[i - 1] /\ f[i - 1] # None
      BY <1>9, <2>1
    <3>2. d.next[t[i]] = f[i] /\ i \in 0 .. N
      BY <1>3, <1>4, <1>6, <3>1
    <3>3. CASE i < len
      <4>1. i + 1 \in 1 .. len /\ (i + 1) - 1 = i
        BY <1>6, <3>3
      <4>2. t[i + 1] = f[i]
        BY <1>9, <4>1
      <4> QED
        BY <3>2, <3>3, <4>2
    <3>4. CASE ~(i < len)
      BY <1>6, <3>2, <3>4
    <3> QED
      BY <3>3, <3>4
  <2> QED
    BY <2>1
<1>15. d.first[p] = IF len = 0 THEN None ELSE t[1]
  <2>1. CASE len = 0
    BY <1>3, <1>5, <1>6, <2>1
  <2>2. CASE len # 0
    <3>1. 1 \in 1 .. len /\ 1 - 1 = 0
      BY <1>6, <2>2
    <3>2. t[1] = f[0]
      BY <1>9, <3>1
    <3> QED
      BY <1>5, <2>2, <3>2
  <2> QED
    BY <2>1, <2>2
<1>16. Spells(t, d.first[p], d.next)
  BY <1>9, <1>14, <1>15 DEF Spells
<1> QED
  BY <1>10, <1>11, <1>13, <1>16, ChildrenAre

(* All lists of a state, and what each kind of change makes of them.         *)
Kids(d) == [p \in Elems |-> KidsOf(d, p)]
KidsLess(d, c) == [p \in Elems |-> Seqs!RemoveFirst(KidsOf(d, p), c)]

LEMMA KidsAre ==
  ASSUME NEW d, SoundDom(d), NEW k, k = [p \in Elems |-> k[p]],
         \A p \in Elems : Spells(k[p], d.first[p], d.next)
  PROVE  Kids(d) = k
<1>1. \A p \in Elems : KidsOf(d, p) = k[p]
  BY KidsSpell, SpellUnique
<1> QED
  BY <1>1 DEF Kids

LEMMA TakenSeq ==
  ASSUME NEW d, SoundDom(d), NEW c \in Nodes, d.parent[c] # None, NEW e, Taken(d, c, e)
  PROVE  Kids(e) = KidsLess(d, c)
<1>1. SoundDom(e) /\ Leaves(d.first, d.next, d.parent, e.first, e.next, e.parent, c)
  BY TakenKeeps DEF Taken
<1>2. Maps(d.first, d.next, d.parent)
  BY TypedFields DEF SoundDom
<1>3. PICK k : k = KidsLess(d, c)
  OBVIOUS
<1>4. k = [p \in Elems |-> k[p]] /\ \A p \in Elems : k[p] = Seqs!RemoveFirst(KidsOf(d, p), c)
  BY <1>3 DEF KidsLess
<1>5. ASSUME NEW p \in Elems PROVE Spells(k[p], e.first[p], e.next)
  <2>1. PICK t : t = KidsOf(d, p)
    OBVIOUS
  <2>2. Spells(t, d.first[p], d.next) /\ Once(t)
    BY <2>1, KidsSpell
  <2>3. Spells(Seqs!RemoveFirst(t, c), e.first[p], e.next)
    BY <1>1, <1>2, <2>2, SpellLeft
  <2> QED
    BY <1>4, <2>1, <2>3
<1> QED
  BY <1>1, <1>3, <1>4, <1>5, KidsAre

LEMMA LooseSeq ==
  ASSUME NEW d, SoundDom(d), NEW c \in Nodes, d.parent[c] = None
  PROVE  Kids(d) = KidsLess(d, c)
<1>1. ASSUME NEW p \in Elems PROVE Seqs!RemoveFirst(KidsOf(d, p), c) = KidsOf(d, p)
  <2>1. ~Holds(KidsOf(d, p), c)
    BY KidsSpell, Sorts
  <2> QED
    BY <2>1, NotRemoved
<1> QED
  BY <1>1 DEF Kids, KidsLess

LEMMA DetachSeq ==
  ASSUME Refs = {}, NEW d, SoundDom(d), NEW c \in Nodes
  PROVE  Kids(Detached(d, c)) = KidsLess(d, c)
<1>1. CASE d.parent[c] = None
  BY <1>1, LooseSeq DEF Detached
<1>2. CASE d.parent[c] # None
  <2>1. PICK e : e = Detached(d, c)
    OBVIOUS
  <2>2. Taken(d, c, e)
    BY <1>2, <2>1, UnlinkIs DEF Detached
  <2>3. Kids(e) = KidsLess(d, c)
    BY <1>2, <2>2, TakenSeq
  <2> QED
    BY <2>1, <2>3
<1> QED
  BY <1>1, <1>2

LEMMA FrontSpelled ==
  ASSUME NEW d, NEW e, NEW p \in Elems, NEW c \in Nodes,
         Fronts(d.first, d.next, d.parent, e.first, e.next, e.parent, p, c),
         \A q \in Elems : Spells(KidsOf(d, q), d.first[q], d.next) /\ ~Holds(KidsOf(d, q), c)
  PROVE  \A q \in Elems : Spells(IF q = p THEN Seqs!InsertAt(KidsOf(d, q), 1, c) ELSE KidsOf(d, q),
                                 e.first[q], e.next)
<1>1. ASSUME NEW q \in Elems
      PROVE  Spells(IF q = p THEN Seqs!InsertAt(KidsOf(d, q), 1, c) ELSE KidsOf(d, q), e.first[q], e.next)
  <2>1. PICK t : t = KidsOf(d, q)
    OBVIOUS
  <2>2. Spells(t, d.first[q], d.next) /\ ~Holds(t, c)
    BY <1>1, <2>1
  <2>3. Spells(IF q = p THEN Seqs!InsertAt(t, 1, c) ELSE t, e.first[q], e.next)
    BY <1>1, <2>2, SpellFront
  <2> QED
    BY <2>1, <2>3
<1> QED
  BY <1>1

LEMMA FrontSeq ==
  ASSUME NEW d, SoundDom(d), NEW p \in Elems, NEW c \in Nodes, d.parent[c] = None, d.next[c] = None,
         NEW e, AtFront(d, p, c, d.first[p], e)
  PROVE  Kids(e) = [Kids(d) EXCEPT ![p] = Seqs!InsertAt(@, 1, c)]
<1>1. SoundDom(e)
  BY FrontKeeps
<1>2. Fronts(d.first, d.next, d.parent, e.first, e.next, e.parent, p, c)
  BY DEF AtFront, Fronts, Reparents
<1>3. \A q \in Elems : Spells(KidsOf(d, q), d.first[q], d.next) /\ ~Holds(KidsOf(d, q), c)
  BY KidsSpell, Sorts
<1>4. \A q \in Elems : Spells(IF q = p THEN Seqs!InsertAt(KidsOf(d, q), 1, c) ELSE KidsOf(d, q),
                              e.first[q], e.next)
  BY <1>2, <1>3, FrontSpelled
<1>5. PICK k : k = [Kids(d) EXCEPT ![p] = Seqs!InsertAt(@, 1, c)]
  OBVIOUS
<1>6. /\ k = [q \in Elems |-> k[q]]
      /\ \A q \in Elems : k[q] = IF q = p THEN Seqs!InsertAt(KidsOf(d, q), 1, c) ELSE KidsOf(d, q)
  BY <1>5 DEF Kids
<1>7. \A q \in Elems : Spells(k[q], e.first[q], e.next)
  BY <1>4, <1>6
<1> QED
  BY <1>1, <1>5, <1>6, <1>7, KidsAre

LEMMA BehindSpelled ==
  ASSUME NEW d, NEW e, NEW p \in Elems, NEW c \in Nodes, NEW m \in Nodes, m # c,
         Follows(d.first, d.next, d.parent, e.first, e.next, e.parent, m, c),
         \A q \in Elems : /\ Spells(KidsOf(d, q), d.first[q], d.next) /\ Once(KidsOf(d, q))
                          /\ ~Holds(KidsOf(d, q), c) /\ (q # p => ~Holds(KidsOf(d, q), m)),
         NEW i \in 1 .. Len(KidsOf(d, p)), KidsOf(d, p)[i] = m
  PROVE  \A q \in Elems : Spells(IF q = p THEN Seqs!InsertAt(KidsOf(d, q), i + 1, c) ELSE KidsOf(d, q),
                                 e.first[q], e.next)
<1>1. ASSUME NEW q \in Elems
      PROVE  Spells(IF q = p THEN Seqs!InsertAt(KidsOf(d, q), i + 1, c) ELSE KidsOf(d, q), e.first[q], e.next)
  <2>1. PICK t : t = KidsOf(d, q)
    OBVIOUS
  <2>2. Spells(t, d.first[q], d.next) /\ Once(t) /\ ~Holds(t, c) /\ (q # p => ~Holds(t, m))
    BY <1>1, <2>1
  <2>3. /\ \A j \in 1 .. Len(t) : t[j] = m => Spells(Seqs!InsertAt(t, j + 1, c), e.first[q], e.next)
        /\ ~Holds(t, m) => Spells(t, e.first[q], e.next)
    BY <1>1, <2>2, SpellBehind, ZenonT(30)
  <2>4. CASE q = p
    <3>1. Spells(Seqs!InsertAt(t, i + 1, c), e.first[q], e.next)
      BY <2>1, <2>3, <2>4
    <3> QED
      BY <2>1, <2>4, <3>1
  <2>5. CASE q # p
    BY <2>1, <2>2, <2>3, <2>5
  <2> QED
    BY <2>4, <2>5
<1> QED
  BY <1>1

LEMMA BehindSeq ==
  ASSUME NEW d, SoundDom(d), NEW m \in Nodes, NEW p \in Elems, d.parent[m] = p,
         NEW c \in Nodes, d.parent[c] = None, d.next[c] = None,
         NEW e, Behind(d, p, c, m, d.next[m], e),
         NEW i \in 1 .. Len(KidsOf(d, p)), KidsOf(d, p)[i] = m
  PROVE  Kids(e) = [Kids(d) EXCEPT ![p] = Seqs!InsertAt(@, i + 1, c)]
<1>0. p # None /\ m # c
  BY Sorts
<1>1. SoundDom(e)
  BY BehindKeeps
<1>2. Follows(d.first, d.next, d.parent, e.first, e.next, e.parent, m, c)
  BY <1>0 DEF Behind, Follows, Reparents
<1>3. \A q \in Elems : /\ Spells(KidsOf(d, q), d.first[q], d.next) /\ Once(KidsOf(d, q))
                       /\ ~Holds(KidsOf(d, q), c) /\ (q # p => ~Holds(KidsOf(d, q), m))
  BY KidsSpell, Sorts
<1>4. \A q \in Elems : Spells(IF q = p THEN Seqs!InsertAt(KidsOf(d, q), i + 1, c) ELSE KidsOf(d, q),
                              e.first[q], e.next)
  BY <1>0, <1>2, <1>3, BehindSpelled
<1>5. PICK k : k = [Kids(d) EXCEPT ![p] = Seqs!InsertAt(@, i + 1, c)]
  OBVIOUS
<1>6. /\ k = [q \in Elems |-> k[q]]
      /\ \A q \in Elems : k[q] = IF q = p THEN Seqs!InsertAt(KidsOf(d, q), i + 1, c) ELSE KidsOf(d, q)
  BY <1>5 DEF Kids
<1>7. \A q \in Elems : Spells(k[q], e.first[q], e.next)
  BY <1>4, <1>6
<1> QED
  BY <1>1, <1>5, <1>6, <1>7, KidsAre

LEMMA EmptiedSeq ==
  ASSUME NEW d, SoundDom(d), NEW p \in Elems
  PROVE  Kids(Emptied(d, p)) = [Kids(d) EXCEPT ![p] = <<>>]
<1>1. PICK e : e = Emptied(d, p)
  OBVIOUS
<1>2. SoundDom(e)
  BY <1>1, EmptiedKeeps
<1>3. EmptiedOf(d, p, Children(d, p), e) /\ Children(d, p) = {n \in Nodes : d.parent[n] = p}
  BY <1>1, EmptiedIs, ChildrenAre DEF SoundDom
<1>4. /\ \A q \in Elems : e.first[q] = IF q = p THEN None ELSE d.first[q]
      /\ \A n \in Nodes : d.parent[n] # p => e.next[n] = d.next[n]
  BY <1>3 DEF EmptiedOf
<1>5. PICK k : k = [Kids(d) EXCEPT ![p] = <<>>]
  OBVIOUS
<1>6. /\ k = [q \in Elems |-> k[q]]
      /\ \A q \in Elems : k[q] = IF q = p THEN <<>> ELSE KidsOf(d, q)
  BY <1>5 DEF Kids
<1>7. ASSUME NEW q \in Elems PROVE Spells(k[q], e.first[q], e.next)
  <2>1. CASE q = p
    <3>1. Spells(<<>>, None, e.next)
      BY DEF Spells
    <3> QED
      BY <1>4, <1>6, <1>7, <2>1, <3>1
  <2>2. CASE q # p
    <3>1. PICK t : t = KidsOf(d, q)
      OBVIOUS
    <3>2. Spells(t, d.first[q], d.next)
      BY <3>1, KidsSpell
    <3>3. \A i \in 1 .. Len(t) : t[i] \in Nodes /\ d.parent[t[i]] = q
      BY <3>1, <3>2, KidsSpell DEF Spells, Holds
    <3>4. Spells(t, e.first[q], e.next)
      BY <1>4, <2>2, <3>2, <3>3 DEF Spells
    <3> QED
      BY <1>6, <2>2, <3>1, <3>4
  <2> QED
    BY <2>1, <2>2
<1> QED
  BY <1>1, <1>2, <1>5, <1>6, <1>7, KidsAre

-------------------------------------------------------------------------------
(* The sequences the refinement mapping names, and the guard of its actions. *)
Now == [p \in Elems |-> IF Chains THEN <<>> ELSE KidsOf(dom, p)]

LEMMA NowIs == ~Chains => Now = Kids(dom)
BY DEF Now, Kids

LEMMA WithoutIs ==
  ASSUME KnownUse, LInv, ~Chains, NEW c \in Nodes
  PROVE  Seqs!Without(c) = Kids(Detached(dom, c))
<1>1. Refs = {} /\ SoundDom(dom)
  BY DEF KnownUse, LInv, Good, Listed
<1>2. Seqs!Without(c) = KidsLess(dom, c)
  BY DEF Seqs!Without, KidsLess
<1> QED
  BY <1>1, <1>2, DetachSeq

LEMMA OutsideIs ==
  ASSUME LInv, ~Chains, NEW p \in Elems, NEW c \in Nodes, Free(dom.parent, c, p)
  PROVE  Seqs!Outside(p, c)
<1>1. PICK A : Upward(dom.parent, A, p) /\ c \notin A
  BY DEF Free
<1>2. SoundDom(dom)
  BY DEF LInv, Good, Listed
<1>3. PICK S : S = Elems \ A
  OBVIOUS
<1>4. S \in SUBSET Elems /\ p \notin S /\ (c \in Elems => c \in S)
  BY <1>1, <1>3 DEF Upward
<1>5. ASSUME NEW q \in S, NEW i \in DOMAIN KidsOf(dom, q), KidsOf(dom, q)[i] \in Elems
      PROVE  KidsOf(dom, q)[i] \in S
  <2>1. PICK n \in Elems : n = KidsOf(dom, q)[i]
    BY <1>5
  <2>2. q \in Elems /\ q # None /\ n \in Nodes
    BY <1>3, <1>5, Sorts
  <2>3. dom.parent[n] = q
    <3>1. Spells(KidsOf(dom, q), dom.first[q], dom.next) /\ (Holds(KidsOf(dom, q), n) <=> dom.parent[n] = q)
      BY <1>2, <2>2, KidsSpell
    <3>2. Holds(KidsOf(dom, q), n)
      BY <1>5, <2>1, <3>1 DEF Spells, Holds
    <3> QED
      BY <3>1, <3>2
  <2>4. n \notin A
    BY <1>1, <1>3, <1>5, <2>2, <2>3 DEF Upward
  <2> QED
    BY <1>3, <2>1, <2>4
<1>6. \A q \in S : Seqs!ToSet(Now[q]) \cap Elems \subseteq S
  <2>1. \A q \in S : Now[q] = KidsOf(dom, q)
    BY <1>3 DEF Now
  <2> QED
    BY <1>5, <2>1 DEF Seqs!ToSet
<1> QED
  BY <1>4, <1>6 DEF Seqs!Outside, Now

(* Where a node stands in the sequence of its parent.                        *)
LEMMA PlaceOf ==
  ASSUME NEW d, SoundDom(d), NEW p \in Elems, NEW m \in Nodes, d.parent[m] = p
  PROVE  /\ KidsOf(d, p) \in Seq(Nodes) /\ Len(KidsOf(d, p)) \in Nat
         /\ \E i \in 1 .. Len(KidsOf(d, p)) :
              /\ KidsOf(d, p)[i] = m
              /\ d.next[m] = None => i = Len(KidsOf(d, p))
              /\ d.next[m] # None => i + 1 \in 1 .. Len(KidsOf(d, p)) /\ KidsOf(d, p)[i + 1] = d.next[m]
<1>1. PICK t : t = KidsOf(d, p)
  OBVIOUS
<1>2. Spells(t, d.first[p], d.next) /\ Holds(t, m)
  BY <1>1, KidsSpell
<1>3. t \in Seq(Nodes) /\ Len(t) \in Nat /\ \A i \in 1 .. Len(t) : t[i] # None
  BY <1>2, Sorts DEF Spells
<1>4. PICK i \in 1 .. Len(t) : t[i] = m
  BY <1>2 DEF Holds
<1>5. d.next[m] = IF i < Len(t) THEN t[i + 1] ELSE None
  BY <1>2, <1>4 DEF Spells
<1>6. i < Len(t) => i + 1 \in 1 .. Len(t)
  BY <1>3, <1>4
<1>7. (d.next[m] = None => i = Len(t)) /\ (d.next[m] # None => i + 1 \in 1 .. Len(t) /\ t[i + 1] = d.next[m])
  BY <1>3, <1>4, <1>5, <1>6
<1> QED
  BY <1>1, <1>3, <1>4, <1>7

LEMMA EmptyOf ==
  ASSUME NEW d, SoundDom(d), NEW p \in Elems, d.first[p] = None
  PROVE  KidsOf(d, p) = <<>> /\ Len(KidsOf(d, p)) = 0
<1>1. PICK t : t = KidsOf(d, p)
  OBVIOUS
<1>2. Spells(t, d.first[p], d.next)
  BY <1>1, KidsSpell
<1>3. t \in Seq(Nodes) /\ Len(t) = 0
  BY <1>2, Sorts DEF Spells
<1> QED
  BY <1>1, <1>3

(* What a step of the abstract specification has to show.                    *)
Becomes(k) == Now' = k

LEMMA PlaceAs ==
  ASSUME KnownUse, LInv, ~Chains, NEW p \in Elems, NEW c \in Nodes, NEW i,
         Becomes([Kids(Detached(dom, c)) EXCEPT ![p] = Seqs!InsertAt(@, i, c)])
  PROVE  Seqs!Place(p, i, c)
<1>1. Seqs!Without(c) = Kids(Detached(dom, c))
  BY WithoutIs
<1> QED
  BY <1>1 DEF Seqs!Place, Becomes, Now

LEMMA WithoutAt ==
  ASSUME KnownUse, LInv, ~Chains, NEW p \in Elems, NEW c \in Nodes
  PROVE  Seqs!Without(c)[p] = KidsOf(Detached(dom, c), p)
BY WithoutIs DEF Kids

(* The new state's sequences, primed and not.                                *)
LEMMA NowNext ==
  ASSUME ~Chains, calls' = calls, NEW e, e = dom' PROVE Now' = Kids(e)
BY DEF Now, Kids, Chains, KidsOf, At, Children

LEMMA AppendSeq ==
  ASSUME KnownUse, Shallow, LInv, NEW p \in Elems, NEW c \in Nodes, AppendChild(p, c)
  PROVE  Seqs!AppendChild(p, c)
<1>1. PICK d : d = Detached(dom, c)
  OBVIOUS
<1>2. PICK e : e = dom'
  OBVIOUS
<1>3. /\ Ready(d, p, c) /\ ~Chains
      /\ d.first[p] = None => AtFront(d, p, c, d.first[p], e)
      /\ d.first[p] # None => \E m \in Nodes : /\ d.parent[m] = p /\ d.next[m] = None
                                               /\ Behind(d, p, c, m, d.next[m], e)
  BY <1>1, <1>2, AppendPlaces
<1>4. SoundDom(d) /\ d.parent[c] = None /\ d.next[c] = None /\ Free(dom.parent, c, p)
  BY <1>3 DEF Ready
<1>5. PICK i : i = Len(KidsOf(d, p)) + 1
  OBVIOUS
<1>6. Kids(e) = [Kids(d) EXCEPT ![p] = Seqs!InsertAt(@, i, c)]
  <2>1. CASE d.first[p] = None
    <3>1. i = 1
      BY <1>4, <1>5, <2>1, EmptyOf
    <3> QED
      BY <1>3, <1>4, <2>1, <3>1, FrontSeq
  <2>2. CASE d.first[p] # None
    <3>1. PICK m \in Nodes : d.parent[m] = p /\ d.next[m] = None /\ Behind(d, p, c, m, d.next[m], e)
      BY <1>3, <2>2
    <3>2. PICK k \in 1 .. Len(KidsOf(d, p)) : KidsOf(d, p)[k] = m /\ k = Len(KidsOf(d, p))
      BY <1>4, <3>1, PlaceOf
    <3>3. Kids(e) = [Kids(d) EXCEPT ![p] = Seqs!InsertAt(@, k + 1, c)]
      BY <1>4, <3>1, <3>2, BehindSeq
    <3> QED
      BY <1>5, <3>2, <3>3
  <2> QED
    BY <2>1, <2>2
<1>7. Becomes([Kids(Detached(dom, c)) EXCEPT ![p] = Seqs!InsertAt(@, i, c)])
  <2>1. calls' = calls
    BY DEF AppendChild
  <2>2. Now' = Kids(e)
    BY <1>2, <1>3, <2>1, NowNext
  <2> QED
    BY <1>1, <1>6, <2>2 DEF Becomes
<1>8. Seqs!Place(p, i, c)
  BY <1>3, <1>7, PlaceAs
<1>9. i = Len(Seqs!Without(c)[p]) + 1
  BY <1>1, <1>3, <1>5, WithoutAt
<1>10. Seqs!Outside(p, c)
  BY <1>3, <1>4, OutsideIs
<1> QED
  BY <1>8, <1>9, <1>10 DEF Seqs!AppendChild

LEMMA PrependSeq ==
  ASSUME KnownUse, LInv, ~Chains, NEW p \in Elems, NEW c \in Nodes, PrependChild(p, c)
  PROVE  Seqs!PrependChild(p, c)
<1>1. PICK d : d = Detached(dom, c)
  OBVIOUS
<1>2. PICK e : e = dom'
  OBVIOUS
<1>3. Ready(d, p, c) /\ AtFront(d, p, c, d.first[p], e)
  BY <1>1, <1>2, PrependPlaces
<1>4. SoundDom(d) /\ d.parent[c] = None /\ d.next[c] = None /\ Free(dom.parent, c, p)
  BY <1>3 DEF Ready
<1>5. Kids(e) = [Kids(d) EXCEPT ![p] = Seqs!InsertAt(@, 1, c)]
  BY <1>3, <1>4, FrontSeq
<1>6. Becomes([Kids(Detached(dom, c)) EXCEPT ![p] = Seqs!InsertAt(@, 1, c)])
  <2>1. calls' = calls
    BY DEF PrependChild
  <2>2. Now' = Kids(e)
    BY <1>2, <2>1, NowNext
  <2> QED
    BY <1>1, <1>5, <2>2 DEF Becomes
<1>7. Seqs!Place(p, 1, c)
  BY <1>6, PlaceAs
<1>8. Seqs!Outside(p, c)
  BY <1>4, OutsideIs
<1> QED
  BY <1>7, <1>8 DEF Seqs!PrependChild

LEMMA BeforeSeq ==
  ASSUME KnownUse, LInv, ~Chains, NEW s \in Nodes, NEW c \in Nodes \ {s}, InsertBefore(s, c)
  PROVE  Seqs!InsertBefore(dom.parent[s], s, c) /\ dom.parent[s] \in Elems
<1>1. PICK d : d = Detached(dom, c)
  OBVIOUS
<1>2. PICK e : e = dom'
  OBVIOUS
<1>3. PICK p : p = dom.parent[s]
  OBVIOUS
<1>4. /\ Ready(d, p, c) /\ d.parent[s] = p
      /\ \/ s \notin Children(d, p) /\ e = d
         \/ d.first[p] = s /\ AtFront(d, p, c, s, e)
         \/ \E m : Behind(d, p, c, m, s, e) /\ m \in Nodes /\ d.parent[m] = p /\ d.next[m] = s
  BY <1>1, <1>2, <1>3, BeforePlaces
<1>5. /\ SoundDom(d) /\ d.parent[c] = None /\ d.next[c] = None /\ Free(dom.parent, c, p) /\ p \in Elems
      /\ s # None
  BY <1>4, Sorts DEF Ready
<1>6. s \in Children(d, p)
  BY <1>4, <1>5, ChildrenAre
<1>7. PICK i \in 1 .. Len(KidsOf(d, p)) :
        KidsOf(d, p)[i] = s /\ Kids(e) = [Kids(d) EXCEPT ![p] = Seqs!InsertAt(@, i, c)]
  <2>1. ASSUME d.first[p] = s, AtFront(d, p, c, s, e)
        PROVE  \E i \in 1 .. Len(KidsOf(d, p)) :
                 KidsOf(d, p)[i] = s /\ Kids(e) = [Kids(d) EXCEPT ![p] = Seqs!InsertAt(@, i, c)]
    <3>1. AtFront(d, p, c, d.first[p], e)
      BY <2>1
    <3>2. Kids(e) = [Kids(d) EXCEPT ![p] = Seqs!InsertAt(@, 1, c)]
      BY <1>5, <3>1, FrontSeq
    <3>3. 1 \in 1 .. Len(KidsOf(d, p)) /\ KidsOf(d, p)[1] = s
      BY <1>5, <2>1, KidsSpell DEF Spells
    <3> QED
      BY <3>2, <3>3
  <2>2. ASSUME NEW m \in Nodes, Behind(d, p, c, m, s, e), d.parent[m] = p, d.next[m] = s
        PROVE  \E i \in 1 .. Len(KidsOf(d, p)) :
                 KidsOf(d, p)[i] = s /\ Kids(e) = [Kids(d) EXCEPT ![p] = Seqs!InsertAt(@, i, c)]
    <3>1. PICK k \in 1 .. Len(KidsOf(d, p)) :
            KidsOf(d, p)[k] = m /\ k + 1 \in 1 .. Len(KidsOf(d, p)) /\ KidsOf(d, p)[k + 1] = s
      BY <1>5, <2>2, PlaceOf
    <3>2. Behind(d, p, c, m, d.next[m], e)
      BY <2>2
    <3>3. Kids(e) = [Kids(d) EXCEPT ![p] = Seqs!InsertAt(@, k + 1, c)]
      BY <1>5, <2>2, <3>1, <3>2, BehindSeq
    <3> QED
      BY <3>1, <3>3
  <2> QED
    BY <1>4, <1>6, <2>1, <2>2
<1>8. Becomes([Kids(Detached(dom, c)) EXCEPT ![p] = Seqs!InsertAt(@, i, c)])
  <2>1. calls' = calls
    BY DEF InsertBefore
  <2>2. Now' = Kids(e)
    BY <1>2, <2>1, NowNext
  <2> QED
    BY <1>1, <1>7, <2>2 DEF Becomes
<1>9. Seqs!Place(p, i, c)
  BY <1>5, <1>8, PlaceAs
<1>10. i \in DOMAIN Seqs!Without(c)[p] /\ Seqs!Without(c)[p][i] = s
  <2>1. Seqs!Without(c)[p] = KidsOf(d, p)
    BY <1>1, <1>5, WithoutAt
  <2>2. KidsOf(d, p) \in Seq(Nodes)
    BY <1>4, <1>5, PlaceOf
  <2> QED
    BY <1>7, <2>1, <2>2
<1>11. Seqs!Outside(p, c)
  BY <1>5, OutsideIs
<1>12. Seqs!InsertBefore(p, s, c)
  BY <1>9, <1>10, <1>11 DEF Seqs!InsertBefore
<1> QED
  BY <1>3, <1>5, <1>12

LEMMA AfterSeq ==
  ASSUME KnownUse, LInv, ~Chains, NEW s \in Nodes, NEW c \in Nodes \ {s}, InsertAfter(s, c)
  PROVE  Seqs!InsertAfter(dom.parent[s], s, c) /\ dom.parent[s] \in Elems
<1>1. PICK d : d = Detached(dom, c)
  OBVIOUS
<1>2. PICK e : e = dom'
  OBVIOUS
<1>3. PICK p : p = dom.parent[s]
  OBVIOUS
<1>4. Ready(d, p, c) /\ d.parent[s] = p /\ Behind(d, p, c, s, d.next[s], e)
  BY <1>1, <1>2, <1>3, AfterPlaces
<1>5. SoundDom(d) /\ d.parent[c] = None /\ d.next[c] = None /\ Free(dom.parent, c, p) /\ p \in Elems
  BY <1>4 DEF Ready
<1>6. PICK i \in 1 .. Len(KidsOf(d, p)) : KidsOf(d, p)[i] = s
  BY <1>4, <1>5, PlaceOf
<1>7. Kids(e) = [Kids(d) EXCEPT ![p] = Seqs!InsertAt(@, i + 1, c)]
  BY <1>4, <1>5, <1>6, BehindSeq
<1>8. Becomes([Kids(Detached(dom, c)) EXCEPT ![p] = Seqs!InsertAt(@, i + 1, c)])
  <2>1. calls' = calls
    BY DEF InsertAfter
  <2>2. Now' = Kids(e)
    BY <1>2, <2>1, NowNext
  <2> QED
    BY <1>1, <1>7, <2>2 DEF Becomes
<1>9. Seqs!Place(p, i + 1, c)
  BY <1>5, <1>8, PlaceAs
<1>10. i \in DOMAIN Seqs!Without(c)[p] /\ Seqs!Without(c)[p][i] = s
  <2>1. Seqs!Without(c)[p] = KidsOf(d, p)
    BY <1>1, <1>5, WithoutAt
  <2>2. KidsOf(d, p) \in Seq(Nodes)
    BY <1>4, <1>5, PlaceOf
  <2> QED
    BY <1>6, <2>1, <2>2
<1>11. Seqs!Outside(p, c)
  BY <1>5, OutsideIs
<1>12. Seqs!InsertAfter(p, s, c)
  BY <1>9, <1>10, <1>11 DEF Seqs!InsertAfter
<1> QED
  BY <1>3, <1>5, <1>12

LEMMA LeaveSeq ==
  ASSUME KnownUse, LInv, ~Chains, NEW c \in Nodes, dom.parent[c] # None, calls' = calls, Taken(dom, c, dom')
  PROVE  Seqs!TakeOut(c)
<1>1. PICK e : e = dom'
  OBVIOUS
<1>2. SoundDom(dom) /\ Taken(dom, c, e)
  BY <1>1 DEF LInv, Good, Listed
<1>3. Now' = KidsLess(dom, c)
  <2>1. Now' = Kids(e)
    BY <1>1, NowNext
  <2> QED
    BY <1>2, <2>1, TakenSeq
<1>4. Seqs!Without(c) = KidsLess(dom, c)
  BY DEF Seqs!Without, KidsLess
<1>5. PICK p \in Elems : p = dom.parent[c]
  BY <1>2, TypedFields DEF SoundDom, Maps
<1>6. Holds(Now[p], c) /\ Now[p] \in Seq(Nodes)
  <2>1. Now[p] = KidsOf(dom, p)
    BY DEF Now
  <2> QED
    BY <1>2, <1>5, <2>1, KidsSpell DEF Spells
<1>7. Seqs!Attached(c)
  <2>1. c \in Seqs!ToSet(Now[p])
    BY <1>6 DEF Holds, Seqs!ToSet
  <2> QED
    BY <1>5, <2>1 DEF Seqs!Attached, Now
<1> QED
  BY <1>3, <1>4, <1>7 DEF Seqs!TakeOut, Now

LEMMA UnlinkSeq ==
  ASSUME KnownUse, LInv, ~Chains, NEW c \in Nodes, NodeUnlink(c)
  PROVE  Seqs!TakeOut(c)
<1>1. dom.parent[c] # None /\ calls' = calls /\ dom' = Unlinked(dom, c)
  BY DEF NodeUnlink
<1>2. Taken(dom, c, Unlinked(dom, c))
  BY <1>1, UnlinkIs DEF KnownUse, LInv, Good, Listed
<1> QED
  BY <1>1, <1>2, LeaveSeq

LEMMA RemoveSeq ==
  ASSUME KnownUse, LInv, ~Chains, NEW p \in Elems, NEW c \in Nodes, RemoveChild(p, c)
  PROVE  Seqs!TakeOut(c)
<1>1. c \in Children(dom, p) /\ calls' = calls /\ dom' = Removed(dom, p, c)
  BY DEF RemoveChild, Removed
<1>2. SoundDom(dom)
  BY DEF LInv, Good, Listed
<1>3. dom.parent[c] = p /\ p # None
  BY <1>1, <1>2, ChildrenAre, Sorts
<1>4. Taken(dom, c, Removed(dom, p, c))
  BY <1>2, <1>3, RemovedIs
<1> QED
  BY <1>1, <1>3, <1>4, LeaveSeq

LEMMA RemoveAllSeq ==
  ASSUME LInv, ~Chains, NEW p \in Elems, RemoveAllChildren(p)
  PROVE  Seqs!Clear(p)
<1>1. SoundDom(dom) /\ calls' = calls
  BY DEF LInv, Good, Listed, RemoveAllChildren
<1>2. PICK e : e = dom'
  OBVIOUS
<1>3. e = Emptied(dom, p)
  BY <1>2 DEF RemoveAllChildren, Emptied
<1>4. Now' = [Kids(dom) EXCEPT ![p] = <<>>]
  <2>1. Now' = Kids(e)
    BY <1>1, <1>2, NowNext
  <2> QED
    BY <1>1, <1>3, <2>1, EmptiedSeq
<1>5. Now' = [Now EXCEPT ![p] = <<>>]
  BY <1>4, NowIs
<1> QED
  BY <1>5 DEF Seqs!Clear, Now

LEMMA NamedStep == KnownUse /\ Shallow /\ LInv => AsNamed
<1> SUFFICES ASSUME KnownUse, Shallow, LInv, ~Chains PROVE AsNamed
  BY DEF AsNamed
<1>1. ASSUME NEW p \in Elems, NEW c \in Nodes
      PROVE  /\ AppendChild(p, c) => Seqs!AppendChild(p, c)
             /\ PrependChild(p, c) => Seqs!PrependChild(p, c)
             /\ RemoveChild(p, c) => Seqs!TakeOut(c)
  BY AppendSeq, PrependSeq, RemoveSeq
<1>2. ASSUME NEW s \in Nodes, NEW c \in Nodes \ {s}
      PROVE  /\ InsertBefore(s, c) => Seqs!InsertBefore(dom.parent[s], s, c)
             /\ InsertAfter(s, c) => Seqs!InsertAfter(dom.parent[s], s, c)
  BY BeforeSeq, AfterSeq
<1>3. ASSUME NEW c \in Nodes PROVE NodeUnlink(c) => Seqs!TakeOut(c)
  BY UnlinkSeq
<1>4. ASSUME NEW p \in Elems PROVE RemoveAllChildren(p) => Seqs!Clear(p)
  BY RemoveAllSeq
<1> QED
  BY <1>1, <1>2, <1>3, <1>4 DEF AsNamed

LEMMA SeqStep == KnownUse /\ Shallow /\ LInv /\ [Next]_vars => [Seqs!Next]_Now
<1> SUFFICES ASSUME KnownUse, Shallow, LInv, [Next]_vars PROVE Seqs!Next \/ Now' = Now
  OBVIOUS
<1>1. CASE UNCHANGED vars
  BY <1>1 DEF vars, Now, Chains, KidsOf, At, Children
<1>2. CASE Chains /\ Next
  <2>1. calls' = calls
    BY <1>2, ZenonT(30) DEF Next, AppendChild, PrependChild, RemoveChild, InsertBefore, InsertBeforeDetached,
                InsertAfter, InsertAfterDetached, NodeUnlink, RemoveAllChildren
  <2>2. Chains /\ Chains'
    BY <1>2, <2>1 DEF Chains
  <2>3. Now = [p \in Elems |-> <<>>] /\ Now' = [p \in Elems |-> <<>>]
    BY <2>2 DEF Now
  <2> QED
    BY <2>3
<1>3. CASE ~Chains /\ Next
  <2>1. ASSUME NEW p \in Elems, NEW c \in Nodes, AppendChild(p, c) PROVE Seqs!Next
    BY <2>1, AppendSeq DEF Seqs!Next
  <2>2. ASSUME NEW p \in Elems, NEW c \in Nodes, PrependChild(p, c) PROVE Seqs!Next
    BY <1>3, <2>2, PrependSeq DEF Seqs!Next
  <2>3. ASSUME NEW p \in Elems, NEW c \in Nodes, RemoveChild(p, c) PROVE Seqs!Next
    BY <1>3, <2>3, RemoveSeq DEF Seqs!Next
  <2>4. ASSUME NEW s \in Nodes, NEW c \in Nodes \ {s}, InsertBefore(s, c) PROVE Seqs!Next
    BY <1>3, <2>4, BeforeSeq DEF Seqs!Next
  <2>5. ASSUME NEW s \in Nodes, NEW c \in Nodes \ {s}, InsertAfter(s, c) PROVE Seqs!Next
    BY <1>3, <2>5, AfterSeq DEF Seqs!Next
  <2>6. ASSUME NEW s \in Nodes, NEW c \in Nodes \ {s}, InsertBeforeDetached(s, c) \/ InsertAfterDetached(s, c)
        PROVE  Seqs!Next
    BY <1>3, <2>6 DEF InsertBeforeDetached, InsertAfterDetached, Chains
  <2>7. ASSUME NEW c \in Nodes, NodeUnlink(c) PROVE Seqs!Next
    BY <1>3, <2>7, UnlinkSeq DEF Seqs!Next
  <2>8. ASSUME NEW p \in Elems, RemoveAllChildren(p) PROVE Seqs!Next
    BY <1>3, <2>8, RemoveAllSeq DEF Seqs!Next
  <2> QED
    BY <1>3, <2>1, <2>2, <2>3, <2>4, <2>5, <2>6, <2>7, <2>8 DEF Next
<1> QED
  BY <1>1, <1>2, <1>3

(* The linked lists implement sequences: every call of a public function is  *)
(* the step of ChildSeq that has its name, on the nodes it was given, which  *)
(* puts the node where that name says and moves no other (leptris.h).        *)
THEOREM ListsAreSequences == KnownUse => (Spec /\ []Shallow => IsChildSeq)
<1>1. Init => Seqs!Init
  <2> SUFFICES ASSUME Init PROVE Now = [p \in Elems |-> <<>>]
    BY DEF Seqs!Init, Now
  <2>1. CASE Chains
    BY <2>1 DEF Now
  <2>2. CASE ~Chains
    <3>1. SoundDom(dom)
      BY <2>2, InitL DEF LInv, Good, Listed
    <3>2. \A p \in Elems : dom.first[p] = None
      BY DEF Init
    <3>3. \A p \in Elems : KidsOf(dom, p) = <<>>
      BY <3>1, <3>2, EmptyOf
    <3> QED
      BY <2>2, <3>3 DEF Now
  <2> QED
    BY <2>1, <2>2
<1>2. KnownUse /\ Shallow /\ LInv /\ [Next]_vars => [Seqs!Next]_Now
  BY SeqStep
<1>3. KnownUse /\ Shallow /\ LInv => AsNamed
  BY NamedStep
<1> QED
  <2> SUFFICES ASSUME KnownUse PROVE Spec /\ []Shallow => IsChildSeq
    OBVIOUS
  <2>1. Shallow /\ LInv /\ [Next]_vars => [Seqs!Next]_Now
    BY <1>2
  <2>2. Shallow /\ LInv => [AsNamed]_vars
    BY <1>3
  <2>3. Spec /\ []Shallow => Seqs!Spec
    BY <1>1, <2>1, ListsKept, PTL DEF Spec, Seqs!Spec, Now
  <2>4. Spec /\ []Shallow => [][AsNamed]_vars
    BY <2>2, ListsKept, PTL
  <2> QED
    BY <2>3, <2>4 DEF IsChildSeq
===============================================================================
