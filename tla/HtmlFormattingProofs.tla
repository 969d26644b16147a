------------------------ MODULE HtmlFormattingProofs ------------------------
(* Theorems of HtmlFormatting, for any element names, any caps and documents *)
(* of any size: the stack of open elements is a branch of the tree.  First   *)
(* what appending, unlinking and wrapping nodes do to a tree, then the stack *)
(* and the formatting list, then the rounds of the adoption agency, then the *)
(* tokens.                                                                   *)
EXTENDS HtmlFormatting, ChainsProofs

-----------------------------------------------------------------------------
(* The tree.  up[x] is the parent of x, -1 while x has none; D[x] holds x    *)
(* and all that is below it.  A set of nodes with the parent of each of its  *)
(* members would be a loop, or never end.                                    *)
NoLoop(up, n) == \A S \in SUBSET (1 .. n) : S # {} => \E x \in S : up[x] \notin S

Forest(kids, n, up, D) ==
  /\ n \in Nat
  /\ kids \in [0 .. n -> Seq(1 .. n)]
  /\ up \in [1 .. n -> -1 .. n]
  /\ \A p \in 0 .. n, x \in 1 .. n : x \in ToSet(kids[p]) <=> up[x] = p
  /\ NoLoop(up, n)
  /\ D \in [1 .. n -> SUBSET (1 .. n)]
  /\ \A x, y \in 1 .. n : y \in D[x] <=> y = x \/ up[y] \in D[x]

LEMMA ClosedSet ==
  ASSUME NEW kids, NEW n, NEW up, NEW D, Forest(kids, n, up, D),
         NEW S \in SUBSET (1 .. n), \A x \in S : up[x] \in S
  PROVE  S = {}
BY DEF Forest, NoLoop

(* What is below a node below x is below x, and no two nodes are below each  *)
(* other.                                                                    *)
LEMMA Below ==
  ASSUME NEW kids, NEW n, NEW up, NEW D, Forest(kids, n, up, D)
  PROVE  /\ \A x \in 1 .. n : x \in D[x] /\ D[x] \subseteq 1 .. n
         /\ \A x, y \in 1 .. n : y \in D[x] => D[y] \subseteq D[x]
         /\ \A x, y \in 1 .. n : y \in D[x] /\ x \in D[y] => x = y
         /\ \A x, y \in 1 .. n : y \in D[x] /\ y # x => up[y] \in D[x] /\ up[y] \in 1 .. n
<1>1. /\ D \in [1 .. n -> SUBSET (1 .. n)]
      /\ \A x, y \in 1 .. n : y \in D[x] <=> y = x \/ up[y] \in D[x]
  BY DEF Forest
<1>2. \A x \in 1 .. n : x \in D[x] /\ D[x] \subseteq 1 .. n
  BY <1>1
<1>3. ASSUME NEW x \in 1 .. n, NEW y \in 1 .. n, y \in D[x]
      PROVE  D[y] \subseteq D[x]
  <2> DEFINE S == D[y] \ D[x]
  <2>1. S \in SUBSET (1 .. n)
    BY <1>2
  <2>2. \A z \in S : up[z] \in S
    BY <1>1, <1>2, <1>3
  <2>3. S = {}
    <3> HIDE DEF S
    <3> QED
      BY <2>1, <2>2, ClosedSet
  <2> QED
    BY <2>3
<1>4. ASSUME NEW x \in 1 .. n, NEW y \in 1 .. n, y \in D[x], x \in D[y], x # y
      PROVE  FALSE
  <2>1. D[x] = D[y]
    BY <1>3, <1>4
  <2>2. \A z \in D[x] : up[z] \in D[x]
    BY <1>1, <1>2, <1>4, <2>1
  <2>3. D[x] = {}
    BY <1>2, <1>4, <2>2, ClosedSet
  <2> QED
    BY <1>2, <2>3
<1> QED
  BY <1>1, <1>2, <1>3, <1>4

LEMMA WiderSeq ==
  ASSUME NEW S, NEW T, S \subseteq T
  PROVE  Seq(S) \subseteq Seq(T) /\ <<>> \in Seq(T)
OBVIOUS

LEMMA Members ==
  ASSUME NEW S, NEW s \in Seq(S)
  PROVE  ToSet(s) \subseteq S
BY DEF ToSet

(* A new node, not yet in the tree.                                          *)
WithLeaf(kids, n) == [x \in 0 .. n + 1 |-> IF x = n + 1 THEN <<>> ELSE kids[x]]

Leafed(k, n, m, up, D) ==
  \E u, E : /\ Forest(k, m, u, E) /\ u[m] = -1 /\ E[m] = {m}
           /\ \A x \in 1 .. n : u[x] = up[x] /\ E[x] = D[x]

LEMMA LeafAdded ==
  ASSUME NEW kids, NEW n \in Nat, NEW up, NEW D, Forest(kids, n, up, D)
  PROVE  Leafed(WithLeaf(kids, n), n, n + 1, up, D)
<1>1. /\ n \in Nat /\ kids \in [0 .. n -> Seq(1 .. n)] /\ up \in [1 .. n -> -1 .. n]
      /\ \A p \in 0 .. n, x \in 1 .. n : x \in ToSet(kids[p]) <=> up[x] = p
      /\ D \in [1 .. n -> SUBSET (1 .. n)]
      /\ \A x, y \in 1 .. n : y \in D[x] <=> y = x \/ up[y] \in D[x]
  BY DEF Forest
<1>2. PICK k, u, E : /\ k = [x \in 0 .. n + 1 |-> IF x = n + 1 THEN <<>> ELSE kids[x]]
                     /\ u = [x \in 1 .. n + 1 |-> IF x = n + 1 THEN -1 ELSE up[x]]
                     /\ E = [x \in 1 .. n + 1 |-> IF x = n + 1 THEN {n + 1} ELSE D[x]]
  OBVIOUS
<1>3. /\ n + 1 \in Nat /\ \A x \in 0 .. n + 1 : x # n + 1 => x \in 0 .. n
      /\ \A x \in 1 .. n + 1 : x # n + 1 => x \in 1 .. n
      /\ \A x \in 1 .. n : x # n + 1 /\ x \in 1 .. n + 1
      /\ \A x \in 0 .. n : x # n + 1 /\ x \in 0 .. n + 1
      /\ \A x \in -1 .. n : x # n + 1 /\ x \in -1 .. n + 1
      /\ -1 \in -1 .. n + 1 /\ n + 1 \in 1 .. n + 1 /\ n + 1 \in 0 .. n + 1 /\ -1 \notin 1 .. n /\ -1 # n + 1
      /\ -1 \notin 0 .. n + 1
  BY <1>1
<1>4. k \in [0 .. n + 1 -> Seq(1 .. n + 1)]
  <2>1. Seq(1 .. n) \subseteq Seq(1 .. n + 1) /\ <<>> \in Seq(1 .. n + 1)
    <3>1. 1 .. n \subseteq 1 .. n + 1
      BY <1>3
    <3> QED
      BY <3>1, WiderSeq
  <2>2. \A x \in 0 .. n + 1 : k[x] \in Seq(1 .. n + 1)
    BY <1>1, <1>2, <1>3, <2>1
  <2> QED
    BY <1>2, <2>2
<1>5. /\ u \in [1 .. n + 1 -> -1 .. n + 1] /\ \A x \in 1 .. n : u[x] = up[x]
      /\ u[n + 1] = -1
  BY <1>1, <1>2, <1>3
<1>6. ASSUME NEW p \in 0 .. n + 1, NEW x \in 1 .. n + 1
      PROVE  x \in ToSet(k[p]) <=> u[x] = p
  <2>1. CASE p = n + 1
    <3>1. ToSet(k[p]) = {}
      BY <1>2, <2>1, NoElements
    <3>2. u[x] # p
      BY <1>1, <1>3, <1>5, <2>1
    <3> QED
      BY <3>1, <3>2
  <2>2. CASE p # n + 1
    <3>1. k[p] = kids[p] /\ p \in 0 .. n /\ kids[p] \in Seq(1 .. n)
      <4>1. p \in 0 .. n
        BY <1>3, <2>2
      <4>2. k[p] = kids[p]
        BY <1>2, <2>2
      <4> QED
        BY <1>1, <4>1, <4>2
    <3>2. CASE x = n + 1
      <4>1. x \notin ToSet(kids[p])
        BY <1>3, <3>1, <3>2, Members
      <4> QED
        BY <1>3, <1>5, <3>1, <3>2, <4>1
    <3>3. CASE x # n + 1
      BY <1>1, <1>3, <1>5, <3>1, <3>3
    <3> QED
      BY <3>2, <3>3
  <2> QED
    BY <2>1, <2>2
<1>7. NoLoop(u, n + 1)
  <2> SUFFICES ASSUME NEW S \in SUBSET (1 .. n + 1), \A x \in S : u[x] \in S
               PROVE  S = {}
    BY DEF NoLoop
  <2>1. n + 1 \notin S
    BY <1>3, <1>5
  <2>2. S \in SUBSET (1 .. n) /\ \A x \in S : up[x] \in S
    BY <1>3, <1>5, <2>1
  <2> QED
    BY <2>2, ClosedSet
<1>8. /\ E \in [1 .. n + 1 -> SUBSET (1 .. n + 1)] /\ \A x \in 1 .. n : E[x] = D[x]
      /\ E[n + 1] = {n + 1}
  BY <1>1, <1>2, <1>3, SMTT(30)
<1>9. ASSUME NEW x \in 1 .. n + 1, NEW y \in 1 .. n + 1
      PROVE  y \in E[x] <=> y = x \/ u[y] \in E[x]
  <2>1. CASE x = n + 1
    BY <1>1, <1>3, <1>5, <1>8, <2>1
  <2>2. CASE x # n + 1 /\ y = n + 1
    BY <1>1, <1>3, <1>5, <1>8, <2>2
  <2>3. CASE x # n + 1 /\ y # n + 1
    BY <1>1, <1>3, <1>5, <1>8, <2>3
  <2> QED
    BY <2>1, <2>2, <2>3
<1>10. Forest(k, n + 1, u, E)
  BY <1>3, <1>4, <1>5, <1>6, <1>7, <1>8, <1>9 DEF Forest
<1>11. k = WithLeaf(kids, n)
  BY <1>2 DEF WithLeaf
<1>12. /\ Forest(WithLeaf(kids, n), n + 1, u, E) /\ u[n + 1] = -1 /\ E[n + 1] = {n + 1}
       /\ \A x \in 1 .. n : u[x] = up[x] /\ E[x] = D[x]
  BY <1>5, <1>8, <1>10, <1>11
<1> QED
  BY <1>12 DEF Leafed

(* A node x put under p, wherever it was before, takes all below it along.   *)
Hung(k, kids, n, x, p) ==
  /\ k \in [0 .. n -> Seq(1 .. n)]
  /\ \A q \in 0 .. n, y \in 1 .. n :
       y \in ToSet(k[q]) <=> IF y = x THEN q = p ELSE y \in ToSet(kids[q])

Carried(D, E, n, x, p) ==
  /\ \A y \in 1 .. n, z \in 1 .. n : z \notin D[x] => (z \in E[y] <=> z \in D[y])
  /\ \A y, z \in D[x] : z \in E[y] <=> z \in D[y]
  /\ \A y \in 1 .. n, z \in D[x] : p \in D[y] => z \in E[y]

LEMMA HungUnder ==
  ASSUME NEW kids, NEW n, NEW up, NEW D, Forest(kids, n, up, D),
         NEW x \in 1 .. n, NEW p \in 0 .. n, p \notin D[x], NEW k, Hung(k, kids, n, x, p)
  PROVE  \E u, E : /\ Forest(k, n, u, E) /\ Carried(D, E, n, x, p)
                   /\ u[x] = p /\ \A y \in 1 .. n : y # x => u[y] = up[y]
<1>1. /\ n \in Nat /\ up \in [1 .. n -> -1 .. n]
      /\ \A q \in 0 .. n, y \in 1 .. n : y \in ToSet(kids[q]) <=> up[y] = q
      /\ D \in [1 .. n -> SUBSET (1 .. n)]
      /\ \A y, z \in 1 .. n : z \in D[y] <=> z = y \/ up[z] \in D[y]
  BY DEF Forest
<1>2. PICK u, E : /\ u = [up EXCEPT ![x] = p]
                  /\ E = [y \in 1 .. n |-> (D[y] \ (IF y \in D[x] THEN {} ELSE D[x]))
                                             \cup IF p \in D[y] THEN D[x] ELSE {}]
  OBVIOUS
<1>3. u \in [1 .. n -> -1 .. n] /\ u[x] = p /\ \A y \in 1 .. n : y # x => u[y] = up[y]
  BY <1>1, <1>2
<1>4. ASSUME NEW y \in 1 .. n, NEW z \in 1 .. n
      PROVE  z \in E[y] <=> \/ z \in D[y] /\ (y \in D[x] \/ z \notin D[x])
                            \/ z \in D[x] /\ p \in D[y]
  BY <1>1, <1>2
<1>5. E \in [1 .. n -> SUBSET (1 .. n)]
  BY <1>1, <1>2
<1>6. /\ \A y \in 1 .. n : y \in D[y] /\ D[y] \subseteq 1 .. n
      /\ \A y, z \in 1 .. n : z \in D[y] => D[z] \subseteq D[y]
      /\ \A y, z \in 1 .. n : z \in D[y] /\ y \in D[z] => y = z
  BY Below
<1>7. \A y \in D[x] : p \notin D[y]
  BY <1>6
<1>8. Carried(D, E, n, x, p)
  BY <1>4, <1>6, <1>7 DEF Carried
<1>9. \A q \in 0 .. n, y \in 1 .. n : y \in ToSet(k[q]) <=> u[y] = q
  BY <1>1, <1>3 DEF Hung
<1>10. NoLoop(u, n)
  <2> SUFFICES ASSUME NEW S \in SUBSET (1 .. n), \A y \in S : u[y] \in S
               PROVE  S = {}
    BY DEF NoLoop
  <2>1. CASE x \notin S
    <3>1. \A y \in S : up[y] \in S
      BY <1>3, <2>1
    <3> QED
      BY <3>1, ClosedSet
  <2>2. CASE x \in S
    <3> DEFINE T == S \ D[x]
    <3>1. p \in T
      BY <1>3, <2>2
    <3>2. \A y \in T : y \in 1 .. n /\ up[y] \in T
      BY <1>1, <1>3
    <3>3. T = {}
      <4> HIDE DEF T
      <4>1. T \in SUBSET (1 .. n)
        BY <3>2
      <4> QED
        BY <3>2, <4>1, ClosedSet
    <3> QED
      BY <3>1, <3>3
  <2> QED
    BY <2>1, <2>2
<1>11. ASSUME NEW y \in 1 .. n, NEW z \in 1 .. n PROVE z \in E[y] <=> z = y \/ u[z] \in E[y]
  <2>1. CASE y \in D[x]
    <3>1. \A v \in 1 .. n : v \in E[y] <=> v \in D[y]
      BY <1>4, <1>7, <2>1
    <3>2. CASE z = x
      <4>1. x \in D[y] <=> x = y
        BY <1>6, <2>1
      <4>2. p \notin E[y]
        <5>1. p \notin D[y] /\ E[y] \subseteq 1 .. n
          BY <1>5, <1>7, <2>1
        <5> QED
          BY <3>1, <5>1
      <4> QED
        BY <1>3, <3>1, <3>2, <4>1, <4>2
    <3>3. CASE z # x
      <4>1. u[z] = up[z] /\ (z \in D[y] <=> z = y \/ up[z] \in D[y])
        BY <1>1, <1>3, <3>3
      <4>2. up[z] \in E[y] <=> up[z] \in D[y]
        BY <1>5, <1>6, <3>1
      <4> QED
        BY <3>1, <4>1, <4>2
    <3> QED
      BY <3>2, <3>3
  <2>2. CASE y \notin D[x]
    <3>1. \A v \in 1 .. n : v \in E[y] <=> IF v \in D[x] THEN p \in D[y] ELSE v \in D[y]
      BY <1>4, <2>2
    <3>2. E[y] \subseteq 1 .. n /\ D[y] \subseteq 1 .. n
      BY <1>5, <1>6
    <3>3. CASE z = x
      <4>1. x \in D[x] /\ x # y /\ (x \in E[y] <=> p \in D[y])
        BY <1>6, <2>2, <3>1
      <4>2. p \in E[y] <=> p \in D[y]
        BY <3>1, <3>2
      <4> QED
        BY <1>3, <3>3, <4>1, <4>2
    <3>4. CASE z # x
      <4>1. /\ u[z] = up[z] /\ (z \in D[y] <=> z = y \/ up[z] \in D[y])
            /\ (z \in D[x] <=> up[z] \in D[x])
        BY <1>1, <1>3, <3>4
      <4>2. up[z] \in E[y] <=> IF up[z] \in D[x] THEN p \in D[y] ELSE up[z] \in D[y]
        BY <1>6, <3>1, <3>2
      <4>3. z \in E[y] <=> IF z \in D[x] THEN p \in D[y] ELSE z \in D[y]
        BY <3>1
      <4>4. z \in D[x] => z # y
        BY <2>2
      <4> QED
        BY <4>1, <4>2, <4>3, <4>4
    <3> QED
      BY <3>3, <3>4
  <2> QED
    BY <2>1, <2>2
<1>12. Forest(k, n, u, E)
  <2>1. k \in [0 .. n -> Seq(1 .. n)]
    BY DEF Hung
  <2> QED
    BY <1>1, <1>3, <1>5, <1>9, <1>10, <1>11, <2>1 DEF Forest
<1> QED
  BY <1>3, <1>8, <1>12

(* A new node m takes over the children of f and becomes its only child.     *)
Wrapped(k, kids, n, f, m) ==
  /\ k \in [0 .. n -> Seq(1 .. n)]
  /\ \A q \in 0 .. n, y \in 1 .. n :
       y \in ToSet(k[q]) <=> IF q = f THEN y = m
                             ELSE IF q = m THEN y \in ToSet(kids[f]) ELSE y \in ToSet(kids[q])

Between(D, E, n, f, m) ==
  /\ \A y, z \in 1 .. n : y # m /\ z # m => (z \in E[y] <=> z \in D[y])
  /\ \A y \in 1 .. n : f \in D[y] => m \in E[y]
  /\ D[f] \ {f} \subseteq E[m]

LEMMA WrappedUnder ==
  ASSUME NEW kids, NEW n, NEW up, NEW D, Forest(kids, n, up, D),
         NEW f \in 1 .. n, NEW m \in 1 .. n, f # m, up[m] = -1, kids[m] = <<>>,
         NEW k, Wrapped(k, kids, n, f, m)
  PROVE  \E u, E : /\ Forest(k, n, u, E) /\ Between(D, E, n, f, m)
                   /\ \A y \in 1 .. n : y # m => u[y] = IF up[y] = f THEN m ELSE up[y]
<1>1. /\ n \in Nat /\ up \in [1 .. n -> -1 .. n]
      /\ \A q \in 0 .. n, y \in 1 .. n : y \in ToSet(kids[q]) <=> up[y] = q
      /\ D \in [1 .. n -> SUBSET (1 .. n)]
      /\ \A y, z \in 1 .. n : z \in D[y] <=> z = y \/ up[z] \in D[y]
  BY DEF Forest
<1>2. PICK u, E : /\ u = [y \in 1 .. n |-> IF y = m THEN f ELSE IF up[y] = f THEN m ELSE up[y]]
                  /\ E = [y \in 1 .. n |-> IF y = m THEN (D[f] \ {f}) \cup {m}
                                           ELSE IF f \in D[y] THEN D[y] \cup {m} ELSE D[y]]
  OBVIOUS
<1>3. /\ u \in [1 .. n -> -1 .. n] /\ u[m] = f
      /\ \A y \in 1 .. n : y # m => u[y] = IF up[y] = f THEN m ELSE up[y]
  BY <1>1, <1>2
<1>4. /\ E \in [1 .. n -> SUBSET (1 .. n)]
      /\ E[m] = (D[f] \ {f}) \cup {m}
      /\ \A y \in 1 .. n : y # m => E[y] = IF f \in D[y] THEN D[y] \cup {m} ELSE D[y]
  BY <1>1, <1>2
<1>5. /\ \A y \in 1 .. n : y \in D[y] /\ D[y] \subseteq 1 .. n
      /\ \A y, z \in 1 .. n : z \in D[y] => D[z] \subseteq D[y]
      /\ \A y, z \in 1 .. n : z \in D[y] /\ y \in D[z] => y = z
      /\ \A y, z \in 1 .. n : z \in D[y] /\ z # y => up[z] \in D[y] /\ up[z] \in 1 .. n
  BY Below
<1>6. \A y \in 1 .. n : up[y] # m
  <2>1. ToSet(kids[m]) = {}
    BY NoElements
  <2> QED
    BY <1>1, <2>1
<1>7. \A y \in 1 .. n : m \in D[y] => y = m
  BY <1>1, <1>5
<1>8. up[f] # f
  <2>1. ASSUME up[f] = f PROVE FALSE
    <3>1. {f} \in SUBSET (1 .. n) /\ \A y \in {f} : up[y] \in {f}
      BY <2>1
    <3> QED
      BY <3>1, ClosedSet
  <2> QED
    BY <2>1
<1>9. Between(D, E, n, f, m)
  BY <1>4, <1>5 DEF Between
<1>10. \A q \in 0 .. n, y \in 1 .. n : y \in ToSet(k[q]) <=> u[y] = q
  <2> SUFFICES ASSUME NEW q \in 0 .. n, NEW y \in 1 .. n PROVE y \in ToSet(k[q]) <=> u[y] = q
    OBVIOUS
  <2>1. y \in ToSet(k[q]) <=> IF q = f THEN y = m
                             ELSE IF q = m THEN y \in ToSet(kids[f]) ELSE y \in ToSet(kids[q])
    BY DEF Wrapped
  <2>2. y \in ToSet(kids[f]) <=> up[y] = f
    BY <1>1
  <2>3. y \in ToSet(kids[q]) <=> up[y] = q
    BY <1>1
  <2>4. up[y] # m
    BY <1>6
  <2>5. q \in 0 .. n /\ m \in 1 .. n /\ f \in 1 .. n
    OBVIOUS
  <2>6. u[y] = IF y = m THEN f ELSE IF up[y] = f THEN m ELSE up[y]
    BY <1>3
  <2>7. y = m => up[y] # q /\ up[y] # f
    BY <1>1
  <2> QED
    BY <2>1, <2>2, <2>3, <2>4, <2>6, <2>7
<1>11. NoLoop(u, n)
  <2> SUFFICES ASSUME NEW S \in SUBSET (1 .. n), \A y \in S : u[y] \in S
               PROVE  S = {}
    BY DEF NoLoop
  <2> DEFINE T == S \ {m}
  <2>1. m \in S => f \in S
    BY <1>3
  <2>2. \A y \in T : y \in 1 .. n /\ up[y] \in T
    BY <1>3, <1>6, <2>1
  <2>3. T = {}
    <3> HIDE DEF T
    <3>1. T \in SUBSET (1 .. n)
      BY <2>2
    <3> QED
      BY <2>2, <3>1, ClosedSet
  <2> QED
    BY <2>1, <2>3
<1>12. ASSUME NEW y \in 1 .. n, NEW z \in 1 .. n PROVE z \in E[y] <=> z = y \/ u[z] \in E[y]
  <2>1. CASE y = m
    <3>1. \A v \in 1 .. n : v \in E[y] <=> (v \in D[f] /\ v # f) \/ v = m
      BY <1>4, <2>1
    <3>2. CASE z = m
      BY <2>1, <3>1, <3>2
    <3>3. CASE z # m /\ up[z] = f
      <4>1. z \in D[f] /\ z # f
        BY <1>1, <1>5, <1>8, <3>3
      <4>2. u[z] = m
        BY <1>3, <3>3
      <4> QED
        BY <3>1, <4>1, <4>2
    <3>4. CASE z # m /\ up[z] # f
      <4>1. u[z] = up[z]
        BY <1>3, <3>4
      <4>2. z \in D[f] <=> z = f \/ up[z] \in D[f]
        BY <1>1
      <4>3. E[y] \subseteq 1 .. n
        BY <1>4
      <4>4. u[z] \in E[y] <=> up[z] \in D[f]
        BY <1>5, <1>6, <3>1, <3>4, <4>1, <4>3
      <4>5. z = f => up[z] \notin D[f]
        <5>1. ASSUME up[f] \in D[f] PROVE FALSE
          <6>1. up[f] \in 1 .. n
            BY <1>5, <5>1
          <6>2. f \in D[up[f]]
            BY <1>1, <1>5, <6>1
          <6> QED
            BY <1>5, <1>8, <5>1, <6>1, <6>2
        <5> QED
          BY <5>1
      <4> QED
        BY <2>1, <3>1, <3>4, <4>2, <4>4, <4>5
    <3> QED
      BY <3>2, <3>3, <3>4
  <2>2. CASE y # m
    <3>1. \A v \in 1 .. n : v \in E[y] <=> IF v = m THEN f \in D[y] ELSE v \in D[y]
      BY <1>4, <1>7, <2>2
    <3>2. CASE z = m
      BY <1>3, <2>2, <3>1, <3>2
    <3>3. CASE z # m /\ up[z] = f
      <4>1. u[z] = m /\ (z \in D[y] <=> z = y \/ f \in D[y])
        BY <1>1, <1>3, <3>3, SMTT(30)
      <4> QED
        BY <3>1, <3>3, <4>1
    <3>4. CASE z # m /\ up[z] # f
      <4>1. u[z] = up[z] /\ (z \in D[y] <=> z = y \/ up[z] \in D[y]) /\ up[z] # m
        BY <1>1, <1>3, <1>6, <3>4
      <4>2. E[y] \subseteq 1 .. n /\ D[y] \subseteq 1 .. n
        BY <1>4, <1>5
      <4>3. up[z] \in E[y] <=> up[z] \in D[y]
        BY <3>1, <4>1, <4>2
      <4>4. z \in E[y] <=> z \in D[y]
        BY <3>1, <3>4
      <4> QED
        BY <4>1, <4>3, <4>4
    <3> QED
      BY <3>2, <3>3, <3>4
  <2> QED
    BY <2>1, <2>2
<1>13. Forest(k, n, u, E)
  <2>1. k \in [0 .. n -> Seq(1 .. n)]
    BY DEF Wrapped
  <2> QED
    BY <1>1, <1>3, <1>4, <1>10, <1>11, <1>12, <2>1 DEF Forest
<1> QED
  BY <1>3, <1>9, <1>13

-----------------------------------------------------------------------------
(* Sequences that lose or gain an element.                                   *)
LEMMA FirstPart ==
  ASSUME NEW S, NEW s \in Seq(S), NEW d \in Int, d <= Len(s)
  PROVE  /\ SubSeq(s, 1, d) \in Seq(S) /\ Len(SubSeq(s, 1, d)) = IF 1 <= d THEN d ELSE 0
         /\ \A j \in 1 .. d : SubSeq(s, 1, d)[j] = s[j]
<1>1. \A j \in 1 .. d : s[j] \in S
  OBVIOUS
<1>2. /\ SubSeq(s, 1, d) \in Seq(S) /\ Len(SubSeq(s, 1, d)) = IF 1 <= d THEN d - 1 + 1 ELSE 0
      /\ \A j \in 1 .. d - 1 + 1 : SubSeq(s, 1, d)[j] = s[1 + j - 1]
  BY <1>1, SubSeqProperties, 1 \in Int
<1>3. d - 1 + 1 = d /\ \A j \in 1 .. d : 1 + j - 1 = j
  OBVIOUS
<1> QED
  BY <1>2, <1>3

LEMMA LastPart ==
  ASSUME NEW S, NEW s \in Seq(S), NEW i \in 1 .. Len(s) + 1
  PROVE  /\ SubSeq(s, i, Len(s)) \in Seq(S) /\ Len(SubSeq(s, i, Len(s))) = Len(s) - i + 1
         /\ \A j \in 1 .. Len(s) - i + 1 : SubSeq(s, i, Len(s))[j] = s[i + j - 1]
<1>1. \A j \in i .. Len(s) : s[j] \in S
  OBVIOUS
<1> QED
  BY <1>1

Less(s, i, u) == Len(u) = Len(s) - 1 /\ \A j \in 1 .. Len(u) : u[j] = IF j < i THEN s[j] ELSE s[j + 1]
More(s, i, e, u) ==
  Len(u) = Len(s) + 1 /\ \A j \in 1 .. Len(u) : u[j] = IF j < i THEN s[j] ELSE IF j = i THEN e ELSE s[j - 1]

LEMMA RemoveAtIs ==
  ASSUME NEW S, NEW s \in Seq(S), NEW i \in 1 .. Len(s)
  PROVE  RemoveAt(s, i) \in Seq(S) /\ Less(s, i, RemoveAt(s, i))
<1>1. PICK p, q : p = SubSeq(s, 1, i - 1) /\ q = SubSeq(s, i + 1, Len(s))
  OBVIOUS
<1>2. p \in Seq(S) /\ Len(p) = i - 1 /\ \A j \in 1 .. i - 1 : p[j] = s[j]
  BY <1>1, FirstPart
<1>3. q \in Seq(S) /\ Len(q) = Len(s) - i /\ \A j \in 1 .. Len(s) - i : q[j] = s[i + j]
  <2>1. i + 1 \in 1 .. Len(s) + 1 /\ Len(s) - (i + 1) + 1 = Len(s) - i
        /\ \A j \in 1 .. Len(s) - i : (i + 1) + j - 1 = i + j
    OBVIOUS
  <2>2. /\ q \in Seq(S) /\ Len(q) = Len(s) - (i + 1) + 1
        /\ \A j \in 1 .. Len(s) - (i + 1) + 1 : q[j] = s[(i + 1) + j - 1]
    BY <1>1, <2>1, LastPart
  <2> QED
    BY <2>1, <2>2
<1>4. PICK u : u = p \o q
  OBVIOUS
<1>5. u \in Seq(S) /\ Len(u) = Len(s) - 1
  BY <1>2, <1>3, <1>4
<1>6. ASSUME NEW j \in 1 .. Len(u) PROVE u[j] = IF j < i THEN s[j] ELSE s[j + 1]
  <2>1. u[j] = IF j <= Len(p) THEN p[j] ELSE q[j - Len(p)]
    BY <1>2, <1>3, <1>4, <1>5
  <2>2. CASE j < i
    BY <1>2, <2>1, <2>2
  <2>3. CASE ~(j < i)
    <3>1. j - Len(p) \in 1 .. Len(s) - i /\ i + (j - Len(p)) = j + 1 /\ ~(j <= Len(p))
      BY <1>2, <1>5, <2>3
    <3> QED
      BY <1>3, <2>1, <2>3, <3>1
  <2> QED
    BY <2>2, <2>3
<1>7. u = RemoveAt(s, i)
  BY <1>1, <1>4 DEF RemoveAt
<1> QED
  BY <1>5, <1>6, <1>7 DEF Less

LEMMA InsertAtIs ==
  ASSUME NEW S, NEW s \in Seq(S), NEW i \in 1 .. Len(s) + 1, NEW e \in S
  PROVE  InsertAt(s, i, e) \in Seq(S) /\ More(s, i, e, InsertAt(s, i, e))
<1>1. PICK p, q : p = SubSeq(s, 1, i - 1) /\ q = SubSeq(s, i, Len(s))
  OBVIOUS
<1>2. p \in Seq(S) /\ Len(p) = i - 1 /\ \A j \in 1 .. i - 1 : p[j] = s[j]
  BY <1>1, FirstPart
<1>3. q \in Seq(S) /\ Len(q) = Len(s) - i + 1 /\ \A j \in 1 .. Len(s) - i + 1 : q[j] = s[i + j - 1]
  BY <1>1, LastPart
<1>4. PICK v : v = p \o <<e>>
  OBVIOUS
<1>5. v \in Seq(S) /\ Len(v) = i /\ v[i] = e /\ \A j \in 1 .. i - 1 : v[j] = s[j]
  BY <1>2, <1>4
<1>6. PICK u : u = v \o q
  OBVIOUS
<1>7. u \in Seq(S) /\ Len(u) = Len(s) + 1
  BY <1>3, <1>5, <1>6, SMTT(30)
<1>8. ASSUME NEW j \in 1 .. Len(u) PROVE u[j] = IF j < i THEN s[j] ELSE IF j = i THEN e ELSE s[j - 1]
  <2>1. u[j] = IF j <= Len(v) THEN v[j] ELSE q[j - Len(v)]
    BY <1>3, <1>5, <1>6, <1>7
  <2>2. CASE j <= i
    BY <1>5, <2>1, <2>2
  <2>3. CASE ~(j <= i)
    <3>1. PICK k \in 1 .. Len(s) - i + 1 : k = j - Len(v) /\ i + k - 1 = j - 1
      BY <1>5, <1>7, <2>3
    <3>2. u[j] = q[k]
      BY <1>5, <2>1, <2>3, <3>1
    <3>3. q[k] = s[j - 1]
      BY <1>3, <3>1
    <3> QED
      BY <2>3, <3>2, <3>3
  <2> QED
    BY <2>2, <2>3
<1>9. u = InsertAt(s, i, e)
  BY <1>1, <1>4, <1>6 DEF InsertAt
<1> QED
  BY <1>7, <1>8, <1>9 DEF More

-----------------------------------------------------------------------------
(* The builder: what its fields hold, for a record s of HBuilder.            *)
Names == Tags \cup {"#text", "p"}
Ids == Names \cup {Unknown}

Sized(s) ==
  /\ s = [open |-> s.open, ids |-> s.ids, afe |-> s.afe, kids |-> s.kids,
          name |-> s.name, body_seen |-> s.body_seen]
  /\ s.name \in Seq(Names) /\ s.open \in Seq(1 .. Len(s.name)) /\ s.afe \in Seq(0 .. Len(s.name))
  /\ s.ids \in Seq(Ids) /\ Len(s.ids) = Len(s.open)
  /\ Len(s.open) <= DepthCap /\ Len(s.afe) <= AfeCap

(* The open elements lie under one another and in the tree.                  *)
Nested(o, up, D) ==
  /\ \A i \in 1 .. Len(o) : up[o[i]] # -1
  /\ \A i, j \in 1 .. Len(o) : i < j => o[j] \in D[o[i]] /\ o[j] # o[i]

Upright(s) == \E up, D : Forest(s.kids, Len(s.name), up, D) /\ Nested(s.open, up, D)
Sound(s) == Sized(s) /\ Upright(s)

LEMMA Fields ==
  ASSUME NEW s, Sized(s)
  PROVE  /\ s.name \in Seq(Names) /\ s.open \in Seq(1 .. Len(s.name)) /\ s.afe \in Seq(0 .. Len(s.name))
         /\ s.ids \in Seq(Ids) /\ Len(s.ids) = Len(s.open) /\ Depth(s) = Len(s.open)
         /\ Len(s.open) <= DepthCap /\ Len(s.afe) <= AfeCap
         /\ Len(s.name) \in Nat /\ Len(s.open) \in Nat /\ Len(s.afe) \in Nat
         /\ \A i \in 1 .. Len(s.open) : s.open[i] \in 1 .. Len(s.name)
         /\ \A i \in 1 .. Len(s.afe) : s.afe[i] \in 0 .. Len(s.name)
         /\ DOMAIN s.afe = 1 .. Len(s.afe) /\ DOMAIN s.open = 1 .. Len(s.open)
         /\ DepthCap \in Nat /\ DepthCap >= 1 /\ AfeCap \in Nat /\ AfeCap >= 1
<1>1. DepthCap \in Nat /\ DepthCap >= 1 /\ AfeCap \in Nat /\ AfeCap >= 1
  BY HtmlCaps
<1>2. /\ s.name \in Seq(Names) /\ s.open \in Seq(1 .. Len(s.name)) /\ s.afe \in Seq(0 .. Len(s.name))
      /\ s.ids \in Seq(Ids) /\ Len(s.ids) = Len(s.open) /\ Depth(s) = Len(s.open)
      /\ Len(s.open) <= DepthCap /\ Len(s.afe) <= AfeCap
  BY DEF Sized, Depth
<1>3. Len(s.name) \in Nat /\ Len(s.open) \in Nat /\ Len(s.afe) \in Nat
  BY <1>2
<1>4. /\ \A i \in 1 .. Len(s.open) : s.open[i] \in 1 .. Len(s.name)
      /\ \A i \in 1 .. Len(s.afe) : s.afe[i] \in 0 .. Len(s.name)
      /\ DOMAIN s.afe = 1 .. Len(s.afe) /\ DOMAIN s.open = 1 .. Len(s.open)
  BY <1>2, SMTT(30)
<1> QED
  BY <1>1, <1>2, <1>3, <1>4

Picks(w, o, f) ==
  /\ \A i \in 1 .. Len(w) : f[i] \in 1 .. Len(o) /\ w[i] = o[f[i]]
  /\ \A i, j \in 1 .. Len(w) : i < j => f[i] < f[j]

LEMMA PartNested ==
  ASSUME NEW o, NEW up, NEW D, Nested(o, up, D), NEW w, NEW f, Picks(w, o, f)
  PROVE  Nested(w, up, D)
<1>1. \A i \in 1 .. Len(w) : up[w[i]] # -1
  BY DEF Nested, Picks
<1>2. ASSUME NEW i \in 1 .. Len(w), NEW j \in 1 .. Len(w), i < j PROVE w[j] \in D[w[i]] /\ w[j] # w[i]
  <2>1. /\ f[i] \in 1 .. Len(o) /\ f[j] \in 1 .. Len(o) /\ f[i] < f[j]
        /\ w[i] = o[f[i]] /\ w[j] = o[f[j]]
    BY <1>2 DEF Picks
  <2> QED
    BY <2>1 DEF Nested
<1> QED
  BY <1>1, <1>2 DEF Nested

LEMMA PopToIs ==
  ASSUME NEW s, Sized(s), NEW d \in Int, d <= Depth(s)
  PROVE  /\ Sized(PopTo(s, d)) /\ PopTo(s, d).kids = s.kids /\ PopTo(s, d).name = s.name
         /\ PopTo(s, d).afe = s.afe /\ PopTo(s, d).open = SubSeq(s.open, 1, d)
<1>1. /\ s.name \in Seq(Names) /\ s.open \in Seq(1 .. Len(s.name)) /\ s.afe \in Seq(0 .. Len(s.name))
      /\ s.ids \in Seq(Ids) /\ Len(s.ids) = Len(s.open) /\ Depth(s) = Len(s.open)
      /\ Len(s.open) <= DepthCap /\ Len(s.afe) <= AfeCap /\ DepthCap \in Nat
  BY Fields
<1>2. PICK o, i : o = SubSeq(s.open, 1, d) /\ i = SubSeq(s.ids, 1, d)
  OBVIOUS
<1>3. PICK t : t = PopTo(s, d)
  OBVIOUS
<1>4. t = [open |-> o, ids |-> i, afe |-> s.afe, kids |-> s.kids, name |-> s.name, body_seen |-> s.body_seen]
  BY <1>2, <1>3 DEF PopTo, Sized
<1>5. o \in Seq(1 .. Len(s.name)) /\ Len(o) = IF 1 <= d THEN d ELSE 0
  BY <1>1, <1>2, FirstPart
<1>6. i \in Seq(Ids) /\ Len(i) = IF 1 <= d THEN d ELSE 0
  BY <1>1, <1>2, FirstPart
<1>7. Len(o) <= DepthCap
  BY <1>1, <1>5
<1>8. Sized(t)
  BY <1>1, <1>4, <1>5, <1>6, <1>7 DEF Sized
<1> QED
  BY <1>2, <1>3, <1>4, <1>8

LEMMA PopToSound ==
  ASSUME NEW s, Sound(s), NEW d \in Int, d <= Depth(s)
  PROVE  Sound(PopTo(s, d))
<1>1. PICK up, D : Forest(s.kids, Len(s.name), up, D) /\ Nested(s.open, up, D)
  BY DEF Sound, Upright
<1>2. PICK t : t = PopTo(s, d)
  OBVIOUS
<1>3. Sized(t) /\ t.kids = s.kids /\ t.name = s.name /\ t.open = SubSeq(s.open, 1, d)
  BY <1>2, PopToIs DEF Sound
<1>4. s.open \in Seq(1 .. Len(s.name)) /\ Depth(s) = Len(s.open)
  BY Fields DEF Sound
<1>5. Len(t.open) = (IF 1 <= d THEN d ELSE 0) /\ \A j \in 1 .. d : t.open[j] = s.open[j]
  BY <1>3, <1>4, FirstPart
<1>6. \A j \in 1 .. Len(t.open) : j \in 1 .. Len(s.open) /\ t.open[j] = s.open[j]
  BY <1>4, <1>5, SMTT(30)
<1>7. Nested(t.open, up, D)
  BY <1>1, <1>6 DEF Nested
<1> QED
  BY <1>1, <1>2, <1>3, <1>7 DEF Sound, Upright

LEMMA FoundAt ==
  ASSUME NEW s, Sized(s), NEW e
  PROVE  /\ h_stack_find(s, e) \in 0 .. Len(s.open)
         /\ h_stack_find(s, e) # 0 => s.open[h_stack_find(s, e)] = e
         /\ \A i \in 1 .. Len(s.open) : s.open[i] = e => h_stack_find(s, e) # 0
<1>1. Len(s.open) \in Nat /\ Depth(s) = Len(s.open)
  BY Fields
<1>2. CASE \E i \in 1 .. Depth(s) : s.open[i] = e
  <2>1. h_stack_find(s, e) = CHOOSE i \in 1 .. Depth(s) : s.open[i] = e
    BY <1>2 DEF h_stack_find
  <2>2. h_stack_find(s, e) \in 1 .. Depth(s) /\ s.open[h_stack_find(s, e)] = e
    BY <1>2, <2>1
  <2> QED
    BY <1>1, <2>2
<1>3. CASE ~ \E i \in 1 .. Depth(s) : s.open[i] = e
  <2>1. h_stack_find(s, e) = 0
    BY <1>3 DEF h_stack_find
  <2> QED
    BY <1>1, <1>3, <2>1
<1> QED
  BY <1>2, <1>3

LEMMA DropOpenIs ==
  ASSUME NEW s, Sized(s), NEW e
  PROVE  /\ Sized(DropOpen(s, e)) /\ DropOpen(s, e).kids = s.kids /\ DropOpen(s, e).name = s.name
         /\ DropOpen(s, e).afe = s.afe
         /\ DropOpen(s, e).open = IF h_stack_find(s, e) = 0 THEN s.open ELSE RemoveAt(s.open, h_stack_find(s, e))
<1>1. /\ s.name \in Seq(Names) /\ s.open \in Seq(1 .. Len(s.name)) /\ s.afe \in Seq(0 .. Len(s.name))
      /\ s.ids \in Seq(Ids) /\ Len(s.ids) = Len(s.open) /\ Depth(s) = Len(s.open)
      /\ Len(s.open) <= DepthCap /\ Len(s.afe) <= AfeCap /\ DepthCap \in Nat
  BY Fields
<1>2. PICK i : i = h_stack_find(s, e)
  OBVIOUS
<1>3. i \in 0 .. Len(s.open)
  BY <1>2, FoundAt
<1>4. PICK t : t = DropOpen(s, e)
  OBVIOUS
<1>5. CASE i = 0
  BY <1>2, <1>4, <1>5 DEF DropOpen
<1>6. CASE i # 0
  <2>1. PICK o, j : o = RemoveAt(s.open, i) /\ j = Front(s.ids)
    OBVIOUS
  <2>2. t = [open |-> o, ids |-> j, afe |-> s.afe, kids |-> s.kids, name |-> s.name, body_seen |-> s.body_seen]
    <3>1. t = [s EXCEPT !.open = o, !.ids = j]
      BY <1>2, <1>4, <1>6, <2>1 DEF DropOpen
    <3> QED
      BY <3>1 DEF Sized
  <2>3. o \in Seq(1 .. Len(s.name)) /\ Len(o) = Len(s.open) - 1
    <3>1. i \in 1 .. Len(s.open)
      BY <1>1, <1>3, <1>6
    <3>2. o \in Seq(1 .. Len(s.name)) /\ Less(s.open, i, o)
      BY <1>1, <2>1, <3>1, RemoveAtIs
    <3> QED
      BY <3>2 DEF Less
  <2>4. j \in Seq(Ids) /\ Len(j) = Len(s.open) - 1
    <3>1. Len(s.ids) - 1 \in Int /\ Len(s.ids) - 1 <= Len(s.ids) /\ Len(s.open) - 1 \in Nat
      BY <1>1, <1>3, <1>6
    <3>2. j \in Seq(Ids) /\ Len(j) = IF 1 <= Len(s.ids) - 1 THEN Len(s.ids) - 1 ELSE 0
      BY <1>1, <2>1, <3>1, FirstPart DEF Front
    <3> QED
      BY <1>1, <3>1, <3>2
  <2>5. Len(o) <= DepthCap
    BY <1>1, <2>3
  <2>6. Sized(t)
    BY <1>1, <2>2, <2>3, <2>4, <2>5 DEF Sized
  <2> QED
    BY <1>2, <1>4, <1>6, <2>1, <2>2, <2>6
<1> QED
  BY <1>5, <1>6

LEMMA DropOpenSound ==
  ASSUME NEW s, Sound(s), NEW e
  PROVE  Sound(DropOpen(s, e))
<1>1. PICK up, D : Forest(s.kids, Len(s.name), up, D) /\ Nested(s.open, up, D)
  BY DEF Sound, Upright
<1>2. PICK t, i : t = DropOpen(s, e) /\ i = h_stack_find(s, e)
  OBVIOUS
<1>3. /\ Sized(t) /\ t.kids = s.kids /\ t.name = s.name
      /\ t.open = IF i = 0 THEN s.open ELSE RemoveAt(s.open, i)
  BY <1>2, DropOpenIs DEF Sound
<1>4. s.open \in Seq(1 .. Len(s.name)) /\ Len(s.open) \in Nat
  BY Fields DEF Sound
<1>5. i \in 0 .. Len(s.open)
  BY <1>2, FoundAt DEF Sound
<1>6. Nested(t.open, up, D)
  <2>1. CASE i = 0
    BY <1>1, <1>3, <2>1
  <2>2. CASE i # 0
    <3>1. Less(s.open, i, t.open)
      BY <1>3, <1>4, <1>5, <2>2, RemoveAtIs
    <3>a. PICK f : f = [j \in 1 .. Len(t.open) |-> IF j < i THEN j ELSE j + 1]
      OBVIOUS
    <3>2. Len(t.open) = Len(s.open) - 1
      BY <3>1 DEF Less
    <3>3. \A j \in 1 .. Len(t.open) : f[j] \in 1 .. Len(s.open)
      BY <1>4, <1>5, <3>a, <3>2
    <3>4. \A j \in 1 .. Len(t.open) : t.open[j] = s.open[f[j]]
      BY <3>a, <3>1 DEF Less
    <3>5. \A j, k \in 1 .. Len(t.open) : j < k => f[j] < f[k]
      BY <1>5, <3>a, <3>2
    <3>6. \A j \in 1 .. Len(t.open) : f[j] \in 1 .. Len(s.open) /\ t.open[j] = s.open[f[j]]
      BY <3>3, <3>4
    <3>7. Picks(t.open, s.open, f)
      BY <3>5, <3>6 DEF Picks
    <3> QED
      BY <1>1, <3>7, PartNested
  <2> QED
    BY <2>1, <2>2
<1> QED
  BY <1>1, <1>2, <1>3, <1>6 DEF Sound, Upright

(* Changes to the formatting list alone.                                     *)
ListOnly(s, t) == Sized(t) /\ t.kids = s.kids /\ t.name = s.name /\ t.open = s.open

LEMMA ListOnlySound ==
  ASSUME NEW s, Sound(s), NEW t, ListOnly(s, t)
  PROVE  Sound(t)
BY DEF ListOnly, Sound, Upright

LEMMA NewList ==
  ASSUME NEW s, Sized(s), NEW l \in Seq(0 .. Len(s.name)), Len(l) <= AfeCap
  PROVE  ListOnly(s, [s EXCEPT !.afe = l])
<1>1. PICK t : t = [s EXCEPT !.afe = l]
  OBVIOUS
<1>2. t = [open |-> s.open, ids |-> s.ids, afe |-> l, kids |-> s.kids, name |-> s.name, body_seen |-> s.body_seen]
  BY <1>1 DEF Sized
<1>3. Sized(t)
  BY <1>2 DEF Sized
<1> QED
  BY <1>1, <1>2, <1>3 DEF ListOnly

LEMMA RemoveIdxIs ==
  ASSUME NEW s, Sized(s), NEW i
  PROVE  ListOnly(s, h_afe_remove_idx(s, i))
<1>1. /\ s.afe \in Seq(0 .. Len(s.name)) /\ DOMAIN s.afe = 1 .. Len(s.afe)
      /\ Len(s.afe) <= AfeCap /\ Len(s.afe) \in Nat /\ AfeCap \in Nat
  BY Fields
<1>2. CASE i \in DOMAIN s.afe
  <2>1. PICK l : l = RemoveAt(s.afe, i)
    OBVIOUS
  <2>2. h_afe_remove_idx(s, i) = [s EXCEPT !.afe = l]
    BY <1>2, <2>1 DEF h_afe_remove_idx
  <2>3. l \in Seq(0 .. Len(s.name)) /\ Less(s.afe, i, l)
    BY <1>1, <1>2, <2>1, RemoveAtIs
  <2>4. Len(l) <= AfeCap
    BY <1>1, <2>3 DEF Less
  <2> QED
    BY <2>2, <2>3, <2>4, NewList
<1>3. CASE i \notin DOMAIN s.afe
  BY <1>3 DEF h_afe_remove_idx, ListOnly
<1> QED
  BY <1>2, <1>3

LEMMA AfePutIs ==
  ASSUME NEW s, Sized(s), NEW i \in 1 .. Len(s.afe) + 1, NEW e \in 0 .. Len(s.name)
  PROVE  ListOnly(s, AfePut(s, i, e))
<1>1. /\ s.afe \in Seq(0 .. Len(s.name)) /\ Len(s.afe) <= AfeCap /\ Len(s.afe) \in Nat /\ AfeCap \in Nat
  BY Fields
<1>2. CASE Len(s.afe) < AfeCap
  <2>1. PICK l : l = InsertAt(s.afe, i, e)
    OBVIOUS
  <2>2. AfePut(s, i, e) = [s EXCEPT !.afe = l]
    BY <1>2, <2>1 DEF AfePut
  <2>3. l \in Seq(0 .. Len(s.name)) /\ More(s.afe, i, e, l)
    BY <1>1, <2>1, InsertAtIs
  <2>4. Len(l) <= AfeCap
    BY <1>1, <1>2, <2>3 DEF More
  <2> QED
    BY <2>2, <2>3, <2>4, NewList
<1>3. CASE ~(Len(s.afe) < AfeCap)
  BY <1>3 DEF AfePut, ListOnly
<1> QED
  BY <1>2, <1>3

LEMMA AfeLast ==
  ASSUME NEW s, Sized(s), NEW e \in 0 .. Len(s.name)
  PROVE  ListOnly(s, AfePut(s, Len(s.afe) + 1, e))
<1>1. Len(s.afe) + 1 \in 1 .. Len(s.afe) + 1
  BY Fields
<1> QED
  BY <1>1, AfePutIs

LEMMA ListOnlyTwice ==
  ASSUME NEW s, NEW t, NEW u, ListOnly(s, t), ListOnly(t, u)
  PROVE  ListOnly(s, u)
BY DEF ListOnly

LEMMA AfePushIs ==
  ASSUME NEW s, Sized(s), NEW e \in 0 .. Len(s.name)
  PROVE  ListOnly(s, h_afe_push(s, e))
<1>1. PICK t : /\ h_afe_push(s, e) = AfePut(t, Len(t.afe) + 1, e)
               /\ t = s \/ \E i : t = h_afe_remove_idx(s, i)
  BY DEF h_afe_push
<1>2. ListOnly(s, t)
  <2>1. ListOnly(s, s)
    BY DEF ListOnly
  <2> QED
    BY <1>1, <2>1, RemoveIdxIs
<1>3. Sized(t) /\ e \in 0 .. Len(t.name)
  BY <1>2 DEF ListOnly
<1>4. ListOnly(t, AfePut(t, Len(t.afe) + 1, e))
  BY <1>3, AfeLast
<1> QED
  BY <1>1, <1>2, <1>4, ListOnlyTwice

LEMMA MarkerPushIs ==
  ASSUME NEW s, Sized(s)
  PROVE  ListOnly(s, h_afe_marker_push(s))
<1>1. Marker \in 0 .. Len(s.name)
  BY Fields DEF Marker
<1> QED
  BY <1>1, AfeLast DEF h_afe_marker_push

LEMMA ClearIs ==
  ASSUME NEW s, Sized(s)
  PROVE  ListOnly(s, h_afe_clear_to_marker(s))
<1>1. /\ s.afe \in Seq(0 .. Len(s.name)) /\ Len(s.afe) <= AfeCap /\ Len(s.afe) \in Nat /\ AfeCap \in Nat
      /\ DOMAIN s.afe = 1 .. Len(s.afe)
  BY Fields
<1>2. PICK S : S = {1} \cup {i \in DOMAIN s.afe : s.afe[i] = Marker}
  OBVIOUS
<1>3. PICK m : m = Max(S)
  OBVIOUS
<1>4. S \in SUBSET (0 .. Len(s.afe) + 1) /\ S # {} /\ Len(s.afe) + 1 \in Nat
  BY <1>1, <1>2
<1>5. m \in S
  BY <1>3, <1>4, GreatestOf
<1>6. m - 1 \in Int /\ m - 1 <= Len(s.afe)
  BY <1>1, <1>2, <1>5
<1>7. PICK l : l = SubSeq(s.afe, 1, m - 1)
  OBVIOUS
<1>8. l \in Seq(0 .. Len(s.name)) /\ Len(l) = IF 1 <= m - 1 THEN m - 1 ELSE 0
  BY <1>1, <1>6, <1>7, FirstPart
<1>9. Len(l) <= AfeCap
  BY <1>1, <1>6, <1>8
<1>10. h_afe_clear_to_marker(s) = [s EXCEPT !.afe = l]
  BY <1>2, <1>3, <1>7 DEF h_afe_clear_to_marker
<1> QED
  BY <1>8, <1>9, <1>10, NewList

(* What is looked up in the list is there, and is an element.                *)
LEMMA AfeFindIs ==
  ASSUME NEW s, Sized(s), NEW n
  PROVE  /\ h_afe_find(s, n) \in 0 .. Len(s.afe)
         /\ h_afe_find(s, n) # 0 => s.afe[h_afe_find(s, n)] \in 1 .. Len(s.name)
<1>1. /\ Len(s.afe) \in Nat /\ DOMAIN s.afe = 1 .. Len(s.afe) /\ Len(s.name) \in Nat
      /\ \A i \in 1 .. Len(s.afe) : s.afe[i] \in 0 .. Len(s.name)
  BY Fields
<1>2. ASSUME NEW i \in Named(s, n) PROVE i \in 1 .. Len(s.afe) /\ s.afe[i] \in 1 .. Len(s.name)
  <2>1. i \in DOMAIN s.afe /\ \A k \in i .. Len(s.afe) : s.afe[k] # Marker
    BY <1>2 DEF Named, AfterMarker
  <2>2. i \in 1 .. Len(s.afe) /\ i \in i .. Len(s.afe)
    BY <1>1, <2>1
  <2>3. s.afe[i] # 0
    BY <2>1, <2>2 DEF Marker
  <2> QED
    BY <1>1, <2>2, <2>3
<1>3. PICK S : S = {0} \cup Named(s, n)
  OBVIOUS
<1>4. S \in SUBSET (0 .. Len(s.afe)) /\ S # {}
  BY <1>1, <1>2, <1>3
<1>5. PICK m : m = Max(S)
  OBVIOUS
<1>6. m \in S
  BY <1>1, <1>4, <1>5, GreatestOf
<1>7. h_afe_find(s, n) = m
  BY <1>3, <1>5 DEF h_afe_find
<1> QED
  BY <1>1, <1>2, <1>3, <1>4, <1>6, <1>7

LEMMA IndexOfIs ==
  ASSUME NEW s, Sized(s), NEW e
  PROVE  /\ h_afe_index_of(s, e) \in 0 .. Len(s.afe)
         /\ h_afe_index_of(s, e) # 0 => s.afe[h_afe_index_of(s, e)] = e
<1>1. Len(s.afe) \in Nat /\ DOMAIN s.afe = 1 .. Len(s.afe)
  BY Fields
<1>2. PICK S : S = {0} \cup {i \in DOMAIN s.afe : s.afe[i] = e}
  OBVIOUS
<1>3. S \in SUBSET (0 .. Len(s.afe)) /\ S # {}
  BY <1>1, <1>2
<1>4. PICK m : m = Max(S)
  OBVIOUS
<1>5. m \in S
  BY <1>1, <1>3, <1>4, GreatestOf
<1>6. h_afe_index_of(s, e) = m
  BY <1>2, <1>4 DEF h_afe_index_of
<1> QED
  BY <1>2, <1>3, <1>5, <1>6

-----------------------------------------------------------------------------
(* New nodes.                                                                *)
CreatedOf(s, n, t) ==
  /\ Sized(t) /\ t.open = s.open /\ t.afe = s.afe /\ t.name = Append(s.name, n) /\ Len(t.name) = Len(s.name) + 1
  /\ t.kids = WithLeaf(s.kids, Len(s.name))

LEMMA CreatedIs ==
  ASSUME NEW s, Sized(s), NEW n \in Names
  PROVE  CreatedOf(s, n, Created(s, n))
<1>1. /\ s.name \in Seq(Names) /\ s.open \in Seq(1 .. Len(s.name)) /\ s.afe \in Seq(0 .. Len(s.name))
      /\ s.ids \in Seq(Ids) /\ Len(s.ids) = Len(s.open) /\ Len(s.name) \in Nat
      /\ Len(s.open) <= DepthCap /\ Len(s.afe) <= AfeCap
  BY Fields
<1>2. PICK t, w, k : /\ t = Created(s, n) /\ w = Append(s.name, n)
                     /\ k = [x \in 0 .. New(s) |-> IF x = New(s) THEN <<>> ELSE s.kids[x]]
  OBVIOUS
<1>3. t = [open |-> s.open, ids |-> s.ids, afe |-> s.afe, kids |-> k, name |-> w, body_seen |-> s.body_seen]
  <2>1. t = [s EXCEPT !.name = w, !.kids = k]
    BY <1>2 DEF Created, Sized
  <2> QED
    BY <2>1 DEF Sized
<1>4. w \in Seq(Names) /\ Len(w) = Len(s.name) + 1
  BY <1>1, <1>2
<1>5. s.open \in Seq(1 .. Len(w)) /\ s.afe \in Seq(0 .. Len(w))
  <2>1. 1 .. Len(s.name) \subseteq 1 .. Len(w) /\ 0 .. Len(s.name) \subseteq 0 .. Len(w)
    BY <1>1, <1>4
  <2>2. Seq(1 .. Len(s.name)) \subseteq Seq(1 .. Len(w))
    BY <2>1, WiderSeq
  <2>3. Seq(0 .. Len(s.name)) \subseteq Seq(0 .. Len(w))
    BY <2>1, WiderSeq
  <2> QED
    BY <1>1, <2>2, <2>3
<1>6. Sized(t)
  BY <1>1, <1>3, <1>4, <1>5 DEF Sized
<1>7. k = WithLeaf(s.kids, Len(s.name))
  BY <1>2 DEF New, WithLeaf
<1>8. t.kids = k /\ t.name = w /\ t.open = s.open /\ t.afe = s.afe
  BY <1>3
<1>9. CreatedOf(s, n, t)
  BY <1>2, <1>4, <1>6, <1>7, <1>8 DEF CreatedOf
<1> QED
  BY <1>2, <1>9

LEMMA CreatedForest ==
  ASSUME NEW s, Sized(s), NEW n, NEW t, CreatedOf(s, n, t),
         NEW up, NEW D, Forest(s.kids, Len(s.name), up, D)
  PROVE  Leafed(t.kids, Len(s.name), Len(t.name), up, D) /\ t.kids[Len(t.name)] = <<>>
<1>1. Leafed(WithLeaf(s.kids, Len(s.name)), Len(s.name), Len(s.name) + 1, up, D)
  <2>1. Len(s.name) \in Nat
    BY Fields
  <2> QED
    BY <2>1, LeafAdded
<1>2. WithLeaf(s.kids, Len(s.name))[Len(s.name) + 1] = <<>>
  BY Fields DEF WithLeaf
<1> QED
  BY <1>1, <1>2 DEF CreatedOf

LEMMA AppendNode ==
  ASSUME NEW n, NEW w \in Seq(1 .. n), NEW x \in 1 .. n
  PROVE  Append(w, x) \in Seq(1 .. n) /\ ToSet(Append(w, x)) = ToSet(w) \cup {x}
<1>1. PICK S : S = 1 .. n
  OBVIOUS
<1>2. w \in Seq(S) /\ x \in S
  BY <1>1
<1>3. Append(w, x) \in Seq(S) /\ ToSet(Append(w, x)) = ToSet(w) \cup {x}
  <2> HIDE <1>1
  <2> QED
    BY <1>2, AppendSet
<1> QED
  BY <1>1, <1>3

(* A node that has no parent yet, put at the end of the children of p.       *)
LEMMA AppendHung ==
  ASSUME NEW kids, NEW n, NEW up, NEW D, Forest(kids, n, up, D),
         NEW x \in 1 .. n, up[x] = -1, NEW p \in 0 .. n
  PROVE  Hung([kids EXCEPT ![p] = Append(@, x)], kids, n, x, p)
<1>1. /\ n \in Nat /\ kids \in [0 .. n -> Seq(1 .. n)]
      /\ \A q \in 0 .. n, y \in 1 .. n : y \in ToSet(kids[q]) <=> up[y] = q
  BY DEF Forest
<1>2. PICK k, w : k = [kids EXCEPT ![p] = Append(@, x)] /\ w = Append(kids[p], x)
  OBVIOUS
<1>3. kids[p] \in Seq(1 .. n)
  BY <1>1
<1>4. w \in Seq(1 .. n) /\ ToSet(w) = ToSet(kids[p]) \cup {x}
  BY <1>2, <1>3, AppendNode
<1>5. k = [q \in 0 .. n |-> IF q = p THEN w ELSE kids[q]]
  BY <1>1, <1>2
<1>6. k \in [0 .. n -> Seq(1 .. n)]
  BY <1>1, <1>4, <1>5
<1>7. \A q \in 0 .. n : x \notin ToSet(kids[q])
  BY <1>1
<1>8. ASSUME NEW q \in 0 .. n, NEW y \in 1 .. n
      PROVE  y \in ToSet(k[q]) <=> IF y = x THEN q = p ELSE y \in ToSet(kids[q])
  <2>1. CASE q = p
    BY <1>4, <1>5, <2>1
  <2>2. CASE q # p
    BY <1>5, <1>7, <2>2
  <2> QED
    BY <2>1, <2>2
<1>9. Hung(k, kids, n, x, p)
  BY <1>6, <1>8 DEF Hung
<1> QED
  BY <1>2, <1>9

(* Where h_append puts a node: at the top of the stack.                      *)
LEMMA TopIs ==
  ASSUME NEW S, NEW o \in Seq(S)
  PROVE  \/ Last0(o) = 0 /\ o = <<>> /\ Len(o) = 0
         \/ Last0(o) = o[Len(o)] /\ Len(o) \in 1 .. Len(o)
<1>1. CASE o = <<>>
  BY <1>1 DEF Last0
<1>2. CASE o # <<>>
  <2>1. Len(o) \in 1 .. Len(o)
    BY <1>2
  <2> QED
    BY <1>2, <2>1 DEF Last0, Last
<1> QED
  BY <1>1, <1>2

Appended(s, n) == h_append(Created(s, n), New(s))
AppendedOf(s, t) ==
  /\ Sized(t) /\ t.open = s.open /\ t.afe = s.afe /\ Len(t.name) = Len(s.name) + 1
  /\ \E up, D : /\ Forest(t.kids, Len(t.name), up, D) /\ Nested(t.open, up, D)
                /\ up[Len(t.name)] # -1 /\ \A i \in 1 .. Len(s.open) : Len(t.name) \in D[s.open[i]]

LEMMA AppendedIs ==
  ASSUME NEW s, Sound(s), NEW n \in Names
  PROVE  AppendedOf(s, Appended(s, n))
<1>1. /\ s.open \in Seq(1 .. Len(s.name)) /\ Len(s.name) \in Nat /\ Len(s.open) \in Nat
      /\ \A i \in 1 .. Len(s.open) : s.open[i] \in 1 .. Len(s.name)
  BY Fields DEF Sound
<1>2. PICK c : c = Created(s, n) /\ CreatedOf(s, n, c)
  BY CreatedIs DEF Sound
<1>3. PICK up, D : Forest(s.kids, Len(s.name), up, D) /\ Nested(s.open, up, D)
  BY DEF Sound, Upright
<1>4. PICK m \in Nat : m = Len(s.name) /\ m + 1 = Len(c.name) /\ m + 1 = New(s)
  BY <1>1, <1>2 DEF CreatedOf, New
<1>5. PICK u, E : /\ Forest(c.kids, m + 1, u, E) /\ u[m + 1] = -1 /\ E[m + 1] = {m + 1}
                  /\ \A x \in 1 .. m : u[x] = up[x] /\ E[x] = D[x]
  <2>1. CreatedOf(s, n, c) /\ Sized(s) /\ Forest(s.kids, Len(s.name), up, D)
    BY <1>2, <1>3 DEF Sound
  <2>2. Leafed(c.kids, Len(s.name), Len(c.name), up, D)
    BY <2>1, CreatedForest
  <2>3. Leafed(c.kids, m, m + 1, up, D)
    BY <1>4, <2>2
  <2> QED
    BY <2>3 DEF Leafed
<1>6. PICK p : p = Last0(s.open)
  OBVIOUS
<1>7. \/ p = 0 /\ Len(s.open) = 0
      \/ p = s.open[Len(s.open)] /\ Len(s.open) \in 1 .. Len(s.open)
  BY <1>1, <1>6, TopIs
<1>8. p \in 0 .. m + 1 /\ p \in 0 .. m /\ p # m + 1 /\ p \notin E[m + 1] /\ m + 1 \in 1 .. m + 1
  BY <1>1, <1>4, <1>5, <1>7
<1>9. PICK k : k = [c.kids EXCEPT ![p] = Append(@, m + 1)]
  OBVIOUS
<1>10. Hung(k, c.kids, m + 1, m + 1, p)
  BY <1>5, <1>8, <1>9, AppendHung
<1>11. PICK v, F : /\ Forest(k, m + 1, v, F) /\ Carried(E, F, m + 1, m + 1, p)
                   /\ v[m + 1] = p /\ \A y \in 1 .. m + 1 : y # m + 1 => v[y] = u[y]
  BY <1>5, <1>8, <1>10, HungUnder
<1>12. PICK t : t = Appended(s, n)
  OBVIOUS
<1>13. t = [open |-> c.open, ids |-> c.ids, afe |-> c.afe, kids |-> k, name |-> c.name, body_seen |-> c.body_seen]
  <2>1. t = [c EXCEPT !.kids = k]
    <3>1. t = [c EXCEPT !.kids[Last0(c.open)] = Append(@, m + 1)]
      BY <1>2, <1>4, <1>12 DEF Appended, h_append
    <3>2. Last0(c.open) = p
      BY <1>2, <1>6 DEF CreatedOf
    <3>3. c = [open |-> c.open, ids |-> c.ids, afe |-> c.afe, kids |-> c.kids, name |-> c.name, body_seen |-> c.body_seen]
      BY <1>2 DEF CreatedOf, Sized
    <3> QED
      BY <1>9, <3>1, <3>2, <3>3
  <2> QED
    BY <1>2, <2>1 DEF CreatedOf, Sized
<1>14. Sized(t) /\ t.open = s.open /\ t.afe = s.afe /\ Len(t.name) = m + 1
  <2>1. Sized(c) /\ c.open = s.open /\ c.afe = s.afe
    BY <1>2 DEF CreatedOf
  <2> QED
    BY <1>4, <1>13, <2>1 DEF Sized
<1>15. ASSUME NEW y \in 1 .. m
       PROVE  /\ v[y] = up[y] /\ (\A z \in 1 .. m : z \in F[y] <=> z \in D[y])
              /\ (p \in D[y] => m + 1 \in F[y])
  <2>1. y \in 1 .. m + 1 /\ y # m + 1 /\ E[y] = D[y] /\ u[y] = up[y]
    BY <1>4, <1>5
  <2>2. \A z \in 1 .. m : z \in 1 .. m + 1 /\ z \notin E[m + 1]
    BY <1>4, <1>5
  <2>3. m + 1 \in E[m + 1]
    BY <1>5
  <2> QED
    BY <1>11, <2>1, <2>2, <2>3 DEF Carried
<1>16. Nested(t.open, v, F)
  <2>1. \A i \in 1 .. Len(s.open) : s.open[i] \in 1 .. m
    BY <1>1, <1>4
  <2> QED
    BY <1>3, <1>14, <1>15, <2>1 DEF Nested
<1>17. v[m + 1] # -1
  BY <1>8, <1>11
<1>18. ASSUME NEW i \in 1 .. Len(s.open) PROVE m + 1 \in F[s.open[i]]
  <2>1. s.open[i] \in 1 .. m /\ s.open[Len(s.open)] = p /\ Len(s.open) \in 1 .. Len(s.open)
    BY <1>1, <1>4, <1>7
  <2>2. p \in D[s.open[i]]
    <3>1. CASE i = Len(s.open)
      BY <1>3, <1>4, <2>1, <3>1, Below
    <3>2. CASE i # Len(s.open)
      <4>1. i < Len(s.open)
        BY <1>1, <3>2
      <4> QED
        BY <1>3, <2>1, <4>1 DEF Nested
    <3> QED
      BY <3>1, <3>2
  <2> QED
    BY <1>15, <2>1, <2>2
<1>19. Forest(t.kids, m + 1, v, F)
  BY <1>11, <1>13
<1> QED
  BY <1>4, <1>12, <1>14, <1>16, <1>17, <1>18, <1>19 DEF AppendedOf

(* A token that opens an element: it goes under the top of the stack, and    *)
(* on it if there is room.                                                   *)
OpenedOf(s, t) == Sound(t) /\ t.afe = s.afe /\ Len(t.name) = Len(s.name) + 1

LEMMA OpenedIs ==
  ASSUME NEW s, Sound(s), NEW n \in Names
  PROVE  OpenedOf(s, h_open_element(s, n))
<1>1. PICK t : t = Appended(s, n) /\ AppendedOf(s, t)
  BY AppendedIs
<1>2. PICK up, D : /\ Forest(t.kids, Len(t.name), up, D) /\ Nested(t.open, up, D)
                   /\ up[Len(t.name)] # -1 /\ \A i \in 1 .. Len(s.open) : Len(t.name) \in D[s.open[i]]
  BY <1>1 DEF AppendedOf
<1>3. Sized(t) /\ t.open = s.open /\ t.afe = s.afe /\ Len(t.name) = Len(s.name) + 1
  BY <1>1 DEF AppendedOf
<1>4. CASE ~(Depth(s) < DepthCap)
  <2>1. h_open_element(s, n) = t
    BY <1>1, <1>4 DEF h_open_element, Appended
  <2>2. Sound(t)
    BY <1>2, <1>3 DEF Sound, Upright
  <2> QED
    BY <1>3, <2>1, <2>2 DEF OpenedOf
<1>5. CASE Depth(s) < DepthCap
  <2>1. /\ t.name \in Seq(Names) /\ t.open \in Seq(1 .. Len(t.name)) /\ t.afe \in Seq(0 .. Len(t.name))
        /\ t.ids \in Seq(Ids) /\ Len(t.ids) = Len(t.open) /\ Len(t.afe) <= AfeCap
        /\ Len(t.name) \in Nat /\ Len(t.open) \in Nat /\ DepthCap \in Nat
        /\ \A i \in 1 .. Len(t.open) : t.open[i] \in 1 .. Len(t.name)
    BY <1>3, Fields
  <2>2. PICK m, o, i, u : /\ m = Len(t.name) /\ o = Append(t.open, m) /\ i = Append(t.ids, TagId(n))
                          /\ u = h_open_element(s, n)
    OBVIOUS
  <2>3. m \in 1 .. m /\ m = New(s) /\ Len(s.name) \in Nat /\ m \notin 1 .. Len(s.name)
    <3>1. Len(s.name) \in Nat
      BY Fields DEF Sound
    <3> QED
      BY <1>3, <2>2, <3>1 DEF New
  <2>4. u = [open |-> o, ids |-> i, afe |-> t.afe, kids |-> t.kids, name |-> t.name, body_seen |-> t.body_seen]
    <3>1. u = [t EXCEPT !.open = Append(@, m), !.ids = Append(@, TagId(n))]
      BY <1>1, <1>5, <2>2, <2>3 DEF h_open_element, Appended
    <3> QED
      BY <1>3, <2>2, <3>1 DEF Sized
  <2>5. o \in Seq(1 .. m) /\ Len(o) = Len(t.open) + 1 /\ o[Len(t.open) + 1] = m
        /\ \A j \in 1 .. Len(t.open) : o[j] = t.open[j]
    BY <2>1, <2>2, <2>3
  <2>6. i \in Seq(Ids) /\ Len(i) = Len(t.open) + 1
    <3>1. TagId(n) \in Ids
      BY DEF TagId, Ids
    <3> QED
      BY <2>1, <2>2, <3>1
  <2>7. Len(o) <= DepthCap
    <3>1. Len(t.open) < DepthCap
      BY <1>3, <1>5 DEF Depth
    <3> QED
      BY <2>1, <2>5, <3>1
  <2>8. Sized(u)
    BY <2>1, <2>2, <2>4, <2>5, <2>6, <2>7 DEF Sized
  <2>9. Nested(o, up, D)
    <3>1. ASSUME NEW j \in 1 .. Len(o) PROVE up[o[j]] # -1
      <4>1. CASE j = Len(t.open) + 1
        BY <1>2, <2>2, <2>5, <4>1
      <4>2. CASE j # Len(t.open) + 1
        <5>1. j \in 1 .. Len(t.open)
          BY <2>1, <2>5, <4>2
        <5> QED
          BY <1>2, <2>5, <5>1 DEF Nested
      <4> QED
        BY <4>1, <4>2
    <3>2. ASSUME NEW j \in 1 .. Len(o), NEW k \in 1 .. Len(o), j < k PROVE o[k] \in D[o[j]] /\ o[k] # o[j]
      <4>1. j \in 1 .. Len(t.open) /\ o[j] = t.open[j]
        BY <2>1, <2>5, <3>2
      <4>2. CASE k = Len(t.open) + 1
        <5>1. o[k] = m /\ m \in D[t.open[j]]
          BY <1>2, <1>3, <2>2, <2>5, <4>1, <4>2
        <5>2. t.open[j] # m
          <6>1. t.open[j] \in 1 .. Len(s.name)
            BY <1>3, <4>1, Fields DEF Sound
          <6> QED
            BY <2>3, <6>1
        <5> QED
          BY <4>1, <5>1, <5>2
      <4>3. CASE k # Len(t.open) + 1
        <5>1. k \in 1 .. Len(t.open) /\ o[k] = t.open[k]
          BY <2>1, <2>5, <4>3, SMTT(30)
        <5> QED
          BY <1>2, <3>2, <4>1, <5>1 DEF Nested
      <4> QED
        BY <4>2, <4>3
    <3> QED
      BY <3>1, <3>2 DEF Nested
  <2>10. u.open = o /\ u.kids = t.kids /\ u.name = t.name /\ u.afe = t.afe
    BY <2>4
  <2>11. Sound(u)
    BY <1>2, <2>8, <2>9, <2>10 DEF Sound, Upright
  <2> QED
    BY <1>3, <2>2, <2>10, <2>11 DEF OpenedOf
<1> QED
  BY <1>4, <1>5

(* A node taken from where it is and put under another.                      *)
MovedOf(s, t, x, p) ==
  /\ Sized(t) /\ t.open = s.open /\ t.afe = s.afe /\ t.name = s.name
  /\ Hung(t.kids, s.kids, Len(s.name), x, p)

LEMMA MovedIs ==
  ASSUME NEW s, Sized(s), NEW up, NEW D, Forest(s.kids, Len(s.name), up, D),
         NEW x \in 1 .. Len(s.name), NEW p
  PROVE  MovedOf(s, Moved(s, x, p), x, p)
<1>1. PICK n, kids : n = Len(s.name) /\ kids = s.kids
  OBVIOUS
<1>2. n \in Nat /\ kids \in [0 .. n -> Seq(1 .. n)] /\ x \in 1 .. n
  BY <1>1 DEF Forest
<1>3. PICK k, t : /\ t = Moved(s, x, p)
                  /\ k = [q \in 0 .. n |-> IF q = p THEN Append(Without(kids[q], {x}), x) ELSE Without(kids[q], {x})]
  OBVIOUS
<1>4. t = [open |-> s.open, ids |-> s.ids, afe |-> s.afe, kids |-> k, name |-> s.name, body_seen |-> s.body_seen]
  <2>1. DOMAIN s.kids = 0 .. n
    BY <1>1, <1>2
  <2>2. t = [s EXCEPT !.kids = k]
    BY <1>1, <1>3, <2>1 DEF Moved, Sized
  <2> QED
    BY <2>2 DEF Sized
<1>5. ASSUME NEW q \in 0 .. n
      PROVE  /\ Without(kids[q], {x}) \in Seq(1 .. n)
             /\ ToSet(Without(kids[q], {x})) = ToSet(kids[q]) \ {x}
  <2>1. kids[q] \in Seq(1 .. n)
    BY <1>2
  <2> QED
    BY <2>1, WithoutSeq
<1>6. ASSUME NEW q \in 0 .. n
      PROVE  /\ Append(Without(kids[q], {x}), x) \in Seq(1 .. n)
             /\ ToSet(Append(Without(kids[q], {x}), x)) = (ToSet(kids[q]) \ {x}) \cup {x}
  <2>1. PICK w : w = Without(kids[q], {x})
    OBVIOUS
  <2>2. w \in Seq(1 .. n) /\ ToSet(w) = ToSet(kids[q]) \ {x}
    BY <1>5, <2>1
  <2>3. Append(w, x) \in Seq(1 .. n) /\ ToSet(Append(w, x)) = ToSet(w) \cup {x}
    BY <1>2, <2>2, AppendNode, ZenonT(40)
  <2> QED
    BY <2>1, <2>2, <2>3
<1>7. k \in [0 .. n -> Seq(1 .. n)]
  BY <1>3, <1>5, <1>6
<1>8. ASSUME NEW q \in 0 .. n, NEW y \in 1 .. n
      PROVE  y \in ToSet(k[q]) <=> IF y = x THEN q = p ELSE y \in ToSet(kids[q])
  <2>1. CASE q = p
    <3>1. ToSet(k[q]) = (ToSet(kids[q]) \ {x}) \cup {x}
      BY <1>3, <1>6, <2>1
    <3> QED
      BY <2>1, <3>1
  <2>2. CASE q # p
    <3>1. ToSet(k[q]) = ToSet(kids[q]) \ {x}
      BY <1>3, <1>5, <2>2
    <3> QED
      BY <2>2, <3>1
  <2> QED
    BY <2>1, <2>2
<1>9. Hung(k, kids, n, x, p)
  BY <1>7, <1>8 DEF Hung
<1>10. Sized(t) /\ t.open = s.open /\ t.afe = s.afe /\ t.name = s.name /\ t.kids = k
  BY <1>4 DEF Sized
<1> QED
  BY <1>1, <1>3, <1>9, <1>10 DEF MovedOf

-----------------------------------------------------------------------------
(* Reconstruction of the formatting elements.                                *)
LEMMA ReopenIs ==
  ASSUME NEW s, Sound(s), NEW i \in 1 .. Len(s.afe), s.afe[i] # Marker
  PROVE  /\ Sound(Reopen(s, i)) /\ Len(Reopen(s, i).afe) = Len(s.afe)
         /\ \A k \in 1 .. Len(s.afe) : s.afe[k] # Marker => Reopen(s, i).afe[k] # Marker
<1>1. /\ s.name \in Seq(Names) /\ s.afe \in Seq(0 .. Len(s.name)) /\ Len(s.name) \in Nat
      /\ Len(s.afe) \in Nat /\ DOMAIN s.afe = 1 .. Len(s.afe)
      /\ s.afe[i] \in 0 .. Len(s.name) /\ Len(s.afe) <= AfeCap
  BY Fields DEF Sound
<1>2. PICK n : n = s.name[s.afe[i]] /\ n \in Names
  <2>1. s.afe[i] \in 1 .. Len(s.name)
    BY <1>1 DEF Marker
  <2> QED
    BY <1>1, <2>1
<1>3. PICK t, l, u : /\ t = h_open_element(s, n) /\ l = [t.afe EXCEPT ![i] = New(s)] /\ u = Reopen(s, i)
  OBVIOUS
<1>4. Sound(t) /\ t.afe = s.afe /\ Len(t.name) = Len(s.name) + 1
  BY <1>2, <1>3, OpenedIs DEF OpenedOf
<1>5. New(s) \in 0 .. Len(t.name) /\ New(s) # Marker
  BY <1>1, <1>4 DEF New, Marker
<1>6. t.afe \in Seq(0 .. Len(t.name)) /\ Sized(t)
  BY <1>4, Fields DEF Sound
<1>7. l \in Seq(0 .. Len(t.name)) /\ Len(l) = Len(s.afe) /\ \A k \in 1 .. Len(s.afe) : l[k] = IF k = i THEN New(s) ELSE s.afe[k]
  <2>1. l = [t.afe EXCEPT ![i] = New(s)]
    BY <1>3
  <2> QED
    BY <1>1, <1>4, <1>5, <1>6, <2>1
<1>8. u = [t EXCEPT !.afe = l]
  BY <1>2, <1>3, <1>6 DEF Reopen, Sized
<1>9. ListOnly(t, u)
  BY <1>1, <1>6, <1>7, <1>8, NewList
<1>10. Sound(u)
  BY <1>4, <1>9, ListOnlySound
<1>11. u.afe = l
  BY <1>6, <1>8 DEF Sized
<1> QED
  BY <1>3, <1>5, <1>7, <1>10, <1>11

RebuiltLevels(f, s, F, n) == f = [i \in 0 .. n |->
  IF i = 0 THEN s ELSE IF i \in F THEN Reopen(f[i - 1], i) ELSE f[i - 1]]

LEMMA RebuiltNext ==
  ASSUME NEW s, NEW F, NEW n \in Nat, NEW f, RebuiltLevels(f, s, F, n)
  PROVE  \E g : RebuiltLevels(g, s, F, n + 1)
<1> DEFINE step(i) == IF i = 0 THEN s ELSE IF i \in F THEN Reopen(f[i - 1], i) ELSE f[i - 1]
           g == [i \in 0 .. n + 1 |-> step(i)]
<1>1. f = [i \in 0 .. n |-> step(i)]
  BY DEF RebuiltLevels
<1>2. \A i \in 0 .. n : g[i] = f[i]
  <2> HIDE DEF step
  <2> QED
    BY <1>1
<1>3. \A i \in 0 .. n + 1 : i # 0 => i - 1 \in 0 .. n
  OBVIOUS
<1>4. \A i \in 0 .. n + 1 : step(i) = IF i = 0 THEN s ELSE IF i \in F THEN Reopen(g[i - 1], i) ELSE g[i - 1]
  <2> HIDE DEF g
  <2> QED
    BY <1>2, <1>3
<1>5. g = [i \in 0 .. n + 1 |-> IF i = 0 THEN s ELSE IF i \in F THEN Reopen(g[i - 1], i) ELSE g[i - 1]]
  BY <1>4
<1> HIDE DEF g
<1> QED
  BY <1>5 DEF RebuiltLevels

Closed(s) == {i \in DOMAIN s.afe : \A k \in i .. Len(s.afe) : Dangling(s, k)}
Rebuilt(s, after) ==
  /\ h_reconstruct(s) = after[Len(s.afe)] /\ after[0] = s
  /\ \A i \in 1 .. Len(s.afe) : after[i] = IF i \in Closed(s) THEN Reopen(after[i - 1], i) ELSE after[i - 1]

LEMMA RebuiltSteps ==
  ASSUME NEW s, Len(s.afe) \in Nat
  PROVE  \E after : Rebuilt(s, after)
<1>0. PICK N, F : N = Len(s.afe) /\ N \in Nat /\ F = Closed(s)
  OBVIOUS
<1> DEFINE T == {n \in Nat : \E f : RebuiltLevels(f, s, F, n)}
<1>1. 0 \in T
  <2>1. PICK f : f = [i \in 0 .. 0 |-> s]
    OBVIOUS
  <2>2. f = [i \in 0 .. 0 |-> IF i = 0 THEN s ELSE IF i \in F THEN Reopen(f[i - 1], i) ELSE f[i - 1]]
    <3>1. \A i \in 0 .. 0 : i = 0
      OBVIOUS
    <3> QED
      BY <2>1, <3>1, Zenon
  <2> QED
    BY <2>2 DEF RebuiltLevels
<1>2. \A n \in 0 .. N - 1 : n \in T => n + 1 \in T
  BY <1>0, RebuiltNext
<1>3. N \in T
  <2> HIDE DEF T
  <2> QED
    BY <1>0, <1>1, <1>2, UpTo, N \in 0 .. N
<1> DEFINE after == CHOOSE f : RebuiltLevels(f, s, F, N)
<1>4. RebuiltLevels(after, s, F, N)
  BY <1>3
<1>5. h_reconstruct(s) = after[N]
  BY <1>0 DEF h_reconstruct, RebuiltLevels, Closed
<1> HIDE DEF after
<1>6. PICK f : f = after /\ RebuiltLevels(f, s, F, N)
  BY <1>4
<1>7. \A i \in 0 .. N : f[i] = IF i = 0 THEN s ELSE IF i \in F THEN Reopen(f[i - 1], i) ELSE f[i - 1]
  BY <1>6 DEF RebuiltLevels
<1>8. (\A i \in 1 .. N : i \in 0 .. N /\ i # 0) /\ 0 \in 0 .. N
  BY <1>0
<1>9. f[0] = s /\ \A i \in 1 .. N : f[i] = IF i \in F THEN Reopen(f[i - 1], i) ELSE f[i - 1]
  BY <1>7, <1>8
<1>10. Rebuilt(s, f)
  BY <1>0, <1>5, <1>6, <1>9 DEF Rebuilt
<1> QED
  BY <1>10

LEMMA ReconstructSound ==
  ASSUME NEW s, Sound(s)
  PROVE  Sound(h_reconstruct(s))
<1>1. Len(s.afe) \in Nat /\ DOMAIN s.afe = 1 .. Len(s.afe)
  BY Fields DEF Sound
<1>2. PICK after : Rebuilt(s, after)
  BY <1>1, RebuiltSteps
<1>3. PICK N : N = Len(s.afe) /\ N \in Nat
  BY <1>1
<1> DEFINE Good(t) == /\ Sound(t) /\ Len(t.afe) = N
                      /\ \A k \in Closed(s) : k \in 1 .. N /\ t.afe[k] # Marker
           T == {i \in 0 .. N : Good(after[i])}
<1>4. 0 \in T
  <2>1. ASSUME NEW k \in Closed(s) PROVE k \in 1 .. N /\ s.afe[k] # Marker
    <3>1. k \in 1 .. N /\ \A i \in k .. N : Dangling(s, i)
      BY <1>1, <1>3 DEF Closed
    <3>2. k \in k .. N
      BY <1>3, <3>1
    <3> QED
      BY <3>1, <3>2 DEF Dangling
  <2>2. after[0] = s
    BY <1>2 DEF Rebuilt
  <2>3. Good(after[0])
    BY <1>3, <2>1, <2>2
  <2> QED
    BY <1>3, <2>3
<1>5. ASSUME NEW i \in 0 .. N - 1, i \in T PROVE i + 1 \in T
  <2>1. i + 1 \in 1 .. N /\ i + 1 \in 0 .. N /\ (i + 1) - 1 = i
    BY <1>3
  <2>2. after[i + 1] = IF i + 1 \in Closed(s) THEN Reopen(after[i], i + 1) ELSE after[i]
    BY <1>2, <1>3, <2>1 DEF Rebuilt
  <2>3. Good(after[i])
    BY <1>5
  <2>4. CASE i + 1 \notin Closed(s)
    BY <2>1, <2>2, <2>3, <2>4
  <2>5. CASE i + 1 \in Closed(s)
    <3>1. PICK t, u : t = after[i] /\ u = Reopen(t, i + 1) /\ after[i + 1] = u
      BY <2>2, <2>5
    <3>2. Sound(t) /\ Len(t.afe) = N /\ i + 1 \in 1 .. Len(t.afe) /\ t.afe[i + 1] # Marker
      BY <2>1, <2>3, <2>5, <3>1
    <3>3. Sound(u) /\ Len(u.afe) = N /\ \A k \in 1 .. N : t.afe[k] # Marker => u.afe[k] # Marker
      BY <3>1, <3>2, ReopenIs
    <3>4. Good(u)
      BY <2>3, <3>1, <3>3
    <3> QED
      BY <2>1, <3>1, <3>4
  <2> QED
    BY <2>4, <2>5
<1>6. N \in T
  <2> HIDE DEF T
  <2> QED
    BY <1>3, <1>4, <1>5, UpTo, N \in 0 .. N
<1>7. Good(after[N])
  BY <1>6
<1> QED
  BY <1>2, <1>3, <1>7 DEF Rebuilt

-----------------------------------------------------------------------------
(* The inner loop of the adoption agency.  Half way through it the stack is  *)
(* in two parts: what is below position q is still the branch it was, and    *)
(* what is at q and above it hangs under the last node, which is at q and    *)
(* may have been unlinked from the tree.                                     *)
HalfNested(o, up, D, q) ==
  /\ q \in 1 .. Len(o)
  /\ \A i \in 1 .. Len(o) : i # q => up[o[i]] # -1
  /\ \A i, j \in 1 .. Len(o) : i < j /\ j < q => o[j] \in D[o[i]] /\ o[j] # o[i]
  /\ \A i, j \in 1 .. Len(o) : q <= i /\ i < j => o[j] \in D[o[i]] /\ o[j] # o[i]
  /\ \A i \in 1 .. Len(o) : i < q => o[i] \notin D[o[q]]

Halved(t, q) == \E up, D : Forest(t.kids, Len(t.name), up, D) /\ HalfNested(t.open, up, D, q)

LEMMA HalfUnder ==
  ASSUME NEW kids, NEW n, NEW up, NEW D, Forest(kids, n, up, D),
         NEW o \in Seq(1 .. n), NEW q, HalfNested(o, up, D, q),
         NEW k \in 1 .. Len(o), q <= k
  PROVE  o[k] \in D[o[q]]
<1>1. q \in 1 .. Len(o) /\ o[q] \in 1 .. n
  <2>1. q \in 1 .. Len(o)
    BY DEF HalfNested
  <2>2. n \in Nat
    BY DEF Forest
  <2> QED
    BY <2>1, <2>2
<1>2. CASE q = k
  BY <1>1, <1>2, Below
<1>3. CASE q # k
  <2>1. q < k /\ q <= q
    BY <1>1, <1>3
  <2> QED
    BY <1>1, <2>1 DEF HalfNested
<1> QED
  BY <1>2, <1>3

(* No element is on the stack twice.                                         *)
LEMMA HalfOnce ==
  ASSUME NEW kids, NEW n, NEW up, NEW D, Forest(kids, n, up, D),
         NEW o \in Seq(1 .. n), NEW q, HalfNested(o, up, D, q),
         NEW i \in 1 .. Len(o), NEW j \in 1 .. Len(o), o[i] = o[j]
  PROVE  i = j
<1>1. q \in 1 .. Len(o)
  BY DEF HalfNested
<1>2. \A k \in 1 .. Len(o) : q <= k => o[k] \in D[o[q]]
  BY HalfUnder
<1>3. ASSUME NEW k \in 1 .. Len(o), NEW l \in 1 .. Len(o), k < l PROVE o[k] # o[l]
  <2>1. CASE l < q
    BY <1>3, <2>1 DEF HalfNested
  <2>2. CASE q <= k
    BY <1>3, <2>2 DEF HalfNested
  <2>3. CASE k < q /\ q <= l
    BY <1>2, <2>3 DEF HalfNested
  <2> QED
    BY <1>1, <1>3, <2>1, <2>2, <2>3
<1>4. i < j \/ j < i \/ i = j
  OBVIOUS
<1> QED
  BY <1>3, <1>4

(* The element under the last node leaves the stack.                         *)
LEMMA HalfLost ==
  ASSUME NEW S, NEW o \in Seq(S), NEW up, NEW D, NEW q \in Int, q > 1, HalfNested(o, up, D, q),
         NEW w, Less(o, q - 1, w)
  PROVE  HalfNested(w, up, D, q - 1)
<1>1. /\ Len(w) = Len(o) - 1 /\ Len(o) \in Nat /\ q \in 1 .. Len(o) /\ q - 1 \in 1 .. Len(w)
      /\ \A i \in 1 .. Len(w) : w[i] = IF i < q - 1 THEN o[i] ELSE o[i + 1]
  BY DEF HalfNested, Less
<1>2. PICK f : f = [i \in 1 .. Len(w) |-> IF i < q - 1 THEN i ELSE i + 1]
  OBVIOUS
<1>3. ASSUME NEW i \in 1 .. Len(w)
      PROVE  /\ f[i] \in 1 .. Len(o) /\ w[i] = o[f[i]] /\ (i # q - 1 => f[i] # q)
             /\ (i < q - 1 => f[i] < q) /\ (q - 1 <= i => q <= f[i])
  BY <1>1, <1>2
<1>4. \A i, j \in 1 .. Len(w) : i < j => f[i] < f[j]
  BY <1>1, <1>2
<1>5. w[q - 1] = o[q]
  BY <1>1
<1>6. \A i \in 1 .. Len(w) : i # q - 1 => up[w[i]] # -1
  BY <1>3, SMTT(30) DEF HalfNested
<1>7. \A i, j \in 1 .. Len(w) : i < j /\ j < q - 1 => w[j] \in D[w[i]] /\ w[j] # w[i]
  BY <1>3, <1>4, SMTT(30) DEF HalfNested
<1>8. \A i, j \in 1 .. Len(w) : q - 1 <= i /\ i < j => w[j] \in D[w[i]] /\ w[j] # w[i]
  BY <1>3, <1>4, SMTT(30) DEF HalfNested
<1>9. \A i \in 1 .. Len(w) : i < q - 1 => w[i] \notin D[w[q - 1]]
  BY <1>3, <1>5 DEF HalfNested
<1> QED
  BY <1>1, <1>6, <1>7, <1>8, <1>9 DEF HalfNested

(* A copy takes its place instead, and the last node goes under the copy.    *)
Rehung(o, up, D, u, E, n, q) ==
  /\ Carried(D, E, n, o[q], n) /\ u[o[q]] # -1 /\ \A y \in 1 .. n : y # o[q] => u[y] = up[y]
  /\ D[n] = {n} /\ \A i \in 1 .. Len(o) : o[i] # n

LEMMA HalfCloned ==
  ASSUME NEW kids, NEW n, NEW up, NEW D, Forest(kids, n, up, D),
         NEW o \in Seq(1 .. n), NEW q \in Int, q > 1, HalfNested(o, up, D, q), n \in 1 .. n,
         NEW u, NEW E, Rehung(o, up, D, u, E, n, q)
  PROVE  HalfNested([o EXCEPT ![q - 1] = n], u, E, q - 1)
<1>1. Len(o) \in Nat /\ q \in 1 .. Len(o) /\ q - 1 \in 1 .. Len(o) /\ \A i \in 1 .. Len(o) : o[i] \in 1 .. n
  BY DEF HalfNested
<1>2. PICK w, x : w = [o EXCEPT ![q - 1] = n] /\ x = o[q]
  OBVIOUS
<1>3. /\ Len(w) = Len(o) /\ w[q - 1] = n /\ \A i \in 1 .. Len(o) : i # q - 1 => w[i] = o[i]
  BY <1>1, <1>2
<1>4. \A k \in 1 .. Len(o) : q <= k => o[k] \in D[x]
  BY <1>2, HalfUnder
<1>5. \A k \in 1 .. Len(o) : k < q => o[k] \notin D[x]
  BY <1>2 DEF HalfNested
<1>6. /\ \A y \in 1 .. n, z \in 1 .. n : z \notin D[x] => (z \in E[y] <=> z \in D[y])
      /\ \A y, z \in D[x] : z \in E[y] <=> z \in D[y]
      /\ \A y \in 1 .. n, z \in D[x] : n \in D[y] => z \in E[y]
  BY <1>2 DEF Rehung, Carried
<1>7. n \in D[n] /\ D[n] = {n}
  BY DEF Rehung
<1>8. \A i \in 1 .. Len(w) : i # q - 1 => u[w[i]] # -1
  <2> SUFFICES ASSUME NEW i \in 1 .. Len(o), i # q - 1 PROVE u[o[i]] # -1
    BY <1>3
  <2>1. CASE i = q
    BY <2>1 DEF Rehung
  <2>2. CASE i # q
    <3>1. up[o[i]] # -1
      BY <2>2 DEF HalfNested
    <3>2. o[i] # o[q] => u[o[i]] = up[o[i]]
      BY <1>1 DEF Rehung
    <3>3. o[i] # o[q]
      BY <1>1, <2>2, HalfOnce
    <3> QED
      BY <3>1, <3>2, <3>3
  <2> QED
    BY <2>1, <2>2
<1>9. ASSUME NEW i \in 1 .. Len(w), NEW j \in 1 .. Len(w), i < j, j < q - 1
      PROVE  w[j] \in E[w[i]] /\ w[j] # w[i]
  <2>1. i < q /\ j < q /\ w[i] = o[i] /\ w[j] = o[j] /\ i \in 1 .. Len(o) /\ j \in 1 .. Len(o)
    BY <1>1, <1>3, <1>9
  <2>2. o[j] \in D[o[i]] /\ o[j] # o[i]
    BY <1>9, <2>1 DEF HalfNested
  <2>3. o[j] \notin D[x]
    BY <1>5, <2>1
  <2> QED
    BY <1>1, <1>6, <2>1, <2>2, <2>3
<1>10. ASSUME NEW i \in 1 .. Len(w), NEW j \in 1 .. Len(w), i < j, q - 1 <= i
       PROVE  w[j] \in E[w[i]] /\ w[j] # w[i]
  <2>1. q <= j /\ w[j] = o[j] /\ i \in 1 .. Len(o) /\ j \in 1 .. Len(o)
    BY <1>1, <1>3, <1>10
  <2>2. o[j] \in D[x]
    BY <1>4, <2>1
  <2>3. CASE i = q - 1
    <3>1. w[i] = n /\ o[j] # n
      BY <1>3, <2>1, <2>3 DEF Rehung
    <3>2. n \in 1 .. n
      OBVIOUS
    <3> QED
      BY <1>6, <1>7, <2>1, <2>2, <3>1, <3>2
  <2>4. CASE i # q - 1
    <3>1. q <= i /\ w[i] = o[i]
      BY <1>1, <1>3, <1>10, <2>1, <2>4
    <3>2. o[j] \in D[o[i]] /\ o[j] # o[i]
      BY <1>10, <2>1, <3>1 DEF HalfNested
    <3>3. o[i] \in D[x]
      BY <1>4, <2>1, <3>1
    <3> QED
      BY <1>6, <2>1, <2>2, <3>1, <3>2, <3>3
  <2> QED
    BY <2>3, <2>4
<1>11. ASSUME NEW i \in 1 .. Len(w), i < q - 1
       PROVE  w[i] \notin E[w[q - 1]]
  <2>1. i < q /\ i \in 1 .. Len(o) /\ w[i] = o[i] /\ w[q - 1] = n
    BY <1>1, <1>3, <1>11
  <2>2. o[i] \notin D[x] /\ o[i] \notin D[n] /\ o[i] \in 1 .. n
    BY <1>1, <1>5, <1>7, <2>1 DEF Rehung
  <2>3. n \in 1 .. n
    OBVIOUS
  <2> QED
    BY <1>6, <2>1, <2>2, <2>3
<1>12. q - 1 \in 1 .. Len(w)
  BY <1>1, <1>3
<1>13. HalfNested(w, u, E, q - 1)
  BY <1>8, <1>9, <1>10, <1>11, <1>12 DEF HalfNested
<1> QED
  BY <1>2, <1>13

ClonedOf(s, at, t) ==
  /\ Sized(t) /\ t.kids = WithLeaf(s.kids, Len(s.name)) /\ Len(t.name) = Len(s.name) + 1
  /\ t.open = [s.open EXCEPT ![at] = Len(s.name) + 1]

LEMMA ClonedIs ==
  ASSUME NEW s, Sized(s), NEW e \in 1 .. Len(s.name), NEW i \in 1 .. Len(s.afe),
         h_stack_find(s, e) \in 1 .. Len(s.open)
  PROVE  ClonedOf(s, h_stack_find(s, e), Cloned(s, e, i))
<1>1. PICK c, n, at, m : /\ n = s.name[e] /\ c = Created(s, n) /\ at = h_stack_find(s, e) /\ m = Len(s.name) + 1
  OBVIOUS
<1>2. n \in Names /\ Len(s.name) \in Nat
  BY <1>1, Fields
<1>3. /\ Sized(c) /\ c.open = s.open /\ c.afe = s.afe /\ Len(c.name) = m
      /\ c.kids = WithLeaf(s.kids, Len(s.name))
  BY <1>1, <1>2, CreatedIs DEF CreatedOf
<1>4. /\ c.name \in Seq(Names) /\ c.open \in Seq(1 .. m) /\ c.afe \in Seq(0 .. m)
      /\ c.ids \in Seq(Ids) /\ Len(c.ids) = Len(c.open) /\ Len(c.open) <= DepthCap /\ Len(c.afe) <= AfeCap
  BY <1>3, Fields
<1>5. PICK t, o, l : /\ t = Cloned(s, e, i) /\ o = [c.open EXCEPT ![at] = m] /\ l = [c.afe EXCEPT ![i] = m]
  OBVIOUS
<1>6. m \in 1 .. m /\ m \in 0 .. m
  BY <1>1, <1>2
<1>7. o \in Seq(1 .. m) /\ Len(o) = Len(c.open)
  BY <1>1, <1>3, <1>4, <1>5, <1>6, ExceptSeq
<1>8. l \in Seq(0 .. m) /\ Len(l) = Len(c.afe)
  BY <1>1, <1>3, <1>4, <1>5, <1>6, ExceptSeq
<1>9. t = [open |-> o, ids |-> c.ids, afe |-> l, kids |-> c.kids, name |-> c.name, body_seen |-> c.body_seen]
  <2>1. t = [c EXCEPT !.afe = l, !.open = o]
    <3>1. t = [c EXCEPT !.afe[i] = m, !.open[at] = m]
      BY <1>1, <1>5 DEF Cloned, New
    <3>2. c = [open |-> c.open, ids |-> c.ids, afe |-> c.afe, kids |-> c.kids, name |-> c.name, body_seen |-> c.body_seen]
      BY <1>3 DEF Sized
    <3> QED
      BY <1>5, <3>1, <3>2
  <2> QED
    BY <1>3, <2>1 DEF Sized
<1>10. Sized(t) /\ t.kids = c.kids /\ t.name = c.name /\ t.open = o
  BY <1>3, <1>4, <1>7, <1>8, <1>9 DEF Sized
<1>11. ClonedOf(s, at, t)
  BY <1>1, <1>3, <1>5, <1>10 DEF ClonedOf
<1> QED
  BY <1>1, <1>5, <1>11

(* A builder in the middle of the loop: o is the stack it began with.        *)
Going(t, o, q, fb) ==
  /\ Sized(t) /\ Halved(t, q)
  /\ \A i \in 1 .. Len(t.open) : i < q => t.open[i] = o[i]
  /\ \E w \in 1 .. Len(t.open) : q <= w /\ t.open[w] = fb

LEMMA GoingList ==
  ASSUME NEW t, NEW o, NEW q, NEW fb, Going(t, o, q, fb), NEW v, ListOnly(t, v)
  PROVE  Going(v, o, q, fb)
BY DEF Going, Halved, ListOnly

LEMMA GoingFound ==
  ASSUME NEW t, NEW o, NEW q \in Int, q > 1, NEW fb, Going(t, o, q, fb)
  PROVE  /\ q \in 1 .. Len(t.open) /\ q - 1 \in 1 .. Len(t.open) /\ Len(t.open) \in Nat
         /\ o[q - 1] = t.open[q - 1] /\ o[q - 1] \in 1 .. Len(t.name)
         /\ h_stack_find(t, o[q - 1]) = q - 1
<1>1. PICK up, D : Forest(t.kids, Len(t.name), up, D) /\ HalfNested(t.open, up, D, q)
  BY DEF Going, Halved
<1>2. Sized(t) /\ Len(t.open) \in Nat /\ t.open \in Seq(1 .. Len(t.name))
      /\ \A i \in 1 .. Len(t.open) : t.open[i] \in 1 .. Len(t.name)
  BY Fields DEF Going
<1>3. q \in 1 .. Len(t.open)
  BY <1>1 DEF HalfNested
<1>4. q - 1 \in 1 .. Len(t.open) /\ q - 1 < q
  BY <1>2, <1>3
<1>5. t.open[q - 1] = o[q - 1]
  BY <1>4 DEF Going
<1>6. PICK at : at = h_stack_find(t, o[q - 1])
  OBVIOUS
<1>7. at \in 0 .. Len(t.open) /\ at # 0 /\ t.open[at] = o[q - 1]
  BY <1>2, <1>4, <1>5, <1>6, FoundAt
<1>8. at \in 1 .. Len(t.open)
  BY <1>2, <1>7
<1>9. at = q - 1
  BY <1>1, <1>2, <1>4, <1>5, <1>7, <1>8, HalfOnce
<1> QED
  BY <1>2, <1>3, <1>4, <1>5, <1>6, <1>9

LEMMA AdoptDrop ==
  ASSUME NEW t, NEW o, NEW q \in Int, q > 1, NEW fb, Going(t, o, q, fb)
  PROVE  /\ Going(DropOpen(t, o[q - 1]), o, q - 1, fb)
         /\ DropOpen(t, o[q - 1]).open[q - 1] = t.open[q]
<1>1. PICK up, D : Forest(t.kids, Len(t.name), up, D) /\ HalfNested(t.open, up, D, q)
  BY DEF Going, Halved
<1>2. /\ q \in 1 .. Len(t.open) /\ q - 1 \in 1 .. Len(t.open) /\ Len(t.open) \in Nat
      /\ h_stack_find(t, o[q - 1]) = q - 1
  BY GoingFound
<1>3. PICK v : v = DropOpen(t, o[q - 1])
  OBVIOUS
<1>4. Sized(v) /\ v.kids = t.kids /\ v.name = t.name /\ v.open = RemoveAt(t.open, q - 1)
  <2>1. Sized(t) /\ q - 1 # 0
    BY <1>2 DEF Going
  <2> QED
    BY <1>2, <1>3, <2>1, DropOpenIs
<1>5. t.open \in Seq(1 .. Len(t.name))
  BY Fields DEF Going
<1>6. Less(t.open, q - 1, v.open)
  BY <1>2, <1>4, <1>5, RemoveAtIs
<1>7. HalfNested(v.open, up, D, q - 1)
  BY <1>1, <1>5, <1>6, HalfLost
<1>8. Halved(v, q - 1)
  BY <1>1, <1>4, <1>7 DEF Halved
<1>9. Len(v.open) = Len(t.open) - 1 /\ \A i \in 1 .. Len(v.open) : v.open[i] = IF i < q - 1 THEN t.open[i] ELSE t.open[i + 1]
  BY <1>6 DEF Less
<1>10. \A i \in 1 .. Len(v.open) : i < q - 1 => v.open[i] = o[i]
  <2>1. \A i \in 1 .. Len(t.open) : i < q => t.open[i] = o[i]
    BY DEF Going
  <2> QED
    BY <1>2, <1>9, <2>1
<1>11. PICK w \in 1 .. Len(t.open) : q <= w /\ t.open[w] = fb
  BY DEF Going
<1>12. w - 1 \in 1 .. Len(v.open) /\ q - 1 <= w - 1 /\ v.open[w - 1] = fb
  BY <1>2, <1>9, <1>11
<1>13. v.open[q - 1] = t.open[q]
  BY <1>2, <1>9
<1>14. Going(v, o, q - 1, fb)
  BY <1>4, <1>8, <1>10, <1>12 DEF Going
<1> QED
  BY <1>3, <1>13, <1>14

LEMMA AdoptCopy ==
  ASSUME NEW t, NEW o, NEW q \in Int, q > 1, NEW fb, Going(t, o, q, fb), NEW i \in 1 .. Len(t.afe)
  PROVE  /\ Going(Moved(Cloned(t, o[q - 1], i), t.open[q], New(t)), o, q - 1, fb)
         /\ Moved(Cloned(t, o[q - 1], i), t.open[q], New(t)).open[q - 1] = New(t)
<1>1. PICK up, D : Forest(t.kids, Len(t.name), up, D) /\ HalfNested(t.open, up, D, q)
  BY DEF Going, Halved
<1>2. /\ q \in 1 .. Len(t.open) /\ q - 1 \in 1 .. Len(t.open) /\ Len(t.open) \in Nat
      /\ h_stack_find(t, o[q - 1]) = q - 1 /\ o[q - 1] \in 1 .. Len(t.name)
  BY GoingFound
<1>3. /\ Sized(t) /\ t.open \in Seq(1 .. Len(t.name)) /\ Len(t.name) \in Nat
      /\ \A k \in 1 .. Len(t.open) : t.open[k] \in 1 .. Len(t.name)
  BY Fields DEF Going
<1>4. PICK c, m, x : c = Cloned(t, o[q - 1], i) /\ m = Len(t.name) + 1 /\ m = New(t) /\ x = t.open[q]
  BY DEF New
<1>5. /\ Sized(c) /\ c.kids = WithLeaf(t.kids, Len(t.name)) /\ Len(c.name) = m
      /\ c.open = [t.open EXCEPT ![q - 1] = m]
  <2>1. h_stack_find(t, o[q - 1]) \in 1 .. Len(t.open)
    BY <1>2
  <2>2. ClonedOf(t, h_stack_find(t, o[q - 1]), c)
    BY <1>2, <1>3, <1>4, <2>1, ClonedIs
  <2> QED
    BY <1>2, <1>4, <2>2 DEF ClonedOf
<1>6. PICK u, E : /\ Forest(c.kids, m, u, E) /\ u[m] = -1 /\ E[m] = {m}
                  /\ \A y \in 1 .. Len(t.name) : u[y] = up[y] /\ E[y] = D[y]
  <2>1. Leafed(c.kids, Len(t.name), m, up, D)
    BY <1>1, <1>3, <1>4, <1>5, LeafAdded
  <2> QED
    BY <2>1 DEF Leafed
<1>7. HalfNested(t.open, u, E, q)
  BY <1>1, <1>3, <1>6 DEF HalfNested
<1>8. t.open \in Seq(1 .. m) /\ m \in 1 .. m /\ x \in 1 .. m /\ x # m /\ m \in 0 .. m
      /\ \A k \in 1 .. Len(t.open) : t.open[k] # m
  <2>1. 1 .. Len(t.name) \subseteq 1 .. m
    BY <1>3, <1>4
  <2>2. t.open \in Seq(1 .. m)
    BY <1>3, <2>1, WiderSeq
  <2>3. x \in 1 .. Len(t.name)
    BY <1>2, <1>3, <1>4
  <2> QED
    BY <1>3, <1>4, <2>2, <2>3, SMTT(30)
<1>9. m \notin E[x]
  <2>1. x \in 1 .. Len(t.name) /\ E[x] = D[x]
    BY <1>2, <1>3, <1>4, <1>6
  <2>2. D[x] \subseteq 1 .. Len(t.name)
    BY <1>1, <2>1, Below
  <2> QED
    BY <1>3, <1>4, <2>1, <2>2
<1>10. PICK v : v = Moved(c, x, m)
  OBVIOUS
<1>11. Sized(v) /\ v.open = c.open /\ v.name = c.name /\ Hung(v.kids, c.kids, m, x, m)
  <2>1. Forest(c.kids, Len(c.name), u, E) /\ x \in 1 .. Len(c.name) /\ Sized(c)
    BY <1>5, <1>6, <1>8
  <2>2. MovedOf(c, v, x, m)
    BY <1>10, <2>1, MovedIs
  <2> QED
    BY <1>5, <2>2 DEF MovedOf
<1>12. PICK u2, E2 : /\ Forest(v.kids, m, u2, E2) /\ Carried(E, E2, m, x, m)
                     /\ u2[x] = m /\ \A y \in 1 .. m : y # x => u2[y] = u[y]
  <2>1. Forest(c.kids, m, u, E)
    BY <1>6
  <2>2. x \in 1 .. m /\ m \in 0 .. m
    BY <1>8
  <2>3. Hung(v.kids, c.kids, m, x, m)
    BY <1>11
  <2> QED
    BY <2>1, <2>2, <2>3, <1>9, HungUnder
<1>13. Rehung(t.open, u, E, u2, E2, m, q)
  <2>1. m # -1
    BY <1>3, <1>4
  <2> QED
    BY <1>4, <1>6, <1>8, <1>12, <2>1 DEF Rehung
<1>14. HalfNested(v.open, u2, E2, q - 1)
  BY <1>5, <1>6, <1>7, <1>8, <1>11, <1>13, HalfCloned, SMTT(30)
<1>15. Halved(v, q - 1)
  BY <1>5, <1>11, <1>12, <1>14 DEF Halved
<1>16. /\ Len(v.open) = Len(t.open) /\ v.open[q - 1] = m
       /\ \A k \in 1 .. Len(t.open) : k # q - 1 => v.open[k] = t.open[k]
  BY <1>2, <1>3, <1>5, <1>11
<1>17. \A k \in 1 .. Len(v.open) : k < q - 1 => v.open[k] = o[k]
  <2>1. \A k \in 1 .. Len(t.open) : k < q => t.open[k] = o[k]
    BY DEF Going
  <2> QED
    BY <1>16, <2>1
<1>18. PICK w \in 1 .. Len(t.open) : q <= w /\ t.open[w] = fb
  BY DEF Going
<1>19. w \in 1 .. Len(v.open) /\ q - 1 <= w /\ v.open[w] = fb
  BY <1>2, <1>16, <1>18
<1>20. Going(v, o, q - 1, fb)
  BY <1>11, <1>15, <1>17, <1>19 DEF Going
<1> QED
  BY <1>4, <1>10, <1>16, <1>20

(* What the loop keeps: the builder, the last node and the bookmark.         *)
Turn(r, o, q, fb) ==
  /\ r = [s |-> r.s, last |-> r.last, bookmark |-> r.bookmark]
  /\ Going(r.s, o, q, fb) /\ r.last = r.s.open[q] /\ r.bookmark \in Nat /\ r.bookmark >= 1

LEMMA AdoptTurns ==
  ASSUME NEW r, NEW o, NEW q \in Int, q > 1, NEW fb, Turn(r, o, q, fb), NEW j
  PROVE  Turn(Adopt(r, o[q - 1], fb, j), o, q - 1, fb)
<1>1. PICK above, ai, cut, s, v : /\ above = o[q - 1] /\ ai = h_afe_index_of(r.s, above)
                                  /\ cut = (j > InnerCap /\ ai # 0)
                                  /\ s = (IF cut THEN h_afe_remove_idx(r.s, ai) ELSE r.s)
                                  /\ v = Adopt(r, above, fb, j)
  OBVIOUS
<1>2. Sized(r.s) /\ Going(r.s, o, q, fb) /\ r.last = r.s.open[q] /\ r.bookmark \in Nat /\ r.bookmark >= 1
  BY DEF Turn, Going
<1>3. ai \in 0 .. Len(r.s.afe) /\ Len(r.s.afe) \in Nat
  BY <1>1, <1>2, IndexOfIs, Fields
<1>a. above = o[q - 1] /\ (cut => ai # 0)
  BY <1>1
<1>4. CASE ai = 0 \/ cut
  <2>1. Going(s, o, q, fb) /\ s.open = r.s.open
    <3>1. CASE cut
      <4>1. ListOnly(r.s, s)
        BY <1>1, <1>2, <3>1, RemoveIdxIs
      <4> QED
        BY <1>2, <4>1, GoingList DEF ListOnly
    <3>2. CASE ~cut
      BY <1>1, <1>2, <3>2
    <3> QED
      BY <3>1, <3>2
  <2>2. PICK t, m : t = DropOpen(s, above) /\ m = IF cut /\ r.bookmark > ai THEN r.bookmark - 1 ELSE r.bookmark
    OBVIOUS
  <2>3. Going(t, o, q - 1, fb) /\ t.open[q - 1] = r.last
    <3>1. /\ Going(DropOpen(s, o[q - 1]), o, q - 1, fb)
          /\ DropOpen(s, o[q - 1]).open[q - 1] = s.open[q]
      BY <2>1, AdoptDrop
    <3>2. t = DropOpen(s, o[q - 1])
      BY <1>a, <2>2
    <3> QED
      BY <1>2, <2>1, <3>1, <3>2
  <2>4. v = [s |-> t, last |-> r.last, bookmark |-> m]
    <3>1. v = [r EXCEPT !.s = t, !.bookmark = m]
      BY <1>1, <1>4, <2>2 DEF Adopt
    <3>2. r = [s |-> r.s, last |-> r.last, bookmark |-> r.bookmark]
      BY DEF Turn
    <3> QED
      BY <3>1, <3>2
  <2>5. m \in Nat /\ m >= 1
    <3>1. cut /\ r.bookmark > ai => r.bookmark - 1 \in Nat /\ r.bookmark - 1 >= 1
      BY <1>2, <1>3, <1>a
    <3> QED
      BY <1>2, <2>2, <3>1
  <2>6. v.s = t /\ v.last = r.last /\ v.bookmark = m
    BY <2>4
  <2>7. Turn(v, o, q - 1, fb)
    BY <2>3, <2>4, <2>5, <2>6 DEF Turn
  <2> QED
    BY <1>1, <2>7
<1>5. CASE ~(ai = 0 \/ cut)
  <2>1. s = r.s /\ ai \in 1 .. Len(s.afe)
    BY <1>1, <1>3, <1>5
  <2>2. PICK t, cl, m : t = Moved(Cloned(s, above, ai), r.last, New(s)) /\ cl = New(s) /\ m = Bookmark(r, fb, ai)
    OBVIOUS
  <2>3. Going(t, o, q - 1, fb) /\ t.open[q - 1] = cl
    <3>1. /\ Going(Moved(Cloned(s, o[q - 1], ai), s.open[q], New(s)), o, q - 1, fb)
          /\ Moved(Cloned(s, o[q - 1], ai), s.open[q], New(s)).open[q - 1] = New(s)
      <4>1. Going(s, o, q, fb) /\ ai \in 1 .. Len(s.afe)
        BY <1>2, <2>1
      <4> QED
        BY <4>1, AdoptCopy
    <3>2. t = Moved(Cloned(s, o[q - 1], ai), s.open[q], New(s))
      BY <1>2, <1>a, <2>1, <2>2
    <3> QED
      BY <2>2, <3>1, <3>2
  <2>4. v = [s |-> t, last |-> cl, bookmark |-> m]
    BY <1>1, <1>5, <2>2 DEF Adopt
  <2>5. m \in Nat /\ m >= 1
    BY <1>2, <1>3, <1>5, <2>2 DEF Bookmark
  <2>6. v.s = t /\ v.last = cl /\ v.bookmark = m
    BY <2>4
  <2>7. Turn(v, o, q - 1, fb)
    BY <2>3, <2>4, <2>5, <2>6 DEF Turn
  <2> QED
    BY <1>1, <2>7
<1> QED
  BY <1>4, <1>5

TurnLevels(f, r, o, p, n) == f = [j \in 0 .. n |-> IF j = 0 THEN r ELSE Adopt(f[j - 1], o[p - j], o[p], j)]

LEMMA TurnNext ==
  ASSUME NEW r, NEW o, NEW p, NEW n \in Nat, NEW f, TurnLevels(f, r, o, p, n)
  PROVE  \E g : TurnLevels(g, r, o, p, n + 1)
<1> DEFINE step(j) == IF j = 0 THEN r ELSE Adopt(f[j - 1], o[p - j], o[p], j)
           g == [j \in 0 .. n + 1 |-> step(j)]
<1>1. f = [j \in 0 .. n |-> step(j)]
  BY DEF TurnLevels
<1>2. \A j \in 0 .. n : g[j] = f[j]
  <2> HIDE DEF step
  <2> QED
    BY <1>1
<1>3. \A j \in 0 .. n + 1 : j # 0 => j - 1 \in 0 .. n
  OBVIOUS
<1>4. \A j \in 0 .. n + 1 : step(j) = IF j = 0 THEN r ELSE Adopt(g[j - 1], o[p - j], o[p], j)
  <2> HIDE DEF g
  <2> QED
    BY <1>2, <1>3
<1>5. g = [j \in 0 .. n + 1 |-> IF j = 0 THEN r ELSE Adopt(g[j - 1], o[p - j], o[p], j)]
  BY <1>4
<1> HIDE DEF g
<1> QED
  BY <1>5 DEF TurnLevels

Turned(s, si, p, fi, f) ==
  /\ InnerLoop(s, si, p, fi) = f[p - si - 1] /\ f[0] = [s |-> s, last |-> s.open[p], bookmark |-> fi]
  /\ \A j \in 1 .. p - si - 1 : f[j] = Adopt(f[j - 1], s.open[p - j], s.open[p], j)

LEMMA TurnSteps ==
  ASSUME NEW s, NEW si \in Int, NEW p \in Int, si < p, NEW fi
  PROVE  \E f : Turned(s, si, p, fi, f)
<1>a. p - si - 1 \in Nat
  OBVIOUS
<1>0. PICK N, r, o : N = p - si - 1 /\ N \in Nat /\ r = [s |-> s, last |-> s.open[p], bookmark |-> fi] /\ o = s.open
  BY <1>a
<1> DEFINE T == {n \in Nat : \E f : TurnLevels(f, r, o, p, n)}
<1>1. 0 \in T
  <2>1. PICK f : f = [j \in 0 .. 0 |-> r]
    OBVIOUS
  <2>2. f = [j \in 0 .. 0 |-> IF j = 0 THEN r ELSE Adopt(f[j - 1], o[p - j], o[p], j)]
    <3>1. \A j \in 0 .. 0 : j = 0
      OBVIOUS
    <3> QED
      BY <2>1, <3>1, Zenon
  <2> QED
    BY <2>2 DEF TurnLevels
<1>2. \A n \in 0 .. N - 1 : n \in T => n + 1 \in T
  BY <1>0, TurnNext
<1>3. N \in T
  <2> HIDE DEF T
  <2> QED
    BY <1>0, <1>1, <1>2, UpTo, N \in 0 .. N
<1> DEFINE after == CHOOSE f : TurnLevels(f, r, o, p, N)
<1>4. TurnLevels(after, r, o, p, N)
  BY <1>3
<1>5. InnerLoop(s, si, p, fi) = after[N]
  BY <1>0 DEF InnerLoop, TurnLevels
<1> HIDE DEF after
<1>6. PICK f : f = after /\ TurnLevels(f, r, o, p, N)
  BY <1>4
<1>7. \A j \in 0 .. N : f[j] = IF j = 0 THEN r ELSE Adopt(f[j - 1], o[p - j], o[p], j)
  BY <1>6 DEF TurnLevels
<1>8. (\A j \in 1 .. N : j \in 0 .. N /\ j # 0) /\ 0 \in 0 .. N
  BY <1>0
<1>9. f[0] = r /\ \A j \in 1 .. N : f[j] = Adopt(f[j - 1], o[p - j], o[p], j)
  BY <1>7, <1>8
<1>10. Turned(s, si, p, fi, f)
  BY <1>0, <1>5, <1>6, <1>9 DEF Turned
<1> QED
  BY <1>10

LEMMA SoundHalf ==
  ASSUME NEW s, Sound(s), NEW p \in 1 .. Len(s.open)
  PROVE  Going(s, s.open, p, s.open[p])
<1>1. PICK up, D : Forest(s.kids, Len(s.name), up, D) /\ Nested(s.open, up, D)
  BY DEF Sound, Upright
<1>2. /\ \A i \in 1 .. Len(s.open) : up[s.open[i]] # -1
      /\ \A i, j \in 1 .. Len(s.open) : i < j => s.open[j] \in D[s.open[i]] /\ s.open[j] # s.open[i]
  BY <1>1 DEF Nested
<1>3. \A i \in 1 .. Len(s.open) : i < p => s.open[i] \notin D[s.open[p]]
  <2>1. ASSUME NEW i \in 1 .. Len(s.open), i < p, s.open[i] \in D[s.open[p]] PROVE FALSE
    <3>1. s.open[p] \in D[s.open[i]] /\ s.open[p] # s.open[i]
      BY <1>2, <2>1
    <3>2. s.open[i] \in 1 .. Len(s.name) /\ s.open[p] \in 1 .. Len(s.name)
      BY Fields DEF Sound
    <3> QED
      BY <1>1, <2>1, <3>1, <3>2, Below
  <2> QED
    BY <2>1
<1>4. HalfNested(s.open, up, D, p)
  BY <1>2, <1>3 DEF HalfNested
<1>5. Halved(s, p)
  BY <1>1, <1>4 DEF Halved
<1>6. p <= p
  BY Fields DEF Sound
<1> QED
  BY <1>5, <1>6 DEF Going, Sound

LEMMA InnerLoopIs ==
  ASSUME NEW s, Sound(s), NEW si \in Nat, si >= 1, NEW p \in 1 .. Len(s.open), si < p, NEW fi \in Nat, fi >= 1
  PROVE  Turn(InnerLoop(s, si, p, fi), s.open, si + 1, s.open[p])
<1>1. PICK N, fb : N = p - si - 1 /\ N \in Nat /\ fb = s.open[p]
  BY Fields DEF Sound
<1>a. si \in Int /\ p \in Int
  OBVIOUS
<1>2. PICK f : Turned(s, si, p, fi, f)
  BY <1>a, TurnSteps
<1> DEFINE T == {j \in 0 .. N : Turn(f[j], s.open, p - j, fb)}
<1>3. 0 \in T
  <2>1. PICK r : r = f[0] /\ r = [s |-> s, last |-> fb, bookmark |-> fi]
    BY <1>1, <1>2 DEF Turned
  <2>2. r.s = s /\ r.last = fb /\ r.bookmark = fi
    BY <2>1
  <2>3. Going(s, s.open, p, fb)
    BY <1>1, SoundHalf
  <2>4. Turn(r, s.open, p, fb)
    BY <1>1, <2>1, <2>2, <2>3 DEF Turn
  <2>5. p - 0 = p /\ 0 \in 0 .. N
    BY <1>1
  <2> QED
    BY <2>1, <2>4, <2>5
<1>4. ASSUME NEW j \in 0 .. N - 1, j \in T PROVE j + 1 \in T
  <2>1. j + 1 \in 1 .. p - si - 1 /\ j + 1 \in 0 .. N /\ (j + 1) - 1 = j /\ p - (j + 1) = (p - j) - 1 /\ p - j \in Int /\ p - j > 1
    BY <1>1
  <2>2. f[j + 1] = Adopt(f[j], s.open[(p - j) - 1], fb, j + 1)
    BY <1>1, <1>2, <2>1 DEF Turned
  <2>3. Turn(f[j], s.open, p - j, fb)
    BY <1>4
  <2>4. Turn(f[j + 1], s.open, (p - j) - 1, fb)
    BY <2>1, <2>2, <2>3, AdoptTurns
  <2> QED
    BY <2>1, <2>4
<1>5. N \in T
  <2> HIDE DEF T
  <2> QED
    BY <1>1, <1>3, <1>4, UpTo, N \in 0 .. N
<1>6. Turn(f[N], s.open, p - N, fb) /\ p - N = si + 1
  BY <1>1, <1>5
<1> QED
  BY <1>1, <1>2, <1>6 DEF Turned

-----------------------------------------------------------------------------
(* A round of the adoption agency.  After the loop the last node goes under  *)
(* the parent p of the formatting element, and the stack without that        *)
(* element is a branch again.                                                *)
Rejoined(o, up, D, u, E, n, q, p) ==
  /\ Carried(D, E, n, o[q], p) /\ u[o[q]] = p /\ p \in 0 .. n
  /\ \A y \in 1 .. n : y # o[q] => u[y] = up[y]
  /\ q > 2 => p = o[q - 2]

LEMMA HalfRejoined ==
  ASSUME NEW kids, NEW n, NEW up, NEW D, Forest(kids, n, up, D),
         NEW o \in Seq(1 .. n), NEW q \in Int, q > 1, HalfNested(o, up, D, q),
         NEW u, NEW E, NEW p, Rejoined(o, up, D, u, E, n, q, p), NEW w, Less(o, q - 1, w)
  PROVE  Nested(w, u, E)
<1>0. n \in Nat
  BY DEF Forest
<1>1. /\ Len(w) = Len(o) - 1 /\ Len(o) \in Nat /\ q \in 1 .. Len(o)
      /\ \A i \in 1 .. Len(w) : w[i] = IF i < q - 1 THEN o[i] ELSE o[i + 1]
      /\ \A i \in 1 .. Len(o) : o[i] \in 1 .. n
  BY <1>0 DEF HalfNested, Less
<1>2. PICK x : x = o[q]
  OBVIOUS
<1>3. /\ \A y \in 1 .. n, z \in 1 .. n : z \notin D[x] => (z \in E[y] <=> z \in D[y])
      /\ \A y, z \in D[x] : z \in E[y] <=> z \in D[y]
      /\ \A y \in 1 .. n, z \in D[x] : p \in D[y] => z \in E[y]
  BY <1>2 DEF Rejoined, Carried
<1>4. \A k \in 1 .. Len(o) : q <= k => o[k] \in D[x]
  BY <1>2, HalfUnder
<1>5. \A k \in 1 .. Len(o) : k < q => o[k] \notin D[x]
  BY <1>2 DEF HalfNested
<1>6. PICK f : f = [i \in 1 .. Len(w) |-> IF i < q - 1 THEN i ELSE i + 1]
  OBVIOUS
<1>7. ASSUME NEW i \in 1 .. Len(w)
      PROVE  /\ f[i] \in 1 .. Len(o) /\ w[i] = o[f[i]] /\ f[i] # q - 1
             /\ (i < q - 1 => f[i] = i) /\ (q - 1 <= i => f[i] = i + 1)
  BY <1>1, <1>6
<1>8. \A i, j \in 1 .. Len(w) : i < j => f[i] < f[j]
  BY <1>1, <1>6
<1>9. ASSUME NEW i \in 1 .. Len(w) PROVE u[w[i]] # -1
  <2>1. f[i] \in 1 .. Len(o) /\ w[i] = o[f[i]] /\ o[f[i]] \in 1 .. n
    BY <1>1, <1>7
  <2>2. CASE f[i] = q
    <3>1. u[o[q]] = p /\ p \in 0 .. n
      BY DEF Rejoined
    <3>2. p # -1
      BY <1>0, <3>1
    <3> QED
      BY <2>1, <2>2, <3>1, <3>2
  <2>3. CASE f[i] # q
    <3>1. o[f[i]] # o[q]
      BY <1>1, <2>1, <2>3, HalfOnce, SMTT(30)
    <3>2. up[o[f[i]]] # -1
      BY <2>1, <2>3 DEF HalfNested
    <3>3. u[o[f[i]]] = up[o[f[i]]]
      BY <2>1, <3>1 DEF Rejoined
    <3> QED
      BY <2>1, <3>2, <3>3
  <2> QED
    BY <2>2, <2>3
<1>10. ASSUME NEW k \in 1 .. Len(o), k < q - 1 PROVE p \in D[o[k]]
  <2>1. q > 2 /\ q - 2 \in 1 .. Len(o) /\ k <= q - 2 /\ q - 2 < q
    BY <1>1, <1>10
  <2>2. p = o[q - 2]
    BY <2>1 DEF Rejoined
  <2>3. CASE k = q - 2
    BY <1>1, <2>2, <2>3, Below
  <2>4. CASE k # q - 2
    <3>1. k < q - 2
      BY <2>1, <2>4
    <3> QED
      BY <2>1, <2>2, <3>1 DEF HalfNested
  <2> QED
    BY <2>3, <2>4
<1>11. ASSUME NEW i \in 1 .. Len(w), NEW j \in 1 .. Len(w), i < j PROVE w[j] \in E[w[i]] /\ w[j] # w[i]
  <2>1. PICK k, l \in 1 .. Len(o) : k = f[i] /\ l = f[j] /\ k < l /\ w[i] = o[k] /\ w[j] = o[l] /\ k # q - 1 /\ l # q - 1
    BY <1>7, <1>8, <1>11
  <2>2. o[k] \in 1 .. n /\ o[l] \in 1 .. n
    BY <1>1
  <2>3. CASE l < q
    <3>1. o[l] \in D[o[k]] /\ o[l] # o[k]
      BY <2>1, <2>3 DEF HalfNested
    <3>2. o[l] \notin D[x]
      BY <1>5, <2>3
    <3> QED
      BY <1>3, <2>1, <2>2, <3>1, <3>2
  <2>4. CASE q <= k
    <3>1. o[l] \in D[o[k]] /\ o[l] # o[k]
      BY <2>1, <2>4 DEF HalfNested
    <3>2. q <= l
      BY <2>1, <2>4
    <3>3. o[l] \in D[x] /\ o[k] \in D[x]
      BY <1>4, <2>4, <3>2
    <3> QED
      BY <1>3, <2>1, <3>1, <3>3
  <2>5. CASE k < q /\ q <= l
    <3>1. k < q - 1
      BY <2>1, <2>5
    <3>2. p \in D[o[k]]
      BY <1>10, <3>1
    <3>3. o[l] \in D[x] /\ o[k] \notin D[x]
      BY <1>4, <1>5, <2>5
    <3> QED
      BY <1>3, <2>1, <2>2, <3>2, <3>3
  <2> QED
    BY <2>1, <2>3, <2>4, <2>5
<1> QED
  BY <1>9, <1>11 DEF Nested

(* The builder then: fe is at position si, and only there, the block above.  *)
Placed(v, si, fe, fb) ==
  /\ Sized(v) /\ si \in 1 .. Len(v.open) /\ h_stack_find(v, fe) = si
  /\ fe \in 1 .. Len(v.name) /\ fb \in 1 .. Len(v.name)
  /\ \E w \in 1 .. Len(v.open) : si < w /\ v.open[w] = fb
  /\ \E up, D : Forest(v.kids, Len(v.name), up, D) /\ Nested(RemoveAt(v.open, si), up, D)

LEMMA RejoinedIs ==
  ASSUME NEW t, NEW o, NEW si \in Nat, si >= 1, NEW fb, Going(t, o, si + 1, fb),
         NEW S, o \in Seq(S), si <= Len(o)
  PROVE  Placed(Moved(t, t.open[si + 1], Last0(SubSeq(o, 1, si - 1))), si, o[si], fb)
<1>0. PICK q \in Int : q = si + 1 /\ q > 1 /\ q - 1 = si /\ q - 2 = si - 1
  OBVIOUS
<1>1. PICK up, D : Forest(t.kids, Len(t.name), up, D) /\ HalfNested(t.open, up, D, q)
  BY <1>0 DEF Going, Halved
<1>2. /\ q \in 1 .. Len(t.open) /\ si \in 1 .. Len(t.open) /\ Len(t.open) \in Nat
      /\ h_stack_find(t, o[si]) = si /\ o[si] \in 1 .. Len(t.name)
  BY <1>0, GoingFound, ZenonT(40)
<1>3. /\ Sized(t) /\ t.open \in Seq(1 .. Len(t.name)) /\ Len(t.name) \in Nat
      /\ \A k \in 1 .. Len(t.open) : t.open[k] \in 1 .. Len(t.name)
  BY Fields DEF Going
<1>4. PICK p, x, n : p = Last0(SubSeq(o, 1, si - 1)) /\ x = t.open[q] /\ n = Len(t.name)
  OBVIOUS
<1>5. /\ si = 1 => p = 0
      /\ si > 1 => p = o[si - 1]
  <2>1. PICK a : a = SubSeq(o, 1, si - 1)
    OBVIOUS
  <2>2. si - 1 \in Int /\ si - 1 <= Len(o) /\ si - 1 \in Nat
    OBVIOUS
  <2>3. a \in Seq(S) /\ (Len(a) = IF 1 <= si - 1 THEN si - 1 ELSE 0) /\ \A j \in 1 .. si - 1 : a[j] = o[j]
    BY <2>1, <2>2, FirstPart
  <2>4. Len(a) = si - 1
    BY <2>2, <2>3
  <2>5. \/ p = 0 /\ Len(a) = 0
        \/ p = a[Len(a)] /\ Len(a) \in 1 .. Len(a)
    BY <1>4, <2>1, <2>3, TopIs
  <2> QED
    BY <2>2, <2>3, <2>4, <2>5
<1>6. q > 2 => p = t.open[q - 2] /\ q - 2 \in 1 .. Len(t.open)
  <2> SUFFICES ASSUME q > 2 PROVE p = t.open[q - 2] /\ q - 2 \in 1 .. Len(t.open)
    OBVIOUS
  <2>1. si - 1 \in 1 .. Len(t.open) /\ si - 1 < si + 1 /\ si > 1
    BY <1>0, <1>2
  <2>2. t.open[si - 1] = o[si - 1]
    BY <2>1 DEF Going
  <2> QED
    BY <1>0, <1>5, <2>1, <2>2
<1>7. p \in 0 .. n /\ p \notin D[x] /\ x \in 1 .. n
  <2>1. x \in 1 .. n /\ D[x] \subseteq 1 .. n
    <3>1. x \in 1 .. n
      BY <1>2, <1>3, <1>4
    <3> QED
      BY <1>1, <1>4, <3>1, Below
  <2>2. CASE si = 1
    BY <1>3, <1>4, <1>5, <2>1, <2>2
  <2>3. CASE si # 1
    <3>1. q > 2 /\ q - 2 < q
      BY <1>0, <2>3
    <3>2. t.open[q - 2] \notin D[t.open[q]]
      BY <1>1, <1>6, <3>1 DEF HalfNested
    <3>3. p \in 1 .. n
      BY <1>3, <1>4, <1>6, <3>1
    <3> QED
      BY <1>3, <1>4, <1>6, <2>1, <3>1, <3>2, <3>3
  <2> QED
    BY <2>2, <2>3
<1>8. PICK v : v = Moved(t, x, p)
  OBVIOUS
<1>9. Sized(v) /\ v.open = t.open /\ v.name = t.name /\ Hung(v.kids, t.kids, n, x, p)
  <2>1. x \in 1 .. Len(t.name)
    BY <1>4, <1>7
  <2>2. MovedOf(t, v, x, p)
    BY <1>1, <1>3, <1>8, <2>1, MovedIs
  <2> QED
    BY <1>4, <2>2 DEF MovedOf
<1>10. PICK u, E : /\ Forest(v.kids, n, u, E) /\ Carried(D, E, n, x, p)
                   /\ u[x] = p /\ \A y \in 1 .. n : y # x => u[y] = up[y]
  <2>1. Forest(t.kids, n, up, D)
    BY <1>1, <1>4
  <2>2. x \in 1 .. n /\ p \in 0 .. n /\ p \notin D[x]
    BY <1>4, <1>7
  <2>3. Hung(v.kids, t.kids, n, x, p)
    BY <1>9
  <2> QED
    BY <2>1, <2>2, <2>3, HungUnder
<1>11. PICK w : w = RemoveAt(v.open, si) /\ Less(t.open, si, w)
  <2>1. Less(t.open, si, RemoveAt(t.open, si))
    BY <1>2, <1>3, RemoveAtIs
  <2> QED
    BY <1>9, <2>1
<1>12. Rejoined(t.open, up, D, u, E, n, q, p)
  BY <1>4, <1>6, <1>7, <1>10 DEF Rejoined
<1>13. Nested(w, u, E)
  <2>1. Less(t.open, q - 1, w)
    BY <1>0, <1>11
  <2>2. t.open \in Seq(1 .. n) /\ Forest(t.kids, n, up, D)
    BY <1>1, <1>3, <1>4
  <2> QED
    BY <1>0, <1>1, <1>12, <2>1, <2>2, HalfRejoined
<1>14. h_stack_find(v, o[si]) = si
  BY <1>2, <1>9 DEF h_stack_find, Depth
<1>15. PICK k \in 1 .. Len(t.open) : si + 1 <= k /\ t.open[k] = fb
  BY DEF Going
<1>16. k \in 1 .. Len(v.open) /\ si < k /\ v.open[k] = fb /\ fb \in 1 .. Len(v.name)
  BY <1>2, <1>3, <1>9, <1>15
<1>17. Placed(v, si, o[si], fb)
  BY <1>2, <1>4, <1>9, <1>10, <1>11, <1>13, <1>14, <1>16 DEF Placed
<1> QED
  BY <1>0, <1>4, <1>8, <1>17

(* The copy of the formatting element, between the block and its children.   *)
AroundCopy(o, up, D, m, fb) ==
  /\ up[m] # -1
  /\ \A w \in 1 .. Len(o) : o[w] = fb =>
       \A i \in 1 .. Len(o) : o[i] # m /\ (i <= w => m \in D[o[i]]) /\ (w < i => o[i] \in D[m])

Copying(up, D, u, E, n, m, fb) ==
  /\ m = n + 1 /\ Between(D, E, m, fb, m) /\ u[m] = fb /\ \A y \in 1 .. n : y \in D[y]
  /\ \A y \in 1 .. m : y # m => u[y] = IF up[y] = fb THEN m ELSE up[y]

LEMMA BetweenCopy ==
  ASSUME NEW n \in Nat, NEW m, NEW o \in Seq(1 .. n), NEW up, NEW D, Nested(o, up, D), NEW fb \in 1 .. n,
         NEW u, NEW E, Copying(up, D, u, E, n, m, fb)
  PROVE  Nested(o, u, E) /\ AroundCopy(o, u, E, m, fb)
<1>a. /\ m = n + 1 /\ u[m] = fb /\ \A y \in 1 .. n : y \in D[y]
      /\ \A y \in 1 .. m : y # m => u[y] = IF up[y] = fb THEN m ELSE up[y]
  BY DEF Copying
<1>1. /\ \A i \in 1 .. Len(o) : o[i] \in 1 .. n /\ o[i] \in 1 .. m /\ o[i] # m
      /\ \A y \in 1 .. n : y \in 1 .. m /\ y # m /\ y # -1
      /\ m # -1 /\ Len(o) \in Nat
  BY <1>a
<1>2. /\ \A y, z \in 1 .. m : y # m /\ z # m => (z \in E[y] <=> z \in D[y])
      /\ \A y \in 1 .. m : fb \in D[y] => m \in E[y]
      /\ D[fb] \ {fb} \subseteq E[m]
  BY DEF Copying, Between
<1>3. \A i \in 1 .. Len(o) : up[o[i]] # -1
  BY DEF Nested
<1>4. ASSUME NEW i \in 1 .. Len(o), NEW j \in 1 .. Len(o), i < j
      PROVE  o[j] \in D[o[i]] /\ o[j] # o[i]
  BY <1>4 DEF Nested
<1>5. \A i \in 1 .. Len(o) : u[o[i]] # -1
  <2> SUFFICES ASSUME NEW i \in 1 .. Len(o) PROVE u[o[i]] # -1
    OBVIOUS
  <2>1. u[o[i]] = IF up[o[i]] = fb THEN m ELSE up[o[i]]
    BY <1>1, <1>a
  <2> QED
    BY <1>1, <1>3, <2>1
<1>6. Nested(o, u, E)
  <2>1. \A i, j \in 1 .. Len(o) : i < j => o[j] \in E[o[i]] /\ o[j] # o[i]
    BY <1>1, <1>2, <1>4
  <2> QED
    BY <1>5, <2>1 DEF Nested
<1>7. ASSUME NEW w \in 1 .. Len(o), o[w] = fb, NEW i \in 1 .. Len(o)
      PROVE  o[i] # m /\ (i <= w => m \in E[o[i]]) /\ (w < i => o[i] \in E[m])
  <2>1. o[i] # m /\ o[i] \in 1 .. m
    BY <1>1
  <2>2. ASSUME i <= w PROVE m \in E[o[i]]
    <3>1. fb \in D[o[i]]
      <4>1. CASE i = w
        BY <1>7, <1>a, <4>1
      <4>2. CASE i # w
        <5>1. i < w
          BY <2>2, <4>2
        <5> QED
          BY <1>4, <1>7, <5>1
      <4> QED
        BY <4>1, <4>2
    <3> QED
      BY <1>2, <2>1, <3>1
  <2>3. ASSUME w < i PROVE o[i] \in E[m]
    <3>1. o[i] \in D[fb] /\ o[i] # fb
      BY <1>4, <1>7, <2>3
    <3> QED
      BY <1>2, <3>1
  <2> QED
    BY <2>1, <2>2, <2>3
<1>8. u[m] # -1
  BY <1>1, <1>a
<1>9. AroundCopy(o, u, E, m, fb)
  BY <1>7, <1>8 DEF AroundCopy
<1> QED
  BY <1>6, <1>9

Copied(v, si, fb, c) ==
  /\ Sized(c) /\ c.open = v.open /\ c.afe = v.afe /\ Len(c.name) = Len(v.name) + 1
  /\ \E up, D : /\ Forest(c.kids, Len(c.name), up, D) /\ Nested(RemoveAt(c.open, si), up, D)
                /\ AroundCopy(RemoveAt(c.open, si), up, D, Len(c.name), fb)

LEMMA OnlyOne ==
  ASSUME NEW m
  PROVE  ToSet(<<m>>) = {m}
<1>1. PICK s : s = <<m>>
  OBVIOUS
<1>2. DOMAIN s = {1} /\ s[1] = m
  BY <1>1
<1>3. \A y : y \in ToSet(s) <=> y = m
  BY <1>2 DEF ToSet
<1> QED
  BY <1>1, <1>3

LEMMA CopyIs ==
  ASSUME NEW v, NEW si, NEW fe, NEW fb, Placed(v, si, fe, fb)
  PROVE  Copied(v, si, fb, CopyInside(v, fe, fb))
<1>1. PICK up, D : Forest(v.kids, Len(v.name), up, D) /\ Nested(RemoveAt(v.open, si), up, D)
  BY DEF Placed
<1>2. /\ Sized(v) /\ si \in 1 .. Len(v.open) /\ fe \in 1 .. Len(v.name) /\ fb \in 1 .. Len(v.name)
  BY DEF Placed
<1>3. Len(v.name) \in Nat /\ v.open \in Seq(1 .. Len(v.name)) /\ v.name[fe] \in Names
  BY <1>2, Fields
<1>4. PICK d, n, m : d = Created(v, v.name[fe]) /\ n = Len(v.name) /\ m = n + 1 /\ m = New(v)
  BY DEF New
<1>5. Sized(d) /\ d.open = v.open /\ d.afe = v.afe /\ Len(d.name) = m /\ d.kids = WithLeaf(v.kids, n)
  <2>1. CreatedOf(v, v.name[fe], d)
    BY <1>2, <1>3, <1>4, CreatedIs
  <2> QED
    BY <1>4, <2>1 DEF CreatedOf
<1>6. PICK u, E : /\ Forest(d.kids, m, u, E) /\ u[m] = -1 /\ E[m] = {m}
                  /\ \A x \in 1 .. n : u[x] = up[x] /\ E[x] = D[x]
  <2>1. Leafed(d.kids, n, m, up, D)
    BY <1>1, <1>3, <1>4, <1>5, LeafAdded
  <2> QED
    BY <2>1 DEF Leafed
<1>7. n \in Nat /\ m \in 1 .. m /\ fb \in 1 .. n /\ fb \in 1 .. m /\ fb # m /\ m \in 0 .. m /\ fb \in 0 .. m
  BY <1>2, <1>3, <1>4
<1>8. d.kids \in [0 .. m -> Seq(1 .. m)] /\ d.kids[m] = <<>> /\ d.kids[fb] = v.kids[fb]
  <2>1. d.kids \in [0 .. m -> Seq(1 .. m)]
    BY <1>6 DEF Forest
  <2>2. d.kids[m] = <<>> /\ d.kids[fb] = v.kids[fb]
    BY <1>4, <1>5, <1>7 DEF WithLeaf
  <2> QED
    BY <2>1, <2>2
<1>9. PICK c, k : /\ c = CopyInside(v, fe, fb)
                  /\ k = [q \in 0 .. m |-> IF q = fb THEN <<m>> ELSE IF q = m THEN v.kids[fb] ELSE d.kids[q]]
  OBVIOUS
<1>10. c = [open |-> d.open, ids |-> d.ids, afe |-> d.afe, kids |-> k, name |-> d.name, body_seen |-> d.body_seen]
  <2>1. c = [d EXCEPT !.kids[fb] = <<m>>, !.kids[m] = v.kids[fb]]
    BY <1>4, <1>9 DEF CopyInside
  <2>2. d = [open |-> d.open, ids |-> d.ids, afe |-> d.afe, kids |-> d.kids, name |-> d.name, body_seen |-> d.body_seen]
    BY <1>5 DEF Sized
  <2>3. [[d.kids EXCEPT ![fb] = <<m>>] EXCEPT ![m] = v.kids[fb]] = k
    BY <1>7, <1>8, <1>9
  <2> QED
    BY <2>1, <2>2, <2>3
<1>11. Sized(c) /\ c.open = v.open /\ c.afe = v.afe /\ c.name = d.name /\ c.kids = k
  BY <1>5, <1>10 DEF Sized
<1>12. Wrapped(k, d.kids, m, fb, m)
  <2>1. k \in [0 .. m -> Seq(1 .. m)]
    <3>1. <<m>> \in Seq(1 .. m)
      BY <1>7
    <3>2. v.kids[fb] \in Seq(1 .. m)
      BY <1>7, <1>8
    <3> QED
      BY <1>8, <1>9, <3>1, <3>2
  <2>2. ASSUME NEW q \in 0 .. m, NEW y \in 1 .. m
        PROVE  y \in ToSet(k[q]) <=> IF q = fb THEN y = m
                                     ELSE IF q = m THEN y \in ToSet(d.kids[fb]) ELSE y \in ToSet(d.kids[q])
    <3>1. CASE q = fb
      BY <1>9, <3>1, OnlyOne
    <3>2. CASE q = m /\ q # fb
      BY <1>8, <1>9, <3>2
    <3>3. CASE q # m /\ q # fb
      BY <1>9, <3>3
    <3> QED
      BY <3>1, <3>2, <3>3
  <2> QED
    BY <2>1, <2>2 DEF Wrapped
<1>13. PICK u2, E2 : /\ Forest(k, m, u2, E2) /\ Between(E, E2, m, fb, m)
                     /\ \A y \in 1 .. m : y # m => u2[y] = IF u[y] = fb THEN m ELSE u[y]
  BY <1>6, <1>7, <1>8, <1>12, WrappedUnder
<1>14. u2[m] = fb
  <2>1. m \in ToSet(k[fb])
    BY <1>7, <1>12 DEF Wrapped
  <2> QED
    BY <1>7, <1>13, <2>1 DEF Forest
<1>15. PICK o : o = RemoveAt(v.open, si) /\ o \in Seq(1 .. n)
  BY <1>2, <1>3, <1>4, RemoveAtIs
<1>16. Nested(o, u, E)
  <2>1. Nested(o, up, D)
    BY <1>1, <1>15
  <2>2. \A i \in 1 .. Len(o) : o[i] \in 1 .. n
    BY <1>7, <1>15
  <2> QED
    BY <1>6, <2>1, <2>2 DEF Nested
<1>17. \A y \in 1 .. n : y \in E[y]
  <2>1. \A y \in 1 .. n : y \in 1 .. m
    BY <1>4, <1>7
  <2> QED
    BY <1>6, <2>1, Below
<1>18. Nested(o, u2, E2) /\ AroundCopy(o, u2, E2, m, fb)
  <2>1. Copying(u, E, u2, E2, n, m, fb)
    BY <1>4, <1>13, <1>14, <1>17 DEF Copying
  <2> QED
    BY <1>7, <1>15, <1>16, <2>1, BetweenCopy
<1>19. Copied(v, si, fb, c)
  BY <1>4, <1>5, <1>11, <1>13, <1>15, <1>18 DEF Copied
<1> QED
  BY <1>9, <1>19

(* The formatting element leaves the stack, its copy enters above the block. *)
LEMMA CopyNested ==
  ASSUME NEW S, NEW o \in Seq(S), NEW up, NEW D, Nested(o, up, D), NEW m, NEW fb, AroundCopy(o, up, D, m, fb),
         NEW w \in 1 .. Len(o), o[w] = fb, NEW v, More(o, w + 1, m, v)
  PROVE  Nested(v, up, D)
<1>1. /\ Len(v) = Len(o) + 1 /\ Len(o) \in Nat
      /\ \A j \in 1 .. Len(v) : v[j] = IF j < w + 1 THEN o[j] ELSE IF j = w + 1 THEN m ELSE o[j - 1]
  BY DEF More
<1>2. /\ up[m] # -1
      /\ \A i \in 1 .. Len(o) : o[i] # m /\ (i <= w => m \in D[o[i]]) /\ (w < i => o[i] \in D[m])
  BY DEF AroundCopy
<1>3. PICK f : f = [j \in 1 .. Len(v) |-> IF j < w + 1 THEN j ELSE j - 1]
  OBVIOUS
<1>4. /\ \A j \in 1 .. Len(v) : j # w + 1 => f[j] \in 1 .. Len(o) /\ v[j] = o[f[j]]
      /\ \A j \in 1 .. Len(v) : j < w + 1 => f[j] <= w
      /\ \A j \in 1 .. Len(v) : w + 1 < j => w < f[j]
      /\ \A i, j \in 1 .. Len(v) : i < j /\ i # w + 1 /\ j # w + 1 => f[i] < f[j]
      /\ w + 1 \in 1 .. Len(v) /\ v[w + 1] = m
  BY <1>1, <1>3
<1>5. /\ \A i \in 1 .. Len(o) : up[o[i]] # -1
      /\ \A i, j \in 1 .. Len(o) : i < j => o[j] \in D[o[i]] /\ o[j] # o[i]
  BY DEF Nested
<1>6. ASSUME NEW i \in 1 .. Len(v) PROVE up[v[i]] # -1
  <2>1. CASE i = w + 1
    BY <1>2, <1>4, <2>1
  <2>2. CASE i # w + 1
    BY <1>4, <1>5, <2>2
  <2> QED
    BY <2>1, <2>2
<1>7. ASSUME NEW i \in 1 .. Len(v), NEW j \in 1 .. Len(v), i < j PROVE v[j] \in D[v[i]] /\ v[j] # v[i]
  <2>1. CASE i = w + 1
    <3>1. w + 1 < j /\ j # w + 1
      BY <1>7, <2>1
    <3>2. f[j] \in 1 .. Len(o) /\ v[j] = o[f[j]] /\ w < f[j]
      BY <1>4, <3>1
    <3> QED
      BY <1>2, <1>4, <2>1, <3>2
  <2>2. CASE j = w + 1
    <3>1. i < w + 1 /\ i # w + 1
      BY <1>7, <2>2
    <3>2. f[i] \in 1 .. Len(o) /\ v[i] = o[f[i]] /\ f[i] <= w
      BY <1>4, <3>1
    <3> QED
      BY <1>2, <1>4, <2>2, <3>2
  <2>3. CASE i # w + 1 /\ j # w + 1
    <3>1. f[i] \in 1 .. Len(o) /\ v[i] = o[f[i]] /\ f[j] \in 1 .. Len(o) /\ v[j] = o[f[j]] /\ f[i] < f[j]
      BY <1>4, <1>7, <2>3
    <3> QED
      BY <1>5, <3>1
  <2> QED
    BY <2>1, <2>2, <2>3
<1> QED
  BY <1>6, <1>7 DEF Nested

SwappedOf(s, si, fb, m, t) ==
  /\ Sized(t) /\ t.kids = s.kids /\ t.name = s.name
  /\ \E w \in 1 .. Len(RemoveAt(s.open, si)) :
       RemoveAt(s.open, si)[w] = fb /\ More(RemoveAt(s.open, si), w + 1, m, t.open)

LEMMA SwapIs ==
  ASSUME NEW s, Sized(s), NEW si \in 1 .. Len(s.open), NEW fe, h_stack_find(s, fe) = si, NEW fb,
         NEW k \in 1 .. Len(s.open), si < k, s.open[k] = fb, NEW m \in 1 .. Len(s.name)
  PROVE  SwappedOf(s, si, fb, m, SwapOpen(s, fe, fb, m))
<1>1. /\ s.name \in Seq(Names) /\ s.open \in Seq(1 .. Len(s.name)) /\ s.afe \in Seq(0 .. Len(s.name))
      /\ s.ids \in Seq(Ids) /\ Len(s.ids) = Len(s.open) /\ Len(s.open) \in Nat
      /\ Len(s.open) <= DepthCap /\ Len(s.afe) <= AfeCap /\ DepthCap \in Nat
  BY Fields
<1>2. PICK o, d, r : /\ o = RemoveAt(s.open, si) /\ d = RemoveAt(s.ids, si)
                     /\ r = [s EXCEPT !.open = o, !.ids = d]
  OBVIOUS
<1>3. o \in Seq(1 .. Len(s.name)) /\ Less(s.open, si, o)
  BY <1>1, <1>2, RemoveAtIs
<1>a. Len(o) = Len(s.open) - 1 /\ \A j \in 1 .. Len(o) : o[j] = IF j < si THEN s.open[j] ELSE s.open[j + 1]
  BY <1>3 DEF Less
<1>4. d \in Seq(Ids) /\ Len(d) = Len(s.open) - 1
  <2>1. d \in Seq(Ids) /\ Less(s.ids, si, d)
    BY <1>1, <1>2, RemoveAtIs
  <2> QED
    BY <1>1, <2>1 DEF Less
<1>5. r = [open |-> o, ids |-> d, afe |-> s.afe, kids |-> s.kids, name |-> s.name, body_seen |-> s.body_seen]
  BY <1>2 DEF Sized
<1>6. Sized(r) /\ r.open = o
  BY <1>1, <1>3, <1>4, <1>5, <1>a, SMTT(30) DEF Sized
<1>7. k - 1 \in 1 .. Len(o) /\ o[k - 1] = fb
  <2>1. k - 1 \in 1 .. Len(o) /\ ~(k - 1 < si) /\ (k - 1) + 1 = k
    BY <1>1, <1>a
  <2> QED
    BY <1>a, <2>1
<1>8. PICK w : w = h_stack_find(r, fb)
  OBVIOUS
<1>9. w \in 1 .. Len(o) /\ o[w] = fb
  <2>1. w \in 0 .. Len(o) /\ w # 0 /\ o[w] = fb
    BY <1>6, <1>7, <1>8, FoundAt
  <2> QED
    BY <1>1, <1>a, <2>1
<1>10. PICK e, p, i, t : /\ e = s.ids[si] /\ p = InsertAt(o, w + 1, m) /\ i = InsertAt(d, w + 1, e)
                         /\ t = SwapOpen(s, fe, fb, m)
  OBVIOUS
<1>11. e \in Ids /\ w + 1 \in 1 .. Len(o) + 1 /\ w + 1 \in 1 .. Len(d) + 1
  <2>1. si \in 1 .. Len(s.ids) /\ Len(o) \in Nat /\ Len(d) = Len(o)
    BY <1>1, <1>4, <1>a
  <2>2. e \in Ids
    BY <1>1, <1>10, <2>1
  <2> QED
    BY <1>9, <2>1, <2>2
<1>12. p \in Seq(1 .. Len(s.name)) /\ More(o, w + 1, m, p)
  BY <1>3, <1>10, <1>11, InsertAtIs
<1>13. i \in Seq(Ids) /\ More(d, w + 1, e, i)
  BY <1>4, <1>10, <1>11, InsertAtIs
<1>14. Len(p) = Len(s.open) /\ Len(i) = Len(s.open)
  BY <1>1, <1>4, <1>12, <1>13, <1>a DEF More
<1>15. t = [open |-> p, ids |-> i, afe |-> s.afe, kids |-> s.kids, name |-> s.name, body_seen |-> s.body_seen]
  <2>1. t = [r EXCEPT !.open = p, !.ids = i]
    <3>1. t = InsertOpen(r, fb, m, e)
      BY <1>2, <1>10 DEF SwapOpen
    <3>2. InsertOpen(r, fb, m, e) = [r EXCEPT !.open = InsertAt(@, w + 1, m), !.ids = InsertAt(@, w + 1, e)]
      <4>1. w \in Nat /\ w # 0 /\ ~(w + 1 = 1)
        BY <1>1, <1>9, <1>a
      <4>2. ~(Depth(r) >= DepthCap)
        BY <1>1, <1>6, <1>a DEF Depth
      <4> QED
        BY <1>8, <4>1, <4>2 DEF InsertOpen
    <3> QED
      BY <1>5, <1>10, <3>1, <3>2
  <2> QED
    BY <1>5, <2>1
<1>16. Sized(t) /\ t.kids = s.kids /\ t.name = s.name /\ t.open = p
  BY <1>1, <1>12, <1>13, <1>14, <1>15 DEF Sized
<1>17. SwappedOf(s, si, fb, m, t)
  BY <1>2, <1>9, <1>12, <1>16 DEF SwappedOf
<1> QED
  BY <1>10, <1>17

LEMMA ReplaceSound ==
  ASSUME NEW v, NEW si, NEW fe, NEW fb, Placed(v, si, fe, fb), NEW fi \in Nat, fi >= 1,
         NEW mark \in Nat, mark >= 1
  PROVE  Sound(Replace(v, fe, fb, fi, mark))
<1>1. PICK c, m : c = CopyInside(v, fe, fb) /\ m = New(v) /\ m = Len(v.name) + 1 /\ Copied(v, si, fb, c)
  BY CopyIs DEF New
<1>2. Sized(c) /\ c.open = v.open /\ Len(c.name) = m
  BY <1>1 DEF Copied
<1>3. PICK t : t = h_afe_remove_idx(c, fi) /\ ListOnly(c, t)
  BY <1>2, RemoveIdxIs
<1>4. Sized(t) /\ Len(t.afe) \in Nat
  BY <1>3, Fields DEF ListOnly
<1>5. PICK at : at = Min({IF mark > fi THEN mark - 1 ELSE mark, Len(t.afe) + 1})
  OBVIOUS
<1>6. at \in 1 .. Len(t.afe) + 1
  <2>1. PICK k : k = (IF mark > fi THEN mark - 1 ELSE mark) /\ k \in Nat /\ k >= 1
    OBVIOUS
  <2>2. PICK T : T = {k, Len(t.afe) + 1}
    OBVIOUS
  <2>3. T \in SUBSET Nat /\ T # {} /\ \A y \in T : y >= 1
    BY <1>4, <2>1, <2>2
  <2>4. at = Min(T)
    BY <1>5, <2>1, <2>2
  <2>5. at \in T /\ \A y \in T : at <= y
    BY <2>3, <2>4, LeastOf
  <2> QED
    BY <1>4, <2>2, <2>3, <2>5
<1>7. PICK u : u = AfePut(t, at, m) /\ ListOnly(t, u)
  <2>1. m \in 0 .. Len(t.name)
    <3>1. Len(t.name) = m /\ Len(t.name) \in Nat
      BY <1>2, <1>3, <1>4, Fields DEF ListOnly
    <3> QED
      BY <3>1
  <2> QED
    BY <1>4, <1>6, <2>1, AfePutIs
<1>8. ListOnly(c, u)
  BY <1>3, <1>7, ListOnlyTwice
<1>9. Sized(u) /\ u.open = v.open /\ u.name = c.name /\ u.kids = c.kids
  BY <1>2, <1>8 DEF ListOnly
<1>10. PICK z : z = Replace(v, fe, fb, fi, mark)
  OBVIOUS
<1>11. z = SwapOpen(u, fe, fb, m)
  BY <1>1, <1>3, <1>5, <1>7, <1>10 DEF Replace
<1>12. SwappedOf(u, si, fb, m, z)
  <2>1. si \in 1 .. Len(u.open) /\ h_stack_find(u, fe) = si
    BY <1>9 DEF Placed, h_stack_find, Depth
  <2>2. PICK k \in 1 .. Len(u.open) : si < k /\ u.open[k] = fb
    BY <1>9 DEF Placed
  <2>3. m \in 1 .. Len(u.name)
    <3>1. Len(u.name) = m /\ Len(v.name) \in Nat
      BY <1>2, <1>9, Fields DEF Placed
    <3> QED
      BY <1>1, <3>1
  <2> QED
    BY <1>9, <1>11, <2>1, <2>2, <2>3, SwapIs
<1>13. PICK up, D : /\ Forest(c.kids, Len(c.name), up, D) /\ Nested(RemoveAt(c.open, si), up, D)
                    /\ AroundCopy(RemoveAt(c.open, si), up, D, Len(c.name), fb)
  BY <1>1 DEF Copied
<1>14. PICK o : o = RemoveAt(u.open, si) /\ o \in Seq(1 .. Len(u.name))
  <2>1. u.open \in Seq(1 .. Len(u.name)) /\ si \in 1 .. Len(u.open)
    BY <1>9, Fields DEF Placed
  <2> QED
    BY <2>1, RemoveAtIs
<1>15. PICK w \in 1 .. Len(o) : o[w] = fb /\ More(o, w + 1, m, z.open)
  BY <1>12, <1>14 DEF SwappedOf
<1>16. Nested(o, up, D) /\ AroundCopy(o, up, D, m, fb)
  BY <1>2, <1>9, <1>13, <1>14
<1>17. Nested(z.open, up, D)
  BY <1>14, <1>15, <1>16, CopyNested
<1>18. Sized(z) /\ z.kids = c.kids /\ z.name = c.name
  BY <1>9, <1>12 DEF SwappedOf
<1>19. Sound(z)
  BY <1>13, <1>17, <1>18 DEF Sound, Upright
<1> QED
  BY <1>10, <1>19

LEMMA RoundSound ==
  ASSUME NEW s, Sound(s), NEW subject
  PROVE  Sound(Round(s, subject).s)
<1>1. PICK fi, fe, si : fi = h_afe_find(s, subject) /\ fe = s.afe[fi] /\ si = h_stack_find(s, fe)
  OBVIOUS
<1>2. Sized(s) /\ Depth(s) = Len(s.open) /\ Len(s.open) \in Nat /\ s.open \in Seq(1 .. Len(s.name))
      /\ \A i \in 1 .. Len(s.open) : s.open[i] \in 1 .. Len(s.name)
  BY Fields DEF Sound
<1>3. fi \in 0 .. Len(s.afe) /\ Len(s.afe) \in Nat /\ si \in 0 .. Len(s.open)
  BY <1>1, <1>2, AfeFindIs, FoundAt, Fields
<1>4. PICK blocks, p : /\ blocks = {k \in (si + 1) .. Depth(s) : NameOf(s)[k] \in Special} /\ p = Min(blocks)
  OBVIOUS
<1>5. PICK r, ancestor : r = InnerLoop(s, si, p, fi) /\ ancestor = Last0(SubSeq(s.open, 1, si - 1))
  OBVIOUS
<1>6. PICK a : a = Round(s, subject)
  OBVIOUS
<1>7. a = IF fi = 0 THEN [s |-> s, over |-> TRUE, consumed |-> FALSE]
          ELSE IF si = 0 \/ OutOfScope(s, s.ids, si)
               THEN [s |-> h_afe_remove_idx(s, fi), over |-> TRUE, consumed |-> TRUE]
          ELSE IF blocks = {}
               THEN [s |-> h_afe_remove_idx(PopTo(s, si - 1), fi), over |-> TRUE, consumed |-> TRUE]
          ELSE [s |-> Replace(Moved(r.s, r.last, ancestor), fe, s.open[p], fi, r.bookmark),
                over |-> FALSE, consumed |-> TRUE]
  BY <1>1, <1>4, <1>5, <1>6, Zenon DEF Round
<1>8. CASE fi = 0
  BY <1>6, <1>7, <1>8
<1>9. CASE fi # 0 /\ (si = 0 \/ OutOfScope(s, s.ids, si))
  <2>1. a.s = h_afe_remove_idx(s, fi)
    BY <1>7, <1>9
  <2>2. ListOnly(s, h_afe_remove_idx(s, fi))
    BY <1>2, RemoveIdxIs
  <2> QED
    BY <1>6, <2>1, <2>2, ListOnlySound
<1>10. CASE fi # 0 /\ ~(si = 0 \/ OutOfScope(s, s.ids, si)) /\ blocks = {}
  <2>1. PICK t : t = PopTo(s, si - 1) /\ a.s = h_afe_remove_idx(t, fi)
    BY <1>7, <1>10
  <2>2. Sound(t)
    <3>1. si - 1 \in Int /\ si - 1 <= Depth(s)
      BY <1>2, <1>3
    <3> QED
      BY <2>1, <3>1, PopToSound
  <2>3. ListOnly(t, h_afe_remove_idx(t, fi))
    BY <2>2, RemoveIdxIs DEF Sound
  <2> QED
    BY <1>6, <2>1, <2>2, <2>3, ListOnlySound
<1>11. CASE fi # 0 /\ ~(si = 0 \/ OutOfScope(s, s.ids, si)) /\ blocks # {}
  <2>1. si \in Nat /\ si >= 1 /\ si \in 1 .. Len(s.open) /\ fi \in Nat /\ fi >= 1
    BY <1>2, <1>3, <1>11
  <2>2. p \in 1 .. Len(s.open) /\ si < p
    <3>1. blocks \in SUBSET Nat
      BY <1>2, <1>4, <2>1
    <3>2. p \in blocks
      BY <1>4, <1>11, <3>1, LeastOf
    <3> QED
      BY <1>2, <1>4, <2>1, <3>2
  <2>3. PICK fb : fb = s.open[p]
    OBVIOUS
  <2>4. Turn(r, s.open, si + 1, fb)
    BY <1>5, <2>1, <2>2, <2>3, InnerLoopIs
  <2>5. Going(r.s, s.open, si + 1, fb) /\ r.last = r.s.open[si + 1] /\ r.bookmark \in Nat /\ r.bookmark >= 1
    BY <2>4 DEF Turn
  <2>6. s.open[si] = fe
    BY <1>1, <1>2, <2>1, FoundAt
  <2>7. PICK v : v = Moved(r.s, r.last, ancestor)
    OBVIOUS
  <2>8. Placed(v, si, s.open[si], fb)
    <3>1. si <= Len(s.open)
      BY <1>2, <2>1
    <3>2. v = Moved(r.s, r.s.open[si + 1], Last0(SubSeq(s.open, 1, si - 1)))
      BY <1>5, <2>5, <2>7
    <3> QED
      BY <1>2, <2>1, <2>5, <3>1, <3>2, RejoinedIs
  <2>9. Sound(Replace(v, fe, fb, fi, r.bookmark))
    BY <2>1, <2>5, <2>6, <2>8, ReplaceSound
  <2>10. a.s = Replace(v, fe, fb, fi, r.bookmark)
    BY <1>7, <1>11, <2>3, <2>7
  <2> QED
    BY <1>6, <2>9, <2>10
<1> QED
  BY <1>8, <1>9, <1>10, <1>11

(* The rounds of the outer loop.                                             *)
AgencyLevels(f, r, subject, n) == f = [k \in 0 .. n |->
  IF k = 0 THEN r ELSE IF f[k - 1].over THEN f[k - 1] ELSE Round(f[k - 1].s, subject)]

LEMMA AgencyNext ==
  ASSUME NEW r, NEW subject, NEW n \in Nat, NEW f, AgencyLevels(f, r, subject, n)
  PROVE  \E g : AgencyLevels(g, r, subject, n + 1)
<1> DEFINE step(k) == IF k = 0 THEN r ELSE IF f[k - 1].over THEN f[k - 1] ELSE Round(f[k - 1].s, subject)
           g == [k \in 0 .. n + 1 |-> step(k)]
<1>1. f = [k \in 0 .. n |-> step(k)]
  BY DEF AgencyLevels
<1>2. \A k \in 0 .. n : g[k] = f[k]
  <2> HIDE DEF step
  <2> QED
    BY <1>1
<1>3. \A k \in 0 .. n + 1 : k # 0 => k - 1 \in 0 .. n
  OBVIOUS
<1>4. \A k \in 0 .. n + 1 : step(k) =
        IF k = 0 THEN r ELSE IF g[k - 1].over THEN g[k - 1] ELSE Round(g[k - 1].s, subject)
  <2> HIDE DEF g
  <2> QED
    BY <1>2, <1>3
<1>5. g = [k \in 0 .. n + 1 |->
        IF k = 0 THEN r ELSE IF g[k - 1].over THEN g[k - 1] ELSE Round(g[k - 1].s, subject)]
  BY <1>4
<1> HIDE DEF g
<1> QED
  BY <1>5 DEF AgencyLevels

Rounds(s, subject, f) ==
  /\ Agency(s, subject) = f[OuterCap] /\ f[0] = [s |-> s, over |-> FALSE, consumed |-> TRUE]
  /\ \A k \in 1 .. OuterCap : f[k] = IF f[k - 1].over THEN f[k - 1] ELSE Round(f[k - 1].s, subject)

LEMMA AgencySteps ==
  ASSUME NEW s, NEW subject
  PROVE  \E f : Rounds(s, subject, f)
<1>0. PICK N, r : N = OuterCap /\ N \in Nat /\ r = [s |-> s, over |-> FALSE, consumed |-> TRUE]
  BY HtmlCaps
<1> DEFINE T == {n \in Nat : \E f : AgencyLevels(f, r, subject, n)}
<1>1. 0 \in T
  <2>1. PICK f : f = [k \in 0 .. 0 |-> r]
    OBVIOUS
  <2>2. f = [k \in 0 .. 0 |-> IF k = 0 THEN r ELSE IF f[k - 1].over THEN f[k - 1] ELSE Round(f[k - 1].s, subject)]
    <3>1. \A k \in 0 .. 0 : k = 0
      OBVIOUS
    <3> QED
      BY <2>1, <3>1, Zenon
  <2> QED
    BY <2>2 DEF AgencyLevels
<1>2. ASSUME NEW n \in 0 .. N - 1, n \in T PROVE n + 1 \in T
  <2>1. n \in Nat /\ n + 1 \in Nat
    BY <1>0
  <2>2. PICK f : AgencyLevels(f, r, subject, n)
    BY <1>2
  <2>3. \E g : AgencyLevels(g, r, subject, n + 1)
    BY <2>1, <2>2, AgencyNext
  <2> QED
    BY <2>1, <2>3
<1>3. N \in T
  <2> HIDE DEF T
  <2> QED
    BY <1>0, <1>1, <1>2, UpTo, N \in 0 .. N
<1> DEFINE after == CHOOSE f : AgencyLevels(f, r, subject, N)
<1>4. AgencyLevels(after, r, subject, N)
  BY <1>3
<1>5. Agency(s, subject) = after[N]
  BY <1>0 DEF Agency, AgencyLevels
<1> HIDE DEF after
<1>6. PICK f : f = after /\ AgencyLevels(f, r, subject, N)
  BY <1>4
<1>7. \A k \in 0 .. N : f[k] = IF k = 0 THEN r ELSE IF f[k - 1].over THEN f[k - 1] ELSE Round(f[k - 1].s, subject)
  BY <1>6 DEF AgencyLevels
<1>8. (\A k \in 1 .. N : k \in 0 .. N /\ k # 0) /\ 0 \in 0 .. N
  BY <1>0
<1>9. f[0] = r /\ \A k \in 1 .. N : f[k] = IF f[k - 1].over THEN f[k - 1] ELSE Round(f[k - 1].s, subject)
  BY <1>7, <1>8
<1>10. Rounds(s, subject, f)
  BY <1>0, <1>5, <1>6, <1>9 DEF Rounds
<1> QED
  BY <1>10

LEMMA AgencySound ==
  ASSUME NEW s, Sound(s), NEW subject
  PROVE  Sound(Agency(s, subject).s)
<1>0. PICK N : N = OuterCap /\ N \in Nat
  BY HtmlCaps
<1>1. PICK f : Rounds(s, subject, f)
  BY AgencySteps
<1> DEFINE T == {k \in 0 .. N : Sound(f[k].s)}
<1>2. 0 \in T
  <2>1. f[0].s = s
    BY <1>1 DEF Rounds
  <2> QED
    BY <1>0, <2>1
<1>3. ASSUME NEW k \in 0 .. N - 1, k \in T PROVE k + 1 \in T
  <2>1. k + 1 \in 1 .. N /\ k + 1 \in 0 .. N /\ (k + 1) - 1 = k
    BY <1>0
  <2>2. f[k + 1] = IF f[k].over THEN f[k] ELSE Round(f[k].s, subject)
    BY <1>0, <1>1, <2>1 DEF Rounds
  <2>3. Sound(Round(f[k].s, subject).s)
    BY <1>3, RoundSound
  <2> QED
    BY <1>3, <2>1, <2>2, <2>3
<1>4. N \in T
  <2> HIDE DEF T
  <2> QED
    BY <1>0, <1>2, <1>3, UpTo, N \in 0 .. N
<1> QED
  BY <1>0, <1>1, <1>4 DEF Rounds

-----------------------------------------------------------------------------
(* Tokens.                                                                   *)
LEMMA AfeEndSound ==
  ASSUME NEW s, Sound(s), NEW subject
  PROVE  Sound(h_afe_end(s, subject).s)
<1>1. Depth(s) - 1 \in Int /\ Depth(s) - 1 <= Depth(s)
  BY Fields DEF Sound
<1>2. Sound(PopTo(s, Depth(s) - 1))
  BY <1>1, PopToSound
<1> QED
  BY <1>2, AgencySound DEF h_afe_end

LEMMA ClosePSound ==
  ASSUME NEW s, Sound(s)
  PROVE  Sound(CloseP(s))
<1>1. Depth(s) \in Nat
  BY Fields DEF Sound
<1>2. PICK t : t = IF PInScope(s) # 0 THEN PopTo(s, PInScope(s) - 1) ELSE s
  OBVIOUS
<1>3. Sound(t)
  <2>1. CASE PInScope(s) = 0
    BY <1>2, <2>1
  <2>2. CASE PInScope(s) # 0
    <3>1. PICK c : c = {i \in 1 .. Depth(s) : s.ids[i] \in {"p"} \cup ScopeEnds}
      OBVIOUS
    <3>2. PInScope(s) = Max(c) /\ c # {}
      BY <2>2, <3>1 DEF PInScope
    <3>3. c \in SUBSET (0 .. Depth(s))
      BY <1>1, <3>1
    <3>4. Max(c) \in c
      BY <1>1, <3>2, <3>3, GreatestOf
    <3>5. PInScope(s) - 1 \in Int /\ PInScope(s) - 1 <= Depth(s)
      <4>1. Max(c) \in 0 .. Depth(s)
        BY <3>3, <3>4
      <4>2. PInScope(s) \in 0 .. Depth(s)
        BY <3>2, <4>1
      <4> QED
        BY <1>1, <4>2
    <3> QED
      BY <1>2, <2>2, <3>5, PopToSound
  <2> QED
    BY <2>1, <2>2
<1>4. Depth(t) \in Nat
  BY <1>3, Fields DEF Sound
<1>5. PICK c : c = {0} \cup {i \in 1 .. Depth(t) : t.ids[i] # "p"}
  OBVIOUS
<1>6. c \in SUBSET (0 .. Depth(t)) /\ c # {}
  BY <1>4, <1>5
<1>7. Max(c) \in c
  BY <1>4, <1>6, GreatestOf
<1>8. Max(c) \in Int /\ Max(c) <= Depth(t)
  <2>1. Max(c) \in 0 .. Depth(t)
    BY <1>6, <1>7
  <2> QED
    BY <1>4, <2>1
<1>9. CloseP(s) = PopTo(t, Max(c))
  BY <1>2, <1>5 DEF CloseP
<1> QED
  BY <1>3, <1>8, <1>9, PopToSound

LEMMA CloseOldASound ==
  ASSUME NEW s, Sound(s)
  PROVE  Sound(CloseOldA(s))
<1>1. PICK t, left : t = h_afe_end(s, "a").s /\ left = h_afe_find(t, "a")
  OBVIOUS
<1>2. Sound(t)
  BY <1>1, AfeEndSound
<1>3. PICK u : u = h_afe_remove_idx(t, left)
  OBVIOUS
<1>4. Sound(u)
  BY <1>2, <1>3, RemoveIdxIs, ListOnlySound DEF Sound
<1>5. Sound(DropOpen(u, t.afe[left]))
  BY <1>4, DropOpenSound
<1>6. CloseOldA(s) \in {s, t, DropOpen(u, t.afe[left])}
  BY <1>1, <1>3 DEF CloseOldA
<1> QED
  BY <1>2, <1>5, <1>6

LEMMA ListedSound ==
  ASSUME NEW s, Sound(s), NEW n, NEW e \in 0 .. Len(s.name)
  PROVE  Sound(Listed(s, n, e))
<1>1. Sized(s)
  BY DEF Sound
<1>2. ListOnly(s, h_afe_push(s, e)) /\ ListOnly(s, h_afe_marker_push(s))
  BY <1>1, AfePushIs, MarkerPushIs
<1>3. Sound(h_afe_push(s, e)) /\ Sound(h_afe_marker_push(s))
  BY <1>2, ListOnlySound
<1> QED
  BY <1>3 DEF Listed

LEMMA AnyOtherEndSound ==
  ASSUME NEW s, Sound(s), NEW n
  PROVE  Sound(AnyOtherEnd(s, n))
<1>1. PICK stops, d, t : /\ stops = {k \in 1 .. Depth(s) : NameOf(s)[k] = n \/ NameOf(s)[k] \in Fences(n)}
                         /\ d = Max(stops) /\ t = PopTo(s, d - 1)
  OBVIOUS
<1>2. AnyOtherEnd(s, n) = s \/ (stops # {} /\ AnyOtherEnd(s, n) \in {t, h_afe_clear_to_marker(t)})
  BY <1>1 DEF AnyOtherEnd
<1>3. CASE stops # {}
  <2>1. Depth(s) \in Nat
    BY Fields DEF Sound
  <2>2. stops \in SUBSET (0 .. Depth(s))
    BY <1>1, <2>1
  <2>3. d \in stops
    BY <1>1, <1>3, <2>1, <2>2, GreatestOf
  <2>4. d - 1 \in Int /\ d - 1 <= Depth(s)
    BY <2>1, <2>2, <2>3
  <2>5. Sound(t)
    BY <1>1, <2>4, PopToSound
  <2>6. Sized(t)
    BY <2>5 DEF Sound
  <2>7. ListOnly(t, h_afe_clear_to_marker(t))
    BY <2>6, ClearIs
  <2>8. Sound(h_afe_clear_to_marker(t))
    BY <2>5, <2>7, ListOnlySound
  <2> QED
    BY <1>2, <2>5, <2>8
<1> QED
  BY <1>2, <1>3

LEMMA TextSound ==
  ASSUME Sound(b), Text
  PROVE  Sound(b')
<1>1. PICK s, t : s = h_reconstruct(b) /\ t = Appended(s, "#text")
  OBVIOUS
<1>2. Sound(s)
  BY <1>1, ReconstructSound
<1>3. AppendedOf(s, t)
  BY <1>1, <1>2, AppendedIs DEF Names
<1>4. Sound(t)
  BY <1>3 DEF AppendedOf, Sound, Upright
<1>5. b' = t
  BY <1>1 DEF Text, Appended
<1>6. PICK v : v = b'
  OBVIOUS
<1> QED
  BY <1>4, <1>5

LEMMA StartTagSound ==
  ASSUME Sound(b), NEW n \in Tags, StartTag(n)
  PROVE  Sound(b')
<1>1. PICK s, t, u, v, w : /\ s = [b EXCEPT !.body_seen = TRUE]
                           /\ t = IF n \in ClosesP THEN CloseP(s) ELSE s
                           /\ u = IF n = "a" THEN CloseOldA(t) ELSE t
                           /\ v = IF n \in Reconstructs THEN h_reconstruct(u) ELSE u
                           /\ w = h_open_element(v, n)
  OBVIOUS
<1>2. Sound(s)
  <2>1. s = [open |-> b.open, ids |-> b.ids, afe |-> b.afe, kids |-> b.kids, name |-> b.name, body_seen |-> TRUE]
    BY <1>1 DEF Sound, Sized
  <2>2. Sized(b)
    BY DEF Sound
  <2>3. Sized(s) /\ s.kids = b.kids /\ s.name = b.name /\ s.open = b.open
    BY <2>1, <2>2 DEF Sized
  <2>4. ListOnly(b, s)
    BY <2>3 DEF ListOnly
  <2> QED
    BY <2>4, ListOnlySound
<1>3. Sound(t)
  BY <1>1, <1>2, ClosePSound
<1>4. Sound(u)
  BY <1>1, <1>3, CloseOldASound
<1>5. Sound(v)
  BY <1>1, <1>4, ReconstructSound
<1>6. Sound(w) /\ Len(w.name) = Len(v.name) + 1
  <2>1. n \in Names
    BY DEF Names
  <2> QED
    BY <1>1, <1>5, <2>1, OpenedIs DEF OpenedOf
<1>7. New(v) \in 0 .. Len(w.name)
  BY <1>5, <1>6, Fields DEF New, Sound
<1>8. Sound(Listed(w, n, New(v)))
  BY <1>6, <1>7, ListedSound
<1>9. b' = Listed(w, n, New(v))
  BY <1>1, Zenon DEF StartTag
<1> QED
  BY <1>8, <1>9

LEMMA EndTagSound ==
  ASSUME Sound(b), NEW n, EndTag(n)
  PROVE  Sound(b')
<1>1. PICK t : t = h_open_element(b, "p")
  OBVIOUS
<1>2. Sound(t)
  BY <1>1, OpenedIs DEF OpenedOf, Names
<1>3. Depth(t) - 1 \in Int /\ Depth(t) - 1 <= Depth(t)
  BY <1>2, Fields DEF Sound
<1>4. Sound(EmptyP(b))
  BY <1>1, <1>2, <1>3, PopToSound DEF EmptyP
<1>5. Sound(h_afe_end(b, n).s)
  BY AfeEndSound
<1>6. Sound(AnyOtherEnd(h_afe_end(b, n).s, n)) /\ Sound(AnyOtherEnd(b, n))
  BY <1>5, AnyOtherEndSound
<1>7. b' \in {EmptyP(b), h_afe_end(b, n).s, AnyOtherEnd(h_afe_end(b, n).s, n), AnyOtherEnd(b, n)}
  BY DEF EndTag
<1> QED
  BY <1>4, <1>5, <1>6, <1>7

LEMMA InitSound ==
  ASSUME Init
  PROVE  Sound(b)
<1>1. PICK s : s = b /\ s = [open |-> <<>>, ids |-> <<>>, afe |-> <<>>, kids |-> [x \in {Top} |-> <<>>],
                            name |-> <<>>, body_seen |-> FALSE]
  BY DEF Init
<1>2. PICK k : k = [x \in {0} |-> <<>>] /\ s.kids = k
  BY <1>1 DEF Top
<1>3. /\ s = [open |-> s.open, ids |-> s.ids, afe |-> s.afe, kids |-> s.kids,
              name |-> s.name, body_seen |-> s.body_seen]
      /\ s.open = <<>> /\ s.ids = <<>> /\ s.afe = <<>> /\ s.name = <<>>
  BY <1>1
<1>4. Len(s.name) = 0 /\ Len(s.open) = 0 /\ Len(s.ids) = 0 /\ Len(s.afe) = 0
  BY <1>3
<1>5. 0 <= DepthCap /\ 0 <= AfeCap
  BY HtmlCaps
<1>6. <<>> \in Seq(Names) /\ <<>> \in Seq(1 .. 0) /\ <<>> \in Seq(0 .. 0) /\ <<>> \in Seq(Ids)
  OBVIOUS
<1>7. Sized(s)
  BY <1>3, <1>4, <1>5, <1>6 DEF Sized
<1>8. PICK up, D : up = [x \in 1 .. 0 |-> -1] /\ D = [x \in 1 .. 0 |-> {}]
  OBVIOUS
<1>9. Forest(k, 0, up, D)
  <2>1. 1 .. 0 = {} /\ 0 .. 0 = {0}
    OBVIOUS
  <2>2. k \in [0 .. 0 -> Seq(1 .. 0)]
    BY <1>2, <1>6, <2>1
  <2>3. up \in [1 .. 0 -> -1 .. 0] /\ D \in [1 .. 0 -> SUBSET (1 .. 0)]
    BY <1>8, <2>1
  <2>4. NoLoop(up, 0)
    BY <2>1 DEF NoLoop
  <2>5. \A p \in 0 .. 0, x \in 1 .. 0 : x \in ToSet(k[p]) <=> up[x] = p
    BY <2>1
  <2>6. \A x, y \in 1 .. 0 : y \in D[x] <=> y = x \/ up[y] \in D[x]
    BY <2>1
  <2> QED
    BY <2>2, <2>3, <2>4, <2>5, <2>6 DEF Forest
<1>10. Nested(s.open, up, D)
  BY <1>4 DEF Nested
<1>11. Sound(s)
  BY <1>2, <1>4, <1>7, <1>9, <1>10 DEF Sound, Upright
<1> QED
  BY <1>1, <1>11

LEMMA NextSound ==
  ASSUME Sound(b), [Next]_b
  PROVE  Sound(b')
<1>1. CASE Text
  BY <1>1, TextSound
<1>2. ASSUME NEW n \in Tags, StartTag(n) PROVE Sound(b')
  BY <1>2, StartTagSound
<1>3. ASSUME NEW n \in Tags, EndTag(n) PROVE Sound(b')
  BY <1>3, EndTagSound
<1>4. CASE UNCHANGED b
  BY <1>4
<1> QED
  BY <1>1, <1>2, <1>3, <1>4 DEF Next

(* What a sound builder says of the tree as it is stored.                    *)
LEMMA ParentsAre ==
  ASSUME NEW s, NEW up, NEW D, Forest(s.kids, Len(s.name), up, D)
  PROVE  /\ \A x \in 1 .. Len(s.name) : Parents(s, x) = {up[x]} \ {-1}
         /\ Parents(s, 0) = {} /\ DOMAIN s.kids = 0 .. Len(s.name)
<1>1. PICK n, kids : n = Len(s.name) /\ kids = s.kids
  OBVIOUS
<1>2. /\ n \in Nat /\ kids \in [0 .. n -> Seq(1 .. n)] /\ up \in [1 .. n -> -1 .. n]
      /\ \A p \in 0 .. n, x \in 1 .. n : x \in ToSet(kids[p]) <=> up[x] = p
  BY <1>1 DEF Forest
<1>3. \A x, p : p \in Parents(s, x) <=> p \in 0 .. n /\ x \in ToSet(kids[p])
  BY <1>1, <1>2 DEF Parents
<1>4. ASSUME NEW x \in 1 .. n PROVE Parents(s, x) = {up[x]} \ {-1}
  <2>1. ASSUME NEW p PROVE p \in Parents(s, x) <=> p \in {up[x]} \ {-1}
    <3>1. up[x] \in -1 .. n
      BY <1>2
    <3>2. CASE p \in 0 .. n
      <4>1. p \in Parents(s, x) <=> up[x] = p
        BY <1>2, <1>3, <3>2
      <4>2. p # -1
        BY <1>2, <3>2
      <4> QED
        BY <4>1, <4>2
    <3>3. CASE p \notin 0 .. n
      <4>1. p = up[x] => p = -1
        BY <1>2, <3>1, <3>3
      <4> QED
        BY <1>3, <3>3, <4>1
    <3> QED
      BY <3>2, <3>3
  <2> QED
    BY <2>1
<1>5. \A p : p \notin Parents(s, 0)
  <2>1. ASSUME NEW p \in 0 .. n PROVE 0 \notin ToSet(kids[p])
    <3>1. kids[p] \in Seq(1 .. n)
      BY <1>2
    <3>2. ToSet(kids[p]) \subseteq 1 .. n
      BY <3>1, Members
    <3> QED
      BY <1>2, <3>2
  <2> QED
    BY <1>3, <2>1
<1> QED
  BY <1>1, <1>2, <1>4, <1>5

LEMMA AboveHas ==
  ASSUME NEW s, NEW up, NEW D, Forest(s.kids, Len(s.name), up, D),
         NEW x \in 1 .. Len(s.name), NEW y \in 1 .. Len(s.name), x \in D[y], x # y
  PROVE  y \in Above(s, x)
<1>1. PICK n : n = Len(s.name) /\ n \in Nat
  BY DEF Forest
<1>2. PICK next : next = [z \in DOMAIN s.kids |-> Parents(s, z)]
  OBVIOUS
<1>3. /\ \A z \in 1 .. n : Parents(s, z) = {up[z]} \ {-1}
      /\ Parents(s, 0) = {} /\ DOMAIN s.kids = 0 .. n
  BY <1>1, ParentsAre
<1>4. \A z \in 1 .. n : up[z] \in -1 .. n
  BY <1>1 DEF Forest
<1>5. next \in [0 .. n -> SUBSET (0 .. n)]
  <2>1. \A z \in 0 .. n : Parents(s, z) \subseteq 0 .. n
    BY <1>1, <1>3, <1>4
  <2> QED
    BY <1>2, <1>3, <2>1
<1>6. up[x] \in D[y] /\ up[x] \in 1 .. n
  BY <1>1, Below
<1>7. PICK A : A = Reached(up[x], next)
  OBVIOUS
<1>8. up[x] \in A /\ A \subseteq 0 .. n /\ \A z \in A : next[z] \subseteq A
  <2>1. IsFiniteSet(0 .. n) /\ up[x] \in 0 .. n
    <3>1. IsFiniteSet(0 .. n)
      BY <1>1, FS_Interval, 0 \in Int, n \in Int
    <3>2. up[x] \in 0 .. n
      BY <1>1, <1>6
    <3> QED
      BY <3>1, <3>2
  <2> QED
    BY <1>5, <1>7, <2>1, ReachedSet
<1>9. y \in A
  <2> SUFFICES ASSUME y \notin A PROVE FALSE
    OBVIOUS
  <2> DEFINE S == A \cap D[y]
  <2>1. \A z \in S : z \in 1 .. n /\ up[z] \in S
    <3>1. ASSUME NEW z \in S PROVE z \in 1 .. n /\ up[z] \in S
      <4>1. z \in D[y] /\ z # y /\ z \in A
        OBVIOUS
      <4>2. z \in 1 .. n
        <5>1. D[y] \subseteq 1 .. n
          BY <1>1, Below
        <5> QED
          BY <4>1, <5>1
      <4>3. up[z] \in D[y] /\ up[z] \in 1 .. n
        BY <1>1, <4>1, <4>2, Below
      <4>4. next[z] = {up[z]} \ {-1}
        BY <1>1, <1>2, <1>3, <4>2
      <4>5. up[z] # -1
        BY <1>1, <4>3
      <4> QED
        BY <1>8, <4>1, <4>2, <4>3, <4>4, <4>5
    <3> QED
      BY <3>1
  <2>2. up[x] \in S
    BY <1>6, <1>8
  <2>3. S = {}
    <3> HIDE DEF S
    <3>1. S \in SUBSET (1 .. Len(s.name)) /\ \A z \in S : up[z] \in S
      BY <1>1, <2>1
    <3> QED
      BY <3>1, ClosedSet
  <2> QED
    BY <2>2, <2>3
<1>10. up[x] \in Parents(s, x)
  <2>1. up[x] # -1
    BY <1>1, <1>6
  <2> QED
    BY <1>1, <1>3, <2>1
<1>11. y # Top
  BY <1>1 DEF Top
<1> QED
  <2> DEFINE U == {Reached(p, next) : p \in Parents(s, x)}
  <2>1. Above(s, x) = (UNION U) \ {Top}
    BY <1>2 DEF Above
  <2>2. A \in U
    BY <1>7, <1>10
  <2> HIDE DEF U
  <2> QED
    <3>1. y \in UNION U
      BY <1>9, <2>2
    <3>2. y \in (UNION U) \ {Top}
      BY <1>11, <3>1
    <3> QED
      BY <2>1, <3>2

LEMMA SoundBranch ==
  ASSUME Sound(b)
  PROVE  StackIsBranch
<1>1. PICK up, D : Forest(b.kids, Len(b.name), up, D) /\ Nested(b.open, up, D)
  BY DEF Sound, Upright
<1>2. /\ Depth(b) = Len(b.open) /\ Len(b.open) \in Nat
      /\ \A i \in 1 .. Len(b.open) : b.open[i] \in 1 .. Len(b.name)
  BY Fields DEF Sound
<1>3. ASSUME NEW k \in 1 .. Depth(b) PROVE Cardinality(Parents(b, b.open[k])) = 1
  <2>1. b.open[k] \in 1 .. Len(b.name) /\ up[b.open[k]] # -1
    BY <1>1, <1>2 DEF Nested
  <2>2. Parents(b, b.open[k]) = {up[b.open[k]]} \ {-1}
    BY <1>1, <2>1, ParentsAre
  <2>3. Parents(b, b.open[k]) = {up[b.open[k]]}
    BY <2>1, <2>2
  <2> QED
    BY <2>3, FS_Singleton
<1>4. ASSUME NEW k \in 1 .. Depth(b), k > 1 PROVE b.open[k - 1] \in Above(b, b.open[k])
  <2>1. k \in 1 .. Len(b.open) /\ k - 1 \in 1 .. Len(b.open) /\ k - 1 < k
    BY <1>2, <1>4
  <2>2. /\ b.open[k] \in 1 .. Len(b.name) /\ b.open[k - 1] \in 1 .. Len(b.name)
        /\ b.open[k] \in D[b.open[k - 1]] /\ b.open[k] # b.open[k - 1]
    BY <1>1, <1>2, <2>1 DEF Nested
  <2> QED
    BY <1>1, <2>2, AboveHas
<1> QED
  BY <1>3, <1>4 DEF StackIsBranch

-----------------------------------------------------------------------------
(* The arrays of the builder are never overrun, whatever the agency takes    *)
(* out and puts in, and open and open_id keep the same depth (html_parse.c,  *)
(* HBuilder's open, open_id and afe).                                        *)
WithinCaps == Depth(b) <= DepthCap /\ Len(b.afe) <= AfeCap /\ Len(b.ids) = Depth(b)

THEOREM ArraysHold == Spec => []WithinCaps
<1>1. Init => Sound(b)
  BY InitSound
<1>2. Sound(b) /\ [Next]_b => Sound(b)'
  BY NextSound
<1>3. Sound(b) => WithinCaps
  BY Fields DEF Sound, WithinCaps
<1> QED
  BY <1>1, <1>2, <1>3, PTL DEF Spec

(* Whatever is written, each open element lies under the one below it on the *)
(* stack and in one place of the tree: the top of the stack, where h_append  *)
(* puts the next node, is under every open element.                          *)
THEOREM StackBranch == Spec => []StackIsBranch
<1>1. Init => Sound(b)
  BY InitSound
<1>2. Sound(b) /\ [Next]_b => Sound(b)'
  BY NextSound
<1>3. Sound(b) => StackIsBranch
  BY SoundBranch
<1> QED
  BY <1>1, <1>2, <1>3, PTL DEF Spec
=============================================================================
