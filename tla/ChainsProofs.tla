---------------------------- MODULE ChainsProofs ----------------------------
(* What unlinking and walking do to a list of any length, what is reached   *)
(* along links, and the ends of a set of numbers.                           *)
EXTENDS Chains, SequencesExt, SequenceTheorems, FiniteSetTheorems, WellFoundedInduction, TLAPS

(* Induction up to a bound, on a set of numbers.                            *)
LEMMA UpTo ==
  ASSUME NEW N \in Nat, NEW T, 0 \in T, \A n \in 0 .. N - 1 : n \in T => n + 1 \in T
  PROVE  \A n \in 0 .. N : n \in T
<1> DEFINE Out == {m \in Nat : m <= N /\ m \notin T}
<1> SUFFICES ASSUME Out # {} PROVE FALSE
  OBVIOUS
<1>1. PICK n \in Out : \A m \in Out : ~ (<<m, n>> \in OpToRel(<, Nat))
  <2>1. Out \subseteq Nat
    OBVIOUS
  <2> HIDE DEF Out
  <2> QED
    BY <2>1, NatLessThanWellFounded, WFMin
<1>2. \A m \in Out : ~ (m < n)
  <2>1. ASSUME NEW m \in Out, m < n PROVE FALSE
    <3>1. <<m, n>> \in Nat \X Nat /\ <<m, n>>[1] < <<m, n>>[2]
      BY <2>1
    <3> QED
      BY <1>1, <2>1, <3>1 DEF OpToRel
  <2> QED
    BY <2>1
<1>3. n # 0 /\ n - 1 \in 0 .. N - 1 /\ n - 1 \in T
  BY <1>2
<1> QED
  BY <1>3

(* The recursion of Without is well founded.                               *)
KeptLevels(f, s, E, n) == f = [k \in 0 .. n |->
  IF k = 0 THEN <<>> ELSE IF s[k] \in E THEN f[k - 1] ELSE Append(f[k - 1], s[k])]

LEMMA KeptNext ==
  ASSUME NEW s, NEW E, NEW n \in Nat, NEW f, KeptLevels(f, s, E, n)
  PROVE  \E g : KeptLevels(g, s, E, n + 1)
<1> DEFINE step(k) == IF k = 0 THEN <<>> ELSE IF s[k] \in E THEN f[k - 1] ELSE Append(f[k - 1], s[k])
           g == [k \in 0 .. n + 1 |-> step(k)]
<1>1. f = [k \in 0 .. n |-> step(k)]
  BY DEF KeptLevels
<1>2. \A k \in 0 .. n : g[k] = f[k]
  <2> HIDE DEF step
  <2> QED
    BY <1>1
<1>3. \A k \in 0 .. n + 1 : k # 0 => k - 1 \in 0 .. n
  OBVIOUS
<1>4. \A k \in 0 .. n + 1 : step(k) =
         IF k = 0 THEN <<>> ELSE IF s[k] \in E THEN g[k - 1] ELSE Append(g[k - 1], s[k])
  <2> HIDE DEF g
  <2> QED
    BY <1>2, <1>3
<1>5. KeptLevels(g, s, E, n + 1)
  <2>1. g = [k \in 0 .. n + 1 |-> IF k = 0 THEN <<>>
              ELSE IF s[k] \in E THEN g[k - 1] ELSE Append(g[k - 1], s[k])]
    BY <1>4
  <2> HIDE DEF g
  <2> QED
    BY <2>1 DEF KeptLevels
<1> QED
  BY <1>5

LEMMA KeptSteps ==
  ASSUME NEW S, NEW s \in Seq(S), NEW E
  PROVE  \E kept : /\ Without(s, E) = kept[Len(s)] /\ kept[0] = <<>>
                   /\ \A n \in 1 .. Len(s) :
                        kept[n] = IF s[n] \in E THEN kept[n - 1] ELSE Append(kept[n - 1], s[n])
<1> DEFINE T == {n \in Nat : \E f : KeptLevels(f, s, E, n)}
<1>0. Len(s) \in Nat
  OBVIOUS
<1>1. 0 \in T
  <2>1. PICK f : f = [k \in 0 .. 0 |-> <<>>]
    OBVIOUS
  <2>2. f = [k \in 0 .. 0 |-> IF k = 0 THEN <<>> ELSE
                IF s[k] \in E THEN f[k - 1] ELSE Append(f[k - 1], s[k])]
    <3>1. \A k \in 0 .. 0 : k = 0
      OBVIOUS
    <3> QED
      BY <2>1, <3>1, Zenon
  <2> QED
    BY <2>2 DEF KeptLevels
<1>2. \A n \in 0 .. Len(s) - 1 : n \in T => n + 1 \in T
  BY <1>0, KeptNext
<1>3. Len(s) \in T
  <2> HIDE DEF T
  <2> QED
    BY <1>0, <1>1, <1>2, UpTo, Len(s) \in 0 .. Len(s)
<1> DEFINE kept == CHOOSE f : KeptLevels(f, s, E, Len(s))
<1>5. KeptLevels(kept, s, E, Len(s))
  BY <1>3
<1>6. Without(s, E) = kept[Len(s)]
  BY DEF Without, KeptLevels
<1>7. kept[0] = <<>> /\ \A n \in 1 .. Len(s) :
         kept[n] = IF s[n] \in E THEN kept[n - 1] ELSE Append(kept[n - 1], s[n])
  <2> HIDE DEF kept
  <2>1. PICK f : f = kept /\ KeptLevels(f, s, E, Len(s))
    BY <1>5
  <2>2. \A n \in 0 .. Len(s) : f[n] =
          IF n = 0 THEN <<>> ELSE IF s[n] \in E THEN f[n - 1] ELSE Append(f[n - 1], s[n])
    BY <2>1 DEF KeptLevels
  <2>3. \A n \in 1 .. Len(s) : n \in 0 .. Len(s) /\ n # 0
    OBVIOUS
  <2>4. 0 \in 0 .. Len(s)
    BY <1>0
  <2> QED
    BY <2>1, <2>2, <2>3, <2>4
<1> QED
  BY <1>6, <1>7

(* The elements of a list, and of one that has an entry more.              *)
LEMMA NoElements ==
  ASSUME NEW S
  PROVE  /\ <<>> \in Seq(S) /\ ToSet(<<>>) = {} /\ IsInjective(<<>>)
         /\ \A R : FirstOf(<<>>, R) = {}
<1>1. \A R : FirstOf(<<>>, R) = {}
  BY DEF FirstOf
<1>2. DOMAIN <<>> = {}
  OBVIOUS
<1>3. ToSet(<<>>) = {}
  BY <1>2 DEF ToSet
<1> QED
  BY <1>1, <1>2, <1>3 DEF IsInjective

LEMMA AppendSet ==
  ASSUME NEW S, NEW w \in Seq(S), NEW x \in S
  PROVE  /\ Append(w, x) \in Seq(S)
         /\ ToSet(Append(w, x)) = ToSet(w) \cup {x}
         /\ IsInjective(w) /\ x \notin ToSet(w) => IsInjective(Append(w, x))
<1> DEFINE v == Append(w, x)
<1>1. /\ v \in Seq(S) /\ DOMAIN v = 1 .. Len(w) + 1 /\ DOMAIN w = 1 .. Len(w)
      /\ v[Len(w) + 1] = x /\ \A i \in 1 .. Len(w) : v[i] = w[i]
  OBVIOUS
<1> HIDE DEF v
<1>2. ToSet(v) = ToSet(w) \cup {x}
  <2>1. \A y \in ToSet(v) : y \in ToSet(w) \cup {x}
    BY <1>1 DEF ToSet
  <2>2. \A y \in ToSet(w) : y \in ToSet(v)
    BY <1>1 DEF ToSet
  <2>3. x \in ToSet(v)
    BY <1>1, Len(w) + 1 \in 1 .. Len(w) + 1 DEF ToSet
  <2> QED
    BY <2>1, <2>2, <2>3
<1>3. IsInjective(w) /\ x \notin ToSet(w) => IsInjective(v)
  BY <1>1 DEF ToSet, IsInjective
<1> QED
  BY <1>1, <1>2, <1>3 DEF v

(* Unlinking keeps the type, takes out E and only E, makes no duplicates.  *)
LEMMA WithoutSeq ==
  ASSUME NEW S, NEW s \in Seq(S), NEW E
  PROVE  /\ Without(s, E) \in Seq(S)
         /\ ToSet(Without(s, E)) = ToSet(s) \ E
         /\ IsInjective(s) => IsInjective(Without(s, E))
<1>1. PICK kept : /\ Without(s, E) = kept[Len(s)] /\ kept[0] = <<>>
                  /\ \A n \in 1 .. Len(s) :
                       kept[n] = IF s[n] \in E THEN kept[n - 1] ELSE Append(kept[n - 1], s[n])
  BY KeptSteps
<1> DEFINE Upto(n) == {s[i] : i \in 1 .. n}
           T == {n \in 0 .. Len(s) :
                  /\ kept[n] \in Seq(S)
                  /\ ToSet(kept[n]) = Upto(n) \ E
                  /\ IsInjective(s) => IsInjective(kept[n])}
<1>2. 0 \in T
  <2>1. kept[0] = <<>> /\ 0 \in 0 .. Len(s) /\ Upto(0) = {}
    BY <1>1
  <2> HIDE DEF Upto
  <2> QED
    BY <2>1, NoElements
<1>3. ASSUME NEW n \in 0 .. Len(s) - 1, n \in T PROVE n + 1 \in T
  <2>1. PICK w \in Seq(S) : w = kept[n]
    BY <1>3
  <2>2. n + 1 \in 1 .. Len(s) /\ s[n + 1] \in S
    OBVIOUS
  <2>3. kept[n + 1] = IF s[n + 1] \in E THEN w ELSE Append(w, s[n + 1])
    BY <1>1, <2>1, <2>2
  <2>4. Upto(n + 1) = Upto(n) \cup {s[n + 1]}
    OBVIOUS
  <2>5. ToSet(w) = Upto(n) \ E
    BY <1>3, <2>1
  <2>6. ToSet(Append(w, s[n + 1])) = ToSet(w) \cup {s[n + 1]}
    BY <2>2, AppendSet
  <2>7. IsInjective(s) => s[n + 1] \notin Upto(n)
    BY <2>2 DEF IsInjective
  <2>8. IsInjective(w) /\ s[n + 1] \notin ToSet(w) => IsInjective(Append(w, s[n + 1]))
    BY <2>2, AppendSet
  <2>9. kept[n + 1] \in Seq(S)
    BY <2>2, <2>3
  <2>10. ToSet(kept[n + 1]) = Upto(n + 1) \ E
    <3> HIDE DEF Upto
    <3> QED
      BY <2>3, <2>4, <2>5, <2>6
  <2>11. IsInjective(s) => IsInjective(kept[n + 1])
    <3> HIDE DEF Upto
    <3> QED
      BY <1>3, <2>1, <2>3, <2>5, <2>7, <2>8
  <2> QED
    BY <2>9, <2>10, <2>11
<1>4. Len(s) \in T
  <2>1. Len(s) \in Nat /\ Len(s) \in 0 .. Len(s)
    OBVIOUS
  <2> HIDE DEF T
  <2> QED
    BY <1>2, <1>3, <2>1, UpTo
<1>5. Upto(Len(s)) = ToSet(s)
  BY DEF ToSet
<1> QED
  BY <1>1, <1>4, <1>5

(* Walking a list that has one entry more at its end.                      *)
LEMMA FirstAppend ==
  ASSUME NEW S, NEW w \in Seq(S), NEW x \in S, NEW R
  PROVE  FirstOf(Append(w, x), R) =
           FirstOf(w, R) \cup {y \in {x} : x \in R /\ ToSet(w) \cap R = {}}
<1> DEFINE v == Append(w, x)
           First(u, i) == u[i] \in R /\ \A j \in 1 .. i - 1 : u[j] \notin R
<1>1. Len(v) = Len(w) + 1 /\ v[Len(v)] = x /\ \A i \in 1 .. Len(w) : v[i] = w[i]
  OBVIOUS
<1>2. \A i \in 1 .. Len(w) : First(v, i) <=> First(w, i)
  BY <1>1
<1>3. First(v, Len(v)) <=> x \in R /\ ToSet(w) \cap R = {}
  <2> HIDE DEF v
  <2> QED
    BY <1>1 DEF ToSet
<1>4. ASSUME NEW y \in FirstOf(v, R)
      PROVE  y \in FirstOf(w, R) \/ (y = x /\ x \in R /\ ToSet(w) \cap R = {})
  <2>1. PICK i \in 1 .. Len(v) : y = v[i] /\ First(v, i)
    BY DEF FirstOf
  <2> HIDE DEF v, First
  <2>2. CASE i = Len(v)
    BY <1>1, <1>3, <2>1, <2>2
  <2>3. CASE i \in 1 .. Len(w)
    <3>1. First(w, i) /\ y = w[i]
      BY <1>1, <1>2, <2>1, <2>3
    <3> QED
      BY <2>3, <3>1 DEF FirstOf, First
  <2> QED
    BY <1>1, <2>1, <2>2, <2>3
<1>5. ASSUME NEW y \in FirstOf(w, R) PROVE y \in FirstOf(v, R)
  <2>1. PICK i \in 1 .. Len(w) : y = w[i] /\ First(w, i)
    BY DEF FirstOf
  <2>2. i \in 1 .. Len(v) /\ y = v[i] /\ First(v, i)
    BY <1>1, <1>2, <2>1
  <2> QED
    BY <2>2 DEF FirstOf
<1>6. x \in R /\ ToSet(w) \cap R = {} => x \in FirstOf(v, R)
  <2>1. Len(v) \in 1 .. Len(v)
    OBVIOUS
  <2> QED
    BY <1>1, <1>3, <2>1 DEF FirstOf
<1> QED
  BY <1>4, <1>5, <1>6

(* A walk after E was unlinked finds what a walk past E would have found.  *)
LEMMA FirstWithout ==
  ASSUME NEW S, NEW s \in Seq(S), NEW E, NEW R
  PROVE  FirstOf(Without(s, E), R) = FirstOf(s, R \ E)
<1>1. PICK kept : /\ Without(s, E) = kept[Len(s)] /\ kept[0] = <<>>
                  /\ \A n \in 1 .. Len(s) :
                       kept[n] = IF s[n] \in E THEN kept[n - 1] ELSE Append(kept[n - 1], s[n])
  BY KeptSteps
<1> DEFINE Found(n) == {s[i] : i \in {i \in 1 .. n : /\ s[i] \in R \ E
                                                   /\ \A j \in 1 .. i - 1 : s[j] \notin R \ E}}
           Upto(n) == {s[i] : i \in 1 .. n}
           T == {n \in 0 .. Len(s) : /\ kept[n] \in Seq(S)
                                     /\ ToSet(kept[n]) = Upto(n) \ E
                                     /\ FirstOf(kept[n], R) = Found(n)}
<1>2. 0 \in T
  <2>1. kept[0] = <<>> /\ 0 \in 0 .. Len(s) /\ Upto(0) = {} /\ Found(0) = {}
    BY <1>1
  <2> HIDE DEF Upto, Found
  <2> QED
    BY <2>1, NoElements
<1>3. ASSUME NEW n \in 0 .. Len(s) - 1, n \in T PROVE n + 1 \in T
  <2>1. PICK w \in Seq(S) : /\ w = kept[n] /\ FirstOf(w, R) = Found(n)
                            /\ ToSet(w) = Upto(n) \ E
    BY <1>3
  <2>2. n + 1 \in 1 .. Len(s) /\ s[n + 1] \in S
    OBVIOUS
  <2>3. kept[n + 1] = IF s[n + 1] \in E THEN w ELSE Append(w, s[n + 1])
    BY <1>1, <2>1, <2>2
  <2>4. Upto(n + 1) = Upto(n) \cup {s[n + 1]}
    OBVIOUS
  <2>5. Found(n + 1) = Found(n) \cup
          {y \in {s[n + 1]} : s[n + 1] \in R \ E /\ Upto(n) \cap (R \ E) = {}}
    OBVIOUS
  <2>6. ToSet(Append(w, s[n + 1])) = ToSet(w) \cup {s[n + 1]}
    BY <2>2, AppendSet
  <2>7. kept[n + 1] \in Seq(S)
    BY <2>2, <2>3
  <2>8. ToSet(kept[n + 1]) = Upto(n + 1) \ E
    <3> HIDE DEF Upto
    <3> QED
      BY <2>1, <2>3, <2>4, <2>6
  <2>9. FirstOf(kept[n + 1], R) = Found(n + 1)
    <3> HIDE DEF Upto, Found
    <3>1. CASE s[n + 1] \in E
      BY <2>1, <2>3, <2>5, <3>1
    <3>2. CASE s[n + 1] \notin E
      <4>1. s[n + 1] \in R /\ ToSet(w) \cap R = {} <=>
              s[n + 1] \in R \ E /\ Upto(n) \cap (R \ E) = {}
        BY <2>1, <3>2
      <4>2. FirstOf(Append(w, s[n + 1]), R) = FirstOf(w, R) \cup
              {y \in {s[n + 1]} : s[n + 1] \in R /\ ToSet(w) \cap R = {}}
        BY <2>2, FirstAppend
      <4> QED
        BY <2>1, <2>3, <2>5, <3>2, <4>1, <4>2
    <3> QED
      BY <3>1, <3>2
  <2> QED
    <3> HIDE DEF Upto, Found
    <3> QED
      BY <2>7, <2>8, <2>9
<1>4. Len(s) \in T
  <2>1. Len(s) \in Nat /\ Len(s) \in 0 .. Len(s)
    OBVIOUS
  <2> HIDE DEF T
  <2> QED
    BY <1>2, <1>3, <2>1, UpTo
<1>5. Found(Len(s)) = FirstOf(s, R \ E)
  BY DEF FirstOf
<1> QED
  BY <1>1, <1>4, <1>5

(* A walk finds one entry at most, of the list and of those looked for.    *)
LEMMA FirstOnce ==
  ASSUME NEW S, NEW s \in Seq(S), NEW R
  PROVE  /\ FirstOf(s, R) \subseteq ToSet(s) \cap R
         /\ \A x, y \in FirstOf(s, R) : x = y
<1>1. FirstOf(s, R) \subseteq ToSet(s) \cap R
  BY DEF FirstOf, ToSet
<1>2. ASSUME NEW x \in FirstOf(s, R), NEW y \in FirstOf(s, R) PROVE x = y
  <2>1. PICK i \in 1 .. Len(s) : /\ x = s[i] /\ s[i] \in R
                                 /\ \A j \in 1 .. i - 1 : s[j] \notin R
    BY DEF FirstOf
  <2>2. PICK k \in 1 .. Len(s) : /\ y = s[k] /\ s[k] \in R
                                 /\ \A j \in 1 .. k - 1 : s[j] \notin R
    BY DEF FirstOf
  <2>3. i = k
    BY <2>1, <2>2
  <2> QED
    BY <2>1, <2>2, <2>3
<1> QED
  BY <1>1, <1>2

(* What a walk finds it also finds when fewer entries are looked for.      *)
LEMMA FirstAmong ==
  ASSUME NEW S, NEW s \in Seq(S), NEW R, NEW E
  PROVE  \A x \in FirstOf(s, R) : x \notin E => x \in FirstOf(s, R \ E)
BY DEF FirstOf

(* A walk only cares for what is in the list.                              *)
LEMMA FirstUnder ==
  ASSUME NEW S, NEW s \in Seq(S), NEW R, NEW x, x \notin ToSet(s)
  PROVE  FirstOf(s, R \ {x}) = FirstOf(s, R)
<1>1. \A i \in 1 .. Len(s) : s[i] # x
  BY DEF ToSet
<1> QED
  BY <1>1 DEF FirstOf

(* A new entry at the front of a list.                                     *)
LEMMA PushFront ==
  ASSUME NEW S, NEW s \in Seq(S), NEW x \in S, NEW v, v = Push(s, x)
  PROVE  /\ v \in Seq(S)
         /\ ToSet(v) = ToSet(s) \cup {x}
         /\ IsInjective(s) /\ x \notin ToSet(s) => IsInjective(v)
<1>1. /\ v \in Seq(S) /\ DOMAIN v = 1 .. Len(s) + 1 /\ DOMAIN s = 1 .. Len(s) /\ Len(v) = Len(s) + 1
      /\ v[1] = x /\ \A i \in 1 .. Len(s) : v[i + 1] = s[i]
  BY DEF Push
<1>2. \A i \in 2 .. Len(s) + 1 : i - 1 \in 1 .. Len(s) /\ v[i] = s[i - 1]
  BY <1>1
<1>3. ToSet(v) = ToSet(s) \cup {x}
  <2>1. ASSUME NEW y \in ToSet(v) PROVE y \in ToSet(s) \cup {x}
    <3>1. PICK j \in 1 .. Len(s) + 1 : y = v[j]
      BY <1>1 DEF ToSet
    <3>2. CASE j = 1
      BY <1>1, <3>1, <3>2
    <3>3. CASE j \in 2 .. Len(s) + 1
      BY <1>1, <1>2, <3>1, <3>3 DEF ToSet
    <3> QED
      BY <3>1, <3>2, <3>3
  <2>2. \A y \in ToSet(s) : y \in ToSet(v)
    <3>1. \A i \in 1 .. Len(s) : i + 1 \in 1 .. Len(s) + 1
      OBVIOUS
    <3> QED
      BY <1>1, <3>1 DEF ToSet
  <2>3. x \in ToSet(v)
    BY <1>1, 1 \in 1 .. Len(s) + 1 DEF ToSet
  <2> QED
    BY <2>1, <2>2, <2>3
<1>4. IsInjective(s) /\ x \notin ToSet(s) => IsInjective(v)
  <2>1. SUFFICES ASSUME IsInjective(s), x \notin ToSet(s), NEW i \in 1 .. Len(s) + 1,
                        NEW k \in 1 .. Len(s) + 1, v[i] = v[k]
                 PROVE  i = k
    BY <1>1 DEF IsInjective
  <2>2. \A j \in 1 .. Len(s) + 1 : j = 1 \/ j \in 2 .. Len(s) + 1
    OBVIOUS
  <2>3. \A j \in 2 .. Len(s) + 1 : v[j] \in ToSet(s)
    BY <1>1, <1>2 DEF ToSet
  <2>4. CASE i \in 2 .. Len(s) + 1 /\ k \in 2 .. Len(s) + 1
    <3>1. i - 1 = k - 1
      BY <1>1, <1>2, <2>1, <2>4 DEF IsInjective
    <3> QED
      BY <3>1
  <2> QED
    BY <1>1, <2>1, <2>2, <2>3, <2>4
<1> QED
  BY <1>1, <1>3, <1>4

LEMMA FirstPushed ==
  ASSUME NEW S, NEW s \in Seq(S), NEW x \in S, NEW v, v = Push(s, x), NEW R
  PROVE  /\ x \in R => FirstOf(v, R) = {x}
         /\ x \notin R => FirstOf(v, R) = FirstOf(s, R)
<1>1. /\ v \in Seq(S) /\ DOMAIN v = 1 .. Len(s) + 1 /\ DOMAIN s = 1 .. Len(s) /\ Len(v) = Len(s) + 1
      /\ v[1] = x /\ \A i \in 1 .. Len(s) : v[i + 1] = s[i]
  BY DEF Push
<1>2. \A i \in 2 .. Len(s) + 1 : i - 1 \in 1 .. Len(s) /\ v[i] = s[i - 1]
  BY <1>1
<1>5. ASSUME x \in R PROVE FirstOf(v, R) = {x}
  <2>1. ASSUME NEW y \in FirstOf(v, R) PROVE y = x
    <3>1. PICK i \in 1 .. Len(s) + 1 : y = v[i] /\ \A j \in 1 .. i - 1 : v[j] \notin R
      BY <1>1 DEF FirstOf
    <3>2. i = 1
      <4>1. i # 1 => 1 \in 1 .. i - 1
        OBVIOUS
      <4> QED
        BY <1>1, <1>5, <3>1, <4>1
    <3> QED
      BY <1>1, <3>1, <3>2
  <2>2. x \in FirstOf(v, R)
    <3>1. 1 \in 1 .. Len(v) /\ \A j \in 1 .. 1 - 1 : v[j] \notin R
      BY <1>1
    <3> QED
      BY <1>1, <1>5, <3>1 DEF FirstOf
  <2> QED
    BY <2>1, <2>2
<1>6. ASSUME x \notin R PROVE FirstOf(v, R) = FirstOf(s, R)
  <2>1. ASSUME NEW y \in FirstOf(v, R) PROVE y \in FirstOf(s, R)
    <3>1. PICK i \in 1 .. Len(s) + 1 : /\ y = v[i] /\ v[i] \in R
                                       /\ \A j \in 1 .. i - 1 : v[j] \notin R
      BY <1>1 DEF FirstOf
    <3>2. i \in 2 .. Len(s) + 1
      BY <1>1, <1>6, <3>1
    <3>3. i - 1 \in 1 .. Len(s) /\ y = s[i - 1] /\ s[i - 1] \in R
      BY <1>2, <3>1, <3>2
    <3>4. \A j \in 1 .. (i - 1) - 1 : s[j] \notin R
      <4>1. ASSUME NEW j \in 1 .. (i - 1) - 1 PROVE s[j] \notin R
        <5>1. j \in 1 .. Len(s) /\ j + 1 \in 1 .. i - 1
          BY <3>2
        <5> QED
          BY <1>1, <3>1, <5>1
      <4> QED
        BY <4>1
    <3> QED
      BY <3>3, <3>4 DEF FirstOf
  <2>2. ASSUME NEW y \in FirstOf(s, R) PROVE y \in FirstOf(v, R)
    <3>1. PICK i \in 1 .. Len(s) : /\ y = s[i] /\ s[i] \in R
                                   /\ \A j \in 1 .. i - 1 : s[j] \notin R
      BY DEF FirstOf
    <3>2. i + 1 \in 1 .. Len(v) /\ y = v[i + 1] /\ v[i + 1] \in R
      BY <1>1, <3>1
    <3>3. \A j \in 1 .. (i + 1) - 1 : v[j] \notin R
      <4>1. ASSUME NEW j \in 1 .. (i + 1) - 1 PROVE v[j] \notin R
        <5>1. CASE j = 1
          BY <1>1, <1>6, <5>1
        <5>2. CASE j # 1
          <6>1. j \in 2 .. Len(s) + 1 /\ j - 1 \in 1 .. i - 1
            BY <5>2
          <6> QED
            BY <1>2, <3>1, <6>1
        <5> QED
          BY <5>1, <5>2
      <4> QED
        BY <4>1
    <3> QED
      BY <3>2, <3>3 DEF FirstOf
  <2> QED
    BY <2>1, <2>2
<1> QED
  BY <1>5, <1>6

(* What is reached is the smallest set with e that next does not leave.      *)
Levels(w, e, next, n) == w = [k \in 0 .. n |->
  IF k = 0 THEN {e} ELSE w[k - 1] \cup UNION {next[m] : m \in w[k - 1]}]

LEMMA LevelsNext ==
  ASSUME NEW e, NEW next, NEW n \in Nat, NEW f, Levels(f, e, next, n)
  PROVE  \E g : Levels(g, e, next, n + 1)
<1> DEFINE step(k) == IF k = 0 THEN {e} ELSE f[k - 1] \cup UNION {next[m] : m \in f[k - 1]}
           g == [k \in 0 .. n + 1 |-> step(k)]
<1>1. f = [k \in 0 .. n |-> step(k)]
  BY DEF Levels
<1>2. \A k \in 0 .. n : g[k] = f[k]
  <2> HIDE DEF step
  <2> QED
    BY <1>1
<1>3. \A k \in 0 .. n + 1 : k # 0 => k - 1 \in 0 .. n
  OBVIOUS
<1>4. \A k \in 0 .. n + 1 : step(k) =
         IF k = 0 THEN {e} ELSE g[k - 1] \cup UNION {next[m] : m \in g[k - 1]}
  <2> HIDE DEF g
  <2> QED
    BY <1>2, <1>3
<1>5. g = [k \in 0 .. n + 1 |->
            IF k = 0 THEN {e} ELSE g[k - 1] \cup UNION {next[m] : m \in g[k - 1]}]
  BY <1>4
<1> HIDE DEF g
<1> QED
  BY <1>5 DEF Levels

Wider(S, next) == S \cup UNION {next[m] : m \in S}

Unfolded(A, e, next, N, w) ==
  /\ N \in Nat /\ N = Cardinality(A) /\ Reached(e, next) = w[N] /\ w[0] = {e}
  /\ \A n \in 1 .. N : w[n] = Wider(w[n - 1], next)

LEMMA ReachedLevels ==
  ASSUME NEW A, IsFiniteSet(A), NEW next \in [A -> SUBSET A], NEW e
  PROVE  \E N, w : Unfolded(A, e, next, N, w)
<1> DEFINE T == {n \in Nat : \E f : Levels(f, e, next, n)}
<1>0. PICK N \in Nat : N = Cardinality(A)
  BY FS_CardinalityType
<1>1. 0 \in T
  <2>1. PICK f : f = [k \in 0 .. 0 |-> {e}]
    OBVIOUS
  <2>2. f = [k \in 0 .. 0 |-> IF k = 0 THEN {e} ELSE
                f[k - 1] \cup UNION {next[m] : m \in f[k - 1]}]
    <3>1. \A k \in 0 .. 0 : k = 0
      OBVIOUS
    <3> QED
      BY <2>1, <3>1, Zenon
  <2> QED
    BY <2>2 DEF Levels
<1>2. \A n \in 0 .. N - 1 : n \in T => n + 1 \in T
  BY <1>0, LevelsNext
<1>3. N \in T
  <2> HIDE DEF T
  <2> QED
    BY <1>0, <1>1, <1>2, UpTo, N \in 0 .. N
<1> DEFINE w == CHOOSE f : Levels(f, e, next, N)
<1>4. Levels(w, e, next, N)
  BY <1>3
<1>5. Reached(e, next) = w[N]
  BY <1>0 DEF Reached, Levels
<1>6. w[0] = {e} /\ \A n \in 1 .. N : w[n] = Wider(w[n - 1], next)
  <2> HIDE DEF w
  <2>1. PICK f : f = w /\ Levels(f, e, next, N)
    BY <1>4
  <2>2. \A n \in 0 .. N : f[n] =
          IF n = 0 THEN {e} ELSE f[n - 1] \cup UNION {next[m] : m \in f[n - 1]}
    BY <2>1 DEF Levels
  <2>3. \A n \in 1 .. N : n \in 0 .. N /\ n # 0
    OBVIOUS
  <2>4. 0 \in 0 .. N
    BY <1>0
  <2> QED
    BY <2>1, <2>2, <2>3, <2>4 DEF Wider
<1> HIDE DEF w
<1> QED
  BY <1>0, <1>5, <1>6 DEF Unfolded

LEMMA ReachedLeast ==
  ASSUME NEW A, IsFiniteSet(A), NEW next \in [A -> SUBSET A], NEW e,
         NEW T, e \in T, \A n \in T : next[n] \subseteq T
  PROVE  Reached(e, next) \subseteq T
<1>0. PICK N, w : Unfolded(A, e, next, N, w)
  BY ReachedLevels
<1>1. /\ N \in Nat /\ N = Cardinality(A) /\ Reached(e, next) = w[N] /\ w[0] = {e}
      /\ \A n \in 1 .. N : w[n] = Wider(w[n - 1], next)
  BY <1>0 DEF Unfolded
<1> DEFINE In == {n \in Nat : w[n] \subseteq T}
<1>2. 0 \in In
  BY <1>1
<1>3. ASSUME NEW n \in 0 .. N - 1, n \in In PROVE n + 1 \in In
  <2>1. n + 1 \in 1 .. N /\ (n + 1) - 1 = n
    BY <1>1
  <2>2. w[n + 1] = w[n] \cup UNION {next[m] : m \in w[n]}
    BY <1>1, <2>1 DEF Wider
  <2> QED
    BY <1>3, <2>2
<1>4. N \in In
  <2> HIDE DEF In
  <2> QED
    BY <1>1, <1>2, <1>3, UpTo, N \in 0 .. N
<1> QED
  BY <1>1, <1>4

LEMMA ReachedSet ==
  ASSUME NEW A, IsFiniteSet(A), NEW next \in [A -> SUBSET A], NEW e \in A
  PROVE  /\ e \in Reached(e, next) /\ Reached(e, next) \subseteq A
         /\ \A n \in Reached(e, next) : next[n] \subseteq Reached(e, next)
<1> DEFINE Closed(S) == \A n \in S : next[n] \subseteq S
<1>0. PICK N, w : Unfolded(A, e, next, N, w)
  BY ReachedLevels
<1>1. /\ N \in Nat /\ N = Cardinality(A) /\ Reached(e, next) = w[N] /\ w[0] = {e}
      /\ \A n \in 1 .. N : w[n] = Wider(w[n - 1], next)
  BY <1>0 DEF Unfolded
<1> DEFINE In == {n \in Nat : /\ e \in w[n] /\ w[n] \subseteq A
                              /\ Closed(w[n]) \/ Cardinality(w[n]) >= n + 1}
<1>2. 0 \in In
  <2>1. w[0] = {e} /\ Cardinality({e}) = 1
    BY <1>1, FS_Singleton
  <2>2. e \in w[0] /\ w[0] \subseteq A /\ Cardinality(w[0]) >= 0 + 1
    BY <2>1
  <2> QED
    BY <2>2
<1>3. ASSUME NEW n \in 0 .. N - 1, n \in In PROVE n + 1 \in In
  <2>1. n + 1 \in 1 .. N /\ (n + 1) - 1 = n
    BY <1>1
  <2>2. w[n + 1] = w[n] \cup UNION {next[m] : m \in w[n]}
    BY <1>1, <2>1 DEF Wider
  <2>3. e \in w[n + 1] /\ w[n] \subseteq w[n + 1] /\ w[n + 1] \subseteq A /\ w[n] \subseteq A
    BY <1>3, <2>2
  <2>4. CASE Closed(w[n])
    <3>1. w[n + 1] = w[n]
      BY <2>2, <2>4
    <3> QED
      BY <2>3, <2>4, <3>1
  <2>5. CASE ~ Closed(w[n])
    <3>1. w[n + 1] # w[n]
      BY <2>2, <2>5
    <3>2. IsFiniteSet(w[n + 1])
      BY <2>3, FS_Subset
    <3>3. /\ Cardinality(w[n]) <= Cardinality(w[n + 1]) /\ Cardinality(w[n]) # Cardinality(w[n + 1])
          /\ IsFiniteSet(w[n])
      BY <2>3, <3>1, <3>2, FS_Subset
    <3>4. Cardinality(w[n]) \in Nat /\ Cardinality(w[n + 1]) \in Nat
      BY <3>2, <3>3, FS_CardinalityType
    <3>5. Cardinality(w[n]) >= n + 1
      BY <1>3, <2>5
    <3>6. Cardinality(w[n + 1]) >= (n + 1) + 1
      BY <3>3, <3>4, <3>5
    <3> QED
      BY <2>3, <3>6
  <2> QED
    BY <2>4, <2>5
<1>4. N \in In
  <2> HIDE DEF In
  <2> QED
    BY <1>1, <1>2, <1>3, UpTo, N \in 0 .. N
<1>5. Cardinality(w[N]) <= N /\ Cardinality(w[N]) \in Nat
  BY <1>1, <1>4, FS_Subset, FS_CardinalityType
<1>6. Closed(w[N])
  BY <1>4, <1>5
<1> QED
  BY <1>1, <1>4, <1>6

(* All but the start was reached from something.                             *)
LEMMA ReachedFrom ==
  ASSUME NEW A, IsFiniteSet(A), NEW next \in [A -> SUBSET A], NEW e \in A
  PROVE  \A x \in Reached(e, next) : x = e \/ \E y \in Reached(e, next) : x \in next[y]
<1> DEFINE R == Reached(e, next)
           T == {x \in R : x = e \/ \E y \in R : x \in next[y]}
<1>1. e \in T /\ T \subseteq R /\ \A n \in R : next[n] \subseteq R
  BY ReachedSet
<1>2. \A n \in T : next[n] \subseteq T
  BY <1>1
<1>3. R \subseteq T
  <2> HIDE DEF T
  <2> QED
    BY <1>1, <1>2, ReachedLeast
<1> QED
  BY <1>3

(* The least and the greatest of a set of numbers.                          *)
LEMMA LeastOf ==
  ASSUME NEW S \in SUBSET Nat, S # {}
  PROVE  Min(S) \in S /\ \A y \in S : Min(S) <= y
<1>1. PICK n \in S : \A m \in S : ~ (<<m, n>> \in OpToRel(<, Nat))
  BY NatLessThanWellFounded, WFMin
<1>2. \A m \in S : n <= m
  <2>1. ASSUME NEW m \in S, m < n PROVE FALSE
    <3>1. <<m, n>> \in Nat \X Nat /\ <<m, n>>[1] < <<m, n>>[2]
      BY <2>1
    <3> QED
      BY <1>1, <2>1, <3>1 DEF OpToRel
  <2> QED
    BY <2>1
<1> QED
  BY <1>1, <1>2 DEF Min

LEMMA GreatestOf ==
  ASSUME NEW N \in Nat, NEW S \in SUBSET (0 .. N), S # {}
  PROVE  Max(S) \in S /\ \A y \in S : y <= Max(S)
<1> DEFINE T == {N - y : y \in S}
<1>1. T \in SUBSET Nat /\ T # {}
  <2>1. \A y \in S : N - y \in Nat
    OBVIOUS
  <2>2. PICK y : y \in S
    OBVIOUS
  <2>3. N - y \in T
    BY <2>2
  <2> QED
    BY <2>1, <2>3
<1>2. Min(T) \in T /\ \A y \in T : Min(T) <= y
  <2> HIDE DEF T
  <2> QED
    BY <1>1, LeastOf
<1>3. PICK x \in S : Min(T) = N - x
  BY <1>2
<1>4. \A y \in S : N - y \in T
  OBVIOUS
<1>5. \A y \in S : y <= x
  <2> HIDE DEF T
  <2> QED
    BY <1>2, <1>3, <1>4
<1> HIDE DEF T
<1>6. \E m \in S : \A y \in S : m >= y
  BY <1>3, <1>5
<1> QED
  BY <1>6 DEF Max
=============================================================================
