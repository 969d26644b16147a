---------------------------- MODULE IterParseProofs ----------------------------
(* Theorems of IterParse, for any well formed documents in either mode: what *)
(* is handed out is complete, carries the namespaces in scope in it, and is  *)
(* every element there is, in the order of the ENDs.                         *)
EXTENDS PullParserProofs

(* Depths.                                                                   *)
LEMMA DocShape ==
  ASSUME NEW d \in Documents
  PROVE  /\ Len(d) \in Nat /\ Len(d) # 0 /\ DOMAIN d = 1 .. Len(d)
         /\ \A j \in 1 .. Len(d) : d[j].type \in EventTypes
         /\ d[Len(d)].type \in {"endDocument", "error"}
<1>1. d # <<>> /\ Last(d).type \in {"endDocument", "error"}
  BY PullAssumption
<1> QED
  BY <1>1, DocFacts DEF Last

LEMMA DocRules ==
  ASSUME NEW d \in Documents, NEW j \in 1 .. Len(d)
  PROVE  /\ DepthIn(d, j) >= 0
         /\ \A k \in 1 .. Len(d) : j < k /\ IsStart(d, j) /\ IsStart(d, k) => DepthIn(d, k) > 1
         /\ d[j].type = "startPrefix" => j < Len(d) /\ d[j + 1].type \in {"startPrefix", "start"}
         /\ d[j].type = "endPrefix" => j > 1 /\ d[j - 1].type \in {"end", "endPrefix"}
         /\ d[j].type \in {"endDocument", "error"} => j = Len(d)
         /\ d[j].type = "endDocument" => DepthIn(d, j) = 0
         /\ \A k \in 1 .. Len(d) : j < k /\ (\A i \in j .. k : d[i].type = "startPrefix")
                                       => d[j].strings[1] # d[k].strings[1]
<1>1. WellFormed(d) /\ DOMAIN d = 1 .. Len(d)
  BY IterAssumption, DocShape
<1> QED
  BY <1>1 DEF WellFormed, IsStart

Count(d, n, T) == Cardinality({k \in 1 .. n : d[k].type \in T})

LEMMA CountStep ==
  ASSUME NEW d, NEW n \in Nat, NEW T
  PROVE  /\ Count(d, 0, T) = 0 /\ Count(d, n, T) \in Nat
         /\ Count(d, n + 1, T) = Count(d, n, T) + IF d[n + 1].type \in T THEN 1 ELSE 0
<1> DEFINE C(m) == {k \in 1 .. m : d[k].type \in T}
<1>1. C(0) = {}
  OBVIOUS
<1>2. IsFiniteSet(C(n)) /\ Cardinality(C(n)) \in Nat
  <2>1. IsFiniteSet(1 .. n)
    BY FS_Interval
  <2>2. C(n) \subseteq 1 .. n
    OBVIOUS
  <2> HIDE DEF C
  <2> QED
    BY <2>1, <2>2, FS_Subset, FS_CardinalityType
<1>3. C(n + 1) = IF d[n + 1].type \in T THEN C(n) \cup {n + 1} ELSE C(n)
  OBVIOUS
<1>4. n + 1 \notin C(n)
  OBVIOUS
<1>5. Cardinality(C(n) \cup {n + 1}) = Cardinality(C(n)) + 1
  <2> HIDE DEF C
  <2> QED
    BY <1>2, <1>4, FS_AddElement
<1>6. Cardinality(C(0)) = 0
  BY <1>1, FS_EmptySet
<1> HIDE DEF C
<1>7. Count(d, 0, T) = Cardinality(C(0)) /\ Count(d, n, T) = Cardinality(C(n)) /\ Count(d, n + 1, T) = Cardinality(C(n + 1))
  BY DEF Count, C
<1> QED
  BY <1>2, <1>3, <1>5, <1>6, <1>7

LEMMA CountBoth ==
  ASSUME NEW d, NEW i \in Nat
  PROVE  /\ Count(d, i, {"start"}) \in Nat /\ Count(d, i, {"end"}) \in Nat
         /\ Count(d, i + 1, {"start"}) = Count(d, i, {"start"}) + IF IsStart(d, i + 1) THEN 1 ELSE 0
         /\ Count(d, i + 1, {"end"}) = Count(d, i, {"end"}) + IF d[i + 1].type = "end" THEN 1 ELSE 0
<1>1. ASSUME NEW T
      PROVE  /\ Count(d, i, T) \in Nat
             /\ Count(d, i + 1, T) = Count(d, i, T) + IF d[i + 1].type \in T THEN 1 ELSE 0
  BY CountStep
<1>2. /\ Count(d, i, {"start"}) \in Nat /\ Count(d, i, {"end"}) \in Nat
      /\ Count(d, i + 1, {"start"}) = Count(d, i, {"start"}) + IF d[i + 1].type \in {"start"} THEN 1 ELSE 0
      /\ Count(d, i + 1, {"end"}) = Count(d, i, {"end"}) + IF d[i + 1].type \in {"end"} THEN 1 ELSE 0
  BY <1>1
<1>3. (d[i + 1].type \in {"start"} <=> IsStart(d, i + 1)) /\ (d[i + 1].type \in {"end"} <=> d[i + 1].type = "end")
  BY DEF IsStart
<1> QED
  BY <1>2, <1>3

LEMMA DepthStep ==
  ASSUME NEW d \in Documents, NEW j \in 1 .. Len(d)
  PROVE  /\ DepthIn(d, 0) = 0 /\ DepthIn(d, j) \in Nat /\ DepthIn(d, j - 1) \in Nat
         /\ DepthIn(d, j) = DepthIn(d, j - 1) + IF IsStart(d, j) THEN 1 ELSE IF d[j].type = "end" THEN - 1 ELSE 0
<1>0. j \in Nat /\ j - 1 \in Nat /\ Len(d) \in Nat
  BY DocShape
<1>1. ASSUME NEW n PROVE DepthIn(d, n) = Count(d, n, {"start"}) - Count(d, n, {"end"})
  BY DEF DepthIn, Count
<1>2. DepthIn(d, 0) = 0
  BY <1>1, CountStep, 0 \in Nat
<1>3. PICK i \in Nat : i = j - 1 /\ i + 1 = j
  BY <1>0
<1>4. /\ Count(d, i, {"start"}) \in Nat /\ Count(d, i, {"end"}) \in Nat
      /\ Count(d, i + 1, {"start"}) = Count(d, i, {"start"}) + IF IsStart(d, i + 1) THEN 1 ELSE 0
      /\ Count(d, i + 1, {"end"}) = Count(d, i, {"end"}) + IF d[i + 1].type = "end" THEN 1 ELSE 0
  <2>1. i \in Nat
    BY <1>3
  <2> QED
    BY <2>1, CountBoth
<1>5. DepthIn(d, i + 1) = DepthIn(d, i) + (IF IsStart(d, j) THEN 1 ELSE IF d[j].type = "end" THEN - 1 ELSE 0)
      /\ DepthIn(d, i) \in Int
  <2>1. DepthIn(d, i) = Count(d, i, {"start"}) - Count(d, i, {"end"})
        /\ DepthIn(d, i + 1) = Count(d, i + 1, {"start"}) - Count(d, i + 1, {"end"})
    BY <1>1
  <2>2. ~ (IsStart(d, j) /\ d[j].type = "end")
    BY DEF IsStart
  <2> QED
    BY <1>3, <1>4, <2>1, <2>2
<1>6. DepthIn(d, j) >= 0
  BY DocRules
<1>7. DepthIn(d, i) >= 0
  BY <1>0, <1>2, <1>3, DocRules
<1> QED
  BY <1>2, <1>3, <1>5, <1>6, <1>7

LEMMA DepthNat ==
  ASSUME NEW d \in Documents
  PROVE  \A j \in 0 .. Len(d) : DepthIn(d, j) \in Nat
<1>1. Len(d) \in Nat
  BY DocShape
<1>2. ASSUME NEW j \in 0 .. Len(d) PROVE DepthIn(d, j) \in Nat
  <2>1. CASE j = 0
    <3>1. 1 \in 1 .. Len(d)
      BY DocShape
    <3> QED
      BY <2>1, <3>1, DepthStep
  <2>2. CASE j # 0
    BY <1>1, <2>2, DepthStep, j \in 1 .. Len(d)
  <2> QED
    BY <2>1, <2>2
<1> QED
  BY <1>2

(* Where an element ends, and which are open.                                *)
LEMMA EndFacts ==
  ASSUME NEW d \in Documents, NEW e \in 1 .. Len(d)
  PROVE  /\ EndOf(d, e) \in e + 1 .. Len(d) + 1
         /\ \A j \in e .. EndOf(d, e) - 1 : DepthIn(d, j) >= DepthIn(d, e)
         /\ EndOf(d, e) <= Len(d) => DepthIn(d, EndOf(d, e)) < DepthIn(d, e)
<1>0. Len(d) \in Nat /\ e \in Nat /\ \A j \in e .. Len(d) : DepthIn(d, j) \in Nat
  <2>1. \A j \in e .. Len(d) : j \in 0 .. Len(d)
    BY DocShape
  <2> QED
    BY <2>1, DocShape, DepthNat
<1> DEFINE S == {j \in e .. Len(d) : DepthIn(d, j) < DepthIn(d, e)} \cup {Len(d) + 1}
<1>1. S \in SUBSET Nat /\ S # {}
  BY <1>0
<1>2. Min(S) \in S /\ \A y \in S : Min(S) <= y
  <2> HIDE DEF S
  <2> QED
    BY <1>1, LeastOf
<1>3. EndOf(d, e) = Min(S)
  BY DEF EndOf
<1>4. PICK m : m = Min(S)
  OBVIOUS
<1>5. m \in S /\ (\A y \in S : m <= y) /\ EndOf(d, e) = m
  <2> HIDE DEF S
  <2> QED
    BY <1>2, <1>3, <1>4
<1>6. e \notin S
  BY <1>0
<1>7. m \in e + 1 .. Len(d) + 1
  BY <1>0, <1>5, <1>6
<1>8. \A j \in e .. m - 1 : DepthIn(d, j) >= DepthIn(d, e)
  BY <1>0, <1>5, <1>7
<1> QED
  BY <1>0, <1>5, <1>7, <1>8

Opened(d, s, t) == s \in 1 .. t /\ IsStart(d, s) /\ EndOf(d, s) > t

LEMMA OpenFacts ==
  ASSUME NEW d \in Documents, NEW t \in 0 .. Len(d), NEW s
  PROVE  Opened(d, s, t) <=> s \in 1 .. t /\ IsStart(d, s) /\ \A j \in s .. t : DepthIn(d, j) >= DepthIn(d, s)
<1>1. Len(d) \in Nat
  BY DocShape
<1>2. CASE s \in 1 .. t
  <2>1. /\ EndOf(d, s) \in s + 1 .. Len(d) + 1
        /\ \A j \in s .. EndOf(d, s) - 1 : DepthIn(d, j) >= DepthIn(d, s)
        /\ EndOf(d, s) <= Len(d) => DepthIn(d, EndOf(d, s)) < DepthIn(d, s)
    BY <1>1, <1>2, EndFacts
  <2>2. PICK m : m = EndOf(d, s)
    OBVIOUS
  <2>3. ASSUME m > t PROVE \A j \in s .. t : DepthIn(d, j) >= DepthIn(d, s)
    BY <1>1, <1>2, <2>1, <2>2, <2>3
  <2>4. ASSUME m <= t PROVE m \in s .. t /\ ~ (DepthIn(d, m) >= DepthIn(d, s))
    <3>1. m \in s .. t /\ m \in 0 .. Len(d) /\ s \in 0 .. Len(d)
      BY <1>1, <1>2, <2>1, <2>2, <2>4
    <3>2. DepthIn(d, m) \in Nat /\ DepthIn(d, s) \in Nat
      BY <3>1, DepthNat
    <3> QED
      BY <1>1, <2>1, <2>2, <2>4, <3>1, <3>2
  <2>5. m > t \/ m <= t
    BY <1>1, <1>2, <2>1, <2>2
  <2> QED
    BY <1>2, <2>2, <2>3, <2>4, <2>5 DEF Opened
<1>3. CASE s \notin 1 .. t
  BY <1>3 DEF Opened
<1> QED
  BY <1>2, <1>3

(* What is open lies below, and no two at the same depth.                    *)
LEMMA OpenDepth ==
  ASSUME NEW d \in Documents, NEW t \in 0 .. Len(d), NEW s, Opened(d, s, t)
  PROVE  /\ s \in 1 .. t /\ s \in 1 .. Len(d) /\ IsStart(d, s) /\ DepthIn(d, s) \in 1 .. DepthIn(d, t)
         /\ \A u : Opened(d, u, t) /\ s < u => DepthIn(d, s) < DepthIn(d, u)
<1>1. Len(d) \in Nat /\ t \in Nat /\ t <= Len(d)
  BY DocShape
<1>2. s \in 1 .. t /\ IsStart(d, s) /\ \A j \in s .. t : DepthIn(d, j) >= DepthIn(d, s)
  BY OpenFacts
<1>3. \A j \in 0 .. Len(d) : DepthIn(d, j) \in Nat
  BY DepthNat
<1>4. ASSUME NEW u \in 1 .. t, IsStart(d, u)
      PROVE  DepthIn(d, u) = DepthIn(d, u - 1) + 1 /\ DepthIn(d, u - 1) \in Nat
  <2>1. u \in 1 .. Len(d)
    BY <1>1, <1>4
  <2> QED
    BY <1>4, <2>1, DepthStep
<1>5. DepthIn(d, s) \in 1 .. DepthIn(d, t)
  <2>1. t \in s .. t /\ t \in 0 .. Len(d) /\ s \in 0 .. Len(d)
    BY <1>1, <1>2
  <2> QED
    BY <1>2, <1>3, <1>4, <2>1
<1>6. ASSUME NEW u, Opened(d, u, t), s < u PROVE DepthIn(d, s) < DepthIn(d, u)
  <2>1. u \in 1 .. t /\ IsStart(d, u)
    BY <1>6, OpenFacts
  <2>2. u - 1 \in s .. t /\ s \in 0 .. Len(d)
    BY <1>1, <1>2, <1>6, <2>1
  <2> QED
    BY <1>2, <1>3, <1>4, <2>1, <2>2
<1> QED
  BY <1>1, <1>2, <1>5, <1>6

LEMMA OpenOnce ==
  ASSUME NEW d \in Documents, NEW t \in 0 .. Len(d), NEW s, NEW u,
         Opened(d, s, t), Opened(d, u, t), DepthIn(d, s) = DepthIn(d, u)
  PROVE  s = u
<1>1. Len(d) \in Nat
  BY DocShape
<1>2. s \in 1 .. t /\ u \in 1 .. t /\ DepthIn(d, s) \in Nat /\ DepthIn(d, u) \in Nat
  <2>1. s \in 1 .. t /\ u \in 1 .. t /\ s \in 0 .. Len(d) /\ u \in 0 .. Len(d)
    BY <1>1, OpenDepth
  <2> QED
    BY <2>1, DepthNat
<1>3. ~ (s < u) /\ ~ (u < s)
  BY <1>2, OpenDepth
<1> QED
  BY <1>2, <1>3

(* One event more.                                                           *)
LEMMA OpenStep ==
  ASSUME NEW d \in Documents, NEW t \in 0 .. Len(d) - 1, NEW s
  PROVE  Opened(d, s, t + 1) <=> (s = t + 1 /\ IsStart(d, s)) \/ (Opened(d, s, t) /\ DepthIn(d, t + 1) >= DepthIn(d, s))
<1>1. Len(d) \in Nat /\ t \in 0 .. Len(d) /\ t + 1 \in 0 .. Len(d)
  BY DocShape
<1>2. PICK u : u = t + 1
  OBVIOUS
<1>3. Opened(d, s, u) <=> s \in 1 .. u /\ IsStart(d, s) /\ \A j \in s .. u : DepthIn(d, j) >= DepthIn(d, s)
  BY <1>1, <1>2, OpenFacts
<1>4. Opened(d, s, t) <=> s \in 1 .. t /\ IsStart(d, s) /\ \A j \in s .. t : DepthIn(d, j) >= DepthIn(d, s)
  BY <1>1, OpenFacts
<1>5. CASE s = u
  <2>1. DepthIn(d, s) \in Nat /\ s \in 1 .. u
    BY <1>1, <1>2, <1>5, DepthNat
  <2>2. \A j \in s .. u : j = s
    BY <1>1, <1>2, <1>5
  <2>3. s \notin 1 .. t
    BY <1>1, <1>2, <1>5
  <2> QED
    BY <1>2, <1>3, <1>4, <1>5, <2>1, <2>2, <2>3
<1>6. CASE s # u
  <2>1. s \in 1 .. u <=> s \in 1 .. t
    BY <1>1, <1>2, <1>6
  <2>2. s \in 1 .. t => /\ u \in s .. u
                        /\ \A j : j \in s .. u <=> j \in s .. t \/ j = u
    BY <1>1, <1>2
  <2> QED
    BY <1>2, <1>3, <1>4, <1>6, <2>1, <2>2
<1> QED
  BY <1>2, <1>5, <1>6

LEMMA EndStep ==
  ASSUME NEW d \in Documents, NEW t \in 0 .. Len(d) - 1, NEW s, s \in 1 .. Len(d), IsStart(d, s)
  PROVE  EndOf(d, s) = t + 1 <=> Opened(d, s, t) /\ DepthIn(d, t + 1) < DepthIn(d, s)
<1>1. Len(d) \in Nat /\ t \in 0 .. Len(d) /\ t + 1 \in 0 .. Len(d) /\ s \in 0 .. Len(d)
  BY DocShape
<1>2. DepthIn(d, t + 1) \in Nat /\ DepthIn(d, s) \in Nat
  BY <1>1, DepthNat
<1>3. EndOf(d, s) \in s + 1 .. Len(d) + 1
      /\ (EndOf(d, s) <= Len(d) => DepthIn(d, EndOf(d, s)) < DepthIn(d, s))
  BY EndFacts
<1>4. PICK m : m = EndOf(d, s)
  OBVIOUS
<1>5. ASSUME m = t + 1 PROVE Opened(d, s, t) /\ DepthIn(d, t + 1) < DepthIn(d, s)
  <2>1. s \in 1 .. t /\ m > t /\ m <= Len(d)
    BY <1>1, <1>3, <1>4, <1>5
  <2> QED
    BY <1>3, <1>4, <1>5, <2>1 DEF Opened
<1>6. ASSUME Opened(d, s, t), DepthIn(d, t + 1) < DepthIn(d, s) PROVE m = t + 1
  <2>1. m > t /\ s \in 1 .. t
    BY <1>4, <1>6 DEF Opened
  <2>2. ~ Opened(d, s, t + 1)
    BY <1>1, <1>2, <1>6, <2>1, OpenStep
  <2>3. ~ (m > t + 1)
    <3>1. s \in 1 .. t + 1
      BY <1>1, <2>1
    <3> QED
      BY <1>4, <2>2, <3>1 DEF Opened
  <2> QED
    BY <1>1, <1>3, <1>4, <2>1, <2>3
<1> QED
  BY <1>4, <1>5, <1>6

LEMMA OpenIn ==
  ASSUME NEW d \in Documents, NEW e \in 1 .. Len(d), IsStart(d, e), NEW s \in 1 .. e, IsStart(d, s)
  PROVE  EndOf(d, s) >= EndOf(d, e) <=> Opened(d, s, e)
<1>1. Len(d) \in Nat /\ s \in 1 .. Len(d) /\ e \in 0 .. Len(d)
  BY DocShape
<1>2. /\ EndOf(d, e) \in e + 1 .. Len(d) + 1 /\ EndOf(d, s) \in s + 1 .. Len(d) + 1
      /\ \A j \in e .. EndOf(d, e) - 1 : DepthIn(d, j) >= DepthIn(d, e)
      /\ EndOf(d, s) <= Len(d) => DepthIn(d, EndOf(d, s)) < DepthIn(d, s)
  BY <1>1, EndFacts
<1>3. PICK m, n : m = EndOf(d, s) /\ n = EndOf(d, e)
  OBVIOUS
<1>4. m >= n => Opened(d, s, e)
  BY <1>1, <1>2, <1>3 DEF Opened
<1>5. ASSUME Opened(d, s, e), m < n PROVE FALSE
  <2>1. m > e /\ DepthIn(d, e) >= DepthIn(d, s)
    <3>1. e \in s .. e
      BY <1>1
    <3> QED
      BY <1>1, <1>3, <1>5, <3>1, OpenFacts DEF Opened
  <2>2. m \in e .. n - 1 /\ m <= Len(d) /\ m \in 0 .. Len(d) /\ s \in 0 .. Len(d)
    BY <1>1, <1>2, <1>3, <1>5, <2>1
  <2>3. DepthIn(d, m) \in Nat /\ DepthIn(d, s) \in Nat /\ DepthIn(d, e) \in Nat
    BY <1>1, <2>2, DepthNat
  <2> QED
    BY <1>2, <1>3, <2>1, <2>2, <2>3
<1>6. m \in Int /\ n \in Int
  BY <1>1, <1>2, <1>3
<1> QED
  BY <1>3, <1>4, <1>5, <1>6

(* The open elements are on the stack, each at its depth; the root of the    *)
(* top-level mode is only counted.                                           *)
Stacked(d, mode, depth, stack, rootDoc, t) ==
  /\ depth = DepthIn(d, t) /\ stack \in Seq(Nat) /\ Len(stack) >= depth /\ mode \in {"top", "full"}
  /\ \A k \in 1 .. depth : \E s : /\ Opened(d, s, t) /\ DepthIn(d, s) = k
                                  /\ stack[k] = IF mode = "top" /\ k = 1 THEN 0 ELSE s
  /\ mode = "top" => ~ rootDoc
  /\ mode = "full" /\ depth > 0 => rootDoc

LEMMA StepFacts ==
  ASSUME NEW d \in Documents, NEW t \in 0 .. Len(d) - 1
  PROVE  /\ Len(d) \in Nat /\ t \in Nat /\ t \in 0 .. Len(d) /\ t + 1 \in 0 .. Len(d) /\ t + 1 \in 1 .. Len(d)
         /\ DepthIn(d, t) \in Nat /\ DepthIn(d, t + 1) \in Nat
         /\ DepthIn(d, t + 1) = DepthIn(d, t) + IF IsStart(d, t + 1) THEN 1 ELSE IF d[t + 1].type = "end" THEN - 1 ELSE 0
<1>1. Len(d) \in Nat
  BY DocShape
<1>2. t + 1 \in 1 .. Len(d) /\ t \in 0 .. Len(d) /\ t + 1 \in 0 .. Len(d) /\ t = (t + 1) - 1
  BY <1>1
<1>3. DepthIn(d, t) \in Nat /\ DepthIn(d, t + 1) \in Nat
  BY <1>2, DepthNat
<1>4. PICK j \in 1 .. Len(d) : j = t + 1 /\ j - 1 = t
  BY <1>1, <1>2
<1>5. DepthIn(d, j) = DepthIn(d, j - 1) + IF IsStart(d, j) THEN 1 ELSE IF d[j].type = "end" THEN - 1 ELSE 0
  BY <1>4, DepthStep
<1> QED
  BY <1>1, <1>2, <1>3, <1>4, <1>5

LEMMA StackSame ==
  ASSUME NEW d \in Documents, NEW t \in 0 .. Len(d) - 1, ~ IsStart(d, t + 1), d[t + 1].type # "end",
         NEW mode, NEW depth, NEW stack, NEW rootDoc, Stacked(d, mode, depth, stack, rootDoc, t)
  PROVE  Stacked(d, mode, depth, stack, rootDoc, t + 1)
<1>1. DepthIn(d, t + 1) = DepthIn(d, t) /\ DepthIn(d, t) \in Nat /\ t \in 0 .. Len(d)
  BY StepFacts
<1>2. ASSUME NEW s, Opened(d, s, t) PROVE Opened(d, s, t + 1)
  <2>1. DepthIn(d, s) \in 1 .. DepthIn(d, t)
    BY <1>1, <1>2, OpenDepth
  <2>2. DepthIn(d, t + 1) >= DepthIn(d, s)
    BY <1>1, <2>1
  <2> QED
    BY <1>2, <2>2, OpenStep
<1> QED
  BY <1>1, <1>2 DEF Stacked

LEMMA StackStart ==
  ASSUME NEW d \in Documents, NEW t \in 0 .. Len(d) - 1, IsStart(d, t + 1),
         NEW mode, NEW depth, NEW stack, NEW rootDoc \in BOOLEAN, Stacked(d, mode, depth, stack, rootDoc, t)
  PROVE  IF mode = "top" /\ depth = 0 THEN Stacked(d, mode, 1, <<0>>, rootDoc, t + 1)
         ELSE Stacked(d, mode, depth + 1, Append(SubSeq(stack, 1, depth), t + 1), rootDoc \/ mode # "top", t + 1)
<1>1. /\ DepthIn(d, t + 1) = depth + 1 /\ DepthIn(d, t) = depth /\ depth \in Nat /\ t \in 0 .. Len(d)
      /\ t \in Nat /\ t + 1 \in Nat
  BY StepFacts DEF Stacked
<1>2. ASSUME NEW s, Opened(d, s, t) PROVE Opened(d, s, t + 1)
  <2>1. DepthIn(d, s) \in 1 .. DepthIn(d, t)
    BY <1>1, <1>2, OpenDepth
  <2>2. DepthIn(d, t + 1) >= DepthIn(d, s)
    BY <1>1, <2>1
  <2> QED
    BY <1>2, <2>2, OpenStep
<1>3. Opened(d, t + 1, t + 1)
  BY OpenStep
<1>4. /\ stack \in Seq(Nat) /\ Len(stack) >= depth /\ mode \in {"top", "full"}
      /\ \A k \in 1 .. depth : \E s : /\ Opened(d, s, t) /\ DepthIn(d, s) = k
                                      /\ stack[k] = IF mode = "top" /\ k = 1 THEN 0 ELSE s
      /\ mode = "top" => ~ rootDoc
  BY DEF Stacked
<1>5. CASE mode = "top" /\ depth = 0
  <2>3. <<0>> \in Seq(Nat) /\ Len(<<0>>) = 1 /\ <<0>>[1] = 0
    OBVIOUS
  <2>1. PICK w : w = <<0>> /\ w \in Seq(Nat) /\ Len(w) = 1 /\ w[1] = 0
    BY <2>3
  <2>2. \A k \in 1 .. 1 : \E s : /\ Opened(d, s, t + 1) /\ DepthIn(d, s) = k
                                 /\ w[k] = IF mode = "top" /\ k = 1 THEN 0 ELSE s
    BY <1>1, <1>3, <1>5, <2>1
  <2> QED
    BY <1>1, <1>4, <1>5, <2>1, <2>2 DEF Stacked
<1>6. CASE ~ (mode = "top" /\ depth = 0)
  <2>1. PICK v : v = SubSeq(stack, 1, depth)
    OBVIOUS
  <2>2. v \in Seq(Nat) /\ Len(v) = depth /\ \A k \in 1 .. depth : v[k] = stack[k]
    BY <1>1, <1>4, <2>1
  <2>3. PICK w : w = Append(v, t + 1)
    OBVIOUS
  <2>4. /\ w \in Seq(Nat) /\ Len(w) = depth + 1 /\ w[depth + 1] = t + 1
        /\ \A k \in 1 .. depth : w[k] = stack[k]
    BY <1>1, <2>2, <2>3, AppendAt
  <2>5. ASSUME NEW k \in 1 .. depth + 1
        PROVE  \E s : /\ Opened(d, s, t + 1) /\ DepthIn(d, s) = k
                      /\ w[k] = IF mode = "top" /\ k = 1 THEN 0 ELSE s
    <3>1. CASE k \in 1 .. depth
      BY <1>2, <1>4, <2>4, <3>1
    <3>2. CASE k = depth + 1
      <4>1. ~ (mode = "top" /\ k = 1)
        BY <1>1, <1>6, <3>2
      <4> QED
        BY <1>1, <1>3, <2>4, <3>2, <4>1
    <3> QED
      BY <1>1, <2>5, <3>1, <3>2
  <2>6. mode = "top" => ~ (rootDoc \/ mode # "top")
    BY <1>4
  <2>7. mode = "full" => (rootDoc \/ mode # "top")
    OBVIOUS
  <2>8. depth + 1 = DepthIn(d, t + 1) /\ w \in Seq(Nat) /\ Len(w) >= depth + 1 /\ mode \in {"top", "full"}
    BY <1>1, <1>4, <2>4
  <2>9. Stacked(d, mode, depth + 1, w, rootDoc \/ mode # "top", t + 1)
    BY <2>5, <2>6, <2>7, <2>8 DEF Stacked
  <2> QED
    BY <1>6, <2>1, <2>3, <2>9
<1> QED
  BY <1>5, <1>6

(* The END of the innermost open element, and of no other.                   *)
EndsAt(d, s, t) ==
  /\ s \in 1 .. Len(d) /\ IsStart(d, s) /\ EndOf(d, s) = t + 1
  /\ Opened(d, s, t) /\ DepthIn(d, s) = DepthIn(d, t)
  /\ \A u \in 1 .. Len(d) : IsStart(d, u) /\ EndOf(d, u) = t + 1 => u = s

LEMMA StackEnd ==
  ASSUME NEW d \in Documents, NEW t \in 0 .. Len(d) - 1, d[t + 1].type = "end",
         NEW mode, NEW depth, NEW stack, NEW rootDoc, Stacked(d, mode, depth, stack, rootDoc, t)
  PROVE  /\ depth \in Nat /\ depth # 0 /\ Stacked(d, mode, depth - 1, stack, rootDoc, t + 1)
         /\ \E s : EndsAt(d, s, t) /\ stack[depth] = IF mode = "top" /\ depth = 1 THEN 0 ELSE s
<1>1. /\ DepthIn(d, t + 1) = depth - 1 /\ DepthIn(d, t) = depth /\ depth \in Nat /\ t \in 0 .. Len(d)
      /\ t \in Nat /\ t + 1 \in Nat /\ depth # 0 /\ Len(d) \in Nat
  <2>1. ~ IsStart(d, t + 1)
    BY DEF IsStart
  <2> QED
    BY <2>1, StepFacts DEF Stacked
<1>2. ASSUME NEW s, Opened(d, s, t) PROVE Opened(d, s, t + 1) <=> DepthIn(d, s) <= depth - 1
  <2>1. DepthIn(d, s) \in 1 .. DepthIn(d, t) /\ s \in 1 .. t
    BY <1>1, <1>2, OpenDepth
  <2> QED
    BY <1>1, <1>2, <2>1, OpenStep
<1>3. /\ stack \in Seq(Nat) /\ Len(stack) >= depth /\ mode \in {"top", "full"}
      /\ \A k \in 1 .. depth : \E s : /\ Opened(d, s, t) /\ DepthIn(d, s) = k
                                      /\ stack[k] = IF mode = "top" /\ k = 1 THEN 0 ELSE s
      /\ mode = "top" => ~ rootDoc
      /\ mode = "full" /\ depth > 0 => rootDoc
  BY DEF Stacked
<1>4. Stacked(d, mode, depth - 1, stack, rootDoc, t + 1)
  <2>1. \A k \in 1 .. depth - 1 : k \in 1 .. depth /\ k <= depth - 1
    BY <1>1
  <2>2. \A k \in 1 .. depth - 1 : \E s : /\ Opened(d, s, t + 1) /\ DepthIn(d, s) = k
                                      /\ stack[k] = IF mode = "top" /\ k = 1 THEN 0 ELSE s
    BY <1>2, <1>3, <2>1
  <2>3. /\ depth - 1 = DepthIn(d, t + 1) /\ Len(stack) >= depth - 1
        /\ depth - 1 > 0 => depth > 0
    <3>1. Len(stack) \in Nat
      BY <1>3
    <3> QED
      BY <1>1, <1>3, <3>1
  <2> QED
    BY <1>3, <2>2, <2>3 DEF Stacked
<1>5. PICK s : Opened(d, s, t) /\ DepthIn(d, s) = depth /\ stack[depth] = IF mode = "top" /\ depth = 1 THEN 0 ELSE s
  BY <1>1, <1>3
<1>6. s \in 1 .. Len(d) /\ IsStart(d, s)
  BY <1>1, <1>5, OpenDepth
<1>7. EndOf(d, s) = t + 1
  BY <1>1, <1>5, <1>6, EndStep
<1>8. ASSUME NEW u \in 1 .. Len(d), IsStart(d, u), EndOf(d, u) = t + 1 PROVE u = s
  <2>1. Opened(d, u, t) /\ DepthIn(d, t + 1) < DepthIn(d, u)
    BY <1>8, EndStep
  <2>2. DepthIn(d, u) \in 1 .. DepthIn(d, t)
    BY <1>1, <2>1, OpenDepth
  <2>3. DepthIn(d, u) = DepthIn(d, s)
    BY <1>1, <1>5, <2>1, <2>2
  <2> QED
    BY <1>1, <1>5, <2>1, <2>3, OpenOnce
<1> QED
  BY <1>1, <1>4, <1>5, <1>6, <1>7, <1>8 DEF EndsAt

(* What has been handed out after t events.                                  *)
Handed(d, mode, t) ==
  {e \in 1 .. t : IsStart(d, e) /\ EndOf(d, e) <= t /\ (mode = "full" \/ DepthIn(d, e) = 2)}
Yielded(d, mode, yields, t) ==
  /\ yields \in Seq(Nat) /\ ToSet(yields) = Handed(d, mode, t)
  /\ \A j, k \in DOMAIN yields : j < k => EndOf(d, yields[j]) < EndOf(d, yields[k])

LEMMA HandedStep ==
  ASSUME NEW d \in Documents, NEW t \in 0 .. Len(d) - 1, NEW mode, NEW e
  PROVE  e \in Handed(d, mode, t + 1) <=>
           \/ e \in Handed(d, mode, t)
           \/ e \in 1 .. Len(d) /\ IsStart(d, e) /\ EndOf(d, e) = t + 1 /\ (mode = "full" \/ DepthIn(d, e) = 2)
<1>1. Len(d) \in Nat /\ t \in Nat /\ t + 1 \in 1 .. Len(d)
  BY StepFacts
<1>2. ASSUME NEW u \in 1 .. Len(d) PROVE EndOf(d, u) \in u + 1 .. Len(d) + 1
  BY EndFacts
<1>3. PICK m : m = EndOf(d, e)
  OBVIOUS
<1>4. e \in Handed(d, mode, t + 1) <=> e \in 1 .. t + 1 /\ IsStart(d, e) /\ m <= t + 1 /\ (mode = "full" \/ DepthIn(d, e) = 2)
  BY <1>3 DEF Handed
<1>5. e \in Handed(d, mode, t) <=> e \in 1 .. t /\ IsStart(d, e) /\ m <= t /\ (mode = "full" \/ DepthIn(d, e) = 2)
  BY <1>3 DEF Handed
<1>6. e \in 1 .. Len(d) => m \in e + 1 .. Len(d) + 1
  BY <1>2, <1>3
<1> QED
  BY <1>1, <1>3, <1>4, <1>5, <1>6

LEMMA YieldSame ==
  ASSUME NEW d \in Documents, NEW t \in 0 .. Len(d) - 1, d[t + 1].type # "end",
         NEW mode, NEW yields, Yielded(d, mode, yields, t)
  PROVE  Yielded(d, mode, yields, t + 1)
<1>1. /\ DepthIn(d, t + 1) >= DepthIn(d, t) /\ t \in 0 .. Len(d)
      /\ DepthIn(d, t + 1) \in Nat /\ DepthIn(d, t) \in Nat
  BY StepFacts
<1>2. ASSUME NEW e \in 1 .. Len(d), IsStart(d, e), EndOf(d, e) = t + 1 PROVE FALSE
  <2>1. Opened(d, e, t) /\ DepthIn(d, t + 1) < DepthIn(d, e)
    BY <1>2, EndStep
  <2>2. DepthIn(d, e) \in 1 .. DepthIn(d, t)
    BY <1>1, <2>1, OpenDepth
  <2> QED
    BY <1>1, <2>1, <2>2
<1>3. \A e : e \in Handed(d, mode, t + 1) <=> e \in Handed(d, mode, t)
  BY <1>2, HandedStep
<1>4. Handed(d, mode, t + 1) = Handed(d, mode, t)
  BY <1>3
<1> QED
  BY <1>4 DEF Yielded

LEMMA YieldEnd ==
  ASSUME NEW d \in Documents, NEW t \in 0 .. Len(d) - 1, NEW mode, NEW yields, Yielded(d, mode, yields, t),
         NEW s, EndsAt(d, s, t)
  PROVE  IF mode = "full" \/ DepthIn(d, s) = 2 THEN Yielded(d, mode, Append(yields, s), t + 1)
         ELSE Yielded(d, mode, yields, t + 1)
<1>0. /\ s \in 1 .. Len(d) /\ IsStart(d, s) /\ EndOf(d, s) = t + 1
      /\ \A u \in 1 .. Len(d) : IsStart(d, u) /\ EndOf(d, u) = t + 1 => u = s
  BY DEF EndsAt
<1>1. CASE mode = "full" \/ DepthIn(d, s) = 2
  <2>0. \A e : e \in Handed(d, mode, t + 1) <=> e \in Handed(d, mode, t) \/ e = s
    <3>1. ASSUME NEW e PROVE e \in Handed(d, mode, t + 1) <=> e \in Handed(d, mode, t) \/ e = s
      <4>1. e \in Handed(d, mode, t + 1) <=>
              \/ e \in Handed(d, mode, t)
              \/ e \in 1 .. Len(d) /\ IsStart(d, e) /\ EndOf(d, e) = t + 1 /\ (mode = "full" \/ DepthIn(d, e) = 2)
        BY HandedStep
      <4> QED
        BY <1>0, <1>1, <4>1
    <3> QED
      BY <3>1
  <2>1. Handed(d, mode, t + 1) = Handed(d, mode, t) \cup {s}
    BY <2>0
  <2>2. yields \in Seq(Nat) /\ ToSet(yields) = Handed(d, mode, t)
        /\ \A j, k \in DOMAIN yields : j < k => EndOf(d, yields[j]) < EndOf(d, yields[k])
    BY DEF Yielded
  <2>3. s \in Nat /\ t \in Nat
    BY <1>0, StepFacts
  <2>4. PICK v : v = Append(yields, s)
    OBVIOUS
  <2>5. /\ v \in Seq(Nat) /\ Len(yields) \in Nat /\ DOMAIN yields = 1 .. Len(yields)
        /\ DOMAIN v = 1 .. Len(yields) + 1 /\ v[Len(yields) + 1] = s
        /\ \A i \in 1 .. Len(yields) : v[i] = yields[i]
    <3>1. yields \in Seq(Nat) /\ s \in Nat
      BY <2>2, <2>3
    <3>2. /\ Append(yields, s) \in Seq(Nat) /\ Len(yields) \in Nat /\ DOMAIN yields = 1 .. Len(yields)
          /\ DOMAIN Append(yields, s) = 1 .. Len(yields) + 1 /\ Append(yields, s)[Len(yields) + 1] = s
          /\ \A i \in 1 .. Len(yields) : Append(yields, s)[i] = yields[i]
      BY <3>1, AppendAt
    <3> QED
      BY <2>4, <3>2
  <2>6. ToSet(v) = Handed(d, mode, t + 1)
    <3>1. yields \in Seq(Nat) /\ s \in Nat
      BY <2>2, <2>3
    <3>2. ToSet(Append(yields, s)) = ToSet(yields) \cup {s}
      BY <3>1, AppendSet
    <3> QED
      BY <2>1, <2>2, <2>4, <3>2
  <2>7. \A i \in 1 .. Len(yields) : EndOf(d, yields[i]) <= t
    <3>1. \A i \in 1 .. Len(yields) : yields[i] \in ToSet(yields)
      BY <2>5 DEF ToSet
    <3> QED
      BY <2>2, <3>1 DEF Handed
  <2>8. \A i \in 1 .. Len(yields) : EndOf(d, yields[i]) < EndOf(d, s)
    <3>1. ASSUME NEW i \in 1 .. Len(yields) PROVE EndOf(d, yields[i]) < t + 1
      <4>1. yields[i] \in Handed(d, mode, t)
        BY <2>2, <2>5 DEF ToSet
      <4>2. yields[i] \in 1 .. Len(d) /\ EndOf(d, yields[i]) <= t
        BY <2>3, <4>1, StepFacts DEF Handed
      <4>3. EndOf(d, yields[i]) \in yields[i] + 1 .. Len(d) + 1
        BY <4>2, EndFacts
      <4> QED
        BY <2>3, <4>2, <4>3
    <3> QED
      BY <1>0, <3>1
  <2>9. \A j, k \in DOMAIN v : j < k => EndOf(d, v[j]) < EndOf(d, v[k])
    <3>1. ASSUME NEW j \in 1 .. Len(yields) + 1, NEW k \in 1 .. Len(yields) + 1, j < k
          PROVE  EndOf(d, v[j]) < EndOf(d, v[k])
      <4>1. j \in 1 .. Len(yields) /\ v[j] = yields[j]
        BY <2>5, <3>1
      <4>2. CASE k = Len(yields) + 1
        <5>1. v[k] = s /\ EndOf(d, yields[j]) < EndOf(d, s)
          BY <2>5, <2>8, <4>1, <4>2
        <5> QED
          BY <4>1, <5>1
      <4>3. CASE k # Len(yields) + 1
        <5>1. k \in 1 .. Len(yields) /\ v[k] = yields[k]
          BY <2>5, <3>1, <4>3
        <5> QED
          BY <2>2, <2>5, <3>1, <4>1, <5>1
      <4> QED
        BY <4>2, <4>3
    <3> QED
      BY <2>5, <3>1
  <2>10. Yielded(d, mode, v, t + 1)
    BY <2>5, <2>6, <2>9 DEF Yielded
  <2> QED
    BY <1>1, <2>4, <2>10
<1>2. CASE ~ (mode = "full" \/ DepthIn(d, s) = 2)
  <2>1. Handed(d, mode, t + 1) = Handed(d, mode, t)
    <3>1. \A e : e \in Handed(d, mode, t + 1) <=> e \in Handed(d, mode, t)
      BY <1>0, <1>2, HandedStep
    <3> QED
      BY <3>1
  <2> QED
    BY <1>2, <2>1 DEF Yielded
<1> QED
  BY <1>1, <1>2

(* The fields of the iterator after each handler.                            *)
Typed(i) ==
  i \in [mode : {"top", "full"}, depth : Nat, stack : Seq(Nat), text : {i.text}, ns : {i.ns}, snap : {i.snap},
         done : Nat, doneDepth : Nat, rootDoc : BOOLEAN, subDoc : BOOLEAN, running : BOOLEAN,
         exhausted : BOOLEAN, error : BOOLEAN, yields : Seq(Nat)]

(* Mode and progress of the call are the same.                               *)
Alike(v, i) ==
  /\ Typed(v) /\ v.mode = i.mode /\ v.done = i.done /\ v.doneDepth = i.doneDepth /\ v.running = i.running
  /\ v.exhausted = i.exhausted /\ v.error = i.error /\ v.snap = i.snap /\ v.yields = i.yields
SameStack(v, i) == v.depth = i.depth /\ v.stack = i.stack /\ v.rootDoc = i.rootDoc

LEMMA FlushFields ==
  ASSUME NEW w, Typed(w.it)
  PROVE  /\ Alike(FlushText(w).it, w.it) /\ SameStack(FlushText(w).it, w.it)
         /\ FlushText(w).it.text = <<>> /\ FlushText(w).it.ns = w.it.ns /\ FlushText(w).it.subDoc = w.it.subDoc
<1>1. FlushText(w).it = [w.it EXCEPT !.text = <<>>]
  BY DEF FlushText
<1>2. PICK i, v : i = w.it /\ v = FlushText(w).it
  OBVIOUS
<1>3. Typed(i) /\ v = [i EXCEPT !.text = <<>>]
  BY <1>1, <1>2
<1>4. Alike(v, i) /\ SameStack(v, i) /\ v.text = <<>> /\ v.ns = i.ns /\ v.subDoc = i.subDoc
  BY <1>3 DEF Alike, SameStack, Typed
<1> QED
  BY <1>2, <1>4

LEMMA TextFields ==
  ASSUME NEW i, Typed(i), NEW x
  PROVE  LET v == [i EXCEPT !.text = Append(@, x)]
         IN  Alike(v, i) /\ SameStack(v, i) /\ v.text = Append(i.text, x) /\ v.ns = i.ns
<1>1. PICK v : v = [i EXCEPT !.text = Append(@, x)]
  OBVIOUS
<1>2. Alike(v, i) /\ SameStack(v, i) /\ v.text = Append(i.text, x) /\ v.ns = i.ns
  BY <1>1 DEF Alike, SameStack, Typed
<1> QED
  BY <1>1, <1>2

LEMMA NsFields ==
  ASSUME NEW i, Typed(i), NEW x
  PROVE  LET v == [i EXCEPT !.ns = Append(@, x)]
         IN  Alike(v, i) /\ SameStack(v, i) /\ v.text = i.text /\ v.ns = Append(i.ns, x)
<1>1. PICK v : v = [i EXCEPT !.ns = Append(@, x)]
  OBVIOUS
<1>2. Alike(v, i) /\ SameStack(v, i) /\ v.text = i.text /\ v.ns = Append(i.ns, x)
  BY <1>1 DEF Alike, SameStack, Typed
<1> QED
  BY <1>1, <1>2

LEMMA StartFields ==
  ASSUME NEW w, Typed(w.it), w.it.depth <= Len(w.it.stack), NEW e \in Nat
  PROVE  LET v == Started(w, e).it
             i == w.it
         IN  /\ Alike(v, i) /\ v.text = <<>> /\ v.ns = i.ns
             /\ IF i.mode = "top" /\ i.depth = 0
                THEN v.depth = 1 /\ v.stack = <<0>> /\ v.rootDoc = i.rootDoc
                ELSE v.depth = i.depth + 1 /\ v.stack = Append(SubSeq(i.stack, 1, i.depth), e)
                     /\ v.rootDoc = (i.rootDoc \/ i.mode # "top")
<1>1. PICK i : i = w.it
  OBVIOUS
<1>9. PICK x, y : FlushText(w) = [it |-> x, nodes |-> y]
  BY Zenon DEF FlushText
<1>2. PICK f : f = FlushText(w) /\ DOMAIN f = {"it", "nodes"} /\ f = [it |-> f.it, nodes |-> f.nodes]
  BY <1>9
<1>3. PICK j : j = f.it
  OBVIOUS
<1>4. Alike(j, i) /\ SameStack(j, i) /\ j.text = <<>> /\ j.ns = i.ns
  BY <1>1, <1>2, <1>3, FlushFields
<1>5. i.mode = j.mode /\ i.depth = j.depth /\ Typed(j) /\ j.depth \in Nat /\ j.stack \in Seq(Nat)
      /\ j.depth <= Len(j.stack)
  BY <1>1, <1>4 DEF Alike, SameStack, Typed
<1>6. PICK v : v = Started(w, e).it
  OBVIOUS
<1>7. CASE i.mode = "top" /\ i.depth = 0
  <2>1. v = [j EXCEPT !.depth = 1, !.stack = <<0>>]
    BY <1>2, <1>3, <1>5, <1>6, <1>7 DEF Started
  <2>2. <<0>> \in Seq(Nat)
    OBVIOUS
  <2>3. Typed(v) /\ v.text = j.text /\ v.ns = j.ns /\ v.depth = 1 /\ v.stack = <<0>> /\ v.rootDoc = j.rootDoc
        /\ Alike(v, j)
    BY <1>5, <2>1, <2>2 DEF Typed, Alike
  <2> QED
    BY <1>1, <1>4, <1>6, <1>7, <2>3 DEF Alike, SameStack
<1>8. CASE ~ (i.mode = "top" /\ i.depth = 0)
  <2>1. v = [j EXCEPT !.depth = @ + 1, !.stack = Append(SubSeq(@, 1, j.depth), e),
                      !.rootDoc = @ \/ ~ (j.mode = "top"), !.subDoc = @ \/ j.mode = "top"]
    BY <1>2, <1>3, <1>5, <1>6, <1>8 DEF Started
  <2>2. Append(SubSeq(j.stack, 1, j.depth), e) \in Seq(Nat)
    <3>1. SubSeq(j.stack, 1, j.depth) \in Seq(Nat)
      BY <1>5
    <3> QED
      BY <3>1, AppendAt
  <2>4. PICK r \in BOOLEAN, q \in BOOLEAN : r = (j.rootDoc \/ j.mode # "top") /\ q = (j.subDoc \/ j.mode = "top")
    OBVIOUS
  <2>5. PICK n \in Nat, u \in Seq(Nat) : n = j.depth + 1 /\ u = Append(SubSeq(j.stack, 1, j.depth), e)
    <3>1. j.depth + 1 \in Nat
      BY <1>5
    <3> QED
      BY <2>2, <3>1, Zenon
  <2>6. v = [j EXCEPT !.depth = n, !.stack = u, !.rootDoc = r, !.subDoc = q]
    BY <2>1, <2>4, <2>5
  <2>7. Typed(v) /\ v.text = j.text /\ v.ns = j.ns /\ v.depth = n /\ v.stack = u /\ v.rootDoc = r /\ Alike(v, j)
    <3>1. Typed(j) /\ n \in Nat /\ u \in Seq(Nat) /\ r \in BOOLEAN /\ q \in BOOLEAN
      BY <1>5, <2>4, <2>5
    <3> QED
      BY <2>6, <3>1 DEF Typed, Alike
  <2>8. r = (i.rootDoc \/ i.mode # "top")
    BY <1>4, <1>5, <2>4 DEF SameStack
  <2>9. n = i.depth + 1 /\ u = Append(SubSeq(i.stack, 1, i.depth), e)
    BY <1>4, <1>5, <2>5 DEF SameStack
  <2>10. Alike(v, i) /\ v.text = <<>> /\ v.ns = i.ns
    BY <1>4, <2>7 DEF Alike
  <2> QED
    BY <1>1, <1>6, <1>8, <2>7, <2>8, <2>9, <2>10
<1> QED
  BY <1>7, <1>8

(* What an element in scope is bound to when its END arrives.                *)
SnapOf(ns) == UNION {Lookup(ns, b.prefix) : b \in ToSet(ns)}

LEMMA EndFields ==
  ASSUME NEW w, Typed(w.it), w.it.depth # 0, w.it.depth <= Len(w.it.stack)
  PROVE  LET v == Ended(w).it
             i == w.it
         IN  /\ Typed(v) /\ v.mode = i.mode /\ v.text = <<>> /\ v.depth = i.depth - 1 /\ v.stack = i.stack
             /\ v.rootDoc = i.rootDoc /\ v.exhausted = i.exhausted
             /\ IF i.depth = 1 /\ ~ i.rootDoc
                THEN Alike(v, i)
                ELSE /\ v.ns = Dropped(i.ns, i.depth) /\ v.snap = SnapOf(i.ns)
                     /\ IF i.mode = "full" \/ i.depth = 2
                        THEN /\ v.done = i.stack[i.depth] /\ v.doneDepth = i.depth /\ ~ v.running
                             /\ v.yields = Append(i.yields, i.stack[i.depth])
                        ELSE v.done = i.done /\ v.doneDepth = i.doneDepth /\ v.running = i.running /\ v.yields = i.yields
<1>1. PICK i : i = w.it
  OBVIOUS
<1>2. PICK x, y : FlushText(w) = [it |-> x, nodes |-> y]
  BY Zenon DEF FlushText
<1>3. PICK f : f = FlushText(w) /\ DOMAIN f = {"it", "nodes"} /\ f = [it |-> f.it, nodes |-> f.nodes]
  BY <1>2
<1>4. PICK j : j = f.it
  OBVIOUS
<1>5. Alike(j, i) /\ SameStack(j, i) /\ j.text = <<>> /\ j.ns = i.ns
  BY <1>1, <1>3, <1>4, FlushFields
<1>6. /\ i.mode = j.mode /\ i.depth = j.depth /\ i.stack = j.stack /\ i.rootDoc = j.rootDoc /\ Typed(j)
      /\ j.depth \in Nat /\ j.depth # 0 /\ j.stack \in Seq(Nat) /\ j.depth <= Len(j.stack) /\ j.yields \in Seq(Nat)
  BY <1>1, <1>5 DEF Alike, SameStack, Typed
<1>7. PICK v : v = Ended(w).it
  OBVIOUS
<1>8. CASE j.depth = 1 /\ ~ j.rootDoc
  <2>1. v = [j EXCEPT !.depth = 0]
    BY <1>3, <1>4, <1>6, <1>7, <1>8 DEF Ended
  <2>2. Alike(v, j) /\ v.depth = j.depth - 1 /\ v.stack = j.stack /\ v.rootDoc = j.rootDoc /\ v.text = j.text
    <3>1. j.depth - 1 = 0
      BY <1>8
    <3>2. Typed(v) /\ v.depth = 0 /\ v.stack = j.stack /\ v.rootDoc = j.rootDoc /\ v.text = j.text
      BY <1>6, <2>1 DEF Typed
    <3>3. /\ v.mode = j.mode /\ v.done = j.done /\ v.doneDepth = j.doneDepth /\ v.running = j.running
          /\ v.exhausted = j.exhausted /\ v.error = j.error /\ v.snap = j.snap /\ v.yields = j.yields
      BY <1>6, <2>1 DEF Typed
    <3> QED
      BY <3>1, <3>2, <3>3 DEF Alike
  <2> QED
    BY <1>1, <1>5, <1>6, <1>7, <1>8, <2>2 DEF Alike
<1>9. CASE ~ (j.depth = 1 /\ ~ j.rootDoc)
  <2>1. PICK n \in Nat : n = j.depth - 1
    BY <1>6
  <2>2. PICK ns, snap : ns = Dropped(j.ns, j.depth) /\ snap = SnapOf(j.ns)
    OBVIOUS
  <2>3. PICK k : k = [j EXCEPT !.snap = snap, !.depth = n, !.ns = ns]
    OBVIOUS
  <2>4. /\ Typed(k) /\ k.snap = snap /\ k.depth = n /\ k.ns = ns /\ k.text = j.text /\ k.stack = j.stack
        /\ k.rootDoc = j.rootDoc /\ k.mode = j.mode /\ k.done = j.done /\ k.doneDepth = j.doneDepth
        /\ k.running = j.running /\ k.exhausted = j.exhausted /\ k.yields = j.yields
    BY <1>6, <2>1, <2>3 DEF Typed
  <2>5. k = [j EXCEPT !.snap = UNION {Lookup(j.ns, b.prefix) : b \in ToSet(j.ns)},
                      !.depth = @ - 1, !.ns = Dropped(@, j.depth)]
    BY <2>1, <2>2, <2>3 DEF SnapOf
  <2>7. CASE j.mode = "full" \/ j.depth = 2
    <3>1. PICK s \in Nat, ys \in Seq(Nat) : s = j.stack[j.depth] /\ ys = Append(j.yields, s)
      <4>1. j.stack[j.depth] \in Nat
        BY <1>6
      <4>2. Append(j.yields, j.stack[j.depth]) \in Seq(Nat)
        BY <1>6, <4>1, AppendAt
      <4> QED
        BY <4>1, <4>2, Zenon
    <3>2. v = [k EXCEPT !.done = s, !.doneDepth = j.depth, !.running = FALSE, !.yields = ys]
      <4>1. v = [k EXCEPT !.done = j.stack[j.depth], !.doneDepth = j.depth, !.running = FALSE,
                          !.yields = Append(@, j.stack[j.depth])]
        BY <1>3, <1>4, <1>6, <1>7, <1>9, <2>5, <2>7 DEF Ended
      <4> QED
        BY <2>4, <3>1, <4>1
    <3>3. /\ Typed(v) /\ v.snap = snap /\ v.depth = n /\ v.ns = ns /\ v.text = j.text /\ v.stack = j.stack
          /\ v.rootDoc = j.rootDoc /\ v.mode = j.mode /\ v.exhausted = j.exhausted
          /\ v.done = s /\ v.doneDepth = j.depth /\ ~ v.running /\ v.yields = ys
      <4>1. Typed(k) /\ s \in Nat /\ ys \in Seq(Nat) /\ j.depth \in Nat
        BY <1>6, <2>4, <3>1
      <4>2. /\ Typed(v) /\ v.snap = k.snap /\ v.depth = k.depth /\ v.ns = k.ns /\ v.text = k.text /\ v.stack = k.stack
            /\ v.rootDoc = k.rootDoc /\ v.mode = k.mode /\ v.exhausted = k.exhausted
            /\ v.done = s /\ v.doneDepth = j.depth /\ v.running = FALSE /\ v.yields = ys
        BY <3>2, <4>1 DEF Typed
      <4> QED
        BY <2>4, <4>2
    <3>4. v.snap = SnapOf(i.ns) /\ v.ns = Dropped(i.ns, i.depth) /\ v.text = <<>> /\ v.depth = i.depth - 1
      BY <1>5, <1>6, <2>1, <2>2, <3>3
    <3>5. v.done = i.stack[i.depth] /\ v.doneDepth = i.depth /\ v.yields = Append(i.yields, i.stack[i.depth])
          /\ v.mode = i.mode /\ v.stack = i.stack /\ v.rootDoc = i.rootDoc /\ v.exhausted = i.exhausted
      BY <1>5, <1>6, <3>1, <3>3 DEF Alike
    <3> QED
      BY <1>1, <1>6, <1>7, <1>9, <2>7, <3>3, <3>4, <3>5
  <2>8. CASE ~ (j.mode = "full" \/ j.depth = 2)
    <3>1. v = k
      BY <1>3, <1>4, <1>6, <1>7, <1>9, <2>5, <2>8 DEF Ended
    <3>2. v.snap = SnapOf(i.ns) /\ v.ns = Dropped(i.ns, i.depth) /\ v.text = <<>> /\ v.depth = i.depth - 1
      BY <1>5, <1>6, <2>1, <2>2, <2>4, <3>1
    <3>3. /\ Typed(v) /\ v.done = i.done /\ v.doneDepth = i.doneDepth /\ v.running = i.running /\ v.yields = i.yields
          /\ v.mode = i.mode /\ v.stack = i.stack /\ v.rootDoc = i.rootDoc /\ v.exhausted = i.exhausted
      BY <1>5, <1>6, <2>4, <3>1 DEF Alike
    <3> QED
      BY <1>1, <1>6, <1>7, <1>9, <2>8, <3>2, <3>3
  <2> QED
    BY <2>7, <2>8
<1> QED
  BY <1>8, <1>9

LEMMA StopFields ==
  ASSUME NEW w, Typed(w.it), NEW b \in BOOLEAN
  PROVE  LET v == Stop(w, b).it
         IN  /\ Typed(v) /\ v.mode = w.it.mode /\ v.done = w.it.done /\ v.yields = w.it.yields
             /\ v.exhausted /\ ~ v.running /\ v.error = b
<1>1. PICK i, v : i = w.it /\ v = Stop(w, b).it
  OBVIOUS
<1>2. v = [i EXCEPT !.exhausted = TRUE, !.running = FALSE, !.error = b]
  <2>1. CASE "it" \in DOMAIN w
    BY <1>1, <2>1 DEF Stop
  <2> QED
    BY <1>1, <2>1 DEF Stop, Typed
<1>3. Typed(v) /\ v.mode = i.mode /\ v.done = i.done /\ v.yields = i.yields /\ v.exhausted = TRUE /\ v.running = FALSE /\ v.error = b
  BY <1>1, <1>2 DEF Typed
<1> QED
  BY <1>1, <1>3

LEMMA ReleasedFields ==
  ASSUME NEW w, Typed(w.it), "it" \in DOMAIN w
  PROVE  LET v == Released(w).it
             i == w.it
         IN  /\ Typed(v) /\ v.done = 0 /\ v.mode = i.mode /\ v.stack = i.stack /\ v.text = i.text /\ v.ns = i.ns
             /\ v.rootDoc = i.rootDoc /\ v.running = i.running /\ v.exhausted = i.exhausted /\ v.yields = i.yields
             /\ v.error = i.error
             /\ v.depth = IF i.done = 0 \/ i.mode = "full" \/ i.doneDepth > 2 THEN i.depth ELSE 1
<1>1. PICK i, v : i = w.it /\ v = Released(w).it
  OBVIOUS
<1>0. Typed(i)
  BY <1>1
<1>2. CASE i.done = 0 \/ i.mode = "full" \/ i.doneDepth > 2
  <2>1. v = [i EXCEPT !.done = 0]
    BY <1>1, <1>2 DEF Released
  <2>2. /\ Typed(v) /\ v.done = 0 /\ v.mode = i.mode /\ v.stack = i.stack /\ v.text = i.text /\ v.ns = i.ns
        /\ v.rootDoc = i.rootDoc /\ v.running = i.running /\ v.exhausted = i.exhausted /\ v.yields = i.yields
        /\ v.error = i.error /\ v.depth = i.depth
    BY <1>0, <2>1 DEF Typed
  <2> QED
    BY <1>1, <1>2, <2>2
<1>3. CASE ~ (i.done = 0 \/ i.mode = "full" \/ i.doneDepth > 2)
  <2>1. v = [[i EXCEPT !.done = 0] EXCEPT !.depth = 1, !.subDoc = FALSE]
    BY <1>1, <1>3 DEF Released
  <2>2. /\ Typed(v) /\ v.done = 0 /\ v.mode = i.mode /\ v.stack = i.stack /\ v.text = i.text /\ v.ns = i.ns
        /\ v.rootDoc = i.rootDoc /\ v.running = i.running /\ v.exhausted = i.exhausted /\ v.yields = i.yields
        /\ v.error = i.error /\ v.depth = 1
    BY <1>0, <2>1 DEF Typed
  <2> QED
    BY <1>1, <1>3, <2>2
<1> QED
  BY <1>2, <1>3

LEMMA RunFields ==
  ASSUME NEW i, Typed(i)
  PROVE  LET v == [i EXCEPT !.running = TRUE]
         IN  /\ Typed(v) /\ v.running /\ SameStack(v, i) /\ v.mode = i.mode /\ v.text = i.text /\ v.ns = i.ns
             /\ v.done = i.done /\ v.exhausted = i.exhausted /\ v.yields = i.yields
<1>1. PICK v : v = [i EXCEPT !.running = TRUE]
  OBVIOUS
<1>2. /\ Typed(v) /\ v.running = TRUE /\ SameStack(v, i) /\ v.mode = i.mode /\ v.text = i.text /\ v.ns = i.ns
      /\ v.done = i.done /\ v.exhausted = i.exhausted /\ v.yields = i.yields
  BY <1>1 DEF Typed, SameStack
<1> QED
  BY <1>1, <1>2

(* The iterator after t events, and when there are no more.                  *)
JustEnded(d, mode, e, doneDepth, t) ==
  /\ e \in 1 .. t /\ IsStart(d, e) /\ EndOf(d, e) = t
  /\ mode = "top" => doneDepth = 2 /\ DepthIn(d, e) = 2
Walks(d, i, t) ==
  /\ Typed(i) /\ ~ i.exhausted /\ t \in 0 .. Len(d) - 1
  /\ Stacked(d, i.mode, i.depth, i.stack, i.rootDoc, t) /\ Yielded(d, i.mode, i.yields, t)
  /\ i.done # 0 => ~ i.running /\ JustEnded(d, i.mode, i.done, i.doneDepth, t)
Over(d, i) ==
  /\ Typed(i) /\ i.exhausted /\ i.done = 0 /\ ~ i.running
  /\ i.error = (Last(d).type = "error") /\ Yielded(d, i.mode, i.yields, Len(d))

LEMMA EndDepth ==
  ASSUME NEW d \in Documents, NEW t \in 0 .. Len(d), NEW e \in 1 .. t, IsStart(d, e), EndOf(d, e) = t
  PROVE  DepthIn(d, t) = DepthIn(d, e) - 1 /\ d[t].type = "end" /\ DepthIn(d, e) \in Nat
<1>1. Len(d) \in Nat /\ e \in 1 .. Len(d) /\ t \in 1 .. Len(d) /\ e \in 0 .. Len(d)
  BY DocShape
<1>2. /\ EndOf(d, e) \in e + 1 .. Len(d) + 1
      /\ \A j \in e .. EndOf(d, e) - 1 : DepthIn(d, j) >= DepthIn(d, e)
      /\ DepthIn(d, EndOf(d, e)) < DepthIn(d, e)
  BY <1>1, EndFacts
<1>3. t \in e + 1 .. Len(d) + 1 /\ DepthIn(d, t) < DepthIn(d, e)
      /\ \A j \in e .. t - 1 : DepthIn(d, j) >= DepthIn(d, e)
  BY <1>2
<1>4. DepthIn(d, t - 1) >= DepthIn(d, e)
  BY <1>1, <1>3, t - 1 \in e .. t - 1
<1>5. DepthIn(d, t) \in Nat /\ DepthIn(d, t - 1) \in Nat /\ DepthIn(d, e) \in Nat
      /\ DepthIn(d, t) = DepthIn(d, t - 1) + IF IsStart(d, t) THEN 1 ELSE IF d[t].type = "end" THEN - 1 ELSE 0
  BY <1>1, DepthStep, DepthNat
<1> QED
  BY <1>3, <1>4, <1>5

LEMMA WalkInit ==
  ASSUME Init
  PROVE  Walks(doc, it, 0) /\ it.done = 0 /\ ~ it.running
<1>1. /\ it \in [mode : Modes, depth : {0}, stack : {<<>>}, text : {<<>>}, ns : {<<>>}, snap : {{}},
                done : {0}, doneDepth : {0}, rootDoc : {FALSE}, subDoc : {FALSE},
                running : {FALSE}, exhausted : {FALSE}, error : {FALSE}, yields : {<<>>}]
      /\ doc \in Documents /\ Modes \subseteq {"top", "full"}
  BY IterAssumption DEF Init, PullInit
<1>2. <<>> \in Seq(Nat) /\ Len(<<>>) = 0 /\ ToSet(<<>>) = {} /\ DOMAIN <<>> = {}
  BY NoElements
<1>3. Typed(it) /\ ~ it.exhausted /\ ~ it.running /\ it.done = 0 /\ it.depth = 0 /\ it.stack = <<>> /\ it.yields = <<>>
      /\ ~ it.rootDoc /\ it.mode \in {"top", "full"}
  <2>1. PICK i : i = it
    OBVIOUS
  <2>2. /\ i \in [mode : Modes, depth : {0}, stack : {<<>>}, text : {<<>>}, ns : {<<>>}, snap : {{}},
                   done : {0}, doneDepth : {0}, rootDoc : {FALSE}, subDoc : {FALSE},
                   running : {FALSE}, exhausted : {FALSE}, error : {FALSE}, yields : {<<>>}]
        /\ Modes \subseteq {"top", "full"} /\ <<>> \in Seq(Nat)
    BY <1>1, <1>2, <2>1
  <2>3. Typed(i)
    <3>1. PICK n, m : n = <<>> /\ m = {} /\ n \in Seq(Nat)
      BY <2>2
    <3>2. i \in [mode : Modes, depth : {0}, stack : {n}, text : {n}, ns : {n}, snap : {m},
                 done : {0}, doneDepth : {0}, rootDoc : {FALSE}, subDoc : {FALSE},
                 running : {FALSE}, exhausted : {FALSE}, error : {FALSE}, yields : {n}]
      BY <2>2, <3>1
    <3>3. i.text = n /\ i.ns = n /\ i.snap = m
      BY <3>2
    <3>4. i \in [mode : Modes, depth : {0}, stack : {n}, text : {i.text}, ns : {i.ns}, snap : {i.snap},
                 done : {0}, doneDepth : {0}, rootDoc : {FALSE}, subDoc : {FALSE},
                 running : {FALSE}, exhausted : {FALSE}, error : {FALSE}, yields : {n}]
      BY <3>2, <3>3
    <3>5. /\ Modes \subseteq {"top", "full"} /\ {n} \subseteq Seq(Nat) /\ 0 \in Nat
      BY <2>2, <3>1
    <3> QED
      BY <3>4, <3>5 DEF Typed
  <2>4. ~ i.exhausted /\ ~ i.running /\ i.done = 0 /\ i.depth = 0 /\ i.stack = <<>> /\ i.yields = <<>>
        /\ ~ i.rootDoc /\ i.mode \in {"top", "full"}
    BY <2>2
  <2> QED
    BY <2>1, <2>3, <2>4
<1>4. Len(doc) \in Nat /\ Len(doc) # 0 /\ 1 \in 1 .. Len(doc)
  BY <1>1, DocShape
<1>5. DepthIn(doc, 0) = 0
  BY <1>1, <1>4, DepthStep
<1>6. Stacked(doc, it.mode, it.depth, it.stack, it.rootDoc, 0)
  BY <1>2, <1>3, <1>5 DEF Stacked
<1>7. Yielded(doc, it.mode, it.yields, 0)
  BY <1>2, <1>3 DEF Yielded, Handed
<1> QED
  BY <1>3, <1>4, <1>6, <1>7 DEF Walks

LEMMA WalkNext ==
  ASSUME NEW d \in Documents, NEW t, NEW i, NEW N, Walks(d, i, t)
  PROVE  LET w == Released([it |-> i, nodes |-> N])
             v == [w.it EXCEPT !.running = TRUE]
         IN  Walks(d, v, t) /\ v.done = 0 /\ v.text = i.text /\ v.ns = i.ns /\ v.mode = i.mode /\ SameStack(v, i)
<1>1. PICK w : w = [it |-> i, nodes |-> N] /\ w.it = i /\ "it" \in DOMAIN w
  <2>1. PICK w : w = [it |-> i, nodes |-> N]
    OBVIOUS
  <2> QED
    BY <2>1
<1>2. Typed(i) /\ ~ i.exhausted /\ t \in 0 .. Len(d) - 1 /\ t \in Nat /\ t \in 0 .. Len(d)
      /\ Stacked(d, i.mode, i.depth, i.stack, i.rootDoc, t) /\ Yielded(d, i.mode, i.yields, t)
      /\ (i.done # 0 => JustEnded(d, i.mode, i.done, i.doneDepth, t))
  BY DocShape DEF Walks
<1>3. PICK u : u = Released(w).it
  OBVIOUS
<1>4. /\ Typed(u) /\ u.done = 0 /\ u.mode = i.mode /\ u.stack = i.stack /\ u.text = i.text /\ u.ns = i.ns
      /\ u.rootDoc = i.rootDoc /\ u.running = i.running /\ u.exhausted = i.exhausted /\ u.yields = i.yields
      /\ u.depth = IF i.done = 0 \/ i.mode = "full" \/ i.doneDepth > 2 THEN i.depth ELSE 1
  BY <1>1, <1>2, <1>3, ReleasedFields
<1>5. u.depth = i.depth
  <2>1. CASE i.done = 0 \/ i.mode = "full" \/ i.doneDepth > 2
    BY <1>4, <2>1
  <2>2. CASE ~ (i.done = 0 \/ i.mode = "full" \/ i.doneDepth > 2)
    <3>1. JustEnded(d, i.mode, i.done, i.doneDepth, t) /\ i.mode = "top"
      BY <1>2, <2>2 DEF Typed
    <3>2. DepthIn(d, t) = 1
      BY <1>2, <3>1, EndDepth DEF JustEnded
    <3> QED
      BY <1>2, <1>4, <2>2, <3>2 DEF Stacked
  <2> QED
    BY <2>1, <2>2
<1>6. PICK v : v = [u EXCEPT !.running = TRUE]
  OBVIOUS
<1>7. /\ Typed(v) /\ v.running /\ SameStack(v, u) /\ v.mode = u.mode /\ v.text = u.text /\ v.ns = u.ns
      /\ v.done = u.done /\ v.exhausted = u.exhausted /\ v.yields = u.yields
  BY <1>4, <1>6, RunFields
<1>8. v.depth = i.depth /\ v.stack = i.stack /\ v.rootDoc = i.rootDoc /\ v.mode = i.mode /\ v.yields = i.yields /\ v.done = 0
      /\ ~ v.exhausted
  BY <1>2, <1>4, <1>5, <1>7 DEF SameStack
<1>9. Walks(d, v, t)
  BY <1>2, <1>7, <1>8 DEF Walks
<1> QED
  BY <1>1, <1>3, <1>4, <1>6, <1>7, <1>8, <1>9 DEF SameStack

(* One event.                                                                *)
Last1 == {"endDocument", "error"}

LEMMA MoreAfter ==
  ASSUME NEW d \in Documents, NEW t \in 0 .. Len(d) - 1, d[t + 1].type \notin Last1
  PROVE  t + 1 \in 0 .. Len(d) - 1
<1>1. Len(d) \in Nat /\ d[Len(d)].type \in Last1
  BY DocShape DEF Last1
<1>2. t + 1 # Len(d)
  BY <1>1
<1> QED
  BY <1>1, <1>2

LEMMA WalkSame ==
  ASSUME NEW d \in Documents, NEW t, NEW i, Walks(d, i, t), i.done = 0,
         d[t + 1].type \notin Last1 \cup {"start", "end"}, NEW v, Alike(v, i), SameStack(v, i)
  PROVE  Walks(d, v, t + 1)
<1>1. /\ Typed(i) /\ ~ i.exhausted /\ t \in 0 .. Len(d) - 1
      /\ Stacked(d, i.mode, i.depth, i.stack, i.rootDoc, t) /\ Yielded(d, i.mode, i.yields, t)
  BY DEF Walks
<1>2. t + 1 \in 0 .. Len(d) - 1
  BY <1>1, MoreAfter
<1>3. ~ IsStart(d, t + 1) /\ d[t + 1].type # "end"
  BY DEF IsStart
<1>4. Stacked(d, i.mode, i.depth, i.stack, i.rootDoc, t + 1)
  BY <1>1, <1>3, StackSame
<1>5. Yielded(d, i.mode, i.yields, t + 1)
  BY <1>1, <1>3, YieldSame
<1>6. /\ Typed(v) /\ ~ v.exhausted /\ v.mode = i.mode /\ v.depth = i.depth /\ v.stack = i.stack
      /\ v.rootDoc = i.rootDoc /\ v.yields = i.yields /\ v.done = 0
  BY <1>1 DEF Alike, SameStack
<1> QED
  BY <1>2, <1>4, <1>5, <1>6 DEF Walks

LEMMA WalkStart ==
  ASSUME doc \in Documents, NEW t, NEW w, Walks(doc, w.it, t), w.it.done = 0, IsStart(doc, t + 1)
  PROVE  Walks(doc, Started(w, t + 1).it, t + 1)
<1>0. PICK d \in Documents : d = doc
  OBVIOUS
<1>1. PICK i, v : i = w.it /\ v = Started(w, t + 1).it
  OBVIOUS
<1>2. /\ Typed(i) /\ ~ i.exhausted /\ t \in 0 .. Len(d) - 1 /\ d[t + 1].type = "start"
      /\ Stacked(d, i.mode, i.depth, i.stack, i.rootDoc, t) /\ Yielded(d, i.mode, i.yields, t)
      /\ IsStart(d, t + 1) /\ i.done = 0
  BY <1>0, <1>1 DEF Walks, IsStart
<1>3. /\ t + 1 \in 0 .. Len(d) - 1 /\ t + 1 \in Nat /\ i.depth <= Len(i.stack) /\ i.rootDoc \in BOOLEAN
  BY <1>0, <1>2, MoreAfter, StepFacts DEF Last1, Stacked, Typed
<1>4. /\ Alike(v, i)
      /\ IF i.mode = "top" /\ i.depth = 0
         THEN v.depth = 1 /\ v.stack = <<0>> /\ v.rootDoc = i.rootDoc
         ELSE v.depth = i.depth + 1 /\ v.stack = Append(SubSeq(i.stack, 1, i.depth), t + 1)
              /\ v.rootDoc = (i.rootDoc \/ i.mode # "top")
  BY <1>1, <1>2, <1>3, StartFields
<1>5. IF i.mode = "top" /\ i.depth = 0 THEN Stacked(d, i.mode, 1, <<0>>, i.rootDoc, t + 1)
      ELSE Stacked(d, i.mode, i.depth + 1, Append(SubSeq(i.stack, 1, i.depth), t + 1), i.rootDoc \/ i.mode # "top", t + 1)
  BY <1>0, <1>2, <1>3, StackStart
<1>6. Stacked(d, i.mode, v.depth, v.stack, v.rootDoc, t + 1)
  BY <1>4, <1>5
<1>7. Yielded(d, i.mode, i.yields, t + 1)
  BY <1>0, <1>2, YieldSame
<1>8. Typed(v) /\ ~ v.exhausted /\ v.mode = i.mode /\ v.yields = i.yields /\ v.done = 0
  BY <1>2, <1>4 DEF Alike
<1>9. Walks(d, v, t + 1)
  BY <1>3, <1>6, <1>7, <1>8 DEF Walks
<1> QED
  BY <1>0, <1>1, <1>9

LEMMA WalkEnd ==
  ASSUME NEW d \in Documents, NEW t, NEW w, Walks(d, w.it, t), w.it.done = 0, d[t + 1].type = "end"
  PROVE  Walks(d, Ended(w).it, t + 1)
<1>1. PICK i, v : i = w.it /\ v = Ended(w).it
  OBVIOUS
<1>2. /\ Typed(i) /\ ~ i.exhausted /\ t \in 0 .. Len(d) - 1
      /\ Stacked(d, i.mode, i.depth, i.stack, i.rootDoc, t) /\ Yielded(d, i.mode, i.yields, t)
      /\ i.done = 0 /\ i.mode \in {"top", "full"}
  BY <1>1 DEF Walks, Stacked
<1>3. t + 1 \in 0 .. Len(d) - 1 /\ t + 1 \in Nat /\ t \in Nat /\ t + 1 \in 1 .. Len(d)
  BY <1>2, MoreAfter, StepFacts DEF Last1
<1>4. /\ i.depth \in Nat /\ i.depth # 0 /\ Stacked(d, i.mode, i.depth - 1, i.stack, i.rootDoc, t + 1)
      /\ \E s : EndsAt(d, s, t) /\ i.stack[i.depth] = IF i.mode = "top" /\ i.depth = 1 THEN 0 ELSE s
  BY <1>2, StackEnd
<1>5. PICK s : EndsAt(d, s, t) /\ i.stack[i.depth] = IF i.mode = "top" /\ i.depth = 1 THEN 0 ELSE s
  BY <1>4
<1>6. /\ i.depth = DepthIn(d, t) /\ i.depth <= Len(i.stack)
      /\ i.mode = "top" => ~ i.rootDoc
      /\ i.mode = "full" => i.rootDoc
  BY <1>2, <1>4 DEF Stacked
<1>7. /\ Typed(v) /\ v.mode = i.mode /\ v.depth = i.depth - 1 /\ v.stack = i.stack
      /\ v.rootDoc = i.rootDoc /\ v.exhausted = i.exhausted
      /\ IF i.depth = 1 /\ ~ i.rootDoc
         THEN Alike(v, i)
         ELSE IF i.mode = "full" \/ i.depth = 2
              THEN /\ v.done = i.stack[i.depth] /\ v.doneDepth = i.depth /\ ~ v.running
                   /\ v.yields = Append(i.yields, i.stack[i.depth])
              ELSE v.done = i.done /\ v.doneDepth = i.doneDepth /\ v.running = i.running /\ v.yields = i.yields
  BY <1>1, <1>2, <1>4, <1>6, EndFields
<1>8. /\ s \in 1 .. Len(d) /\ IsStart(d, s) /\ EndOf(d, s) = t + 1 /\ DepthIn(d, s) = i.depth /\ s \in 1 .. t
  BY <1>5, <1>6 DEF EndsAt, Opened
<1>9. IF i.mode = "full" \/ i.depth = 2 THEN Yielded(d, i.mode, Append(i.yields, s), t + 1)
      ELSE Yielded(d, i.mode, i.yields, t + 1)
  BY <1>2, <1>5, <1>8, YieldEnd
<1>10. CASE i.mode = "full" \/ i.depth = 2
  <2>1. ~ (i.depth = 1 /\ ~ i.rootDoc) /\ i.stack[i.depth] = s
    BY <1>2, <1>5, <1>6, <1>10
  <2>2. v.done = s /\ v.doneDepth = i.depth /\ ~ v.running /\ v.yields = Append(i.yields, s)
    BY <1>7, <1>10, <2>1
  <2>3. JustEnded(d, v.mode, v.done, v.doneDepth, t + 1)
    <3>1. s \in 1 .. t + 1
      BY <1>3, <1>8
    <3>2. i.mode = "top" => i.depth = 2
      BY <1>10
    <3> QED
      BY <1>7, <1>8, <2>2, <3>1, <3>2 DEF JustEnded
  <2>4. Yielded(d, v.mode, v.yields, t + 1) /\ Stacked(d, v.mode, v.depth, v.stack, v.rootDoc, t + 1)
    BY <1>4, <1>7, <1>9, <1>10, <2>2
  <2>5. Walks(d, v, t + 1)
    BY <1>2, <1>3, <1>7, <2>2, <2>3, <2>4 DEF Walks
  <2> QED
    BY <1>1, <2>5
<1>11. CASE ~ (i.mode = "full" \/ i.depth = 2)
  <2>1. v.done = 0 /\ v.yields = i.yields
    BY <1>2, <1>7, <1>11 DEF Alike
  <2>2. Yielded(d, v.mode, v.yields, t + 1) /\ Stacked(d, v.mode, v.depth, v.stack, v.rootDoc, t + 1)
    BY <1>4, <1>7, <1>9, <1>11, <2>1
  <2>3. Walks(d, v, t + 1)
    BY <1>2, <1>3, <1>7, <2>1, <2>2 DEF Walks
  <2> QED
    BY <1>1, <2>3
<1> QED
  BY <1>10, <1>11

LEMMA WalkStop ==
  ASSUME NEW d \in Documents, NEW t, NEW w, Walks(d, w.it, t), w.it.done = 0, d[t + 1].type \in Last1,
         NEW b \in BOOLEAN, b <=> d[t + 1].type = "error" \/ w.it.depth # 0
  PROVE  Over(d, Stop(w, b).it)
<1>1. PICK i, v : i = w.it /\ v = Stop(w, b).it
  OBVIOUS
<1>2. /\ Typed(i) /\ t \in 0 .. Len(d) - 1 /\ Yielded(d, i.mode, i.yields, t) /\ i.depth = DepthIn(d, t) /\ i.done = 0
  BY <1>1 DEF Walks, Stacked
<1>3. Len(d) \in Nat /\ t + 1 = Len(d) /\ t + 1 \in 1 .. Len(d) /\ ~ IsStart(d, t + 1) /\ d[t + 1].type # "end"
  <2>1. t + 1 \in 1 .. Len(d) /\ Len(d) \in Nat
    BY <1>2, StepFacts
  <2>2. t + 1 = Len(d)
    BY <2>1, DocRules DEF Last1
  <2> QED
    BY <2>1, <2>2 DEF Last1, IsStart
<1>4. Yielded(d, i.mode, i.yields, Len(d))
  BY <1>2, <1>3, YieldSame
<1>5. d # <<>> /\ Last(d) = d[Len(d)]
  BY DocShape DEF Last
<1>6. d[t + 1].type = "endDocument" => i.depth = 0
  <2>1. DepthIn(d, t + 1) = DepthIn(d, t)
    BY <1>2, <1>3, StepFacts
  <2>2. d[t + 1].type = "endDocument" => DepthIn(d, t + 1) = 0
    BY <1>3, DocRules
  <2> QED
    BY <1>2, <2>1, <2>2
<1>7. b = (Last(d).type = "error")
  <2>1. Last(d).type = "error" \/ Last(d).type = "endDocument"
    BY <1>3, <1>5 DEF Last1
  <2> QED
    BY <1>1, <1>3, <1>5, <1>6, <2>1
<1>8. /\ Typed(v) /\ v.mode = i.mode /\ v.done = i.done /\ v.yields = i.yields
      /\ v.exhausted /\ ~ v.running /\ v.error = b
  BY <1>1, <1>2, StopFields
<1>9. Over(d, v)
  BY <1>2, <1>4, <1>7, <1>8 DEF Over
<1> QED
  BY <1>1, <1>9

LEMMA WalkEvent ==
  ASSUME doc \in Documents, NEW t, NEW i, NEW N, Walks(doc, i, t), i.done = 0
  PROVE  LET v == Handled([it |-> i, nodes |-> N], t + 1).it
         IN  IF doc[t + 1].type \in Last1 THEN Over(doc, v) ELSE Walks(doc, v, t + 1)
<1>1. PICK w : w = [it |-> i, nodes |-> N] /\ w.it = i /\ "it" \in DOMAIN w
  <2>1. PICK w : w = [it |-> i, nodes |-> N]
    OBVIOUS
  <2> QED
    BY <2>1
<1>2. PICK e : e = t + 1
  OBVIOUS
<1>3. Typed(i) /\ t \in 0 .. Len(doc) - 1 /\ doc[e].type \in EventTypes
  <2>1. Typed(i) /\ t \in 0 .. Len(doc) - 1
    BY DEF Walks
  <2>2. e \in 1 .. Len(doc)
    BY <1>2, <2>1, StepFacts
  <2> QED
    BY <2>1, <2>2, DocShape
<1>4. PICK v : v = Handled(w, e).it
  OBVIOUS
<1>5. CASE doc[e].type = "startPrefix"
  <2>1. PICK x : x = [prefix |-> doc[e].strings[1], uri |-> doc[e].strings[2], depth |-> i.depth + 1]
    OBVIOUS
  <2>2. v = [i EXCEPT !.ns = Append(@, x)]
    BY <1>1, <1>4, <1>5, <2>1 DEF Handled
  <2>3. Alike(v, i) /\ SameStack(v, i)
    BY <1>3, <2>2, NsFields
  <2> QED
    BY <1>1, <1>2, <1>4, <1>5, <2>3, WalkSame DEF Last1
<1>6. CASE doc[e].type = "endPrefix"
  <2>1. v = i
    BY <1>1, <1>4, <1>6 DEF Handled
  <2>2. Alike(v, i) /\ SameStack(v, i)
    BY <1>3, <2>1 DEF Alike, SameStack
  <2> QED
    BY <1>1, <1>2, <1>4, <1>6, <2>2, WalkSame DEF Last1
<1>7. CASE doc[e].type \in {"text", "cdata"}
  <2>2. v = [i EXCEPT !.text = Append(@, doc[e].strings[1])]
    BY <1>1, <1>4, <1>7 DEF Handled
  <2>3. Alike(v, i) /\ SameStack(v, i)
    BY <1>3, <2>2, TextFields
  <2> QED
    BY <1>1, <1>2, <1>4, <1>7, <2>3, WalkSame DEF Last1
<1>8. CASE doc[e].type \in {"comment", "pi"}
  <2>2. v = FlushText(w).it
    BY <1>4, <1>8 DEF Handled
  <2>3. Alike(v, i) /\ SameStack(v, i)
    BY <1>1, <1>3, <2>2, FlushFields
  <2> QED
    BY <1>1, <1>2, <1>4, <1>8, <2>3, WalkSame DEF Last1
<1>9. CASE doc[e].type = "start"
  <2>1. v = Started(w, e).it
    BY <1>4, <1>9 DEF Handled
  <2> QED
    BY <1>1, <1>2, <1>4, <1>9, <2>1, WalkStart DEF Last1, IsStart
<1>10. CASE doc[e].type = "end"
  <2>1. v = Ended(w).it
    BY <1>4, <1>10 DEF Handled
  <2> QED
    BY <1>1, <1>2, <1>4, <1>10, <2>1, WalkEnd DEF Last1
<1>11. CASE doc[e].type = "error"
  <2>1. v = Stop(w, TRUE).it
    BY <1>4, <1>11 DEF Handled
  <2> QED
    BY <1>1, <1>2, <1>4, <1>11, <2>1, WalkStop DEF Last1
<1>12. CASE doc[e].type = "endDocument"
  <2>1. PICK b \in BOOLEAN : b = (i.depth # 0)
    OBVIOUS
  <2>2. v = Stop(w, b).it
    BY <1>1, <1>4, <1>12, <2>1 DEF Handled
  <2>3. b <=> doc[t + 1].type = "error" \/ w.it.depth # 0
    BY <1>1, <1>2, <1>12, <2>1
  <2>4. Over(doc, v)
    BY <1>1, <1>2, <1>12, <2>1, <2>2, <2>3, WalkStop DEF Last1
  <2> QED
    BY <1>1, <1>2, <1>4, <1>12, <2>4 DEF Last1
<1> QED
  BY <1>3, <1>5, <1>6, <1>7, <1>8, <1>9, <1>10, <1>11, <1>12 DEF EventTypes

-------------------------------------------------------------------------------
(* The steps.  While the input has events left, the parser finds one.        *)
LEMMA AdvanceTakes ==
  ASSUME QueueOK, user # "gone", Advance, taken < Len(doc)
  PROVE  taken' # taken
<1>1. /\ Len(doc) \in Nat /\ fed \in Nat /\ fed <= Len(doc) /\ taken \in Nat /\ taken <= fed
      /\ RingHolds(ring, taken, fed) /\ taken < Len(doc)
  BY QueueFacts DEF QueueOK
<1> DEFINE idle == UsedOf(ring) = 0 /\ fed < Len(doc)
<1>2. PICK n \in IF ~idle THEN {0} ELSE IF source = "memory" THEN {Len(doc)} ELSE 1 .. Min({SliceEvents, Len(doc) - fed}) :
        UsedOf(PushedNext(ring, n)) # 0 => taken' = taken + 1
  BY DEF Advance
<1>3. UsedOf(ring) = fed - taken
  BY <1>1, HoldsUsed
<1>4. n \in Nat /\ fed + n > taken
  <2>1. CASE ~idle
    BY <1>1, <1>2, <1>3, <2>1
  <2>2. CASE idle /\ source = "memory"
    BY <1>1, <1>2, <2>2
  <2>3. CASE idle /\ source # "memory"
    <3>1. SliceEvents \in Nat \ {0} /\ Len(doc) - fed \in Nat
      BY <1>1, <2>3, PullAssumption
    <3>2. Min({SliceEvents, Len(doc) - fed}) \in Nat
      <4>1. \E x \in {SliceEvents, Len(doc) - fed} : \A y \in {SliceEvents, Len(doc) - fed} : x <= y
        BY <3>1
      <4> QED
        BY <3>1, <4>1 DEF Min
    <3>3. n \in 1 .. Min({SliceEvents, Len(doc) - fed})
      BY <1>2, <2>3
    <3> QED
      BY <1>1, <3>2, <3>3
  <2> QED
    BY <2>1, <2>2, <2>3
<1>5. PICK c \in Nat : c = fed + n
  BY <1>1, <1>4
<1>6. RingHolds(PushedNext(ring, n), taken, c)
  BY <1>1, <1>4, <1>5, FeedHolds
<1>7. UsedOf(PushedNext(ring, n)) = c - taken
  BY <1>1, <1>5, <1>6, HoldsUsed
<1>8. taken' = taken + 1
  BY <1>1, <1>2, <1>4, <1>5, <1>7
<1> QED
  BY <1>1, <1>8

WalkInv ==
  /\ user # "iter" => it.done = 0 /\ ~ it.running
  /\ it.exhausted => Over(doc, it)
  /\ user = "iter" /\ ~ it.exhausted => Walks(doc, it, taken)
  /\ user = "pull" => ~ it.exhausted

(* What a step of the iterator does.                                         *)
EventStep ==
  /\ user = "iter" /\ user' = user /\ doc' = doc /\ doc \in Documents /\ taken \in Nat /\ taken' = taken + 1
  /\ it.done = 0 /\ ~ it.exhausted /\ Walks(doc, it, taken)
  /\ it' = Handled([it |-> it, nodes |-> nodes], taken + 1).it
  /\ nodes' = Handled([it |-> it, nodes |-> nodes], taken + 1).nodes

LEMMA EventTaken ==
  ASSUME IInv, WalkInv, IterEvent
  PROVE  EventStep
<1>1. /\ it.running /\ user = "iter" /\ Advance
      /\ UNCHANGED <<doc, source, user, stage, mirror, batch>> /\ QueueOK
  BY DEF IterEvent, IInv, RunOK
<1>2. ~ it.exhausted /\ Walks(doc, it, taken) /\ it.done = 0
  BY <1>1 DEF WalkInv, Over, Walks
<1>3. doc \in Documents /\ taken \in Nat /\ taken < Len(doc)
  BY <1>1, <1>2, QueueFacts DEF Walks
<1>4. taken' # taken
  BY <1>1, <1>3, AdvanceTakes
<1>5. Takes \/ Finds
  BY <1>1, AdvanceKeeps
<1>6. taken' = taken + 1 /\ current'.ev = taken + 1
  BY <1>4, <1>5 DEF Takes, Finds
<1>7. /\ it' = Handled([it |-> it, nodes |-> nodes], current'.ev).it
      /\ nodes' = Handled([it |-> it, nodes |-> nodes], current'.ev).nodes
  BY <1>4 DEF IterEvent
<1> QED
  BY <1>1, <1>2, <1>3, <1>6, <1>7 DEF EventStep

LEMMA WalkEventStep ==
  ASSUME IInv, WalkInv, IterEvent
  PROVE  WalkInv'
<1>1. EventStep
  BY EventTaken
<1>2. PICK v : v = it'
  OBVIOUS
<1>3. IF doc[taken + 1].type \in Last1 THEN Over(doc, v) ELSE Walks(doc, v, taken + 1)
  BY <1>1, <1>2, WalkEvent DEF EventStep
<1>4. CASE Over(doc, v)
  <2>1. Over(doc', it') /\ it'.exhausted /\ user' = "iter"
    BY <1>1, <1>2, <1>4 DEF EventStep, Over
  <2> QED
    BY <2>1 DEF WalkInv
<1>5. CASE Walks(doc, v, taken + 1)
  <2>1. Walks(doc', it', taken') /\ ~ it'.exhausted /\ user' = "iter"
    BY <1>1, <1>2, <1>5 DEF EventStep, Walks
  <2> QED
    BY <2>1 DEF WalkInv
<1> QED
  BY <1>3, <1>4, <1>5

LEMMA FreedFields ==
  ASSUME NEW i, Typed(i)
  PROVE  LET v == [i EXCEPT !.done = 0, !.subDoc = FALSE, !.rootDoc = FALSE]
         IN  Typed(v) /\ v.done = 0 /\ v.mode = i.mode /\ v.running = i.running /\ v.exhausted = i.exhausted
             /\ v.yields = i.yields /\ v.error = i.error
<1>1. PICK v : v = [i EXCEPT !.done = 0, !.subDoc = FALSE, !.rootDoc = FALSE]
  OBVIOUS
<1>2. Typed(v) /\ v.done = 0 /\ v.mode = i.mode /\ v.running = i.running /\ v.exhausted = i.exhausted
      /\ v.yields = i.yields /\ v.error = i.error
  BY <1>1 DEF Typed
<1> QED
  BY <1>1, <1>2

LEMMA StepWalk ==
  ASSUME IInv, WalkInv, [Next]_vars
  PROVE  WalkInv'
<1>1. CASE PullAction /\ UNCHANGED <<it, nodes>>
  <2>1. user = "pull" /\ user' \in {"pull", "gone"}
    BY <1>1 DEF PullAction, PullNext, BatchStart, BatchStep, BatchEnd, PullFree, Freed, IInv, BatchOK
  <2>2. it' = it /\ it.done = 0 /\ ~ it.running /\ ~ it.exhausted
    BY <1>1, <2>1 DEF WalkInv
  <2> QED
    BY <2>1, <2>2 DEF WalkInv
<1>2. CASE IterNext
  <2>1. /\ user = "iter" /\ ~ it.exhausted /\ user' = user /\ doc' = doc /\ taken' = taken /\ doc \in Documents
        /\ Walks(doc, it, taken)
    BY <1>2, QueueFacts DEF IterNext, pullVars, WalkInv, IInv
  <2>2. PICK v : v = it'
    OBVIOUS
  <2>3. v = [Released([it |-> it, nodes |-> nodes]).it EXCEPT !.running = TRUE]
    BY <1>2, <2>2 DEF IterNext
  <2>4. Walks(doc, v, taken)
    BY <2>1, <2>3, WalkNext
  <2>5. Walks(doc', it', taken') /\ ~ it'.exhausted
    BY <2>1, <2>2, <2>4 DEF Walks
  <2> QED
    BY <2>1, <2>5 DEF WalkInv
<1>3. CASE IterEvent
  BY <1>3, WalkEventStep
<1>4. CASE IterFree
  <2>1. /\ user = "iter" /\ ~ it.running /\ user' = "gone" /\ doc' = doc
        /\ it' = [it EXCEPT !.done = 0, !.subDoc = FALSE, !.rootDoc = FALSE]
    BY <1>4 DEF IterFree, Freed
  <2>2. Typed(it)
    BY <2>1 DEF WalkInv, Over, Walks
  <2>3. PICK v : v = it'
    OBVIOUS
  <2>4. Typed(v) /\ v.done = 0 /\ v.mode = it.mode /\ v.running = it.running /\ v.exhausted = it.exhausted
        /\ v.yields = it.yields /\ v.error = it.error
    BY <2>1, <2>2, <2>3, FreedFields
  <2>5. v.exhausted => Over(doc, v)
    BY <2>4 DEF WalkInv, Over
  <2>6. it'.done = 0 /\ ~ it'.running /\ (it'.exhausted => Over(doc', it'))
    BY <2>1, <2>3, <2>4, <2>5
  <2> QED
    BY <2>1, <2>6 DEF WalkInv
<1>5. CASE UNCHANGED vars
  <2>1. user' = user /\ doc' = doc /\ taken' = taken /\ it' = it
    BY <1>5 DEF vars, pullVars
  <2> QED
    BY <2>1 DEF WalkInv
<1> QED
  BY <1>1, <1>2, <1>3, <1>4, <1>5 DEF Next

LEMMA InitWalk ==
  ASSUME Init PROVE WalkInv
<1>1. Walks(doc, it, 0) /\ it.done = 0 /\ ~ it.running
  BY WalkInit
<1>2. taken = 0
  BY DEF Init, PullInit
<1> QED
  BY <1>1, <1>2 DEF WalkInv, Walks

LEMMA WalkHolds == Spec => [](IInv /\ WalkInv)
<1>1. Init => IInv /\ WalkInv
  BY InitIInv, InitWalk
<1>2. IInv /\ WalkInv /\ [Next]_vars => (IInv /\ WalkInv)'
  BY StepIInv, StepWalk
<1> QED
  BY <1>1, <1>2, PTL DEF Spec

(* Every complete element of the mode's levels is handed out once, in the order of   *)
(* the ENDs, and an error is reported exactly when the input has one (iterparse.c:   *)
(* 370-438), for any well formed documents, slices and rings.                        *)
THEOREM EveryYield == Spec => []YieldsAll
<1>1. IInv /\ WalkInv => YieldsAll
  <2> SUFFICES ASSUME IInv, WalkInv, it.exhausted PROVE YieldsAll
    BY DEF YieldsAll
  <2>1. Over(doc, it) /\ doc \in Documents
    BY QueueFacts DEF IInv, WalkInv
  <2>2. DOMAIN doc = 1 .. Len(doc)
    BY <2>1, DocShape
  <2>3. /\ it.error = (Last(doc).type = "error") /\ ToSet(it.yields) = Handed(doc, it.mode, Len(doc))
        /\ \A j, k \in DOMAIN it.yields : j < k => EndOf(doc, it.yields[j]) < EndOf(doc, it.yields[k])
    BY <2>1 DEF Over, Yielded
  <2>4. Handed(doc, it.mode, Len(doc)) = Complete
    BY <2>2 DEF Handed, Complete, Full
  <2> QED
    BY <2>3, <2>4 DEF YieldsAll
<1> QED
  BY <1>1, WalkHolds, PTL

-------------------------------------------------------------------------------
(* Declarations: pending ones wait for their START, and the others live as   *)
(* long as their element is open.                                            *)
Live(d, t) == {k \in 1 .. t : k \in DeclAt(d, t + 1) \/ \E s : Opened(d, s, t) /\ k \in DeclAt(d, s)}

LEMMA DeclFacts ==
  ASSUME NEW d \in Documents, NEW t \in 0 .. Len(d), NEW k \in DeclAt(d, t + 1)
  PROVE  /\ k \in 1 .. t /\ DepthIn(d, k) = DepthIn(d, t) /\ DepthIn(d, t) \in Nat
         /\ \A j \in k .. t : d[j].type = "startPrefix"
<1>1. Len(d) \in Nat /\ t \in Nat /\ t <= Len(d)
  BY DocShape
<1>2. k \in 1 .. t /\ \A j \in k .. t : d[j].type = "startPrefix"
  <2>1. k \in 1 .. (t + 1) - 1 /\ \A j \in k .. (t + 1) - 1 : d[j].type = "startPrefix"
    BY DEF DeclAt
  <2>2. (t + 1) - 1 = t
    BY <1>1
  <2> QED
    BY <2>1, <2>2
<1> DEFINE T == {n \in Nat : k + n <= t => DepthIn(d, k + n) = DepthIn(d, k)}
<1>3. 0 \in T
  <2>1. k + 0 = k
    BY <1>1, <1>2
  <2> QED
    BY <2>1
<1>4. ASSUME NEW n \in 0 .. t - k - 1, n \in T PROVE n + 1 \in T
  <2>1. PICK j : j = k + n
    OBVIOUS
  <2>2. j \in 0 .. Len(d) - 1 /\ j + 1 \in k .. t /\ k + (n + 1) = j + 1 /\ DepthIn(d, j) = DepthIn(d, k)
    BY <1>1, <1>2, <1>4, <2>1
  <2>3. d[j + 1].type = "startPrefix"
    BY <1>2, <2>2
  <2>4. ~ IsStart(d, j + 1) /\ d[j + 1].type # "end"
    BY <2>3 DEF IsStart
  <2>5. DepthIn(d, j + 1) = DepthIn(d, j)
    BY <2>2, <2>4, StepFacts
  <2> QED
    BY <2>2, <2>5
<1>5. \A n \in 0 .. t - k : n \in T
  <2>1. t - k \in Nat
    BY <1>1, <1>2
  <2> HIDE DEF T
  <2> QED
    BY <1>3, <1>4, <2>1, UpTo
<1>6. DepthIn(d, k + (t - k)) = DepthIn(d, k)
  BY <1>1, <1>2, <1>5, t - k \in 0 .. t - k
<1>7. k + (t - k) = t
  BY <1>1, <1>2
<1> QED
  BY <1>1, <1>2, <1>6, <1>7, DepthNat

LEMMA OwnerFacts ==
  ASSUME NEW d \in Documents, NEW s \in 1 .. Len(d), IsStart(d, s), NEW k \in DeclAt(d, s)
  PROVE  /\ k \in 1 .. s - 1 /\ k \in Nat /\ DepthIn(d, s) = DepthIn(d, k) + 1 /\ DepthIn(d, k) \in Nat
         /\ \A j \in k .. s - 1 : d[j].type = "startPrefix" /\ ~ IsStart(d, j)
<1>1. PICK t \in 0 .. Len(d) : t = s - 1 /\ s = t + 1
  BY DocShape
<1>2. /\ k \in 1 .. t /\ DepthIn(d, k) = DepthIn(d, t) /\ DepthIn(d, t) \in Nat
      /\ \A j \in k .. t : d[j].type = "startPrefix"
  BY <1>1, DeclFacts
<1>3. t \in 0 .. Len(d) - 1
  BY <1>1, DocShape
<1>4. DepthIn(d, t + 1) = DepthIn(d, t) + 1
  <2>1. IsStart(d, t + 1)
    BY <1>1
  <2> QED
    BY <1>3, <2>1, StepFacts
<1>5. \A j \in k .. s - 1 : d[j].type = "startPrefix" /\ ~ IsStart(d, j)
  BY <1>1, <1>2 DEF IsStart
<1>6. k \in 1 .. s - 1 /\ k \in Nat
  BY <1>1, <1>2
<1> QED
  BY <1>1, <1>2, <1>4, <1>5, <1>6

LEMMA DeclNext ==
  ASSUME NEW d \in Documents, NEW t \in 0 .. Len(d) - 1, NEW k
  PROVE  /\ k \in DeclAt(d, t + 2) <=> d[t + 1].type = "startPrefix" /\ (k = t + 1 \/ k \in DeclAt(d, t + 1))
         /\ d[t + 1].type \notin {"startPrefix", "start"} => k \notin DeclAt(d, t + 1)
<1>1. Len(d) \in Nat /\ t \in Nat /\ t + 1 \in 1 .. Len(d)
  BY StepFacts
<1>2. (t + 2) - 1 = t + 1 /\ (t + 1) - 1 = t
  BY <1>1
<1>3. k \in DeclAt(d, t + 2) <=> k \in 1 .. t + 1 /\ \A j \in k .. t + 1 : d[j].type = "startPrefix"
  BY <1>2 DEF DeclAt
<1>4. k \in DeclAt(d, t + 1) <=> k \in 1 .. t /\ \A j \in k .. t : d[j].type = "startPrefix"
  BY <1>2 DEF DeclAt
<1>5. CASE k \in 1 .. t
  <2>1. \A j : j \in k .. t + 1 <=> j \in k .. t \/ j = t + 1
    BY <1>1, <1>5
  <2>2. ASSUME k \in DeclAt(d, t + 1) PROVE d[t + 1].type \in {"startPrefix", "start"}
    <3>1. d[t].type = "startPrefix" /\ t \in 1 .. Len(d)
      BY <1>1, <1>4, <1>5, <2>2
    <3> QED
      BY <3>1, DocRules
  <2> QED
    BY <1>1, <1>3, <1>4, <1>5, <2>1, <2>2
<1>6. CASE k = t + 1
  <2>1. \A j \in k .. t + 1 : j = t + 1
    BY <1>1, <1>6
  <2>2. k \in 1 .. t + 1 /\ k \notin 1 .. t /\ t + 1 \in k .. t + 1
    BY <1>1, <1>6
  <2> QED
    BY <1>3, <1>4, <1>6, <2>1, <2>2
<1>7. CASE ~ (k \in 1 .. t \/ k = t + 1)
  <2>1. k \notin 1 .. t + 1
    BY <1>1, <1>7
  <2> QED
    BY <1>3, <1>4, <1>7, <2>1
<1> QED
  BY <1>5, <1>6, <1>7

(* Nothing but an END closes an element.                                     *)
LEMMA OpenSame ==
  ASSUME NEW d \in Documents, NEW t \in 0 .. Len(d) - 1, d[t + 1].type # "end", NEW s
  PROVE  Opened(d, s, t + 1) <=> Opened(d, s, t) \/ (s = t + 1 /\ IsStart(d, s))
<1>1. DepthIn(d, t + 1) >= DepthIn(d, t) /\ DepthIn(d, t) \in Nat /\ DepthIn(d, t + 1) \in Nat /\ t \in 0 .. Len(d)
  <2>1. /\ DepthIn(d, t) \in Nat /\ DepthIn(d, t + 1) \in Nat /\ t \in 0 .. Len(d)
        /\ DepthIn(d, t + 1) = DepthIn(d, t) + IF IsStart(d, t + 1) THEN 1 ELSE 0
    BY StepFacts
  <2> QED
    BY <2>1
<1>2. Opened(d, s, t) => DepthIn(d, s) \in 1 .. DepthIn(d, t)
  BY <1>1, OpenDepth
<1> QED
  BY <1>1, <1>2, OpenStep

LEMMA LiveMore ==
  ASSUME NEW d \in Documents, NEW t \in 0 .. Len(d) - 1, d[t + 1].type # "end"
  PROVE  Live(d, t + 1) = Live(d, t) \cup IF d[t + 1].type = "startPrefix" THEN {t + 1} ELSE {}
<1>1. Len(d) \in Nat /\ t \in Nat /\ t + 1 \in 1 .. Len(d) /\ (t + 1) + 1 = t + 2 /\ t \in 0 .. Len(d)
  BY StepFacts
<1>2. ASSUME NEW k
      PROVE  k \in Live(d, t + 1) <=> k \in Live(d, t) \/ (k = t + 1 /\ d[t + 1].type = "startPrefix")
  <2>1. k \in Live(d, t + 1) <=> /\ k \in 1 .. t + 1
                                 /\ k \in DeclAt(d, t + 2) \/ \E s : Opened(d, s, t + 1) /\ k \in DeclAt(d, s)
    BY <1>1 DEF Live
  <2>2. k \in Live(d, t) <=> /\ k \in 1 .. t
                             /\ k \in DeclAt(d, t + 1) \/ \E s : Opened(d, s, t) /\ k \in DeclAt(d, s)
    BY DEF Live
  <2>3. (\E s : Opened(d, s, t + 1) /\ k \in DeclAt(d, s)) <=>
          \/ \E s : Opened(d, s, t) /\ k \in DeclAt(d, s)
          \/ IsStart(d, t + 1) /\ k \in DeclAt(d, t + 1)
    <3>1. \A s : Opened(d, s, t + 1) <=> Opened(d, s, t) \/ (s = t + 1 /\ IsStart(d, s))
      BY OpenSame
    <3> QED
      BY <3>1, Zenon
  <2>4. /\ k \in DeclAt(d, t + 2) <=> d[t + 1].type = "startPrefix" /\ (k = t + 1 \/ k \in DeclAt(d, t + 1))
        /\ d[t + 1].type \notin {"startPrefix", "start"} => k \notin DeclAt(d, t + 1)
    BY DeclNext
  <2>5. \A s : Opened(d, s, t) /\ k \in DeclAt(d, s) => k \in 1 .. t
    <3>1. ASSUME NEW s, Opened(d, s, t), k \in DeclAt(d, s) PROVE k \in 1 .. t
      <4>1. s \in 1 .. t
        BY <3>1 DEF Opened
      <4>2. k \in 1 .. s - 1
        BY <3>1 DEF DeclAt
      <4> QED
        BY <1>1, <4>1, <4>2
    <3> QED
      BY <3>1
  <2>6. k \in DeclAt(d, t + 1) => k \in 1 .. t
    BY <1>1, DeclFacts
  <2>7. k \in 1 .. t => k \in 1 .. t + 1 /\ k # t + 1
    BY <1>1
  <2>8. IsStart(d, t + 1) <=> d[t + 1].type = "start"
    BY DEF IsStart
  <2>9. t + 1 \in 1 .. t + 1
    BY <1>1
  <2> QED
    BY <2>1, <2>2, <2>3, <2>4, <2>5, <2>6, <2>7, <2>8, <2>9
<1> QED
  BY <1>2

LEMMA LiveLess ==
  ASSUME NEW d \in Documents, NEW t \in 0 .. Len(d) - 1, d[t + 1].type = "end"
  PROVE  /\ Live(d, t + 1) = {k \in Live(d, t) : DepthIn(d, k) + 1 < DepthIn(d, t)}
         /\ \A k \in Live(d, t) : DepthIn(d, k) \in Nat
         /\ \A j, k \in Live(d, t) : j < k => DepthIn(d, j) <= DepthIn(d, k)
<1>1. /\ Len(d) \in Nat /\ t \in Nat /\ t + 1 \in 1 .. Len(d) /\ (t + 1) + 1 = t + 2 /\ t \in 0 .. Len(d)
      /\ DepthIn(d, t + 1) = DepthIn(d, t) - 1 /\ DepthIn(d, t) \in Nat
  <2>1. ~ IsStart(d, t + 1)
    BY DEF IsStart
  <2> QED
    BY <2>1, StepFacts
<1>2. \A k : k \notin DeclAt(d, t + 1) /\ k \notin DeclAt(d, t + 2)
  BY DeclNext
<1>3. ASSUME NEW k, NEW s, Opened(d, s, t), k \in DeclAt(d, s)
      PROVE  /\ k \in 1 .. t /\ k \in 1 .. s - 1 /\ s \in 1 .. t /\ IsStart(d, s)
             /\ DepthIn(d, s) = DepthIn(d, k) + 1 /\ DepthIn(d, k) \in Nat
             /\ \A j \in k .. s - 1 : ~ IsStart(d, j)
  <2>1. s \in 1 .. t /\ s \in 1 .. Len(d) /\ IsStart(d, s)
    BY <1>1, <1>3, OpenDepth
  <2>2. k \in 1 .. s - 1 /\ DepthIn(d, s) = DepthIn(d, k) + 1 /\ DepthIn(d, k) \in Nat
        /\ \A j \in k .. s - 1 : ~ IsStart(d, j)
    BY <1>3, <2>1, OwnerFacts
  <2> QED
    BY <1>1, <2>1, <2>2
<1>4. ASSUME NEW s, Opened(d, s, t) PROVE Opened(d, s, t + 1) <=> DepthIn(d, s) < DepthIn(d, t)
  <2>1. DepthIn(d, s) \in 1 .. DepthIn(d, t) /\ s \in 1 .. t
    BY <1>1, <1>4, OpenDepth
  <2> QED
    BY <1>1, <1>4, <2>1, OpenStep
<1>5. \A s : Opened(d, s, t + 1) => Opened(d, s, t)
  BY OpenStep DEF IsStart
<1>6. \A k \in Live(d, t) : \E s : Opened(d, s, t) /\ k \in DeclAt(d, s)
  BY <1>2 DEF Live
<1>7. ASSUME NEW k PROVE k \in Live(d, t + 1) <=> k \in Live(d, t) /\ DepthIn(d, k) + 1 < DepthIn(d, t)
  <2>1. ASSUME k \in Live(d, t + 1) PROVE k \in Live(d, t) /\ DepthIn(d, k) + 1 < DepthIn(d, t)
    <3>1. PICK s : Opened(d, s, t + 1) /\ k \in DeclAt(d, s)
      BY <1>1, <1>2, <2>1 DEF Live
    <3>2. Opened(d, s, t) /\ DepthIn(d, s) < DepthIn(d, t)
      BY <1>4, <1>5, <3>1
    <3>3. k \in 1 .. t /\ DepthIn(d, s) = DepthIn(d, k) + 1
      BY <1>3, <3>1, <3>2
    <3> QED
      BY <3>1, <3>2, <3>3 DEF Live
  <2>2. ASSUME k \in Live(d, t), DepthIn(d, k) + 1 < DepthIn(d, t) PROVE k \in Live(d, t + 1)
    <3>1. PICK s : Opened(d, s, t) /\ k \in DeclAt(d, s)
      BY <1>6, <2>2
    <3>2. k \in 1 .. t /\ DepthIn(d, s) = DepthIn(d, k) + 1
      BY <1>3, <3>1
    <3>3. Opened(d, s, t + 1) /\ k \in 1 .. t + 1
      BY <1>1, <1>4, <2>2, <3>1, <3>2
    <3> QED
      BY <3>1, <3>3 DEF Live
  <2> QED
    BY <2>1, <2>2
<1>8. ASSUME NEW j \in Live(d, t), NEW k \in Live(d, t), j < k PROVE DepthIn(d, j) <= DepthIn(d, k)
  <2>1. PICK s : Opened(d, s, t) /\ j \in DeclAt(d, s)
    BY <1>6
  <2>2. PICK u : Opened(d, u, t) /\ k \in DeclAt(d, u)
    BY <1>6
  <2>3. /\ j \in 1 .. s - 1 /\ s \in 1 .. t /\ DepthIn(d, s) = DepthIn(d, j) + 1 /\ DepthIn(d, j) \in Nat
        /\ \A n \in j .. s - 1 : ~ IsStart(d, n)
    BY <1>3, <2>1
  <2>4. k \in 1 .. u - 1 /\ u \in 1 .. t /\ IsStart(d, u) /\ DepthIn(d, u) = DepthIn(d, k) + 1 /\ DepthIn(d, k) \in Nat
    BY <1>3, <2>2
  <2>5. ~ (u < s)
    <3>1. u < s => u \in j .. s - 1
      BY <1>8, <2>3, <2>4
    <3> QED
      BY <2>3, <2>4, <3>1
  <2>6. s < u => DepthIn(d, s) < DepthIn(d, u)
    BY <1>1, <2>1, <2>2, OpenDepth
  <2>7. s = u \/ s < u
    BY <2>3, <2>4, <2>5
  <2> QED
    BY <2>3, <2>4, <2>6, <2>7
<1>9. \A k \in Live(d, t) : DepthIn(d, k) \in Nat
  BY <1>3, <1>6
<1> QED
  BY <1>7, <1>8, <1>9

(* The bindings of the iterator are the live declarations, in their order.   *)
BindAt(d, k) == [prefix |-> d[k].strings[1], uri |-> d[k].strings[2], depth |-> DepthIn(d, k) + 1]
Binds(d) == {BindAt(d, k) : k \in Nat}
BoundBy(d, ns, P, t) ==
  /\ P \in Seq(Nat) /\ ns \in Seq(Binds(d)) /\ Len(ns) = Len(P)
  /\ \A n \in 1 .. Len(P) : ns[n] = BindAt(d, P[n])
  /\ \A m, n \in 1 .. Len(P) : m < n => P[m] < P[n]
  /\ ToSet(P) = Live(d, t)
Bound(d, ns, t) == \E P : BoundBy(d, ns, P, t)

LEMMA BoundMore ==
  ASSUME NEW d \in Documents, NEW t \in 0 .. Len(d) - 1, d[t + 1].type # "end",
         NEW ns, Bound(d, ns, t)
  PROVE  IF d[t + 1].type = "startPrefix" THEN Bound(d, Append(ns, BindAt(d, t + 1)), t + 1) ELSE Bound(d, ns, t + 1)
<1>1. Live(d, t + 1) = Live(d, t) \cup IF d[t + 1].type = "startPrefix" THEN {t + 1} ELSE {}
  BY LiveMore
<1>2. PICK P : BoundBy(d, ns, P, t)
  BY DEF Bound
<1>3. /\ P \in Seq(Nat) /\ ns \in Seq(Binds(d)) /\ Len(ns) = Len(P) /\ Len(P) \in Nat /\ DOMAIN P = 1 .. Len(P)
      /\ \A n \in 1 .. Len(P) : ns[n] = BindAt(d, P[n])
      /\ \A m, n \in 1 .. Len(P) : m < n => P[m] < P[n]
      /\ ToSet(P) = Live(d, t)
  BY <1>2 DEF BoundBy
<1>4. CASE d[t + 1].type # "startPrefix"
  <2>1. Live(d, t + 1) = Live(d, t)
    BY <1>1, <1>4
  <2>2. BoundBy(d, ns, P, t + 1)
    BY <1>3, <2>1 DEF BoundBy
  <2> QED
    BY <1>4, <2>2 DEF Bound
<1>5. CASE d[t + 1].type = "startPrefix"
  <2>1. t + 1 \in Nat /\ t \in Nat /\ BindAt(d, t + 1) \in Binds(d)
    BY StepFacts DEF Binds
  <2>2. PICK x, b : x = t + 1 /\ b = BindAt(d, t + 1)
    OBVIOUS
  <2>3. x \in Nat /\ b \in Binds(d) /\ b = BindAt(d, x)
    BY <2>1, <2>2
  <2>4. PICK Q, u : Q = Append(P, x) /\ u = Append(ns, b)
    OBVIOUS
  <2>5. /\ Q \in Seq(Nat) /\ Len(Q) = Len(P) + 1 /\ Q[Len(P) + 1] = x /\ \A n \in 1 .. Len(P) : Q[n] = P[n]
    <3>1. /\ Append(P, x) \in Seq(Nat) /\ Len(Append(P, x)) = Len(P) + 1 /\ Append(P, x)[Len(P) + 1] = x
          /\ \A n \in 1 .. Len(P) : Append(P, x)[n] = P[n]
      BY <1>3, <2>3, AppendAt
    <3> QED
      BY <2>4, <3>1
  <2>6. /\ u \in Seq(Binds(d)) /\ Len(u) = Len(P) + 1 /\ u[Len(P) + 1] = b /\ \A n \in 1 .. Len(P) : u[n] = ns[n]
    <3>1. /\ Append(ns, b) \in Seq(Binds(d)) /\ Len(Append(ns, b)) = Len(ns) + 1 /\ Append(ns, b)[Len(ns) + 1] = b
          /\ \A n \in 1 .. Len(ns) : Append(ns, b)[n] = ns[n]
      BY <1>3, <2>3, AppendAt
    <3> QED
      BY <1>3, <2>4, <3>1
  <2>7. ToSet(Q) = Live(d, t + 1)
    <3>1. ToSet(Append(P, x)) = ToSet(P) \cup {x}
      BY <1>3, <2>3, AppendSet
    <3> QED
      BY <1>1, <1>3, <1>5, <2>2, <2>4, <3>1
  <2>8. ASSUME NEW n \in 1 .. Len(Q) PROVE u[n] = BindAt(d, Q[n])
    <3>1. CASE n = Len(P) + 1
      BY <2>3, <2>5, <2>6, <3>1
    <3>2. CASE n # Len(P) + 1
      <4>1. n \in 1 .. Len(P)
        BY <1>3, <2>5, <3>2
      <4>2. u[n] = ns[n] /\ Q[n] = P[n] /\ ns[n] = BindAt(d, P[n])
        BY <1>3, <2>5, <2>6, <4>1
      <4> QED
        BY <4>2
    <3> QED
      BY <3>1, <3>2
  <2>9. \A m \in 1 .. Len(P) : P[m] < x
    <3>1. \A m \in 1 .. Len(P) : P[m] \in Live(d, t)
      BY <1>3 DEF ToSet
    <3> QED
      BY <2>1, <2>2, <3>1 DEF Live
  <2>10. \A m, n \in 1 .. Len(Q) : m < n => Q[m] < Q[n]
    <3>1. ASSUME NEW m \in 1 .. Len(P) + 1, NEW n \in 1 .. Len(P) + 1, m < n PROVE Q[m] < Q[n]
      <4>0. m \in 1 .. Len(P)
        BY <1>3, <3>1
      <4>1. m \in 1 .. Len(P) /\ Q[m] = P[m]
        BY <2>5, <4>0
      <4>2. CASE n = Len(P) + 1
        <5>1. Q[n] = x /\ P[m] < x
          BY <2>5, <2>9, <4>1, <4>2
        <5> QED
          BY <4>1, <5>1
      <4>3. CASE n # Len(P) + 1
        <5>0. Len(P) \in Nat /\ n \in 1 .. Len(P) + 1 /\ n # Len(P) + 1
          BY <1>3, <3>1, <4>3
        <5>1. n \in 1 .. Len(P)
          BY <5>0
        <5>2. Q[n] = P[n] /\ P[m] < P[n]
          BY <1>3, <2>5, <3>1, <4>1, <5>1
        <5> QED
          BY <4>1, <5>2
      <4> QED
        BY <4>2, <4>3
    <3> QED
      BY <2>5, <3>1
  <2>11. BoundBy(d, u, Q, t + 1)
    BY <2>5, <2>6, <2>7, <2>8, <2>10 DEF BoundBy
  <2> QED
    BY <1>5, <2>2, <2>4, <2>11 DEF Bound
<1> QED
  BY <1>4, <1>5

LEMMA BoundLess ==
  ASSUME NEW d \in Documents, NEW t \in 0 .. Len(d) - 1, d[t + 1].type = "end",
         NEW ns, Bound(d, ns, t)
  PROVE  Bound(d, Dropped(ns, DepthIn(d, t)), t + 1)
<1>1. /\ Live(d, t + 1) = {k \in Live(d, t) : DepthIn(d, k) + 1 < DepthIn(d, t)}
      /\ \A k \in Live(d, t) : DepthIn(d, k) \in Nat
      /\ \A j, k \in Live(d, t) : j < k => DepthIn(d, j) <= DepthIn(d, k)
      /\ DepthIn(d, t) \in Nat
  BY LiveLess, StepFacts
<1>2. PICK P : BoundBy(d, ns, P, t)
  BY DEF Bound
<1>3. /\ P \in Seq(Nat) /\ ns \in Seq(Binds(d)) /\ Len(ns) = Len(P) /\ Len(P) \in Nat /\ DOMAIN P = 1 .. Len(P)
      /\ DOMAIN ns = 1 .. Len(P)
      /\ \A n \in 1 .. Len(P) : ns[n] = BindAt(d, P[n])
      /\ \A m, n \in 1 .. Len(P) : m < n => P[m] < P[n]
      /\ ToSet(P) = Live(d, t)
  BY <1>2 DEF BoundBy
<1>4. \A n \in 1 .. Len(P) : P[n] \in Live(d, t) /\ ns[n].depth = DepthIn(d, P[n]) + 1
  <2> SUFFICES ASSUME NEW n \in 1 .. Len(P)
               PROVE  P[n] \in Live(d, t) /\ ns[n].depth = DepthIn(d, P[n]) + 1
    OBVIOUS
  <2>1. P[n] \in ToSet(P)
    BY <1>3 DEF ToSet
  <2>2. ns[n] = BindAt(d, P[n])
    BY <1>3
  <2>3. BindAt(d, P[n]).depth = DepthIn(d, P[n]) + 1
    BY DEF BindAt
  <2> QED
    BY <1>3, <2>1, <2>2, <2>3
<1>5. PICK D : D = DepthIn(d, t)
  OBVIOUS
<1> DEFINE S == {0} \cup {k \in DOMAIN ns : ns[k].depth < D}
<1>6. PICK m : m = Max(S)
  OBVIOUS
<1>7. m \in S /\ \A y \in S : y <= m
  <2>1. S \in SUBSET (0 .. Len(P)) /\ S # {}
    BY <1>3
  <2> HIDE DEF S
  <2> QED
    BY <1>3, <1>6, <2>1, GreatestOf
<1>8. m \in 0 .. Len(P) /\ \A n \in 1 .. Len(P) : n <= m <=> DepthIn(d, P[n]) + 1 < D
  <2>1. m \in 0 .. Len(P) /\ (m # 0 => ns[m].depth < D)
    BY <1>3, <1>7
  <2>2. ASSUME NEW n \in 1 .. Len(P), n <= m PROVE DepthIn(d, P[n]) + 1 < D
    <3>1. m \in 1 .. Len(P) /\ DepthIn(d, P[m]) + 1 < D /\ P[m] \in Live(d, t) /\ P[n] \in Live(d, t)
      BY <1>4, <2>1, <2>2
    <3>2. DepthIn(d, P[n]) <= DepthIn(d, P[m])
      <4>1. CASE n = m
        BY <1>1, <3>1, <4>1
      <4>2. CASE n # m
        <5>1. P[n] < P[m]
          BY <1>3, <2>2, <3>1, <4>2
        <5> QED
          BY <1>1, <3>1, <5>1
      <4> QED
        BY <4>1, <4>2
    <3> QED
      BY <1>1, <1>5, <3>1, <3>2
  <2>3. ASSUME NEW n \in 1 .. Len(P), DepthIn(d, P[n]) + 1 < D PROVE n <= m
    <3>1. n \in S
      BY <1>3, <1>4, <2>3
    <3> QED
      BY <1>7, <3>1
  <2> QED
    BY <2>1, <2>2, <2>3
<1>9. PICK Q, u : Q = SubSeq(P, 1, m) /\ u = SubSeq(ns, 1, m)
  OBVIOUS
<1>10. /\ Q \in Seq(Nat) /\ Len(Q) = m /\ DOMAIN Q = 1 .. m /\ \A n \in 1 .. m : Q[n] = P[n]
       /\ u \in Seq(Binds(d)) /\ Len(u) = m /\ \A n \in 1 .. m : u[n] = ns[n]
  BY <1>3, <1>8, <1>9
<1>11. \A n \in 1 .. m : n \in 1 .. Len(P)
  BY <1>3, <1>8
<1>12. ToSet(Q) = Live(d, t + 1)
  <2>1. ASSUME NEW k \in ToSet(Q) PROVE k \in Live(d, t + 1)
    <3>1. PICK n \in 1 .. m : k = P[n]
      BY <1>10 DEF ToSet
    <3> QED
      BY <1>1, <1>4, <1>5, <1>8, <1>11, <3>1
  <2>2. ASSUME NEW k \in Live(d, t + 1) PROVE k \in ToSet(Q)
    <3>1. k \in Live(d, t) /\ DepthIn(d, k) + 1 < D
      BY <1>1, <1>5
    <3>2. PICK n \in 1 .. Len(P) : k = P[n]
      BY <1>3, <3>1 DEF ToSet
    <3>3. n \in 1 .. m
      BY <1>8, <3>1, <3>2
    <3> QED
      BY <1>10, <3>2, <3>3 DEF ToSet
  <2> QED
    BY <2>1, <2>2
<1>13. BoundBy(d, u, Q, t + 1)
  <2>1. \A n \in 1 .. Len(Q) : u[n] = BindAt(d, Q[n])
    BY <1>3, <1>10, <1>11
  <2>2. \A j, n \in 1 .. Len(Q) : j < n => Q[j] < Q[n]
    BY <1>3, <1>10, <1>11
  <2> QED
    BY <1>10, <1>12, <2>1, <2>2 DEF BoundBy
<1>14. u = Dropped(ns, DepthIn(d, t))
  BY <1>5, <1>6, <1>9 DEF Dropped
<1> QED
  BY <1>13, <1>14 DEF Bound

(* The innermost declaration of each prefix, among some.                     *)
PrefixAt(d, k) == d[k].strings[1]
PairAt(d, k) == <<d[k].strings[1], d[k].strings[2]>>
Innermost(d, L, k) == k \in L /\ \A j \in L : PrefixAt(d, j) = PrefixAt(d, k) => j <= k
InnerOf(d, L) == {PairAt(d, k) : k \in {k \in L : Innermost(d, L, k)}}

LEMMA LookupIs ==
  ASSUME NEW d \in Documents, NEW t \in 0 .. Len(d), NEW ns, Bound(d, ns, t), NEW p, NEW u
  PROVE  u \in Lookup(ns, p) <=> \E k : Innermost(d, Live(d, t), k) /\ PrefixAt(d, k) = p /\ u = PairAt(d, k)
<1>1. PICK P : BoundBy(d, ns, P, t)
  BY DEF Bound
<1>2. /\ P \in Seq(Nat) /\ Len(ns) = Len(P) /\ Len(P) \in Nat /\ DOMAIN P = 1 .. Len(P) /\ DOMAIN ns = 1 .. Len(P)
      /\ \A n \in 1 .. Len(P) : ns[n] = BindAt(d, P[n])
      /\ \A m, n \in 1 .. Len(P) : m < n => P[m] < P[n]
      /\ ToSet(P) = Live(d, t)
  BY <1>1 DEF BoundBy
<1>3. \A n \in 1 .. Len(P) : /\ P[n] \in Live(d, t) /\ P[n] \in Nat
                             /\ ns[n].prefix = PrefixAt(d, P[n]) /\ <<PrefixAt(d, P[n]), ns[n].uri>> = PairAt(d, P[n])
  <2> SUFFICES ASSUME NEW n \in 1 .. Len(P)
               PROVE  /\ P[n] \in Live(d, t) /\ P[n] \in Nat
                      /\ ns[n].prefix = PrefixAt(d, P[n]) /\ <<PrefixAt(d, P[n]), ns[n].uri>> = PairAt(d, P[n])
    OBVIOUS
  <2>1. P[n] \in ToSet(P) /\ P[n] \in Nat
    BY <1>2 DEF ToSet
  <2>2. ns[n] = BindAt(d, P[n])
    BY <1>2
  <2>3. BindAt(d, P[n]).prefix = PrefixAt(d, P[n]) /\ <<PrefixAt(d, P[n]), BindAt(d, P[n]).uri>> = PairAt(d, P[n])
    BY DEF BindAt, PrefixAt, PairAt
  <2> QED
    BY <1>2, <2>1, <2>2, <2>3
<1>4. \A k \in Live(d, t) : \E n \in 1 .. Len(P) : k = P[n]
  BY <1>2 DEF ToSet
<1> DEFINE at == {n \in DOMAIN ns : ns[n].prefix = p}
<1>5. \A n : n \in at <=> n \in 1 .. Len(P) /\ PrefixAt(d, P[n]) = p
  BY <1>2, <1>3
<1>6. CASE at = {}
  <2>1. Lookup(ns, p) = {}
    BY <1>6 DEF Lookup
  <2>2. \A k \in Live(d, t) : PrefixAt(d, k) # p
    BY <1>4, <1>5, <1>6
  <2> QED
    BY <2>1, <2>2 DEF Innermost
<1>7. CASE at # {}
  <2>1. PICK m : m = Max(at)
    OBVIOUS
  <2>2. Lookup(ns, p) = {<<p, ns[m].uri>>}
    BY <1>7, <2>1 DEF Lookup
  <2>3. m \in at /\ \A n \in at : n <= m
    <3>1. at \in SUBSET (0 .. Len(P))
      BY <1>2, <1>5
    <3> HIDE DEF at
    <3> QED
      BY <1>2, <1>7, <2>1, <3>1, GreatestOf
  <2> HIDE DEF at
  <2>4. m \in 1 .. Len(P) /\ PrefixAt(d, P[m]) = p /\ P[m] \in Live(d, t) /\ <<p, ns[m].uri>> = PairAt(d, P[m]) /\ P[m] \in Nat
    BY <1>3, <1>5, <2>3
  <2>5. ASSUME NEW j \in Live(d, t), PrefixAt(d, j) = p PROVE j <= P[m] /\ j \in Nat
    <3>1. PICK n \in 1 .. Len(P) : j = P[n]
      BY <1>4
    <3>2. n <= m
      BY <1>5, <2>3, <2>5, <3>1
    <3>3. CASE n = m
      BY <1>3, <2>4, <3>1, <3>3
    <3>4. CASE n # m
      <4>1. n < m /\ P[n] \in Nat
        BY <1>3, <2>4, <3>2, <3>4
      <4>2. P[n] < P[m]
        BY <1>2, <2>4, <4>1
      <4> QED
        BY <2>4, <3>1, <4>1, <4>2
    <3> QED
      BY <3>3, <3>4
  <2>6. Innermost(d, Live(d, t), P[m])
    BY <2>4, <2>5 DEF Innermost
  <2>7. ASSUME NEW k, Innermost(d, Live(d, t), k), PrefixAt(d, k) = p PROVE k = P[m]
    <3>1. k \in Live(d, t) /\ P[m] <= k
      BY <2>4, <2>7 DEF Innermost
    <3> QED
      BY <2>4, <2>5, <2>7, <3>1
  <2> QED
    BY <2>2, <2>4, <2>6, <2>7
<1> QED
  BY <1>6, <1>7

LEMMA SnapIs ==
  ASSUME NEW d \in Documents, NEW t \in 0 .. Len(d), NEW ns, Bound(d, ns, t)
  PROVE  SnapOf(ns) = InnerOf(d, Live(d, t))
<1>1. PICK P : BoundBy(d, ns, P, t)
  BY DEF Bound
<1>2. /\ DOMAIN P = 1 .. Len(P) /\ DOMAIN ns = 1 .. Len(P) /\ ToSet(P) = Live(d, t)
      /\ \A n \in 1 .. Len(P) : ns[n] = BindAt(d, P[n])
  BY <1>1 DEF BoundBy
<1>3. \A n \in 1 .. Len(P) : ns[n].prefix = PrefixAt(d, P[n])
  BY <1>2 DEF BindAt, PrefixAt
<1>4. ASSUME NEW u PROVE u \in SnapOf(ns) <=> u \in InnerOf(d, Live(d, t))
  <2>1. u \in SnapOf(ns) <=> \E b \in ToSet(ns) : u \in Lookup(ns, b.prefix)
    BY DEF SnapOf
  <2>2. ASSUME NEW b \in ToSet(ns), u \in Lookup(ns, b.prefix) PROVE u \in InnerOf(d, Live(d, t))
    <3>1. PICK k : Innermost(d, Live(d, t), k) /\ u = PairAt(d, k)
      BY <2>2, LookupIs
    <3> QED
      BY <3>1 DEF InnerOf, Innermost
  <2>3. ASSUME u \in InnerOf(d, Live(d, t)) PROVE \E b \in ToSet(ns) : u \in Lookup(ns, b.prefix)
    <3>1. PICK k \in Live(d, t) : Innermost(d, Live(d, t), k) /\ u = PairAt(d, k)
      BY <2>3 DEF InnerOf
    <3>2. PICK n \in 1 .. Len(P) : k = P[n]
      BY <1>2, <3>1 DEF ToSet
    <3>3. ns[n] \in ToSet(ns) /\ ns[n].prefix = PrefixAt(d, k)
      BY <1>2, <1>3, <3>2 DEF ToSet
    <3>4. u \in Lookup(ns, PrefixAt(d, k))
      BY <3>1, LookupIs
    <3> QED
      BY <3>3, <3>4
  <2> QED
    BY <2>1, <2>2, <2>3
<1> QED
  BY <1>4

(* Declarations of two elements lie apart; those of one have other prefixes. *)
LEMMA DeclApart ==
  ASSUME NEW d \in Documents, NEW s \in 1 .. Len(d), NEW k \in DeclAt(d, s)
  PROVE  /\ k \in 1 .. s - 1
         /\ \A r \in 1 .. Len(d) : IsStart(d, r) /\ r < s => r < k
         /\ \A j \in DeclAt(d, s) : PrefixAt(d, j) = PrefixAt(d, k) => j = k
<1>1. Len(d) \in Nat /\ k \in 1 .. s - 1 /\ \A n \in k .. s - 1 : d[n].type = "startPrefix"
  BY DocShape DEF DeclAt
<1>2. ASSUME NEW r \in 1 .. Len(d), IsStart(d, r), r < s PROVE r < k
  <2>1. r \notin k .. s - 1
    BY <1>1, <1>2 DEF IsStart
  <2> QED
    BY <1>1, <1>2, <2>1
<1>3. ASSUME NEW i \in DeclAt(d, s), NEW j \in DeclAt(d, s), i < j PROVE PrefixAt(d, i) # PrefixAt(d, j)
  <2>1. i \in 1 .. s - 1 /\ j \in 1 .. s - 1 /\ \A n \in i .. s - 1 : d[n].type = "startPrefix"
    BY DEF DeclAt
  <2>2. i \in 1 .. Len(d) /\ j \in 1 .. Len(d) /\ \A n \in i .. j : n \in i .. s - 1
    BY <1>1, <2>1
  <2>3. \A n \in i .. j : d[n].type = "startPrefix"
    BY <2>1, <2>2
  <2>4. d[i].strings[1] # d[j].strings[1]
    BY <1>3, <2>2, <2>3, DocRules
  <2> QED
    BY <2>4 DEF PrefixAt
<1>4. ASSUME NEW j \in DeclAt(d, s), PrefixAt(d, j) = PrefixAt(d, k) PROVE j = k
  <2>1. j \in 1 .. s - 1
    BY DEF DeclAt
  <2>2. ~ (j < k) /\ ~ (k < j)
    BY <1>3, <1>4
  <2> QED
    BY <1>1, <2>1, <2>2
<1> QED
  BY <1>1, <1>2, <1>4

(* The declarations of the elements that are open at e.                      *)
OpenDecls(d, e) == {k \in 1 .. e : \E s : Opened(d, s, e) /\ k \in DeclAt(d, s)}

LEMMA ScopeIs ==
  ASSUME NEW d \in Documents, NEW e \in 1 .. Len(d), IsStart(d, e)
  PROVE  ScopeOf(d, e) = InnerOf(d, OpenDecls(d, e))
<1>1. Len(d) \in Nat /\ e \in 0 .. Len(d)
  BY DocShape
<1> DEFINE open == {s \in 1 .. e : IsStart(d, s) /\ EndOf(d, s) >= EndOf(d, e)}
           decl(p) == {s \in open : \E u \in DeclsOf(d, s) : u[1] = p}
<1>2. ScopeOf(d, e) = {u \in UNION {DeclsOf(d, s) : s \in open} : u \in DeclsOf(d, Max(decl(u[1])))}
  BY DEF ScopeOf
<1>3. \A s : s \in open <=> Opened(d, s, e)
  BY OpenIn DEF Opened
<1>4. ASSUME NEW s, Opened(d, s, e)
      PROVE  s \in 1 .. e /\ s \in 1 .. Len(d) /\ IsStart(d, s)
  BY <1>1, <1>4, OpenDepth
<1>5. \A s, u : u \in DeclsOf(d, s) <=> \E k \in DeclAt(d, s) : u = PairAt(d, k)
  BY DEF DeclsOf, PairAt
<1>6. \A k : PairAt(d, k)[1] = PrefixAt(d, k)
  BY DEF PairAt, PrefixAt
<1>7. \A s, k : Opened(d, s, e) /\ k \in DeclAt(d, s) => k \in OpenDecls(d, e) /\ k \in 1 .. s - 1
  <2>1. ASSUME NEW s, NEW k, Opened(d, s, e), k \in DeclAt(d, s) PROVE k \in 1 .. s - 1 /\ k \in 1 .. e
    <3>1. s \in 1 .. e /\ k \in 1 .. s - 1
      BY <1>4, <2>1 DEF DeclAt
    <3> QED
      BY <1>1, <3>1
  <2> QED
    BY <2>1 DEF OpenDecls
<1>8. \A k \in OpenDecls(d, e) : \E s : Opened(d, s, e) /\ k \in DeclAt(d, s)
  BY DEF OpenDecls
<1>9. ASSUME NEW p, decl(p) # {}
      PROVE  Max(decl(p)) \in decl(p) /\ \A s \in decl(p) : s <= Max(decl(p))
  <2>1. decl(p) \in SUBSET (0 .. Len(d))
    BY <1>1
  <2> HIDE DEF decl
  <2> QED
    BY <1>1, <1>9, <2>1, GreatestOf
<1>10. \A s, p : s \in decl(p) <=> Opened(d, s, e) /\ \E k \in DeclAt(d, s) : PrefixAt(d, k) = p
  <2>1. ASSUME NEW s, NEW p
        PROVE  (\E u \in DeclsOf(d, s) : u[1] = p) <=> \E k \in DeclAt(d, s) : PrefixAt(d, k) = p
    BY <1>5, <1>6
  <2> QED
    BY <1>3, <2>1
<1> HIDE DEF open, decl
<1>11. ASSUME NEW u \in ScopeOf(d, e) PROVE u \in InnerOf(d, OpenDecls(d, e))
  <2>1. PICK s : Opened(d, s, e) /\ u \in DeclsOf(d, s)
    BY <1>2, <1>3
  <2>2. s \in decl(u[1])
    BY <1>5, <1>6, <1>10, <2>1
  <2>3. PICK m : m = Max(decl(u[1]))
    OBVIOUS
  <2>4. m \in decl(u[1]) /\ (\A n \in decl(u[1]) : n <= m) /\ u \in DeclsOf(d, m)
    BY <1>2, <1>9, <2>2, <2>3
  <2>5. PICK k \in DeclAt(d, m) : u = PairAt(d, k)
    BY <1>5, <2>4
  <2>6. Opened(d, m, e) /\ u[1] = PrefixAt(d, k)
    BY <1>6, <1>10, <2>4, <2>5
  <2>7. k \in OpenDecls(d, e) /\ k \in 1 .. m - 1 /\ m \in 1 .. Len(d)
    BY <1>4, <1>7, <2>5, <2>6
  <2>8. ASSUME NEW j \in OpenDecls(d, e), PrefixAt(d, j) = PrefixAt(d, k) PROVE j <= k
    <3>1. PICK r : Opened(d, r, e) /\ j \in DeclAt(d, r)
      BY <1>8
    <3>2. r \in decl(u[1]) /\ r <= m
      BY <1>10, <2>4, <2>6, <2>8, <3>1
    <3>3. r \in 1 .. Len(d) /\ IsStart(d, r) /\ j \in 1 .. r - 1
      BY <1>4, <1>7, <3>1
    <3>4. CASE r = m
      <4>1. j = k
        BY <2>5, <2>7, <2>8, <3>1, <3>4, DeclApart
      <4> QED
        BY <2>7, <4>1
    <3>5. CASE r # m
      <4>1. r < m
        BY <2>7, <3>2, <3>3, <3>5
      <4>2. r < k
        BY <2>5, <2>7, <3>3, <4>1, DeclApart
      <4> QED
        BY <2>7, <3>3, <4>2
    <3> QED
      BY <3>4, <3>5
  <2> QED
    BY <2>5, <2>7, <2>8 DEF InnerOf, Innermost
<1>12. ASSUME NEW u \in InnerOf(d, OpenDecls(d, e)) PROVE u \in ScopeOf(d, e)
  <2>1. PICK k \in OpenDecls(d, e) : Innermost(d, OpenDecls(d, e), k) /\ u = PairAt(d, k)
    BY DEF InnerOf
  <2>2. PICK s : Opened(d, s, e) /\ k \in DeclAt(d, s)
    BY <1>8
  <2>3. u[1] = PrefixAt(d, k) /\ s \in decl(u[1]) /\ u \in DeclsOf(d, s) /\ s \in 1 .. Len(d) /\ IsStart(d, s)
        /\ k \in 1 .. s - 1
    BY <1>4, <1>5, <1>6, <1>7, <1>10, <2>1, <2>2
  <2>4. PICK m : m = Max(decl(u[1]))
    OBVIOUS
  <2>5. m \in decl(u[1]) /\ s <= m
    BY <1>9, <2>3, <2>4
  <2>6. Opened(d, m, e) /\ m \in 1 .. Len(d)
    BY <1>4, <1>10, <2>5
  <2>7. PICK j \in DeclAt(d, m) : PrefixAt(d, j) = u[1]
    BY <1>10, <2>5
  <2>8. j \in OpenDecls(d, e) /\ j \in 1 .. m - 1
    BY <1>7, <2>6, <2>7
  <2>9. j <= k
    BY <2>1, <2>3, <2>7, <2>8 DEF Innermost
  <2>10. m = s
    <3>1. s < m => s < j
      BY <2>3, <2>6, <2>7, DeclApart
    <3> QED
      BY <2>3, <2>5, <2>6, <2>8, <2>9, <3>1
  <2>11. u \in UNION {DeclsOf(d, n) : n \in open}
    BY <1>3, <2>2, <2>3
  <2> QED
    BY <1>2, <2>3, <2>4, <2>10, <2>11
<1> QED
  BY <1>11, <1>12

(* When an element starts, and when it ends, what is live is its scope.      *)
LEMMA LiveAtEnd ==
  ASSUME NEW d \in Documents, NEW t \in 0 .. Len(d) - 1, d[t + 1].type = "end", NEW s, EndsAt(d, s, t)
  PROVE  Live(d, t) = OpenDecls(d, s)
<1>1. /\ Len(d) \in Nat /\ t \in Nat /\ t + 1 \in 1 .. Len(d) /\ t \in 0 .. Len(d) /\ DepthIn(d, t) \in Nat
  BY StepFacts
<1>2. s \in 1 .. Len(d) /\ IsStart(d, s) /\ EndOf(d, s) = t + 1 /\ Opened(d, s, t) /\ DepthIn(d, s) = DepthIn(d, t)
      /\ s \in 1 .. t
  BY DEF EndsAt, Opened
<1>3. \A k : k \notin DeclAt(d, t + 1)
  BY DeclNext
<1>4. ASSUME NEW r PROVE Opened(d, r, t) <=> Opened(d, r, s)
  <2>1. ASSUME Opened(d, r, t) PROVE Opened(d, r, s)
    <3>1. r \in 1 .. t /\ IsStart(d, r) /\ EndOf(d, r) > t /\ DepthIn(d, r) \in 1 .. DepthIn(d, t)
      BY <1>1, <2>1, OpenDepth DEF Opened
    <3>2. ~ (s < r)
      <4>1. s < r => DepthIn(d, s) < DepthIn(d, r)
        BY <1>1, <1>2, <2>1, OpenDepth
      <4> QED
        BY <1>1, <1>2, <3>1, <4>1
    <3>3. EndOf(d, r) \in r + 1 .. Len(d) + 1
      BY <1>1, <3>1, EndFacts, r \in 1 .. Len(d)
    <3> QED
      BY <1>1, <1>2, <3>1, <3>2, <3>3 DEF Opened
  <2>2. ASSUME Opened(d, r, s) PROVE Opened(d, r, t)
    <3>1. r \in 1 .. s /\ IsStart(d, r)
      BY <2>2 DEF Opened
    <3>2. EndOf(d, r) >= t + 1
      BY <1>2, <2>2, <3>1, OpenIn
    <3>3. EndOf(d, r) \in r + 1 .. Len(d) + 1
      BY <1>1, <1>2, <3>1, EndFacts, r \in 1 .. Len(d)
    <3> QED
      BY <1>1, <1>2, <3>1, <3>2, <3>3 DEF Opened
  <2> QED
    BY <2>1, <2>2
<1>5. ASSUME NEW k PROVE k \in Live(d, t) <=> k \in OpenDecls(d, s)
  <2>1. ASSUME NEW r, Opened(d, r, s), k \in DeclAt(d, r) PROVE k \in 1 .. t /\ k \in 1 .. s
    <3>1. r \in 1 .. s /\ k \in 1 .. r - 1
      BY <2>1 DEF Opened, DeclAt
    <3> QED
      BY <1>1, <1>2, <3>1
  <2>2. k \in Live(d, t) <=> k \in 1 .. t /\ \E r : Opened(d, r, s) /\ k \in DeclAt(d, r)
    BY <1>3, <1>4 DEF Live
  <2>3. k \in OpenDecls(d, s) <=> k \in 1 .. s /\ \E r : Opened(d, r, s) /\ k \in DeclAt(d, r)
    BY DEF OpenDecls
  <2> QED
    BY <2>1, <2>2, <2>3
<1> QED
  BY <1>5

LEMMA LiveAtStart ==
  ASSUME NEW d \in Documents, NEW t \in 0 .. Len(d) - 1, IsStart(d, t + 1)
  PROVE  Live(d, t) = OpenDecls(d, t + 1)
<1>1. Len(d) \in Nat /\ t \in Nat /\ t + 1 \in 1 .. Len(d) /\ t \in 0 .. Len(d) /\ (t + 1) - 1 = t
  BY StepFacts
<1>2. ASSUME NEW r PROVE Opened(d, r, t + 1) <=> Opened(d, r, t) \/ r = t + 1
  <2>1. d[t + 1].type # "end"
    BY DEF IsStart
  <2>2. Opened(d, r, t + 1) <=> Opened(d, r, t) \/ (r = t + 1 /\ IsStart(d, r))
    BY <2>1, OpenSame
  <2>3. r = t + 1 => IsStart(d, r)
    OBVIOUS
  <2> QED
    BY <2>2, <2>3, Zenon
<1>3. ASSUME NEW k PROVE k \in Live(d, t) <=> k \in OpenDecls(d, t + 1)
  <2>1. k \in Live(d, t) <=> k \in 1 .. t /\ \E r : Opened(d, r, t + 1) /\ k \in DeclAt(d, r)
    BY <1>2 DEF Live
  <2>2. k \in OpenDecls(d, t + 1) <=> k \in 1 .. t + 1 /\ \E r : Opened(d, r, t + 1) /\ k \in DeclAt(d, r)
    BY DEF OpenDecls
  <2>3. ASSUME NEW r, Opened(d, r, t + 1), k \in DeclAt(d, r) PROVE k \in 1 .. t /\ k \in 1 .. t + 1
    <3>1. r \in 1 .. t + 1 /\ k \in 1 .. r - 1
      BY <2>3 DEF Opened, DeclAt
    <3> QED
      BY <1>1, <3>1
  <2> QED
    BY <2>1, <2>2, <2>3
<1> QED
  BY <1>3

(* The bindings are kept as long as elements are handed out.                 *)
Needs(d, mode, t) == mode = "full" \/ DepthIn(d, t) > 0 \/ \A s \in 1 .. t : ~ IsStart(d, s)
Spaces(d, mode, ns, t) == Needs(d, mode, t) => Bound(d, ns, t)
Scoped(d, i, t) == Spaces(d, i.mode, i.ns, t) /\ (i.done # 0 => i.snap = ScopeOf(d, i.done))

LEMMA NeedsStep ==
  ASSUME NEW d \in Documents, NEW t \in 0 .. Len(d) - 1, NEW mode, Needs(d, mode, t + 1)
  PROVE  Needs(d, mode, t)
<1>1. /\ Len(d) \in Nat /\ t \in Nat /\ t + 1 \in 1 .. Len(d) /\ DepthIn(d, t) \in Nat /\ DepthIn(d, t + 1) \in Nat
      /\ DepthIn(d, t + 1) = DepthIn(d, t) + IF IsStart(d, t + 1) THEN 1 ELSE IF d[t + 1].type = "end" THEN - 1 ELSE 0
  BY StepFacts
<1>2. CASE mode = "full"
  BY <1>2 DEF Needs
<1>3. CASE DepthIn(d, t + 1) > 0
  <2>1. CASE DepthIn(d, t) > 0
    BY <2>1 DEF Needs
  <2>2. CASE ~ (DepthIn(d, t) > 0)
    <3>1. IsStart(d, t + 1) /\ DepthIn(d, t + 1) = 1
      BY <1>1, <1>3, <2>2
    <3>2. ASSUME NEW s \in 1 .. t, IsStart(d, s) PROVE FALSE
      <4>1. s \in 1 .. Len(d) /\ s < t + 1
        BY <1>1
      <4>2. DepthIn(d, t + 1) > 1
        BY <1>1, <3>1, <3>2, <4>1, DocRules
      <4> QED
        BY <3>1, <4>2
    <3> QED
      BY <3>2 DEF Needs
  <2> QED
    BY <2>1, <2>2
<1>4. CASE \A s \in 1 .. t + 1 : ~ IsStart(d, s)
  <2>1. \A s \in 1 .. t : s \in 1 .. t + 1
    BY <1>1
  <2> QED
    BY <1>4, <2>1 DEF Needs
<1> QED
  BY <1>2, <1>3, <1>4 DEF Needs

LEMMA SpacesMore ==
  ASSUME NEW d \in Documents, NEW t \in 0 .. Len(d) - 1, d[t + 1].type # "end", NEW mode, NEW ns, Spaces(d, mode, ns, t)
  PROVE  IF d[t + 1].type = "startPrefix" THEN Spaces(d, mode, Append(ns, BindAt(d, t + 1)), t + 1)
         ELSE Spaces(d, mode, ns, t + 1)
<1>1. ASSUME Needs(d, mode, t + 1)
      PROVE  IF d[t + 1].type = "startPrefix" THEN Bound(d, Append(ns, BindAt(d, t + 1)), t + 1) ELSE Bound(d, ns, t + 1)
  <2>1. Bound(d, ns, t)
    BY <1>1, NeedsStep DEF Spaces
  <2> QED
    BY <2>1, BoundMore
<1> QED
  BY <1>1 DEF Spaces

LEMMA SpacesInit ==
  ASSUME NEW d \in Documents, NEW mode PROVE Spaces(d, mode, <<>>, 0)
<1>1. Live(d, 0) = {}
  BY DEF Live
<1>2. PICK P : P = <<>> /\ P \in Seq(Nat) /\ P \in Seq(Binds(d)) /\ Len(P) = 0 /\ ToSet(P) = {}
  <2>1. <<>> \in Seq(Nat) /\ <<>> \in Seq(Binds(d)) /\ Len(<<>>) = 0
    OBVIOUS
  <2> QED
    BY <2>1, NoElements
<1>3. BoundBy(d, P, P, 0)
  BY <1>1, <1>2 DEF BoundBy
<1> QED
  BY <1>2, <1>3 DEF Spaces, Bound

LEMMA ScopedEnd ==
  ASSUME NEW d \in Documents, NEW t, NEW w, Walks(d, w.it, t), w.it.done = 0, d[t + 1].type = "end", Scoped(d, w.it, t)
  PROVE  Scoped(d, Ended(w).it, t + 1)
<1>1. PICK i, v : i = w.it /\ v = Ended(w).it
  OBVIOUS
<1>2. /\ Typed(i) /\ t \in 0 .. Len(d) - 1 /\ i.mode \in {"top", "full"} /\ i.done = 0
      /\ Stacked(d, i.mode, i.depth, i.stack, i.rootDoc, t) /\ Spaces(d, i.mode, i.ns, t)
  BY <1>1 DEF Walks, Stacked, Scoped
<1>3. /\ i.depth \in Nat /\ i.depth # 0 /\ Stacked(d, i.mode, i.depth - 1, i.stack, i.rootDoc, t + 1)
      /\ \E s : EndsAt(d, s, t) /\ i.stack[i.depth] = IF i.mode = "top" /\ i.depth = 1 THEN 0 ELSE s
  BY <1>2, StackEnd
<1>4. PICK s : EndsAt(d, s, t) /\ i.stack[i.depth] = IF i.mode = "top" /\ i.depth = 1 THEN 0 ELSE s
  BY <1>3
<1>5. /\ i.depth = DepthIn(d, t) /\ i.depth <= Len(i.stack) /\ i.depth - 1 = DepthIn(d, t + 1)
      /\ i.mode = "top" => ~ i.rootDoc
      /\ i.mode = "full" => i.rootDoc
      /\ t \in Nat /\ t + 1 \in Nat /\ t \in 0 .. Len(d) /\ Len(d) \in Nat
  BY <1>2, <1>3, StepFacts DEF Stacked
<1>6. /\ Typed(v) /\ v.mode = i.mode
      /\ IF i.depth = 1 /\ ~ i.rootDoc
         THEN Alike(v, i)
         ELSE /\ v.ns = Dropped(i.ns, i.depth) /\ v.snap = SnapOf(i.ns)
              /\ IF i.mode = "full" \/ i.depth = 2
                 THEN v.done = i.stack[i.depth]
                 ELSE v.done = i.done
  BY <1>1, <1>2, <1>3, <1>5, EndFields
<1>7. CASE i.depth = 1 /\ ~ i.rootDoc
  <2>1. i.mode = "top" /\ v.done = 0
    BY <1>2, <1>5, <1>6, <1>7 DEF Alike
  <2>2. s \in 1 .. t + 1 /\ IsStart(d, s)
    BY <1>4, <1>5 DEF EndsAt, Opened
  <2>3. ~ Needs(d, v.mode, t + 1)
    BY <1>5, <1>6, <1>7, <2>1, <2>2 DEF Needs
  <2>4. Scoped(d, v, t + 1)
    BY <2>1, <2>3 DEF Scoped, Spaces
  <2> QED
    BY <1>1, <2>4
<1>8. CASE ~ (i.depth = 1 /\ ~ i.rootDoc)
  <2>1. Bound(d, i.ns, t)
    BY <1>2, <1>3, <1>5 DEF Spaces, Needs
  <2>2. Bound(d, v.ns, t + 1)
    BY <1>2, <1>5, <1>6, <1>8, <2>1, BoundLess
  <2>3. v.snap = ScopeOf(d, s)
    <3>1. s \in 1 .. Len(d) /\ IsStart(d, s)
      BY <1>4 DEF EndsAt
    <3>2. Live(d, t) = OpenDecls(d, s)
      BY <1>2, <1>4, LiveAtEnd
    <3>3. SnapOf(i.ns) = InnerOf(d, Live(d, t))
      BY <1>5, <2>1, SnapIs
    <3> QED
      BY <1>6, <1>8, <3>1, <3>2, <3>3, ScopeIs
  <2>4. v.done # 0 => v.done = s
    <3>1. ~ (i.mode = "top" /\ i.depth = 1)
      BY <1>5, <1>8
    <3> QED
      BY <1>2, <1>4, <1>6, <1>8, <3>1
  <2>5. Scoped(d, v, t + 1)
    BY <2>2, <2>3, <2>4 DEF Scoped, Spaces
  <2> QED
    BY <1>1, <2>5
<1> QED
  BY <1>7, <1>8

LEMMA ScopedEvent ==
  ASSUME doc \in Documents, NEW t, NEW i, NEW N, Walks(doc, i, t), i.done = 0, Scoped(doc, i, t), doc[t + 1].type \notin Last1
  PROVE  Scoped(doc, Handled([it |-> i, nodes |-> N], t + 1).it, t + 1)
<1>0. PICK d \in Documents : d = doc
  OBVIOUS
<1>1. PICK w : w = [it |-> i, nodes |-> N] /\ w.it = i /\ "it" \in DOMAIN w
  <2>1. PICK w : w = [it |-> i, nodes |-> N]
    OBVIOUS
  <2> QED
    BY <2>1
<1>2. PICK e : e = t + 1
  OBVIOUS
<1>3. /\ Typed(i) /\ t \in 0 .. Len(d) - 1 /\ doc[e].type \in EventTypes /\ i.depth = DepthIn(d, t) /\ i.done = 0
      /\ Spaces(d, i.mode, i.ns, t) /\ Walks(d, i, t) /\ Scoped(d, i, t) /\ doc[e].type \notin Last1
  <2>1. Typed(i) /\ t \in 0 .. Len(d) - 1 /\ i.depth = DepthIn(d, t)
    BY <1>0 DEF Walks, Stacked
  <2>2. e \in 1 .. Len(d)
    BY <1>2, <2>1, StepFacts
  <2> QED
    BY <1>0, <1>2, <2>1, <2>2, DocShape DEF Scoped
<1>4. PICK v : v = Handled(w, e).it
  OBVIOUS
<1>5. ASSUME doc[e].type \notin {"startPrefix", "end"}, Alike(v, i), v.ns = i.ns PROVE Scoped(d, v, e)
  <2>1. d[t + 1].type # "end" /\ d[t + 1].type # "startPrefix"
    BY <1>0, <1>2, <1>5
  <2>2. Spaces(d, i.mode, i.ns, t + 1)
    BY <1>3, <2>1, SpacesMore
  <2> QED
    BY <1>2, <1>3, <1>5, <2>2 DEF Scoped, Alike
<1>6. CASE doc[e].type = "startPrefix"
  <2>1. PICK x : x = [prefix |-> doc[e].strings[1], uri |-> doc[e].strings[2], depth |-> i.depth + 1]
    OBVIOUS
  <2>2. v = [i EXCEPT !.ns = Append(@, x)]
    BY <1>1, <1>4, <1>6, <2>1 DEF Handled
  <2>3. Alike(v, i) /\ v.ns = Append(i.ns, x)
    BY <1>3, <2>2, NsFields
  <2>4. x = BindAt(d, e)
    <3>1. DepthIn(d, t + 1) = DepthIn(d, t)
      <4>1. ~ IsStart(d, t + 1) /\ d[t + 1].type # "end"
        BY <1>0, <1>2, <1>6 DEF IsStart
      <4> QED
        BY <1>3, <4>1, StepFacts
    <3> QED
      BY <1>0, <1>2, <1>3, <2>1, <3>1 DEF BindAt
  <2>5. Spaces(d, i.mode, Append(i.ns, BindAt(d, t + 1)), t + 1)
    <3>1. d[t + 1].type = "startPrefix" /\ d[t + 1].type # "end"
      BY <1>0, <1>2, <1>6
    <3> QED
      BY <1>3, <3>1, SpacesMore
  <2>6. Scoped(d, v, e)
    BY <1>2, <1>3, <2>3, <2>4, <2>5 DEF Scoped, Alike
  <2> QED
    BY <1>0, <1>1, <1>2, <1>4, <2>6
<1>7. CASE doc[e].type = "endPrefix"
  <2>1. v = i
    BY <1>1, <1>4, <1>7 DEF Handled
  <2>2. Alike(v, i) /\ v.ns = i.ns
    BY <1>3, <2>1 DEF Alike
  <2> QED
    BY <1>0, <1>1, <1>2, <1>4, <1>5, <1>7, <2>2
<1>8. CASE doc[e].type \in {"text", "cdata"}
  <2>1. v = [i EXCEPT !.text = Append(@, doc[e].strings[1])]
    BY <1>1, <1>4, <1>8 DEF Handled
  <2>2. Alike(v, i) /\ v.ns = i.ns
    BY <1>3, <2>1, TextFields
  <2> QED
    BY <1>0, <1>1, <1>2, <1>4, <1>5, <1>8, <2>2
<1>9. CASE doc[e].type \in {"comment", "pi"}
  <2>1. v = FlushText(w).it
    BY <1>4, <1>9 DEF Handled
  <2>2. Alike(v, i) /\ v.ns = i.ns
    BY <1>1, <1>3, <2>1, FlushFields
  <2> QED
    BY <1>0, <1>1, <1>2, <1>4, <1>5, <1>9, <2>2
<1>10. CASE doc[e].type = "start"
  <2>1. v = Started(w, e).it
    BY <1>4, <1>10 DEF Handled
  <2>2. Alike(v, i) /\ v.ns = i.ns
    <3>1. w.it.depth <= Len(w.it.stack) /\ e \in Nat
      BY <1>1, <1>2, <1>3, StepFacts DEF Walks, Stacked
    <3> QED
      BY <1>1, <1>3, <2>1, <3>1, StartFields
  <2> QED
    BY <1>0, <1>1, <1>2, <1>4, <1>5, <1>10, <2>2
<1>11. CASE doc[e].type = "end"
  <2>1. v = Ended(w).it
    BY <1>4, <1>11 DEF Handled
  <2>2. Scoped(d, v, e)
    BY <1>0, <1>1, <1>2, <1>3, <1>11, <2>1, ScopedEnd
  <2> QED
    BY <1>0, <1>1, <1>2, <1>4, <2>2
<1> QED
  BY <1>3, <1>6, <1>7, <1>8, <1>9, <1>10, <1>11 DEF EventTypes, Last1

ScopeInv == user = "iter" /\ ~ it.exhausted => Scoped(doc, it, taken)

LEMMA InitScope ==
  ASSUME Init PROVE ScopeInv
<1>1. /\ it \in [mode : Modes, depth : {0}, stack : {<<>>}, text : {<<>>}, ns : {<<>>}, snap : {{}},
                done : {0}, doneDepth : {0}, rootDoc : {FALSE}, subDoc : {FALSE},
                running : {FALSE}, exhausted : {FALSE}, error : {FALSE}, yields : {<<>>}]
      /\ doc \in Documents /\ taken = 0
  BY DEF Init, PullInit
<1>2. it.ns = <<>> /\ it.done = 0
  BY <1>1
<1> QED
  BY <1>1, <1>2, SpacesInit DEF ScopeInv, Scoped

LEMMA StepScope ==
  ASSUME IInv, WalkInv, ScopeInv, [Next]_vars
  PROVE  ScopeInv'
<1>1. CASE PullAction /\ UNCHANGED <<it, nodes>>
  <2>1. user' \in {"pull", "gone"}
    BY <1>1 DEF PullAction, PullNext, BatchStart, BatchStep, BatchEnd, PullFree, Freed, IInv, BatchOK
  <2> QED
    BY <2>1 DEF ScopeInv
<1>2. CASE IterNext
  <2>1. /\ user = "iter" /\ ~ it.exhausted /\ doc' = doc /\ taken' = taken /\ doc \in Documents
        /\ Walks(doc, it, taken) /\ Scoped(doc, it, taken)
    BY <1>2, QueueFacts DEF IterNext, pullVars, WalkInv, IInv, ScopeInv
  <2>2. PICK v : v = it'
    OBVIOUS
  <2>3. v = [Released([it |-> it, nodes |-> nodes]).it EXCEPT !.running = TRUE]
    BY <1>2, <2>2 DEF IterNext
  <2>4. v.done = 0 /\ v.ns = it.ns /\ v.mode = it.mode
    BY <2>1, <2>3, WalkNext
  <2>5. Scoped(doc, v, taken)
    BY <2>1, <2>4 DEF Scoped
  <2>6. Scoped(doc', it', taken')
    BY <2>1, <2>2, <2>5
  <2> QED
    BY <2>6 DEF ScopeInv
<1>3. CASE IterEvent
  <2>1. EventStep /\ Scoped(doc, it, taken)
    BY <1>3, EventTaken DEF EventStep, ScopeInv
  <2>2. PICK v : v = it'
    OBVIOUS
  <2>3. CASE doc[taken + 1].type \in Last1
    <3>1. Over(doc, v)
      BY <2>1, <2>2, <2>3, WalkEvent DEF EventStep
    <3> QED
      BY <2>2, <3>1 DEF ScopeInv, Over
  <2>4. CASE doc[taken + 1].type \notin Last1
    <3>1. Scoped(doc, v, taken + 1)
      BY <2>1, <2>2, <2>4, ScopedEvent DEF EventStep
    <3>2. Scoped(doc', it', taken')
      BY <2>1, <2>2, <3>1 DEF EventStep
    <3> QED
      BY <3>2 DEF ScopeInv
  <2> QED
    BY <2>3, <2>4
<1>4. CASE IterFree
  <2>1. user' = "gone"
    BY <1>4 DEF IterFree, Freed
  <2> QED
    BY <2>1 DEF ScopeInv
<1>5. CASE UNCHANGED vars
  <2>1. user' = user /\ doc' = doc /\ taken' = taken /\ it' = it
    BY <1>5 DEF vars, pullVars
  <2> QED
    BY <2>1 DEF ScopeInv
<1> QED
  BY <1>1, <1>2, <1>3, <1>4, <1>5 DEF Next

LEMMA ScopeHolds == Spec => [](IInv /\ WalkInv /\ ScopeInv)
<1>1. Init => IInv /\ WalkInv /\ ScopeInv
  BY InitIInv, InitWalk, InitScope
<1>2. IInv /\ WalkInv /\ ScopeInv /\ [Next]_vars => (IInv /\ WalkInv /\ ScopeInv)'
  BY StepIInv, StepWalk, StepScope
<1> QED
  BY <1>1, <1>2, PTL DEF Spec

(* The namespaces of an element that is handed out are those in scope in it, *)
(* although its END has popped them (iterparse.c: 84-130, 403-411), for any  *)
(* well formed documents, slices and rings.                                  *)
THEOREM SnapshotInScope == Spec => []ScopeTrue
<1>1. IInv /\ WalkInv /\ ScopeInv => ScopeTrue
  BY DEF WalkInv, ScopeInv, Scoped, Over, ScopeTrue
<1> QED
  BY <1>1, ScopeHolds, PTL

-------------------------------------------------------------------------------
(* The children of an element, in order: what comes later is appended.       *)
LEMMA NthAdd ==
  ASSUME NEW a \in Nat, NEW S \in SUBSET (1 .. a), NEW x \in Nat, a < x
  PROVE  /\ IsFiniteSet(S) /\ Cardinality(S) \in Nat /\ Cardinality(S \cup {x}) = Cardinality(S) + 1
         /\ \A n \in 1 .. Cardinality(S) : Nth(S \cup {x}, n) = Nth(S, n)
         /\ Nth(S \cup {x}, Cardinality(S) + 1) = x
<1>1. IsFiniteSet(S) /\ Cardinality(S) \in Nat
  BY FS_Interval, FS_Subset, FS_CardinalityType, 1 \in Int, a \in Int
<1>2. x \notin S /\ \A j \in S : j < x /\ j \in Nat
  OBVIOUS
<1>3. Cardinality(S \cup {x}) = Cardinality(S) + 1
  BY <1>1, <1>2, FS_AddElement
<1> DEFINE Below(T, j) == {i \in T : i < j}
<1>4. \A j \in S : Below(S \cup {x}, j) = Below(S, j)
  BY <1>2
<1>5. Below(S \cup {x}, x) = S
  <2>1. ~ (x < x)
    OBVIOUS
  <2>2. \A i : i \in Below(S \cup {x}, x) <=> i \in S
    BY <1>2, <2>1
  <2> QED
    BY <2>2
<1>6. ASSUME NEW j \in S PROVE Cardinality(Below(S, j)) # Cardinality(S)
  <2>1. Below(S, j) \subseteq S /\ j \notin Below(S, j)
    BY <1>2
  <2> HIDE DEF Below
  <2> QED
    BY <1>1, <2>1, FS_Subset
<1>7. ASSUME NEW n \in 1 .. Cardinality(S) PROVE Nth(S \cup {x}, n) = Nth(S, n)
  <2>1. \A j : j \in S \cup {x} /\ Cardinality(Below(S \cup {x}, j)) = n - 1
           <=> j \in S /\ Cardinality(Below(S, j)) = n - 1
    <3>1. Cardinality(Below(S \cup {x}, x)) # n - 1
      <4>1. Cardinality(S) # n - 1
        BY <1>1
      <4> QED
        BY <1>5, <4>1, Zenon
    <3> HIDE DEF Below
    <3> QED
      BY <1>4, <3>1
  <2>2. (CHOOSE j \in S \cup {x} : Cardinality(Below(S \cup {x}, j)) = n - 1)
          = CHOOSE j \in S : Cardinality(Below(S, j)) = n - 1
    <3> HIDE DEF Below
    <3> QED
      BY <2>1, Zenon
  <2> QED
    BY <2>2 DEF Nth
<1>8. Nth(S \cup {x}, Cardinality(S) + 1) = x
  <2>1. (Cardinality(S) + 1) - 1 = Cardinality(S)
    BY <1>1
  <2>2. \A j : j \in S \cup {x} /\ Cardinality(Below(S \cup {x}, j)) = Cardinality(S) <=> j = x
    <3> HIDE DEF Below
    <3> QED
      BY <1>4, <1>5, <1>6
  <2>3. Nth(S \cup {x}, Cardinality(S) + 1) = CHOOSE j \in S \cup {x} : Cardinality(Below(S \cup {x}, j)) = Cardinality(S)
    BY <2>1 DEF Nth
  <2> HIDE DEF Below
  <2> QED
    BY <2>2, <2>3
<1> QED
  BY <1>1, <1>3, <1>7, <1>8

LEMMA KidsAdd ==
  ASSUME NEW d, NEW a \in Nat, NEW S \in SUBSET (1 .. a), NEW x \in Nat, a < x
  PROVE  KidsAt(d, S \cup {x}) = Append(KidsAt(d, S), KidAt(d, x))
<1>1. PICK c \in Nat : /\ c = Cardinality(S) /\ Cardinality(S \cup {x}) = c + 1
                       /\ \A n \in 1 .. c : Nth(S \cup {x}, n) = Nth(S, n)
                       /\ Nth(S \cup {x}, c + 1) = x
  <2>1. /\ Cardinality(S) \in Nat /\ Cardinality(S \cup {x}) = Cardinality(S) + 1
        /\ \A n \in 1 .. Cardinality(S) : Nth(S \cup {x}, n) = Nth(S, n)
        /\ Nth(S \cup {x}, Cardinality(S) + 1) = x
    BY NthAdd
  <2> HIDE DEF Nth
  <2> QED
    BY <2>1, Zenon
<1> DEFINE T == {KidAt(d, Nth(S, n)) : n \in 1 .. c} \cup {KidAt(d, x)}
<1>2. PICK u, y : u = KidsAt(d, S) /\ y = KidAt(d, x)
  OBVIOUS
<1>3. u = [n \in 1 .. c |-> KidAt(d, Nth(S, n))]
  BY <1>1, <1>2 DEF KidsAt
<1>4. u \in Seq(T) /\ Len(u) = c /\ y \in T
  <2>1. u \in [1 .. c -> T] /\ y \in T
    BY <1>2, <1>3
  <2> HIDE DEF T
  <2> QED
    BY <1>1, <2>1
<1> HIDE DEF T
<1>5. PICK v : v = Append(u, y)
  OBVIOUS
<1>6. /\ v \in Seq(T) /\ DOMAIN v = 1 .. c + 1 /\ v[c + 1] = y /\ \A n \in 1 .. c : v[n] = u[n]
  <2>1. /\ Append(u, y) \in Seq(T) /\ DOMAIN Append(u, y) = 1 .. Len(u) + 1 /\ Append(u, y)[Len(u) + 1] = y
        /\ \A i \in 1 .. Len(u) : Append(u, y)[i] = u[i]
    BY <1>4, AppendAt
  <2> QED
    BY <1>4, <1>5, <2>1
<1>7. PICK z : z = KidsAt(d, S \cup {x})
  OBVIOUS
<1>8. z = [n \in 1 .. c + 1 |-> KidAt(d, Nth(S \cup {x}, n))]
  BY <1>1, <1>7 DEF KidsAt
<1>9. ASSUME NEW n \in 1 .. c + 1 PROVE z[n] = v[n]
  <2>1. CASE n = c + 1
    BY <1>1, <1>2, <1>6, <1>8, <2>1
  <2>2. CASE n # c + 1
    <3>1. n \in 1 .. c
      BY <1>1, <2>2
    <3> QED
      BY <1>1, <1>3, <1>6, <1>8, <3>1
  <2> QED
    BY <2>1, <2>2
<1>10. v = [n \in 1 .. c + 1 |-> v[n]]
  BY <1>6
<1>11. z = v
  BY <1>8, <1>9, <1>10
<1> QED
  BY <1>2, <1>5, <1>7, <1>11

Places(d, e, n) == {j \in e + 1 .. n : j < EndOf(d, e) /\ IsKid(d, e, j)}

(* The text that is waiting: the run after event a, which is no text.        *)
Pend(d, text, a, b, t) ==
  /\ a \in 0 .. t /\ b \in a .. t /\ (a = 0 \/ ~ IsText(d, a))
  /\ \A j \in a + 1 .. b : IsText(d, j)
  /\ \A j \in b + 1 .. t : d[j].type = "startPrefix"
  /\ \A j \in a .. t : DepthIn(d, j) = DepthIn(d, t)
  /\ text = [n \in 1 .. b - a |-> d[a + n].strings[1]]

LEMMA PendStep ==
  ASSUME NEW d \in Documents, NEW t \in 0 .. Len(d) - 1, NEW text, NEW a, NEW b, Pend(d, text, a, b, t),
         ~ IsStart(d, t + 1), d[t + 1].type # "end"
  PROVE  /\ d[t + 1].type = "startPrefix" => Pend(d, text, a, b, t + 1)
         /\ d[t + 1].type = "endPrefix" => a = t /\ b = t /\ Pend(d, text, t + 1, t + 1, t + 1)
         /\ IsText(d, t + 1) => Pend(d, Append(text, d[t + 1].strings[1]), a, t + 1, t + 1)
<1>1. /\ Len(d) \in Nat /\ t \in Nat /\ t + 1 \in 1 .. Len(d) /\ DepthIn(d, t + 1) = DepthIn(d, t)
  BY StepFacts
<1>2. /\ a \in 0 .. t /\ b \in a .. t /\ (a = 0 \/ ~ IsText(d, a)) /\ a \in Nat /\ b \in Nat
      /\ \A j \in a + 1 .. b : IsText(d, j)
      /\ \A j \in b + 1 .. t : d[j].type = "startPrefix"
      /\ \A j \in a .. t : DepthIn(d, j) = DepthIn(d, t)
      /\ text = [n \in 1 .. b - a |-> d[a + n].strings[1]]
  BY <1>1 DEF Pend
<1>3. \A j \in a .. t + 1 : DepthIn(d, j) = DepthIn(d, t + 1)
  <2>1. \A j \in a .. t + 1 : j \in a .. t \/ j = t + 1
    BY <1>1, <1>2
  <2> QED
    BY <1>1, <1>2, <2>1
<1>4. d[t + 1].type # "startPrefix" => b = t
  <2>1. ASSUME b # t PROVE d[t + 1].type \in {"startPrefix", "start"}
    <3>1. t \in b + 1 .. t /\ t \in 1 .. Len(d)
      BY <1>1, <1>2, <2>1
    <3>2. d[t].type = "startPrefix"
      BY <1>2, <3>1
    <3> QED
      BY <3>1, <3>2, DocRules
  <2> QED
    BY <2>1 DEF IsStart
<1>5. ASSUME d[t + 1].type = "startPrefix" PROVE Pend(d, text, a, b, t + 1)
  <2>1. \A j \in b + 1 .. t + 1 : j \in b + 1 .. t \/ j = t + 1
    BY <1>1, <1>2
  <2>2. \A j \in b + 1 .. t + 1 : d[j].type = "startPrefix"
    BY <1>2, <1>5, <2>1
  <2>3. a \in 0 .. t + 1 /\ b \in a .. t + 1
    BY <1>1, <1>2
  <2> QED
    BY <1>2, <1>3, <2>2, <2>3 DEF Pend
<1>6. ASSUME d[t + 1].type = "endPrefix" PROVE a = t /\ b = t /\ Pend(d, text, t + 1, t + 1, t + 1)
  <2>1. b = t
    BY <1>4, <1>6
  <2>2. a = t
    <3>1. t \in 1 .. Len(d) /\ d[t].type \in {"end", "endPrefix"}
      <4>1. t + 1 > 1 /\ d[(t + 1) - 1].type \in {"end", "endPrefix"}
        BY <1>1, <1>6, DocRules
      <4>2. (t + 1) - 1 = t
        BY <1>1
      <4> QED
        BY <1>1, <4>1, <4>2
    <3>2. ~ IsText(d, t)
      BY <3>1 DEF IsText
    <3> QED
      BY <1>2, <2>1, <3>1, <3>2
  <2>3. ~ IsText(d, t + 1)
    BY <1>6 DEF IsText
  <2>4. t + 1 \in 0 .. t + 1 /\ t + 1 \in t + 1 .. t + 1 /\ (\A j \in t + 1 .. t + 1 : j \in a .. t + 1)
        /\ (\A j : j \notin (t + 1) + 1 .. t + 1) /\ (t + 1) - (t + 1) = 0 /\ b - a = 0 /\ (\A j : j \notin 1 .. 0)
    BY <1>1, <1>2, <2>1, <2>2
  <2>5. text = [n \in 1 .. (t + 1) - (t + 1) |-> d[(t + 1) + n].strings[1]]
    <3>1. text = [n \in 1 .. 0 |-> d[a + n].strings[1]]
      BY <1>2, <2>4
    <3>2. [n \in 1 .. 0 |-> d[a + n].strings[1]] = [n \in 1 .. 0 |-> d[(t + 1) + n].strings[1]]
      BY <2>4
    <3> QED
      BY <2>4, <3>1, <3>2
  <2> QED
    BY <1>3, <2>1, <2>2, <2>3, <2>4, <2>5 DEF Pend
<1>7. ASSUME IsText(d, t + 1) PROVE Pend(d, Append(text, d[t + 1].strings[1]), a, t + 1, t + 1)
  <2>1. b = t
    BY <1>4, <1>7 DEF IsText
  <2>2. PICK c \in Nat : c = t - a /\ (t + 1) - a = c + 1 /\ a + (c + 1) = t + 1
    <3>1. t \in Nat /\ a \in 0 .. t
      BY <1>1, <1>2
    <3>2. t - a \in Nat /\ (t + 1) - a = (t - a) + 1 /\ a + ((t - a) + 1) = t + 1
      BY <3>1
    <3> QED
      BY <3>2
  <2> DEFINE G == {d[n].strings[1] : n \in Nat}
  <2>3. PICK y : y = d[t + 1].strings[1]
    OBVIOUS
  <2>4. y \in G
    BY <1>1, <2>3
  <2>5. text = [n \in 1 .. c |-> d[a + n].strings[1]] /\ text \in Seq(G) /\ Len(text) = c
    <3>1. text = [n \in 1 .. c |-> d[a + n].strings[1]]
      BY <1>2, <2>1, <2>2
    <3>2. text \in [1 .. c -> G]
      <4>1. \A n \in 1 .. c : a + n \in Nat
        BY <1>1, <1>2, <2>2
      <4>2. \A n \in 1 .. c : d[a + n].strings[1] \in G
        BY <4>1
      <4> HIDE DEF G
      <4> QED
        BY <3>1, <4>2
    <3> HIDE DEF G
    <3> QED
      BY <2>2, <3>1, <3>2
  <2> HIDE DEF G
  <2>6. PICK v : v = Append(text, y)
    OBVIOUS
  <2>7. v \in Seq(G) /\ DOMAIN v = 1 .. c + 1 /\ v[c + 1] = y /\ \A n \in 1 .. c : v[n] = text[n]
    <3>1. /\ Append(text, y) \in Seq(G) /\ DOMAIN Append(text, y) = 1 .. Len(text) + 1 /\ Append(text, y)[Len(text) + 1] = y
          /\ \A i \in 1 .. Len(text) : Append(text, y)[i] = text[i]
      BY <2>4, <2>5, AppendAt
    <3> QED
      BY <2>5, <2>6, <3>1
  <2>8. v = [n \in 1 .. c + 1 |-> d[a + n].strings[1]]
    <3>1. ASSUME NEW n \in 1 .. c + 1 PROVE v[n] = d[a + n].strings[1]
      <4>1. CASE n = c + 1
        BY <2>2, <2>3, <2>7, <4>1
      <4>2. CASE n # c + 1
        <5>1. n \in 1 .. c
          BY <2>2, <4>2
        <5> QED
          BY <2>5, <2>7, <5>1
      <4> QED
        BY <4>1, <4>2
    <3>2. v = [n \in 1 .. c + 1 |-> v[n]]
      BY <2>7
    <3> QED
      BY <3>1, <3>2
  <2>9. \A j \in a + 1 .. t + 1 : IsText(d, j)
    <3>1. \A j \in a + 1 .. t + 1 : j \in a + 1 .. b \/ j = t + 1
      BY <1>1, <1>2, <2>1
    <3> QED
      BY <1>2, <1>7, <3>1
  <2>10. a \in 0 .. t + 1 /\ t + 1 \in a .. t + 1 /\ \A j : j \notin (t + 1) + 1 .. t + 1
    BY <1>1, <1>2
  <2> QED
    BY <1>2, <1>3, <2>2, <2>3, <2>6, <2>8, <2>9, <2>10 DEF Pend
<1> QED
  BY <1>5, <1>6, <1>7

Top(d, e, t) == Opened(d, e, t) /\ DepthIn(d, e) = DepthIn(d, t)

LEMMA PendFacts ==
  ASSUME NEW d \in Documents, NEW t \in 0 .. Len(d) - 1, NEW text, NEW a, NEW b, Pend(d, text, a, b, t)
  PROVE  /\ t \in Nat /\ Len(d) \in Nat /\ a \in Nat /\ b \in Nat /\ a <= b /\ b <= t /\ t < Len(d)
         /\ a = 0 \/ ~ IsText(d, a)
         /\ \A j \in a + 1 .. b : IsText(d, j)
         /\ \A j \in b + 1 .. t : d[j].type = "startPrefix"
         /\ \A j \in a .. t : DepthIn(d, j) = DepthIn(d, t)
         /\ \A j \in a + 1 .. t : ~ IsStart(d, j)
         /\ text = [n \in 1 .. b - a |-> d[a + n].strings[1]] /\ (text = <<>> <=> a = b)
<1>1. t \in Nat /\ Len(d) \in Nat /\ t < Len(d)
  BY StepFacts
<1>2. /\ a \in 0 .. t /\ b \in a .. t /\ (a = 0 \/ ~ IsText(d, a))
      /\ \A j \in a + 1 .. b : IsText(d, j)
      /\ \A j \in b + 1 .. t : d[j].type = "startPrefix"
      /\ \A j \in a .. t : DepthIn(d, j) = DepthIn(d, t)
      /\ text = [n \in 1 .. b - a |-> d[a + n].strings[1]]
  BY DEF Pend
<1>3. a \in Nat /\ b \in Nat /\ a <= b /\ b <= t
  BY <1>1, <1>2
<1>4. ASSUME NEW j \in a + 1 .. t PROVE ~ IsStart(d, j)
  <2>1. j \in a + 1 .. b \/ j \in b + 1 .. t
    BY <1>1, <1>3
  <2> QED
    BY <1>2, <2>1 DEF IsStart, IsText
<1>5. text = <<>> <=> a = b
  <2>1. DOMAIN text = 1 .. b - a /\ DOMAIN <<>> = {}
    BY <1>2
  <2>2. CASE a = b
    <3>1. \A n : n \notin 1 .. b - a
      BY <1>3, <2>2
    <3>2. [n \in 1 .. b - a |-> d[a + n].strings[1]] = <<>>
      BY <3>1
    <3> QED
      BY <1>2, <2>2, <3>2
  <2>3. CASE a # b
    <3>1. 1 \in 1 .. b - a
      BY <1>3, <2>3
    <3> QED
      BY <2>1, <2>3, <3>1
  <2> QED
    BY <2>2, <2>3
<1> QED
  BY <1>1, <1>2, <1>3, <1>4, <1>5

LEMMA PlacesFlush ==
  ASSUME NEW d \in Documents, NEW t \in 0 .. Len(d) - 1, NEW text, NEW a, NEW b, Pend(d, text, a, b, t),
         ~ IsText(d, t + 1), NEW e \in 1 .. t, IsStart(d, e)
  PROVE  /\ a \in Nat /\ e <= a /\ Places(d, e, a) \in SUBSET (1 .. a)
         /\ \A j : j \in Places(d, e, t + 1) <=> \/ j \in Places(d, e, a)
                                                 \/ Top(d, e, t) /\ a < b /\ j = a + 1
                                                 \/ Top(d, e, t) /\ IsStart(d, t + 1) /\ j = t + 1
<1>1. /\ t \in Nat /\ Len(d) \in Nat /\ a \in Nat /\ b \in Nat /\ a <= b /\ b <= t /\ t < Len(d)
      /\ a = 0 \/ ~ IsText(d, a)
      /\ \A j \in a + 1 .. b : IsText(d, j)
      /\ \A j \in b + 1 .. t : d[j].type = "startPrefix"
      /\ \A j \in a .. t : DepthIn(d, j) = DepthIn(d, t)
      /\ \A j \in a + 1 .. t : ~ IsStart(d, j)
  <2>1. /\ t \in Nat /\ Len(d) \in Nat /\ a \in Nat /\ b \in Nat /\ a <= b /\ b <= t /\ t < Len(d)
    BY PendFacts
  <2>2. a = 0 \/ ~ IsText(d, a)
    BY PendFacts
  <2>3. (\A j \in a + 1 .. b : IsText(d, j)) /\ (\A j \in b + 1 .. t : d[j].type = "startPrefix")
    BY PendFacts
  <2>4. (\A j \in a .. t : DepthIn(d, j) = DepthIn(d, t)) /\ (\A j \in a + 1 .. t : ~ IsStart(d, j))
    BY PendFacts
  <2> QED
    BY <2>1, <2>2, <2>3, <2>4
<1>2. e \in Nat /\ 1 <= e /\ e <= a
  <2>1. e \notin a + 1 .. t
    BY <1>1
  <2> QED
    BY <1>1, <2>1
<1>3. /\ EndOf(d, e) \in e + 1 .. Len(d) + 1
      /\ EndOf(d, e) <= Len(d) => DepthIn(d, EndOf(d, e)) < DepthIn(d, e)
  BY <1>1, <1>2, EndFacts, e \in 1 .. Len(d)
<1>4. PICK m : m = EndOf(d, e)
  OBVIOUS
<1>5. /\ m \in Nat /\ e < m /\ m <= Len(d) + 1
      /\ m <= Len(d) => DepthIn(d, m) < DepthIn(d, e)
  BY <1>1, <1>2, <1>3, <1>4
<1>6. Opened(d, e, t) <=> m > t
  BY <1>4 DEF Opened
<1>7. \A n, j : j \in Places(d, e, n) <=> j \in e + 1 .. n /\ j < m /\ IsKid(d, e, j)
  BY <1>4 DEF Places
<1>8. \A j : IsKid(d, e, j) <=> \/ IsStart(d, j) /\ DepthIn(d, j) = DepthIn(d, e) + 1
                                \/ IsText(d, j) /\ DepthIn(d, j) = DepthIn(d, e) /\ ~ IsText(d, j - 1)
  BY DEF IsKid
<1>9. \A j : IsText(d, j) => ~ IsStart(d, j) /\ d[j].type # "startPrefix"
  BY DEF IsText, IsStart
<1>10. DepthIn(d, e) \in Nat /\ DepthIn(d, t) \in Nat
  BY <1>1, <1>2, DepthNat, e \in 0 .. Len(d), t \in 0 .. Len(d)
<1>11. ASSUME a < b PROVE a + 1 \in Places(d, e, t + 1) <=> Top(d, e, t)
  <2>1. IsText(d, a + 1) /\ ~ IsText(d, a) /\ (a + 1) - 1 = a /\ a + 1 \in a .. t /\ a + 1 \in e + 1 .. t + 1
    BY <1>1, <1>2, <1>11
  <2>2. IsKid(d, e, a + 1) <=> DepthIn(d, t) = DepthIn(d, e)
    BY <1>1, <1>8, <1>9, <2>1
  <2>3. ASSUME DepthIn(d, t) = DepthIn(d, e), a + 1 < m PROVE m > t
    <3>1. m \notin a .. t
      <4>1. m \in a .. t => DepthIn(d, m) = DepthIn(d, t) /\ m <= Len(d)
        BY <1>1
      <4> QED
        BY <1>5, <1>10, <2>3, <4>1
    <3> QED
      BY <1>1, <1>5, <2>3, <3>1
  <2>4. m > t => a + 1 < m
    BY <1>1, <1>5, <1>11
  <2> QED
    BY <1>6, <1>7, <2>1, <2>2, <2>3, <2>4 DEF Top
<1>12. t + 1 \in Places(d, e, t + 1) <=> Top(d, e, t) /\ IsStart(d, t + 1)
  <2>1. t + 1 \in e + 1 .. t + 1
    BY <1>1, <1>2
  <2>2. IsKid(d, e, t + 1) <=> IsStart(d, t + 1) /\ DepthIn(d, t + 1) = DepthIn(d, e) + 1
    BY <1>8
  <2>3. IsStart(d, t + 1) => DepthIn(d, t + 1) = DepthIn(d, t) + 1
    BY StepFacts
  <2>4. IsStart(d, t + 1) => (t + 1 < m <=> m > t)
    <3>1. ASSUME IsStart(d, t + 1), m = t + 1 PROVE FALSE
      <4>1. DepthIn(d, t + 1) < DepthIn(d, e) /\ DepthIn(d, t + 1) = DepthIn(d, t) + 1
        BY <1>1, <1>5, <2>3, <3>1
      <4>2. Opened(d, e, t)
        BY <1>1, <1>6, <3>1
      <4>3. DepthIn(d, e) \in 1 .. DepthIn(d, t)
        BY <1>1, <4>2, OpenDepth, t \in 0 .. Len(d)
      <4> QED
        BY <1>10, <4>1, <4>3
    <3> QED
      BY <1>1, <1>5, <3>1
  <2>5. IsStart(d, t + 1) => (DepthIn(d, t + 1) = DepthIn(d, e) + 1 <=> DepthIn(d, e) = DepthIn(d, t))
    BY <1>10, <2>3
  <2> QED
    BY <1>6, <1>7, <2>1, <2>2, <2>4, <2>5 DEF Top
<1>13. ASSUME NEW j \in Places(d, e, t + 1) PROVE j \in Places(d, e, a) \/ (a < b /\ j = a + 1) \/ j = t + 1
  <2>1. j \in e + 1 .. t + 1 /\ j < m /\ IsKid(d, e, j) /\ j \in Nat
    BY <1>2, <1>7
  <2>2. CASE j <= a
    BY <1>1, <1>2, <1>7, <2>1, <2>2
  <2>3. ASSUME j \in a + 2 .. b PROVE FALSE
    <3>1. j \in a + 1 .. b /\ j - 1 \in a + 1 .. b
      BY <1>1, <2>1, <2>3
    <3>2. IsText(d, j) /\ IsText(d, j - 1)
      BY <1>1, <3>1
    <3> QED
      BY <1>8, <1>9, <2>1, <3>2
  <2>4. ASSUME j \in b + 1 .. t PROVE FALSE
    <3>1. d[j].type = "startPrefix"
      BY <1>1, <2>4
    <3> QED
      BY <1>8, <2>1, <3>1 DEF IsStart, IsText
  <2> QED
    BY <1>1, <2>1, <2>2, <2>3, <2>4
<1>14. \A j \in Places(d, e, a) : j \in Places(d, e, t + 1) /\ j \in 1 .. a
  <2>1. \A j \in e + 1 .. a : j \in e + 1 .. t + 1 /\ j \in 1 .. a
    BY <1>1, <1>2
  <2> QED
    BY <1>7, <2>1
<1> QED
  BY <1>1, <1>2, <1>11, <1>12, <1>13, <1>14

LEMMA RunKid ==
  ASSUME NEW d \in Documents, NEW t \in 0 .. Len(d) - 1, NEW text, NEW a, NEW b, Pend(d, text, a, b, t),
         ~ IsText(d, t + 1), a < b
  PROVE  KidAt(d, a + 1) = Kid(0, text)
<1>1. /\ t \in Nat /\ Len(d) \in Nat /\ a \in Nat /\ b \in Nat /\ a <= b /\ b <= t /\ t < Len(d)
      /\ \A j \in a + 1 .. b : IsText(d, j)
      /\ \A j \in b + 1 .. t : d[j].type = "startPrefix"
      /\ \A j \in a + 1 .. t : ~ IsStart(d, j)
      /\ text = [n \in 1 .. b - a |-> d[a + n].strings[1]]
  BY PendFacts
<1> DEFINE S == {k \in a + 1 .. Len(d) : ~ IsText(d, k)}
<1>2. b + 1 \in S
  <2>1. ~ IsText(d, b + 1)
    <3>1. CASE b = t
      BY <3>1
    <3>2. CASE b # t
      <4>1. b + 1 \in b + 1 .. t
        BY <1>1, <3>2
      <4>2. d[b + 1].type = "startPrefix"
        BY <1>1, <4>1
      <4> QED
        BY <4>2 DEF IsText
    <3> QED
      BY <3>1, <3>2
  <2> QED
    BY <1>1, <2>1
<1>3. \A k \in S : k \in Nat /\ k >= b + 1
  <2>1. ASSUME NEW k \in S PROVE k \in Nat /\ k >= b + 1
    <3>1. k \in a + 1 .. Len(d) /\ k \notin a + 1 .. b
      BY <1>1
    <3> QED
      BY <1>1, <3>1
  <2> QED
    BY <2>1
<1>4. Min(S) = b + 1
  <2>1. S \in SUBSET Nat /\ S # {}
    BY <1>2, <1>3
  <2> HIDE DEF S
  <2>2. Min(S) \in S /\ Min(S) <= b + 1
    BY <1>2, <2>1, LeastOf
  <2> QED
    BY <1>1, <1>3, <2>2
<1>5. RunEnd(d, a + 1) = b + 1
  BY <1>4 DEF RunEnd
<1>6. ~ IsStart(d, a + 1)
  BY <1>1
<1>7. (b + 1) - (a + 1) = b - a /\ \A k \in 1 .. b - a : (a + 1) + k - 1 = a + k
  BY <1>1
<1>8. KidAt(d, a + 1) = Kid(0, [k \in 1 .. (b + 1) - (a + 1) |-> d[(a + 1) + k - 1].strings[1]])
  BY <1>5, <1>6 DEF KidAt
<1>9. [k \in 1 .. (b + 1) - (a + 1) |-> d[(a + 1) + k - 1].strings[1]] = [n \in 1 .. b - a |-> d[a + n].strings[1]]
  BY <1>7
<1> QED
  BY <1>1, <1>8, <1>9

More(s, yes, k) == IF yes THEN Append(s, k) ELSE s

(* A text in the way becomes a child of the innermost element, and so does   *)
(* the element that starts.                                                  *)
LEMMA KidsFlush ==
  ASSUME NEW d \in Documents, NEW t \in 0 .. Len(d) - 1, NEW text, NEW a, NEW b, Pend(d, text, a, b, t),
         ~ IsText(d, t + 1), NEW e \in 1 .. t, IsStart(d, e)
  PROVE  KidsAt(d, Places(d, e, t + 1)) =
           More(More(KidsAt(d, Places(d, e, a)), Top(d, e, t) /\ text # <<>>, Kid(0, text)),
                Top(d, e, t) /\ IsStart(d, t + 1), Kid(t + 1, <<>>))
<1>1. /\ t \in Nat /\ a \in Nat /\ b \in Nat /\ a <= b /\ b <= t /\ (text = <<>> <=> a = b)
  BY PendFacts
<1>2. /\ Places(d, e, a) \in SUBSET (1 .. a)
      /\ \A j : j \in Places(d, e, t + 1) <=> \/ j \in Places(d, e, a)
                                              \/ Top(d, e, t) /\ a < b /\ j = a + 1
                                              \/ Top(d, e, t) /\ IsStart(d, t + 1) /\ j = t + 1
  BY PlacesFlush
<1>3. PICK S, x, y : S = Places(d, e, a) /\ x = a + 1 /\ y = t + 1
  OBVIOUS
<1>4. S \in SUBSET (1 .. a) /\ x \in Nat /\ a < x /\ y \in Nat /\ a < y /\ x <= y
  BY <1>1, <1>2, <1>3
<1>5. PICK R : R = IF Top(d, e, t) /\ a < b THEN S \cup {x} ELSE S
  OBVIOUS
<1>6. KidsAt(d, R) = More(KidsAt(d, S), Top(d, e, t) /\ text # <<>>, Kid(0, text))
  <2>1. CASE Top(d, e, t) /\ a < b
    <3>1. KidsAt(d, S \cup {x}) = Append(KidsAt(d, S), KidAt(d, x))
      BY <1>1, <1>4, KidsAdd
    <3>2. KidAt(d, x) = Kid(0, text)
      BY <1>3, <2>1, RunKid
    <3>3. text # <<>>
      BY <1>1, <2>1
    <3> QED
      BY <1>5, <2>1, <3>1, <3>2, <3>3 DEF More
  <2>2. CASE ~ (Top(d, e, t) /\ a < b)
    <3>1. ~ (Top(d, e, t) /\ text # <<>>)
      BY <1>1, <2>2
    <3> QED
      BY <1>5, <2>2, <3>1 DEF More
  <2> QED
    BY <2>1, <2>2
<1>7. CASE Top(d, e, t) /\ IsStart(d, t + 1)
  <2>1. Places(d, e, t + 1) = R \cup {y}
    <3>1. \A j : j \in Places(d, e, t + 1) <=> j \in R \cup {y}
      BY <1>2, <1>3, <1>5, <1>7
    <3> QED
      BY <3>1
  <2>2. R \in SUBSET (1 .. t) /\ t < y
    <3>1. a < b => x <= t
      BY <1>1, <1>3
    <3> QED
      BY <1>1, <1>3, <1>4, <1>5, <3>1
  <2>3. KidsAt(d, R \cup {y}) = Append(KidsAt(d, R), KidAt(d, y))
    BY <1>1, <1>4, <2>2, KidsAdd
  <2>4. KidAt(d, y) = Kid(t + 1, <<>>)
    BY <1>3, <1>7 DEF KidAt
  <2> QED
    BY <1>3, <1>6, <1>7, <2>1, <2>3, <2>4 DEF More
<1>8. CASE ~ (Top(d, e, t) /\ IsStart(d, t + 1))
  <2>1. Places(d, e, t + 1) = R
    <3>1. \A j : j \in Places(d, e, t + 1) <=> j \in R
      BY <1>2, <1>3, <1>5, <1>8
    <3> QED
      BY <3>1
  <2> QED
    BY <1>3, <1>6, <1>8, <2>1 DEF More
<1> QED
  BY <1>7, <1>8

(* The elements the program may look at, now or when they are handed out.    *)
Visible(d, mode, done, e, t) ==
  /\ e \in 1 .. t /\ IsStart(d, e)
  /\ mode = "full" \/ \E s \in 1 .. e : IsStart(d, s) /\ DepthIn(d, s) = 2 /\ (s = done \/ Opened(d, s, t))
NodeOK(d, N, e, kids) ==
  /\ e \in DOMAIN N /\ N[e] = [attrs |-> d[e].attrs, decls |-> N[e].decls, kids |-> kids]
  /\ DeclsOf(d, e) \subseteq N[e].decls /\ N[e].decls \subseteq ScopeOf(d, e)

LEMMA VisibleStep ==
  ASSUME NEW d \in Documents, NEW t \in 0 .. Len(d) - 1, NEW mode, NEW done, NEW e, Visible(d, mode, done, e, t + 1),
         done = 0 \/ EndsAt(d, done, t)
  PROVE  Visible(d, mode, 0, e, t) \/ (e = t + 1 /\ IsStart(d, e))
<1>1. t \in Nat
  BY StepFacts
<1>2. /\ e \in 1 .. t + 1 /\ IsStart(d, e)
      /\ mode = "full" \/ \E s \in 1 .. e : IsStart(d, s) /\ DepthIn(d, s) = 2 /\ (s = done \/ Opened(d, s, t + 1))
  BY DEF Visible
<1>3. CASE e = t + 1
  BY <1>2, <1>3
<1>4. CASE e # t + 1
  <2>1. e \in 1 .. t
    BY <1>1, <1>2, <1>4
  <2>2. ASSUME NEW s \in 1 .. e, IsStart(d, s), s = done \/ Opened(d, s, t + 1) PROVE Opened(d, s, t)
    <3>1. s # 0 /\ s # t + 1
      BY <1>1, <2>1
    <3>2. s = done => Opened(d, s, t)
      BY <3>1 DEF EndsAt
    <3>3. Opened(d, s, t + 1) => Opened(d, s, t)
      BY <3>1, OpenStep
    <3> QED
      BY <2>2, <3>2, <3>3
  <2> QED
    BY <1>2, <2>1, <2>2 DEF Visible
<1> QED
  BY <1>3, <1>4

LEMMA VisibleDepth ==
  ASSUME NEW d \in Documents, NEW t \in 0 .. Len(d), NEW mode, mode # "full", NEW e, Visible(d, mode, 0, e, t)
  PROVE  DepthIn(d, e) >= 2 /\ DepthIn(d, t) >= 2
<1>1. Len(d) \in Nat /\ t \in Nat
  BY DocShape
<1>2. e \in 1 .. t
  BY DEF Visible
<1>3. PICK s \in 1 .. e : IsStart(d, s) /\ DepthIn(d, s) = 2 /\ (s = 0 \/ Opened(d, s, t))
  BY DEF Visible
<1>4. Opened(d, s, t)
  BY <1>1, <1>2, <1>3
<1>5. \A j \in s .. t : DepthIn(d, j) >= DepthIn(d, s)
  BY <1>4, OpenFacts
<1>6. e \in s .. t /\ t \in s .. t
  BY <1>1, <1>2, <1>3
<1> QED
  BY <1>3, <1>5, <1>6

(* The top of the stack is the innermost open element.                       *)
LEMMA TopIs ==
  ASSUME NEW d \in Documents, NEW t \in 0 .. Len(d), NEW mode, NEW depth, NEW stack, NEW rootDoc,
         Stacked(d, mode, depth, stack, rootDoc, t), NEW e, Visible(d, mode, 0, e, t)
  PROVE  /\ Top(d, e, t) => depth \in Nat /\ depth >= 1 /\ stack[depth] = e /\ ~ (mode = "top" /\ depth = 1) /\ (mode = "full" => rootDoc)
         /\ depth >= 1 /\ stack[depth] = e => Top(d, e, t)
<1>1. Len(d) \in Nat /\ t \in Nat /\ DepthIn(d, t) \in Nat
  BY DocShape, DepthNat
<1>2. /\ depth = DepthIn(d, t) /\ mode \in {"top", "full"} /\ depth \in Nat
      /\ \A k \in 1 .. depth : \E s : /\ Opened(d, s, t) /\ DepthIn(d, s) = k
                                      /\ stack[k] = IF mode = "top" /\ k = 1 THEN 0 ELSE s
      /\ mode = "full" /\ depth > 0 => rootDoc
  BY <1>1 DEF Stacked
<1>3. e \in 1 .. t
  BY DEF Visible
<1>4. ASSUME Top(d, e, t)
      PROVE  depth >= 1 /\ stack[depth] = e /\ ~ (mode = "top" /\ depth = 1) /\ (mode = "full" => rootDoc)
  <2>1. Opened(d, e, t) /\ DepthIn(d, e) = depth
    BY <1>2, <1>4 DEF Top
  <2>2. depth >= 1
    <3>1. DepthIn(d, e) \in 1 .. DepthIn(d, t)
      BY <2>1, OpenDepth
    <3> QED
      BY <1>1, <1>2, <2>1, <3>1
  <2>3. ~ (mode = "top" /\ depth = 1)
    <3>1. mode = "top" => DepthIn(d, e) >= 2
      BY VisibleDepth
    <3> QED
      BY <2>1, <3>1
  <2>4. PICK s : Opened(d, s, t) /\ DepthIn(d, s) = depth /\ stack[depth] = IF mode = "top" /\ depth = 1 THEN 0 ELSE s
    BY <1>2, <2>2
  <2>5. s = e
    BY <2>1, <2>4, OpenOnce
  <2> QED
    BY <1>2, <2>2, <2>3, <2>4, <2>5
<1>5. ASSUME depth >= 1, stack[depth] = e PROVE Top(d, e, t)
  <2>1. PICK s : Opened(d, s, t) /\ DepthIn(d, s) = depth /\ stack[depth] = IF mode = "top" /\ depth = 1 THEN 0 ELSE s
    BY <1>2, <1>5
  <2>2. e = s
    BY <1>1, <1>3, <1>5, <2>1
  <2> QED
    BY <1>2, <2>1, <2>2 DEF Top
<1> QED
  BY <1>2, <1>4, <1>5

LEMMA KidAdded ==
  ASSUME NEW d, NEW N, NEW e, NEW kids, NodeOK(d, N, e, kids), NEW top, NEW k
  PROVE  NodeOK(d, [N EXCEPT ![top].kids = Append(@, k)], e, More(kids, top = e, k))
<1>1. PICK M : M = [N EXCEPT ![top].kids = Append(@, k)]
  OBVIOUS
<1>2. /\ e \in DOMAIN N /\ N[e] = [attrs |-> d[e].attrs, decls |-> N[e].decls, kids |-> kids]
      /\ DeclsOf(d, e) \subseteq N[e].decls /\ N[e].decls \subseteq ScopeOf(d, e)
  BY DEF NodeOK
<1>3. PICK x, y : x = d[e].attrs /\ y = N[e].decls
  OBVIOUS
<1>4. N[e] = [attrs |-> x, decls |-> y, kids |-> kids]
  BY <1>2, <1>3
<1>5. CASE top = e
  <2>1. M[e] = [N[e] EXCEPT !.kids = Append(@, k)] /\ e \in DOMAIN M
    BY <1>1, <1>2, <1>5
  <2>2. M[e] = [attrs |-> x, decls |-> y, kids |-> Append(kids, k)]
    <3>1. PICK r, q : r = N[e] /\ q = Append(kids, k)
      OBVIOUS
    <3>2. r = [attrs |-> x, decls |-> y, kids |-> kids]
      BY <1>4, <3>1
    <3>3. r.kids = kids
      BY <3>2
    <3>4. [r EXCEPT !.kids = q] = [attrs |-> x, decls |-> y, kids |-> q]
      BY <3>2
    <3>5. M[e] = [r EXCEPT !.kids = q]
      BY <2>1, <3>1, <3>3
    <3> QED
      BY <3>1, <3>4, <3>5
  <2>3. M[e].decls = y
    BY <2>2
  <2>4. NodeOK(d, M, e, Append(kids, k))
    BY <1>2, <1>3, <2>1, <2>2, <2>3 DEF NodeOK
  <2> QED
    BY <1>1, <1>5, <2>4 DEF More
<1>6. CASE top # e
  <2>1. M[e] = N[e] /\ e \in DOMAIN M
    BY <1>1, <1>2, <1>6
  <2>2. NodeOK(d, M, e, kids)
    BY <1>2, <2>1 DEF NodeOK
  <2> QED
    BY <1>1, <1>6, <2>2 DEF More
<1> QED
  BY <1>5, <1>6

LEMMA FlushNode ==
  ASSUME NEW d \in Documents, NEW t \in 0 .. Len(d), NEW w,
         Stacked(d, w.it.mode, w.it.depth, w.it.stack, w.it.rootDoc, t),
         NEW e, Visible(d, w.it.mode, 0, e, t), NEW kids, NodeOK(d, w.nodes, e, kids)
  PROVE  NodeOK(d, FlushText(w).nodes, e, More(kids, Top(d, e, t) /\ w.it.text # <<>>, Kid(0, w.it.text)))
<1>1. PICK i, N, M : i = w.it /\ N = w.nodes /\ M = FlushText(w).nodes
  OBVIOUS
<1>2. /\ Top(d, e, t) => i.depth \in Nat /\ i.depth >= 1 /\ i.stack[i.depth] = e /\ ~ (i.mode = "top" /\ i.depth = 1)
                         /\ (i.mode = "full" => i.rootDoc)
      /\ i.depth >= 1 /\ i.stack[i.depth] = e => Top(d, e, t)
      /\ i.depth \in Nat /\ i.mode \in {"top", "full"} /\ NodeOK(d, N, e, kids)
  <2>1. i.depth \in Nat /\ i.mode \in {"top", "full"}
    BY <1>1, DepthNat DEF Stacked
  <2> QED
    BY <1>1, <2>1, TopIs
<1> DEFINE lost == \/ i.text = <<>> \/ i.depth < 1
                   \/ i.mode = "full" /\ ~ i.rootDoc
                   \/ i.mode # "full" /\ i.depth = 1 /\ ~ i.rootDoc
<1>3. M = IF lost THEN N ELSE [N EXCEPT ![i.stack[i.depth]].kids = Append(@, Kid(0, i.text))]
  BY <1>1 DEF FlushText
<1>4. Top(d, e, t) /\ i.text # <<>> => ~ lost
  BY <1>2
<1>5. CASE lost
  <2>1. ~ (Top(d, e, t) /\ i.text # <<>>)
    BY <1>4, <1>5
  <2>2. M = N
    BY <1>3, <1>5
  <2> QED
    BY <1>1, <1>2, <2>1, <2>2 DEF More
<1>6. CASE ~ lost
  <2>1. i.text # <<>> /\ i.depth >= 1
    BY <1>2, <1>6
  <2>2. (i.stack[i.depth] = e) <=> Top(d, e, t) /\ i.text # <<>>
    BY <1>2, <2>1
  <2>3. M = [N EXCEPT ![i.stack[i.depth]].kids = Append(@, Kid(0, i.text))]
    BY <1>3, <1>6
  <2>4. NodeOK(d, M, e, More(kids, i.stack[i.depth] = e, Kid(0, i.text)))
    BY <1>2, <2>3, KidAdded
  <2>5. More(kids, i.stack[i.depth] = e, Kid(0, i.text)) = More(kids, Top(d, e, t) /\ i.text # <<>>, Kid(0, i.text))
    BY <2>2 DEF More
  <2> QED
    BY <1>1, <2>4, <2>5
<1> QED
  BY <1>5, <1>6

(* What is attached to an element that starts.                               *)
LEMMA AttachedIs ==
  ASSUME NEW d \in Documents, NEW t \in 0 .. Len(d) - 1, IsStart(d, t + 1), NEW i, NEW p,
         Bound(d, i.ns, t), i.depth = DepthIn(d, t)
  PROVE  DeclsOf(d, t + 1) \subseteq Attached(i, p) /\ Attached(i, p) \subseteq ScopeOf(d, t + 1)
<1>1. Len(d) \in Nat /\ t \in Nat /\ t + 1 \in 1 .. Len(d) /\ t \in 0 .. Len(d) /\ DepthIn(d, t) \in Nat
  BY StepFacts
<1>2. PICK ns, D : ns = i.ns /\ D = DepthIn(d, t)
  OBVIOUS
<1>3. Bound(d, ns, t) /\ i.depth = D
  BY <1>2
<1>4. PICK P : BoundBy(d, ns, P, t)
  BY <1>3 DEF Bound
<1>5. /\ DOMAIN P = 1 .. Len(P) /\ DOMAIN ns = 1 .. Len(P) /\ ToSet(P) = Live(d, t)
      /\ \A n \in 1 .. Len(P) : ns[n] = BindAt(d, P[n])
  BY <1>4 DEF BoundBy
<1>6. \A n \in 1 .. Len(P) : /\ P[n] \in Live(d, t) /\ ns[n].depth = DepthIn(d, P[n]) + 1
                             /\ <<ns[n].prefix, ns[n].uri>> = PairAt(d, P[n])
  BY <1>5 DEF ToSet, BindAt, PairAt
<1>7. \A k \in Live(d, t) : \E n \in 1 .. Len(P) : k = P[n]
  BY <1>5 DEF ToSet
<1>8. ScopeOf(d, t + 1) = InnerOf(d, Live(d, t))
  BY <1>1, LiveAtStart, ScopeIs
<1>9. ASSUME NEW k \in DeclAt(d, t + 1)
      PROVE  k \in Live(d, t) /\ DepthIn(d, k) = D /\ Innermost(d, Live(d, t), k)
  <2>1. k \in 1 .. t /\ DepthIn(d, k) = D
    BY <1>1, <1>2, DeclFacts
  <2>2. k \in Live(d, t)
    BY <2>1 DEF Live
  <2>3. ASSUME NEW j \in Live(d, t), PrefixAt(d, j) = PrefixAt(d, k) PROVE j <= k
    <3>1. CASE j \in DeclAt(d, t + 1)
      <4>1. j = k
        BY <1>1, <2>3, <3>1, DeclApart
      <4> QED
        BY <1>1, <2>1, <4>1
    <3>2. CASE j \notin DeclAt(d, t + 1)
      <4>1. PICK s : Opened(d, s, t) /\ j \in DeclAt(d, s)
        BY <3>2 DEF Live
      <4>2. s \in 1 .. t /\ IsStart(d, s) /\ j \in 1 .. s - 1
        BY <4>1 DEF Opened, DeclAt
      <4>3. s \in 1 .. Len(d) /\ s < t + 1
        BY <1>1, <4>2
      <4>4. s < k
        BY <1>1, <4>2, <4>3, DeclApart
      <4> QED
        BY <1>1, <2>1, <4>2, <4>4
    <3> QED
      BY <3>1, <3>2
  <2> QED
    BY <2>1, <2>2, <2>3 DEF Innermost
<1>10. ASSUME NEW k \in Live(d, t), DepthIn(d, k) = D PROVE k \in DeclAt(d, t + 1)
  <2>1. ASSUME NEW s, Opened(d, s, t), k \in DeclAt(d, s) PROVE FALSE
    <3>1. s \in 1 .. Len(d) /\ IsStart(d, s) /\ DepthIn(d, s) \in 1 .. D
      BY <1>1, <1>2, <2>1, OpenDepth
    <3>2. DepthIn(d, s) = DepthIn(d, k) + 1
      BY <2>1, <3>1, OwnerFacts
    <3> QED
      BY <1>1, <1>2, <1>10, <3>1, <3>2
  <2> QED
    BY <2>1 DEF Live
<1> DEFINE own == {<<ns[k].prefix, ns[k].uri>> : k \in {k \in DOMAIN ns : ns[k].depth = D + 1}}
<1>11. Attached(i, p) = Lookup(ns, p) \cup own
  BY <1>2, <1>3 DEF Attached
<1>12. ASSUME NEW u \in DeclsOf(d, t + 1) PROVE u \in own
  <2>1. PICK k \in DeclAt(d, t + 1) : u = PairAt(d, k)
    BY DEF DeclsOf, PairAt
  <2>2. PICK n \in 1 .. Len(P) : k = P[n]
    BY <1>7, <1>9, <2>1
  <2>3. ns[n].depth = D + 1 /\ u = <<ns[n].prefix, ns[n].uri>> /\ n \in DOMAIN ns
    BY <1>5, <1>6, <1>9, <2>1, <2>2
  <2> QED
    BY <2>3
<1>13. ASSUME NEW u \in own PROVE u \in InnerOf(d, Live(d, t))
  <2>1. PICK n \in DOMAIN ns : ns[n].depth = D + 1 /\ u = <<ns[n].prefix, ns[n].uri>>
    BY DEF own
  <2>2. n \in 1 .. Len(P) /\ P[n] \in Live(d, t) /\ DepthIn(d, P[n]) + 1 = D + 1 /\ u = PairAt(d, P[n])
    BY <1>5, <1>6, <2>1
  <2>3. DepthIn(d, P[n]) = D
    <3>1. DepthIn(d, P[n]) \in Nat /\ D \in Nat
      <4>1. P[n] \in 0 .. Len(d)
        BY <1>1, <2>2 DEF Live
      <4> QED
        BY <1>1, <1>2, <4>1, DepthNat
    <3> QED
      BY <2>2, <3>1
  <2>4. Innermost(d, Live(d, t), P[n])
    BY <1>9, <1>10, <2>2, <2>3
  <2> QED
    BY <2>2, <2>4 DEF InnerOf
<1>14. ASSUME NEW u \in Lookup(ns, p) PROVE u \in InnerOf(d, Live(d, t))
  <2>1. PICK k : Innermost(d, Live(d, t), k) /\ u = PairAt(d, k)
    BY <1>1, <1>3, LookupIs
  <2> QED
    BY <2>1 DEF InnerOf, Innermost
<1> HIDE DEF own
<1> QED
  BY <1>8, <1>11, <1>12, <1>13, <1>14

LEMMA PlacesNone ==
  ASSUME NEW d, NEW e \in Nat
  PROVE  KidsAt(d, Places(d, e, e)) = <<>>
<1>1. Places(d, e, e) = {}
  BY DEF Places
<1>2. Cardinality({}) = 0
  BY FS_EmptySet
<1>3. KidsAt(d, {}) = [n \in 1 .. 0 |-> KidAt(d, Nth({}, n))]
  BY <1>2 DEF KidsAt
<1>4. \A n : n \notin 1 .. 0
  OBVIOUS
<1> QED
  BY <1>1, <1>3, <1>4

(* The nodes after a START.                                                  *)
LEMMA StartNodes ==
  ASSUME doc \in Documents, NEW t \in 0 .. Len(doc) - 1, IsStart(doc, t + 1), NEW w, Typed(w.it),
         Stacked(doc, w.it.mode, w.it.depth, w.it.stack, w.it.rootDoc, t),
         Spaces(doc, w.it.mode, w.it.ns, t), w.it.done = 0
  PROVE  /\ \A e, kids : Visible(doc, w.it.mode, 0, e, t) /\ NodeOK(doc, w.nodes, e, kids)
                           => NodeOK(doc, Started(w, t + 1).nodes, e,
                                     More(More(kids, Top(doc, e, t) /\ w.it.text # <<>>, Kid(0, w.it.text)),
                                          Top(doc, e, t), Kid(t + 1, <<>>)))
         /\ Visible(doc, w.it.mode, 0, t + 1, t + 1) => NodeOK(doc, Started(w, t + 1).nodes, t + 1, <<>>)
<1>0. PICK d \in Documents : d = doc
  OBVIOUS
<1>1. /\ Len(d) \in Nat /\ t \in Nat /\ t \in 0 .. Len(d) - 1 /\ t + 1 \in 1 .. Len(d) /\ t \in 0 .. Len(d)
      /\ DepthIn(d, t) \in Nat /\ DepthIn(d, t + 1) = DepthIn(d, t) + 1 /\ IsStart(d, t + 1)
  BY <1>0, StepFacts
<1>2. PICK i : i = w.it
  OBVIOUS
<1>3. PICK x, y : FlushText(w) = [it |-> x, nodes |-> y]
  BY Zenon DEF FlushText
<1>4. PICK f : f = FlushText(w) /\ DOMAIN f = {"it", "nodes"} /\ f = [it |-> f.it, nodes |-> f.nodes]
  BY <1>3
<1>5. PICK j : j = f.it
  OBVIOUS
<1>6. Alike(j, i) /\ SameStack(j, i) /\ j.ns = i.ns
  BY <1>2, <1>4, <1>5, FlushFields
<1>7. /\ j.mode = i.mode /\ j.depth = i.depth /\ j.stack = i.stack /\ j.ns = i.ns
      /\ i.depth = DepthIn(d, t) /\ i.mode \in {"top", "full"} /\ i.depth \in Nat
      /\ Stacked(d, i.mode, i.depth, i.stack, i.rootDoc, t) /\ Spaces(d, i.mode, i.ns, t)
      /\ \A k \in 1 .. i.depth : \E s : /\ Opened(d, s, t) /\ DepthIn(d, s) = k
                                        /\ i.stack[k] = IF i.mode = "top" /\ k = 1 THEN 0 ELSE s
  BY <1>0, <1>1, <1>2, <1>6 DEF Alike, SameStack, Stacked
<1>8. PICK N : N = Started(w, t + 1).nodes
  OBVIOUS
<1> DEFINE node == [attrs |-> d[t + 1].attrs, decls |-> Attached(j, d[t + 1].prefix), kids |-> <<>>]
           made == [k \in DOMAIN f.nodes \cup {t + 1} |-> IF k = t + 1 THEN node ELSE f.nodes[k]]
           alone == i.depth = 0 \/ (i.mode = "top" /\ i.depth = 1)
           parent == i.stack[i.depth]
<1>9. i.mode = "top" /\ i.depth = 0 => N = f.nodes
  BY <1>0, <1>4, <1>5, <1>7, <1>8 DEF Started
<1>10. ~ (i.mode = "top" /\ i.depth = 0) => N = IF alone THEN made ELSE [made EXCEPT ![parent].kids = Append(@, Kid(t + 1, <<>>))]
  <2> DEFINE n1 == [attrs |-> doc[t + 1].attrs, decls |-> Attached(FlushText(w).it, doc[t + 1].prefix), kids |-> <<>>]
             m1 == [k \in DOMAIN FlushText(w).nodes \cup {t + 1} |-> IF k = t + 1 THEN n1 ELSE FlushText(w).nodes[k]]
  <2>1. n1 = node
    BY <1>0, <1>4, <1>5
  <2>2. m1 = made
    <3> HIDE DEF n1, node
    <3> QED
      BY <1>4, <2>1
  <2>3. ~ (i.mode = "top" /\ i.depth = 0) =>
          N = IF alone THEN m1 ELSE [m1 EXCEPT ![parent].kids = Append(@, Kid(t + 1, <<>>))]
    <3>1. /\ FlushText(w).it.mode = i.mode /\ FlushText(w).it.depth = i.depth /\ FlushText(w).it.stack = i.stack
      BY <1>4, <1>5, <1>7
    <3>2. ~ (i.mode = "top" /\ i.depth = 0) =>
            N = IF FlushText(w).it.depth = 0 \/ (FlushText(w).it.mode = "top" /\ FlushText(w).it.depth = 1) THEN m1
                ELSE [m1 EXCEPT ![FlushText(w).it.stack[FlushText(w).it.depth]].kids = Append(@, Kid(t + 1, <<>>))]
      BY <1>8, <3>1 DEF Started
    <3> HIDE DEF m1
    <3> QED
      BY <3>1, <3>2
  <2> HIDE DEF n1, m1, made
  <2> QED
    BY <2>2, <2>3
<1>11. ASSUME NEW e, e # t + 1, NEW kids, NodeOK(d, f.nodes, e, kids) PROVE NodeOK(d, made, e, kids)
  <2>1. e \in DOMAIN made /\ made[e] = f.nodes[e]
    BY <1>11 DEF NodeOK
  <2> HIDE DEF made
  <2> QED
    BY <1>11, <2>1 DEF NodeOK
<1>12. ASSUME NEW e, NEW kids, Visible(d, i.mode, 0, e, t), NodeOK(d, w.nodes, e, kids)
       PROVE  NodeOK(d, N, e, More(More(kids, Top(d, e, t) /\ i.text # <<>>, Kid(0, i.text)),
                                   Top(d, e, t), Kid(t + 1, <<>>)))
  <2>1. PICK more : more = More(kids, Top(d, e, t) /\ i.text # <<>>, Kid(0, i.text))
    OBVIOUS
  <2>2. NodeOK(d, f.nodes, e, more)
    BY <1>1, <1>2, <1>4, <1>7, <1>12, <2>1, FlushNode
  <2>3. e \in 1 .. t /\ e # t + 1
    BY <1>1, <1>12 DEF Visible
  <2>4. /\ Top(d, e, t) => i.depth \in Nat /\ i.depth >= 1 /\ i.stack[i.depth] = e /\ ~ (i.mode = "top" /\ i.depth = 1)
        /\ i.depth >= 1 /\ i.stack[i.depth] = e => Top(d, e, t)
    BY <1>1, <1>7, <1>12, TopIs
  <2>5. NodeOK(d, made, e, more)
    BY <1>11, <2>2, <2>3
  <2> HIDE DEF made
  <2>6. CASE i.mode = "top" /\ i.depth = 0
    <3>1. ~ Top(d, e, t)
      BY <2>4, <2>6
    <3> QED
      BY <1>9, <2>1, <2>2, <2>6, <3>1 DEF More
  <2>7. CASE ~ (i.mode = "top" /\ i.depth = 0) /\ alone
    <3>1. ~ Top(d, e, t)
      BY <2>4, <2>7
    <3> QED
      BY <1>10, <2>1, <2>5, <2>7, <3>1 DEF More
  <2>8. CASE ~ alone
    <3>1. (parent = e) <=> Top(d, e, t)
      BY <1>7, <2>4, <2>8
    <3>2. NodeOK(d, [made EXCEPT ![parent].kids = Append(@, Kid(t + 1, <<>>))], e, More(more, parent = e, Kid(t + 1, <<>>)))
      BY <2>5, KidAdded
    <3>3. More(more, parent = e, Kid(t + 1, <<>>)) = More(more, Top(d, e, t), Kid(t + 1, <<>>))
      BY <3>1 DEF More
    <3> QED
      BY <1>10, <2>1, <2>8, <3>2, <3>3
  <2> QED
    BY <2>6, <2>7, <2>8
<1>13. ASSUME Visible(d, i.mode, 0, t + 1, t + 1) PROVE NodeOK(d, N, t + 1, <<>>)
  <2>1. i.mode = "full" \/ i.depth >= 1
    <3>1. i.mode # "full" => DepthIn(d, t + 1) >= 2
      BY <1>1, <1>13, VisibleDepth, t + 1 \in 0 .. Len(d)
    <3> QED
      BY <1>1, <1>7, <3>1
  <2>2. Bound(d, i.ns, t)
    BY <1>1, <1>7, <2>1 DEF Spaces, Needs
  <2>3. DeclsOf(d, t + 1) \subseteq Attached(j, d[t + 1].prefix) /\ Attached(j, d[t + 1].prefix) \subseteq ScopeOf(d, t + 1)
    BY <1>1, <1>7, <2>2, AttachedIs
  <2>4. NodeOK(d, made, t + 1, <<>>)
    <3>1. t + 1 \in DOMAIN made /\ made[t + 1] = node
      OBVIOUS
    <3>2. node = [attrs |-> d[t + 1].attrs, decls |-> node.decls, kids |-> <<>>] /\ node.decls = Attached(j, d[t + 1].prefix)
      OBVIOUS
    <3> HIDE DEF made, node
    <3> QED
      BY <2>3, <3>1, <3>2 DEF NodeOK
  <2> HIDE DEF made
  <2>5. CASE alone
    <3>1. ~ (i.mode = "top" /\ i.depth = 0)
      BY <1>7, <2>1
    <3> QED
      BY <1>10, <2>4, <2>5, <3>1
  <2>6. CASE ~ alone
    <3>1. parent # t + 1
      <4>1. i.depth \in 1 .. i.depth
        BY <1>7, <2>6
      <4>2. PICK s : Opened(d, s, t) /\ i.stack[i.depth] = IF i.mode = "top" /\ i.depth = 1 THEN 0 ELSE s
        BY <1>7, <4>1
      <4>3. s \in 1 .. t
        BY <4>2 DEF Opened
      <4> QED
        BY <1>1, <4>2, <4>3
    <3>2. NodeOK(d, [made EXCEPT ![parent].kids = Append(@, Kid(t + 1, <<>>))], t + 1, More(<<>>, parent = t + 1, Kid(t + 1, <<>>)))
      BY <2>4, KidAdded
    <3>3. More(<<>>, parent = t + 1, Kid(t + 1, <<>>)) = <<>>
      BY <3>1 DEF More
    <3> QED
      BY <1>10, <2>6, <3>2, <3>3
  <2> QED
    BY <2>5, <2>6
<1> QED
  BY <1>0, <1>2, <1>8, <1>12, <1>13

LEMMA EndNodes ==
  ASSUME NEW w PROVE Ended(w).nodes = FlushText(w).nodes
<1>1. PICK x, y : FlushText(w) = [it |-> x, nodes |-> y]
  BY Zenon DEF FlushText
<1>2. PICK f : f = FlushText(w) /\ f = [it |-> x, nodes |-> y]
  BY <1>1
<1>3. Ended(w) = f \/ \E v : Ended(w) = [f EXCEPT !.it = v]
  <2>1. \A v : [f EXCEPT !.it.depth = v] = [f EXCEPT !.it = [x EXCEPT !.depth = v]]
    BY <1>2
  <2> QED
    BY <1>2, <2>1 DEF Ended
<1>4. \A v : [f EXCEPT !.it = v].nodes = y
  BY <1>2
<1> QED
  BY <1>2, <1>3, <1>4

LEMMA PendNew ==
  ASSUME NEW d \in Documents, NEW u \in 0 .. Len(d), u = 0 \/ ~ IsText(d, u)
  PROVE  Pend(d, <<>>, u, u, u)
<1>1. u \in Nat /\ u \in 0 .. u /\ u \in u .. u /\ (\A j : j \notin u + 1 .. u) /\ (\A j \in u .. u : j = u) /\ u - u = 0
  BY DocShape
<1>2. \A n : n \notin 1 .. 0
  OBVIOUS
<1>3. [n \in 1 .. 0 |-> d[u + n].strings[1]] = <<>>
  BY <1>2
<1>4. <<>> = [n \in 1 .. u - u |-> d[u + n].strings[1]]
  BY <1>1, <1>3
<1> QED
  BY <1>1, <1>4 DEF Pend

(* The visible elements have what there was of them when text was last put   *)
(* in the tree.                                                              *)
Trees(d, i, N, t) ==
  \E a, b : /\ Pend(d, i.text, a, b, t) /\ (i.done # 0 => a = t)
            /\ \A e : Visible(d, i.mode, i.done, e, t) => NodeOK(d, N, e, KidsAt(d, Places(d, e, a)))

LEMMA TreesQuiet ==
  ASSUME NEW d \in Documents, NEW t \in 0 .. Len(d) - 1, NEW i, NEW N, i.done = 0, Trees(d, i, N, t),
         d[t + 1].type \in {"startPrefix", "endPrefix", "text", "cdata"}, NEW v, Alike(v, i),
         v.text = IF IsText(d, t + 1) THEN Append(i.text, d[t + 1].strings[1]) ELSE i.text
  PROVE  Trees(d, v, N, t + 1)
<1>1. PICK a, b : /\ Pend(d, i.text, a, b, t)
                  /\ \A e : Visible(d, i.mode, i.done, e, t) => NodeOK(d, N, e, KidsAt(d, Places(d, e, a)))
  BY DEF Trees
<1>2. v.mode = i.mode /\ v.done = 0 /\ i.done = 0
  BY DEF Alike
<1>3. ~ IsStart(d, t + 1) /\ d[t + 1].type # "end"
  BY DEF IsStart
<1>4. ASSUME NEW e, Visible(d, v.mode, v.done, e, t + 1) PROVE Visible(d, i.mode, i.done, e, t)
  <2>1. Visible(d, i.mode, 0, e, t) \/ (e = t + 1 /\ IsStart(d, e))
    BY <1>2, <1>4, VisibleStep
  <2> QED
    BY <1>2, <1>3, <2>1
<1>5. /\ d[t + 1].type = "startPrefix" => Pend(d, i.text, a, b, t + 1)
      /\ d[t + 1].type = "endPrefix" => a = t /\ b = t /\ Pend(d, i.text, t + 1, t + 1, t + 1)
      /\ IsText(d, t + 1) => Pend(d, Append(i.text, d[t + 1].strings[1]), a, t + 1, t + 1)
  BY <1>1, <1>3, PendStep
<1>6. CASE d[t + 1].type = "endPrefix"
  <2>1. ~ IsText(d, t + 1)
    BY <1>6 DEF IsText
  <2>2. a = t /\ b = t /\ Pend(d, v.text, t + 1, t + 1, t + 1)
    BY <1>5, <1>6, <2>1
  <2>3. ASSUME NEW e, Visible(d, v.mode, v.done, e, t + 1)
        PROVE  NodeOK(d, N, e, KidsAt(d, Places(d, e, t + 1)))
    <3>1. e \in 1 .. t /\ IsStart(d, e) /\ NodeOK(d, N, e, KidsAt(d, Places(d, e, a)))
      BY <1>1, <1>4, <2>3 DEF Visible
    <3>2. \A j : j \in Places(d, e, t + 1) <=> \/ j \in Places(d, e, a)
                                               \/ Top(d, e, t) /\ a < b /\ j = a + 1
                                               \/ Top(d, e, t) /\ IsStart(d, t + 1) /\ j = t + 1
      BY <1>1, <2>1, <3>1, PlacesFlush
    <3>3. ~ (a < b)
      BY <2>2, StepFacts
    <3>4. \A j : j \in Places(d, e, t + 1) <=> j \in Places(d, e, a)
      BY <1>3, <3>2, <3>3
    <3>5. Places(d, e, t + 1) = Places(d, e, a)
      BY <3>4
    <3> QED
      BY <3>1, <3>5
  <2> QED
    BY <1>2, <2>2, <2>3 DEF Trees
<1>7. CASE d[t + 1].type = "startPrefix"
  <2>1. Pend(d, v.text, a, b, t + 1)
    BY <1>5, <1>7 DEF IsText
  <2> QED
    BY <1>1, <1>2, <1>4, <2>1 DEF Trees
<1>8. CASE d[t + 1].type \in {"text", "cdata"}
  <2>1. Pend(d, v.text, a, t + 1, t + 1)
    BY <1>5, <1>8 DEF IsText
  <2> QED
    BY <1>1, <1>2, <1>4, <2>1 DEF Trees
<1> QED
  BY <1>6, <1>7, <1>8

LEMMA TreesFlush ==
  ASSUME NEW d \in Documents, NEW t \in 0 .. Len(d) - 1, NEW w, w.it.done = 0, Trees(d, w.it, w.nodes, t),
         Stacked(d, w.it.mode, w.it.depth, w.it.stack, w.it.rootDoc, t),
         d[t + 1].type \in {"end", "comment", "pi"}, NEW v, v.mode = w.it.mode, v.text = <<>>,
         v.done = 0 \/ EndsAt(d, v.done, t)
  PROVE  Trees(d, v, FlushText(w).nodes, t + 1)
<1>1. PICK i, N, M : i = w.it /\ N = w.nodes /\ M = FlushText(w).nodes
  OBVIOUS
<1>2. PICK a, b : /\ Pend(d, i.text, a, b, t)
                  /\ \A e : Visible(d, i.mode, 0, e, t) => NodeOK(d, N, e, KidsAt(d, Places(d, e, a)))
  BY <1>1 DEF Trees
<1>3. ~ IsStart(d, t + 1) /\ ~ IsText(d, t + 1) /\ t \in 0 .. Len(d) /\ t + 1 \in 0 .. Len(d)
  BY StepFacts DEF IsStart, IsText
<1>4. Pend(d, v.text, t + 1, t + 1, t + 1)
  BY <1>3, PendNew
<1>5. ASSUME NEW e, Visible(d, v.mode, v.done, e, t + 1) PROVE NodeOK(d, M, e, KidsAt(d, Places(d, e, t + 1)))
  <2>1. Visible(d, i.mode, 0, e, t)
    <3>1. Visible(d, i.mode, v.done, e, t + 1)
      BY <1>1, <1>5
    <3> QED
      BY <1>3, <3>1, VisibleStep
  <2>2. e \in 1 .. t /\ IsStart(d, e) /\ NodeOK(d, N, e, KidsAt(d, Places(d, e, a)))
    BY <1>2, <2>1 DEF Visible
  <2>3. PICK kids : kids = KidsAt(d, Places(d, e, a))
    OBVIOUS
  <2>4. NodeOK(d, M, e, More(kids, Top(d, e, t) /\ i.text # <<>>, Kid(0, i.text)))
    BY <1>1, <1>3, <2>1, <2>2, <2>3, FlushNode
  <2>5. KidsAt(d, Places(d, e, t + 1)) = More(More(kids, Top(d, e, t) /\ i.text # <<>>, Kid(0, i.text)),
                                              Top(d, e, t) /\ IsStart(d, t + 1), Kid(t + 1, <<>>))
    BY <1>2, <1>3, <2>2, <2>3, KidsFlush
  <2>6. KidsAt(d, Places(d, e, t + 1)) = More(kids, Top(d, e, t) /\ i.text # <<>>, Kid(0, i.text))
    BY <1>3, <2>5 DEF More
  <2> QED
    BY <2>4, <2>6
<1>6. Trees(d, v, M, t + 1)
  BY <1>4, <1>5 DEF Trees
<1> QED
  BY <1>1, <1>6

LEMMA TreesStart ==
  ASSUME doc \in Documents, NEW t \in 0 .. Len(doc) - 1, IsStart(doc, t + 1), NEW w, Typed(w.it), w.it.done = 0,
         Trees(doc, w.it, w.nodes, t), Stacked(doc, w.it.mode, w.it.depth, w.it.stack, w.it.rootDoc, t),
         Spaces(doc, w.it.mode, w.it.ns, t), NEW v, Alike(v, w.it), v.text = <<>>
  PROVE  Trees(doc, v, Started(w, t + 1).nodes, t + 1)
<1>0. PICK d \in Documents : d = doc
  OBVIOUS
<1>1. PICK i, N, M : i = w.it /\ N = w.nodes /\ M = Started(w, t + 1).nodes
  OBVIOUS
<1>2. PICK a, b : /\ Pend(d, i.text, a, b, t)
                  /\ \A e : Visible(d, i.mode, 0, e, t) => NodeOK(d, N, e, KidsAt(d, Places(d, e, a)))
  BY <1>0, <1>1 DEF Trees
<1>3. /\ ~ IsText(d, t + 1) /\ t \in 0 .. Len(d) - 1 /\ t + 1 \in 0 .. Len(d) /\ IsStart(d, t + 1) /\ t + 1 \in Nat
      /\ v.mode = i.mode /\ v.done = 0
  BY <1>0, <1>1, StepFacts DEF IsStart, IsText, Alike
<1>4. Pend(d, v.text, t + 1, t + 1, t + 1)
  BY <1>3, PendNew
<1>5. /\ \A e, kids : Visible(d, i.mode, 0, e, t) /\ NodeOK(d, N, e, kids)
                        => NodeOK(d, M, e, More(More(kids, Top(d, e, t) /\ i.text # <<>>, Kid(0, i.text)),
                                                Top(d, e, t), Kid(t + 1, <<>>)))
      /\ Visible(d, i.mode, 0, t + 1, t + 1) => NodeOK(d, M, t + 1, <<>>)
  BY <1>0, <1>1, StartNodes
<1>6. ASSUME NEW e, Visible(d, v.mode, v.done, e, t + 1) PROVE NodeOK(d, M, e, KidsAt(d, Places(d, e, t + 1)))
  <2>1. Visible(d, i.mode, 0, e, t + 1)
    BY <1>3, <1>6
  <2>2. CASE e = t + 1
    <3>1. KidsAt(d, Places(d, e, t + 1)) = <<>>
      BY <1>3, <2>2, PlacesNone
    <3> QED
      BY <1>5, <2>1, <2>2, <3>1
  <2>3. CASE e # t + 1
    <3>1. Visible(d, i.mode, 0, e, t)
      BY <1>3, <2>1, <2>3, VisibleStep
    <3>2. e \in 1 .. t /\ IsStart(d, e) /\ NodeOK(d, N, e, KidsAt(d, Places(d, e, a)))
      BY <1>2, <3>1 DEF Visible
    <3>3. PICK kids : kids = KidsAt(d, Places(d, e, a))
      OBVIOUS
    <3>4. NodeOK(d, M, e, More(More(kids, Top(d, e, t) /\ i.text # <<>>, Kid(0, i.text)), Top(d, e, t), Kid(t + 1, <<>>)))
      BY <1>5, <3>1, <3>2, <3>3
    <3>5. KidsAt(d, Places(d, e, t + 1)) = More(More(kids, Top(d, e, t) /\ i.text # <<>>, Kid(0, i.text)),
                                                Top(d, e, t) /\ IsStart(d, t + 1), Kid(t + 1, <<>>))
      BY <1>2, <1>3, <3>2, <3>3, KidsFlush
    <3>6. KidsAt(d, Places(d, e, t + 1)) = More(More(kids, Top(d, e, t) /\ i.text # <<>>, Kid(0, i.text)),
                                                Top(d, e, t), Kid(t + 1, <<>>))
      BY <1>3, <3>5 DEF More
    <3> QED
      BY <3>4, <3>6
  <2> QED
    BY <2>2, <2>3
<1>7. Trees(d, v, M, t + 1)
  BY <1>3, <1>4, <1>6 DEF Trees
<1> QED
  BY <1>0, <1>1, <1>7

LEMMA TreesEnd ==
  ASSUME NEW d \in Documents, NEW t, NEW w, Walks(d, w.it, t), w.it.done = 0, d[t + 1].type = "end",
         Trees(d, w.it, w.nodes, t)
  PROVE  Trees(d, Ended(w).it, Ended(w).nodes, t + 1)
<1>1. PICK i, v : i = w.it /\ v = Ended(w).it
  OBVIOUS
<1>2. /\ Typed(i) /\ t \in 0 .. Len(d) - 1 /\ i.mode \in {"top", "full"} /\ i.done = 0
      /\ Stacked(d, i.mode, i.depth, i.stack, i.rootDoc, t)
  BY <1>1 DEF Walks, Stacked
<1>3. /\ i.depth \in Nat /\ i.depth # 0
      /\ \E s : EndsAt(d, s, t) /\ i.stack[i.depth] = IF i.mode = "top" /\ i.depth = 1 THEN 0 ELSE s
  BY <1>2, StackEnd
<1>4. PICK s : EndsAt(d, s, t) /\ i.stack[i.depth] = IF i.mode = "top" /\ i.depth = 1 THEN 0 ELSE s
  BY <1>3
<1>5. i.depth <= Len(i.stack) /\ (i.mode = "full" => i.rootDoc)
  BY <1>2, <1>3 DEF Stacked
<1>6. /\ Typed(v) /\ v.mode = i.mode /\ v.text = <<>>
      /\ IF i.depth = 1 /\ ~ i.rootDoc
         THEN Alike(v, i)
         ELSE IF i.mode = "full" \/ i.depth = 2 THEN v.done = i.stack[i.depth] ELSE v.done = i.done
  BY <1>1, <1>2, <1>3, <1>5, EndFields
<1>7. v.done = 0 \/ EndsAt(d, v.done, t)
  <2>1. CASE i.depth = 1 /\ ~ i.rootDoc
    BY <1>2, <1>6, <2>1 DEF Alike
  <2>2. CASE ~ (i.depth = 1 /\ ~ i.rootDoc)
    BY <1>2, <1>4, <1>6, <2>2
  <2> QED
    BY <2>1, <2>2
<1>8. d[t + 1].type \in {"end", "comment", "pi"}
  OBVIOUS
<1>9. Trees(d, v, FlushText(w).nodes, t + 1)
  BY <1>1, <1>2, <1>6, <1>7, <1>8, TreesFlush
<1> QED
  BY <1>1, <1>9, EndNodes

LEMMA TreesEvent ==
  ASSUME doc \in Documents, NEW t, NEW i, NEW N, Walks(doc, i, t), i.done = 0, Scoped(doc, i, t), Trees(doc, i, N, t),
         doc[t + 1].type \notin Last1
  PROVE  Trees(doc, Handled([it |-> i, nodes |-> N], t + 1).it, Handled([it |-> i, nodes |-> N], t + 1).nodes, t + 1)
<1>0. PICK d \in Documents : d = doc
  OBVIOUS
<1>1. PICK w : w = [it |-> i, nodes |-> N] /\ w.it = i /\ w.nodes = N
  <2>1. PICK w : w = [it |-> i, nodes |-> N]
    OBVIOUS
  <2> QED
    BY <2>1
<1>2. PICK e : e = t + 1
  OBVIOUS
<1>3. /\ Typed(i) /\ t \in 0 .. Len(d) - 1 /\ d[e].type \in EventTypes /\ i.done = 0 /\ Trees(d, i, N, t)
      /\ Spaces(d, i.mode, i.ns, t) /\ Walks(d, i, t) /\ Stacked(d, i.mode, i.depth, i.stack, i.rootDoc, t)
      /\ i.depth <= Len(i.stack)
  <2>1. Typed(i) /\ t \in 0 .. Len(d) - 1
    BY <1>0 DEF Walks
  <2>2. e \in 1 .. Len(d)
    BY <1>2, <2>1, StepFacts
  <2>3. Stacked(d, i.mode, i.depth, i.stack, i.rootDoc, t)
    BY <1>0 DEF Walks
  <2> QED
    BY <1>0, <1>2, <2>1, <2>2, <2>3, DocShape DEF Scoped, Stacked
<1>4. PICK h : h = Handled(w, e)
  OBVIOUS
<1>12. SUFFICES Trees(d, h.it, h.nodes, e)
  BY <1>0, <1>1, <1>2, <1>4
<1>5. ASSUME d[e].type \in {"startPrefix", "endPrefix", "text", "cdata"}, h.nodes = N, Alike(h.it, i),
             h.it.text = IF IsText(d, e) THEN Append(i.text, d[e].strings[1]) ELSE i.text
      PROVE  Trees(d, h.it, h.nodes, e)
  <2>1. PICK v : v = h.it
    OBVIOUS
  <2>2. Trees(d, v, N, t + 1)
    BY <1>2, <1>3, <1>5, <2>1, TreesQuiet
  <2> QED
    BY <1>2, <1>5, <2>1, <2>2
<1>6. CASE d[e].type = "startPrefix"
  <2>1. PICK x : x = [prefix |-> d[e].strings[1], uri |-> d[e].strings[2], depth |-> i.depth + 1]
    OBVIOUS
  <2>2. h.it = [i EXCEPT !.ns = Append(@, x)] /\ h.nodes = N
    BY <1>0, <1>1, <1>4, <1>6, <2>1 DEF Handled
  <2>3. Alike(h.it, i) /\ h.it.text = i.text
    <3>1. PICK v : v = [i EXCEPT !.ns = Append(@, x)]
      OBVIOUS
    <3>2. Alike(v, i) /\ v.text = i.text
      BY <1>3, <3>1, NsFields
    <3> QED
      BY <2>2, <3>1, <3>2
  <2>4. ~ IsText(d, e)
    BY <1>6 DEF IsText
  <2> QED
    BY <1>5, <1>6, <2>2, <2>3, <2>4
<1>7. CASE d[e].type = "endPrefix"
  <2>1. h.it = i /\ h.nodes = N
    BY <1>0, <1>1, <1>4, <1>7 DEF Handled
  <2>2. Alike(h.it, i) /\ ~ IsText(d, e)
    BY <1>3, <1>7, <2>1 DEF Alike, IsText
  <2> QED
    BY <1>5, <1>7, <2>1, <2>2
<1>8. CASE d[e].type \in {"text", "cdata"}
  <2>1. h.it = [i EXCEPT !.text = Append(@, d[e].strings[1])] /\ h.nodes = N
    BY <1>0, <1>1, <1>4, <1>8 DEF Handled
  <2>2. Alike(h.it, i) /\ h.it.text = Append(i.text, d[e].strings[1]) /\ IsText(d, e)
    <3>1. PICK v : v = [i EXCEPT !.text = Append(@, d[e].strings[1])]
      OBVIOUS
    <3>2. Alike(v, i) /\ v.text = Append(i.text, d[e].strings[1])
      BY <1>3, <3>1, TextFields
    <3> QED
      BY <1>8, <2>1, <3>1, <3>2 DEF IsText
  <2> QED
    BY <1>5, <1>8, <2>1, <2>2
<1>9. CASE d[e].type \in {"comment", "pi"}
  <2>1. h = FlushText(w)
    BY <1>0, <1>4, <1>9 DEF Handled
  <2>2. PICK v : v = FlushText(w).it
    OBVIOUS
  <2>3. Alike(v, i) /\ v.text = <<>>
    BY <1>1, <1>3, <2>2, FlushFields
  <2>4. v.mode = i.mode /\ v.done = 0 /\ d[t + 1].type \in {"end", "comment", "pi"}
    BY <1>2, <1>3, <1>9, <2>3 DEF Alike
  <2>5. Trees(d, v, FlushText(w).nodes, t + 1)
    BY <1>1, <1>3, <2>3, <2>4, TreesFlush
  <2> QED
    BY <1>2, <2>1, <2>2, <2>5
<1>10. CASE d[e].type = "start"
  <2>1. h = Started(w, e)
    BY <1>0, <1>4, <1>10 DEF Handled
  <2>2. PICK v : v = Started(w, e).it
    OBVIOUS
  <2>3. Alike(v, i) /\ v.text = <<>>
    <3>1. w.it.depth <= Len(w.it.stack) /\ e \in Nat /\ Typed(w.it)
      BY <1>1, <1>2, <1>3, StepFacts
    <3> QED
      BY <1>1, <2>2, <3>1, StartFields
  <2>4. IsStart(doc, t + 1) /\ Typed(w.it) /\ w.it.done = 0 /\ t \in 0 .. Len(doc) - 1
        /\ Trees(doc, w.it, w.nodes, t) /\ Stacked(doc, w.it.mode, w.it.depth, w.it.stack, w.it.rootDoc, t)
        /\ Spaces(doc, w.it.mode, w.it.ns, t) /\ Alike(v, w.it)
    BY <1>0, <1>1, <1>2, <1>3, <1>10, <2>3 DEF IsStart
  <2>5. Trees(doc, v, Started(w, t + 1).nodes, t + 1)
    BY <2>3, <2>4, TreesStart
  <2> QED
    BY <1>0, <1>2, <2>1, <2>2, <2>5
<1>11. CASE d[e].type = "end"
  <2>1. h = Ended(w)
    BY <1>0, <1>4, <1>11 DEF Handled
  <2>2. Trees(d, Ended(w).it, Ended(w).nodes, t + 1)
    BY <1>1, <1>2, <1>3, <1>11, TreesEnd
  <2> QED
    BY <1>2, <2>1, <2>2
<1> QED
  BY <1>0, <1>2, <1>3, <1>6, <1>7, <1>8, <1>9, <1>10, <1>11 DEF EventTypes, Last1

(* Past a top-level child nothing of it is kept.                             *)
LEMMA TreesNext ==
  ASSUME NEW d \in Documents, NEW t, NEW i, NEW N, Walks(d, i, t), Trees(d, i, N, t)
  PROVE  LET w == Released([it |-> i, nodes |-> N])
         IN  Trees(d, [w.it EXCEPT !.running = TRUE], w.nodes, t)
<1>1. PICK w : w = Released([it |-> i, nodes |-> N])
  OBVIOUS
<1>2. PICK v : v = [w.it EXCEPT !.running = TRUE]
  OBVIOUS
<1>3. v.done = 0 /\ v.text = i.text /\ v.mode = i.mode
  BY <1>1, <1>2, WalkNext
<1>4. PICK a, b : /\ Pend(d, i.text, a, b, t)
                  /\ \A e : Visible(d, i.mode, i.done, e, t) => NodeOK(d, N, e, KidsAt(d, Places(d, e, a)))
  BY DEF Trees
<1>5. t \in 0 .. Len(d)
  <2>1. t \in 0 .. Len(d) - 1
    BY DEF Walks
  <2> QED
    BY <2>1, DocShape
<1>6. CASE i.done = 0 \/ i.mode = "full" \/ i.doneDepth > 2
  <2>1. w.nodes = N
    BY <1>1, <1>6 DEF Released
  <2>2. ASSUME NEW e, Visible(d, v.mode, v.done, e, t) PROVE Visible(d, i.mode, i.done, e, t)
    <3>1. Visible(d, i.mode, 0, e, t)
      BY <1>3, <2>2
    <3>2. CASE i.done = 0
      BY <3>1, <3>2
    <3>3. CASE i.done # 0 /\ i.mode = "full"
      BY <3>1, <3>3 DEF Visible
    <3>4. CASE i.done # 0 /\ i.mode # "full"
      <4>1. JustEnded(d, i.mode, i.done, i.doneDepth, t) /\ i.mode = "top" /\ t \in 0 .. Len(d)
        BY <1>5, <3>4 DEF Walks, Typed
      <4>2. DepthIn(d, t) = 1
        BY <4>1, EndDepth DEF JustEnded
      <4>3. DepthIn(d, t) >= 2
        BY <1>5, <3>1, <3>4, VisibleDepth
      <4> QED
        BY <4>2, <4>3
    <3> QED
      BY <3>2, <3>3, <3>4
  <2>3. Trees(d, v, N, t)
    BY <1>3, <1>4, <2>2 DEF Trees
  <2> QED
    BY <1>1, <1>2, <2>1, <2>3
<1>7. CASE ~ (i.done = 0 \/ i.mode = "full" \/ i.doneDepth > 2)
  <2>1. JustEnded(d, i.mode, i.done, i.doneDepth, t) /\ i.mode = "top"
    BY <1>7 DEF Walks, Typed
  <2>2. DepthIn(d, t) = 1
    BY <1>5, <2>1, EndDepth DEF JustEnded
  <2>3. \A e : ~ Visible(d, v.mode, v.done, e, t)
    <3>1. SUFFICES ASSUME NEW e, Visible(d, i.mode, 0, e, t) PROVE FALSE
      BY <1>3
    <3>2. DepthIn(d, t) >= 2
      BY <1>5, <1>7, <3>1, VisibleDepth
    <3> QED
      BY <2>2, <3>2
  <2>4. Trees(d, v, w.nodes, t)
    BY <1>3, <1>4, <2>3 DEF Trees
  <2> QED
    BY <1>1, <1>2, <2>4
<1> QED
  BY <1>6, <1>7

TreeInv == user = "iter" /\ ~ it.exhausted => Trees(doc, it, nodes, taken)

LEMMA InitTrees ==
  ASSUME Init PROVE TreeInv
<1>1. /\ it \in [mode : Modes, depth : {0}, stack : {<<>>}, text : {<<>>}, ns : {<<>>}, snap : {{}},
                done : {0}, doneDepth : {0}, rootDoc : {FALSE}, subDoc : {FALSE},
                running : {FALSE}, exhausted : {FALSE}, error : {FALSE}, yields : {<<>>}]
      /\ doc \in Documents /\ taken = 0
  BY DEF Init, PullInit
<1>2. it.text = <<>> /\ it.done = 0
  BY <1>1
<1>3. 0 \in 0 .. Len(doc) /\ \A e : e \notin 1 .. 0
  BY <1>1, DocShape
<1>4. Pend(doc, <<>>, 0, 0, 0)
  BY <1>1, <1>3, PendNew
<1>5. \A e : ~ Visible(doc, it.mode, it.done, e, 0)
  BY <1>3 DEF Visible
<1>6. Trees(doc, it, nodes, 0)
  BY <1>2, <1>4, <1>5 DEF Trees
<1> QED
  BY <1>1, <1>6 DEF TreeInv

LEMMA StepTrees ==
  ASSUME IInv, WalkInv, ScopeInv, TreeInv, [Next]_vars
  PROVE  TreeInv'
<1>1. CASE PullAction /\ UNCHANGED <<it, nodes>>
  <2>1. user' \in {"pull", "gone"}
    BY <1>1 DEF PullAction, PullNext, BatchStart, BatchStep, BatchEnd, PullFree, Freed, IInv, BatchOK
  <2> QED
    BY <2>1 DEF TreeInv
<1>2. CASE IterNext
  <2>1. /\ user = "iter" /\ ~ it.exhausted /\ doc' = doc /\ taken' = taken /\ doc \in Documents
        /\ Walks(doc, it, taken) /\ Trees(doc, it, nodes, taken)
    BY <1>2, QueueFacts DEF IterNext, pullVars, WalkInv, IInv, TreeInv
  <2>2. PICK w : w = Released([it |-> it, nodes |-> nodes])
    OBVIOUS
  <2>3. PICK v, M : v = it' /\ M = nodes'
    OBVIOUS
  <2>4. v = [w.it EXCEPT !.running = TRUE] /\ M = w.nodes
    BY <1>2, <2>2, <2>3 DEF IterNext
  <2>5. Trees(doc, v, M, taken)
    BY <2>1, <2>2, <2>4, TreesNext
  <2>6. Trees(doc', it', nodes', taken')
    BY <2>1, <2>3, <2>5
  <2> QED
    BY <2>6 DEF TreeInv
<1>3. CASE IterEvent
  <2>1. EventStep /\ Scoped(doc, it, taken) /\ Trees(doc, it, nodes, taken)
    BY <1>3, EventTaken DEF EventStep, ScopeInv, TreeInv
  <2>2. PICK v, M : v = it' /\ M = nodes'
    OBVIOUS
  <2>3. CASE doc[taken + 1].type \in Last1
    <3>1. Over(doc, v)
      BY <2>1, <2>2, <2>3, WalkEvent DEF EventStep
    <3> QED
      BY <2>2, <3>1 DEF TreeInv, Over
  <2>4. CASE doc[taken + 1].type \notin Last1
    <3>1. Trees(doc, v, M, taken + 1)
      BY <2>1, <2>2, <2>4, TreesEvent DEF EventStep
    <3>2. Trees(doc', it', nodes', taken')
      BY <2>1, <2>2, <3>1 DEF EventStep
    <3> QED
      BY <3>2 DEF TreeInv
  <2> QED
    BY <2>3, <2>4
<1>4. CASE IterFree
  <2>1. user' = "gone"
    BY <1>4 DEF IterFree, Freed
  <2> QED
    BY <2>1 DEF TreeInv
<1>5. CASE UNCHANGED vars
  <2>1. user' = user /\ doc' = doc /\ taken' = taken /\ it' = it /\ nodes' = nodes
    BY <1>5 DEF vars, pullVars
  <2> QED
    BY <2>1 DEF TreeInv
<1> QED
  BY <1>1, <1>2, <1>3, <1>4, <1>5 DEF Next

LEMMA TreesHold == Spec => [](IInv /\ WalkInv /\ ScopeInv /\ TreeInv)
<1>1. Init => IInv /\ WalkInv /\ ScopeInv /\ TreeInv
  BY InitIInv, InitWalk, InitScope, InitTrees
<1>2. IInv /\ WalkInv /\ ScopeInv /\ TreeInv /\ [Next]_vars => (IInv /\ WalkInv /\ ScopeInv /\ TreeInv)'
  BY StepIInv, StepWalk, StepScope, StepTrees
<1> QED
  BY <1>1, <1>2, PTL DEF Spec

(* An element below one that has just ended has ended before, or is it.      *)
LEMMA EndInside ==
  ASSUME NEW d \in Documents, NEW t \in 0 .. Len(d), NEW s \in 1 .. t, IsStart(d, s), EndOf(d, s) = t,
         NEW e \in s .. t, IsStart(d, e)
  PROVE  e \in 1 .. t /\ EndOf(d, e) <= t /\ KidsOf(d, e) = KidsAt(d, Places(d, e, t))
<1>1. Len(d) \in Nat /\ t \in Nat /\ e \in 1 .. Len(d) /\ s \in 1 .. Len(d) /\ e \in 1 .. t /\ t \in 1 .. Len(d)
      /\ e \in 0 .. Len(d) /\ s \in 0 .. Len(d)
  BY DocShape
<1>2. DepthIn(d, t) = DepthIn(d, s) - 1 /\ d[t].type = "end" /\ DepthIn(d, s) \in Nat
  BY EndDepth
<1>3. /\ EndOf(d, s) \in s + 1 .. Len(d) + 1
      /\ \A j \in s .. EndOf(d, s) - 1 : DepthIn(d, j) >= DepthIn(d, s)
  BY <1>1, EndFacts
<1>4. e # t
  BY <1>2 DEF IsStart
<1>5. DepthIn(d, e) >= DepthIn(d, s) /\ DepthIn(d, e) \in Nat
  <2>1. e \in s .. EndOf(d, s) - 1
    BY <1>1, <1>4
  <2> QED
    BY <1>1, <1>3, <2>1, DepthNat
<1>6. /\ EndOf(d, e) \in e + 1 .. Len(d) + 1
      /\ \A j \in e .. EndOf(d, e) - 1 : DepthIn(d, j) >= DepthIn(d, e)
  BY <1>1, EndFacts
<1>7. EndOf(d, e) <= t
  <2>1. SUFFICES ASSUME ~ (EndOf(d, e) <= t) PROVE FALSE
    OBVIOUS
  <2>2. t \in e .. EndOf(d, e) - 1
    BY <1>1, <1>6, <2>1
  <2>3. DepthIn(d, t) >= DepthIn(d, e)
    BY <1>6, <2>2
  <2> QED
    BY <1>2, <1>5, <2>3
<1>8. PICK n \in Nat : n = EndOf(d, e) /\ n <= t /\ e < n
  BY <1>1, <1>6, <1>7
<1>9. \A j : j \in Places(d, e, t) <=> j \in {k \in e + 1 .. EndOf(d, e) - 1 : IsKid(d, e, k)}
  <2>1. \A j : j \in e + 1 .. t /\ j < n <=> j \in e + 1 .. n - 1
    BY <1>1, <1>8
  <2> QED
    BY <1>8, <2>1 DEF Places
<1>10. Places(d, e, t) = {k \in e + 1 .. EndOf(d, e) - 1 : IsKid(d, e, k)}
  BY <1>9
<1> QED
  BY <1>1, <1>7, <1>10 DEF KidsOf

(* An element that has been handed out is alive and complete until the next  *)
(* call, with all below it (iterparse.c: 138-164, 232-422), for well formed  *)
(* documents, slices and rings.                                              *)
THEOREM TreesComplete == Spec => []YieldsTrees
<1>1. IInv /\ WalkInv /\ TreeInv => YieldsTrees
  <2> SUFFICES ASSUME IInv, WalkInv, TreeInv, it.done # 0 PROVE YieldsTrees
    BY DEF YieldsTrees
  <2>0. PICK d \in Documents : d = doc
    BY QueueFacts DEF IInv
  <2>1. user = "iter" /\ ~ it.exhausted
    BY DEF WalkInv, Over
  <2>2. PICK i, t, s, N : i = it /\ t = taken /\ s = it.done /\ N = nodes
    OBVIOUS
  <2>3. Walks(d, i, t) /\ Trees(d, i, N, t) /\ s = i.done /\ i.done # 0
    BY <2>0, <2>1, <2>2 DEF WalkInv, TreeInv
  <2>4. t \in 0 .. Len(d) - 1 /\ i.mode \in {"top", "full"} /\ JustEnded(d, i.mode, s, i.doneDepth, t)
    BY <2>3 DEF Walks, Typed
  <2>5. s \in 1 .. t /\ IsStart(d, s) /\ EndOf(d, s) = t /\ (i.mode = "top" => DepthIn(d, s) = 2)
        /\ Len(d) \in Nat /\ t \in 0 .. Len(d)
    BY <2>4, DocShape DEF JustEnded
  <2>6. \A e : Visible(d, i.mode, s, e, t) => NodeOK(d, N, e, KidsAt(d, Places(d, e, t)))
    BY <2>3 DEF Trees
  <2>7. ASSUME NEW e \in s .. t, IsStart(d, e)
        PROVE  /\ e \in DOMAIN N /\ N[e].kids = KidsOf(d, e) /\ N[e].attrs = d[e].attrs
               /\ DeclsOf(d, e) \subseteq N[e].decls /\ N[e].decls \subseteq ScopeOf(d, e)
    <3>1. e \in 1 .. t /\ KidsOf(d, e) = KidsAt(d, Places(d, e, t))
      BY <2>5, <2>7, EndInside
    <3>2. s \in 1 .. e
      BY <2>5, <2>7
    <3>3. Visible(d, i.mode, s, e, t)
      BY <2>4, <2>5, <2>7, <3>1, <3>2 DEF Visible
    <3>4. NodeOK(d, N, e, KidsOf(d, e))
      BY <2>6, <3>1, <3>3
    <3>5. N[e].kids = KidsOf(d, e) /\ N[e].attrs = d[e].attrs
      BY <3>4 DEF NodeOK
    <3> QED
      BY <3>4, <3>5 DEF NodeOK
  <2> QED
    BY <2>0, <2>2, <2>5, <2>7 DEF YieldsTrees
<1> QED
  BY <1>1, TreesHold, PTL
===============================================================================
