--------------------------- MODULE PullParserProofs ---------------------------
(* Theorems of PullParser under the program and under the iterator, for any  *)
(* documents, ring, blocks and batches: every event is in one place and      *)
(* freed once, a batch stays readable, and its attributes are the right ones. *)
EXTENDS IterParse, FiniteSetTheorems, ChainsProofs

(* A ring of m slots; places count from its head.                            *)
Ring(r, m) ==
  /\ m >= 2
  /\ r \in [slots : [0 .. m - 1 -> Nat], head : 0 .. m - 1, tail : 0 .. m - 1]
Used(r, m) == IF r.tail >= r.head THEN r.tail - r.head ELSE r.tail - r.head + m
Place(r, m, i) == IF r.head + i < m THEN r.head + i ELSE r.head + i - m
Next1(k, m) == IF k + 1 < m THEN k + 1 ELSE 0

LEMMA Wrapped ==
  ASSUME NEW m \in Nat, m # 0, NEW x \in 0 .. m + m - 1
  PROVE  x % m = IF x < m THEN x ELSE x - m
<1>1. CASE x < m
  BY <1>1
<1>2. CASE x >= m
  <2>1. x - m \in 0 .. m - 1
    BY <1>2
  <2>2. PICK y \in 0 .. m - 1 : x = y + m
    BY <1>2, <2>1
  <2>3. (y + m) % m = y
    BY <2>2
  <2> QED
    BY <1>2, <2>2, <2>3
<1> QED
  BY <1>1, <1>2

LEMMA RingFacts ==
  ASSUME NEW r, NEW m \in Nat, Ring(r, m)
  PROVE  /\ CapOf(r) = m /\ DOMAIN r.slots = 0 .. m - 1
         /\ UsedOf(r) = Used(r, m) /\ Used(r, m) \in 0 .. m - 1
         /\ \A i \in 0 .. m - 1 : (r.head + i) % m = Place(r, m, i) /\ Place(r, m, i) \in 0 .. m - 1
         /\ Place(r, m, Used(r, m)) = r.tail
         /\ \A k \in 0 .. m - 1 : (k + 1) % m = Next1(k, m) /\ Next1(k, m) \in 0 .. m - 1
<1>1. /\ m \in Nat /\ m >= 2 /\ r.head \in 0 .. m - 1 /\ r.tail \in 0 .. m - 1
      /\ r.slots \in [0 .. m - 1 -> Nat] /\ DOMAIN r.slots = 0 .. m - 1
  BY DEF Ring
<1> m # 0
  BY <1>1
<1>2. CapOf(r) = m
  BY <1>1, FS_Interval DEF CapOf
<1>3. (r.tail + m - r.head) % m = Used(r, m) /\ Used(r, m) \in 0 .. m - 1
  <2>1. PICK x \in 0 .. m + m - 1 : x = r.tail + m - r.head
    BY <1>1
  <2>2. x % m = IF x < m THEN x ELSE x - m
    BY m # 0, <2>1, Wrapped
  <2>3. (IF x < m THEN x ELSE x - m) = Used(r, m) /\ Used(r, m) \in 0 .. m - 1
    BY <1>1, <2>1 DEF Used
  <2>4. (r.tail + m - r.head) % m = x % m
    BY <2>1, Zenon
  <2> QED
    BY <2>2, <2>3, <2>4, Zenon
<1>4. ASSUME NEW i \in 0 .. m - 1
      PROVE  (r.head + i) % m = Place(r, m, i) /\ Place(r, m, i) \in 0 .. m - 1
  <2>1. PICK x \in 0 .. m + m - 1 : x = r.head + i
    BY <1>1
  <2>2. x % m = IF x < m THEN x ELSE x - m
    BY m # 0, <2>1, Wrapped
  <2>3. (IF x < m THEN x ELSE x - m) = Place(r, m, i) /\ Place(r, m, i) \in 0 .. m - 1
    BY <1>1, <1>4, <2>1 DEF Place
  <2>4. (r.head + i) % m = x % m
    BY <2>1, Zenon
  <2> QED
    BY <2>2, <2>3, <2>4, Zenon
<1>5. ASSUME NEW k \in 0 .. m - 1
      PROVE  (k + 1) % m = Next1(k, m) /\ Next1(k, m) \in 0 .. m - 1
  <2>1. PICK x \in 0 .. m + m - 1 : x = k + 1
    BY <1>1
  <2>2. x % m = IF x < m THEN x ELSE x - m
    BY m # 0, <2>1, Wrapped
  <2>3. (IF x < m THEN x ELSE x - m) = Next1(k, m) /\ Next1(k, m) \in 0 .. m - 1
    BY <1>1, <1>5, <2>1 DEF Next1
  <2>4. (k + 1) % m = x % m
    BY <2>1, Zenon
  <2> QED
    BY <2>2, <2>3, <2>4, Zenon
<1>6. Place(r, m, Used(r, m)) = r.tail
  BY <1>1 DEF Place, Used
<1> QED
  BY <1>1, <1>2, <1>3, <1>4, <1>5, <1>6 DEF UsedOf

(* The arithmetic of head and tail.                                          *)
Dist(h, t, m) == IF t >= h THEN t - h ELSE t - h + m
Off(h, i, m) == IF h + i < m THEN h + i ELSE h + i - m

LEMMA TailMoves ==
  ASSUME NEW m \in Nat, NEW h \in 0 .. m - 1, NEW t \in 0 .. m - 1, Dist(h, t, m) + 1 < m
  PROVE  /\ Dist(h, Next1(t, m), m) = Dist(h, t, m) + 1
         /\ \A i \in 0 .. Dist(h, t, m) - 1 : Off(h, i, m) # t
BY DEF Dist, Off, Next1

LEMMA HeadMoves ==
  ASSUME NEW m \in Nat, NEW h \in 0 .. m - 1, NEW t \in 0 .. m - 1, Dist(h, t, m) > 0
  PROVE  /\ Dist(Next1(h, m), t, m) = Dist(h, t, m) - 1
         /\ \A i \in 0 .. m - 2 : /\ Off(Next1(h, m), i, m) = Off(h, i + 1, m)
                                  /\ Off(h, i + 1, m) # h
BY DEF Dist, Off, Next1

LEMMA Fields ==
  ASSUME NEW r, NEW m
  PROVE  Used(r, m) = Dist(r.head, r.tail, m) /\ \A i : Place(r, m, i) = Off(r.head, i, m)
BY DEF Used, Place, Dist, Off

(* The ring holds the events a + 1 .. b in their order.                      *)
Order(r, m, a, b) ==
  /\ Ring(r, m) /\ Used(r, m) = b - a
  /\ \A i \in 0 .. b - a - 1 : r.slots[Place(r, m, i)] = a + i + 1
RingHolds(r, a, b) == \E m \in Nat : Order(r, m, a, b)

LEMMA HoldsQueue ==
  ASSUME NEW r, NEW a \in Nat, NEW b \in Nat, RingHolds(r, a, b)
  PROVE  Queued(r) = [i \in 1 .. b - a |-> a + i] /\ UsedOf(r) = b - a
<1>1. PICK m \in Nat : Order(r, m, a, b)
  BY DEF RingHolds
<1>2. /\ UsedOf(r) = b - a /\ CapOf(r) = m /\ Used(r, m) \in 0 .. m - 1 /\ m \in Nat
      /\ r.head \in 0 .. m - 1 /\ Used(r, m) = b - a
  BY <1>1, RingFacts DEF Order, Ring
<1>3. ASSUME NEW i \in 1 .. b - a PROVE r.slots[(r.head + i - 1) % m] = a + i
  <2>1. PICK j \in 0 .. m - 1 : j = i - 1 /\ j \in 0 .. b - a - 1 /\ i = j + 1
    BY <1>2
  <2>2. r.head + i - 1 = r.head + j
    BY <1>2, <2>1
  <2>3. (r.head + j) % m = Place(r, m, j)
    BY <1>1, <2>1, RingFacts DEF Order
  <2>4. r.slots[Place(r, m, j)] = a + j + 1
    BY <1>1, <2>1 DEF Order
  <2> QED
    BY <2>1, <2>2, <2>3, <2>4
<1> QED
  BY <1>2, <1>3 DEF Queued

LEMMA HoldsUsed ==
  ASSUME NEW r, NEW a \in Nat, NEW b \in Nat, RingHolds(r, a, b)
  PROVE  UsedOf(r) = b - a
BY HoldsQueue

(* Pushing into a ring with room, and doubling one without.                  *)
Put(r, e) == [r EXCEPT !.slots[r.tail] = e, !.tail = (@ + 1) % CapOf(r)]
Popped(r) == [r EXCEPT !.slots[r.head] = 0, !.head = (@ + 1) % CapOf(r)]

LEMMA PushAt ==
  ASSUME NEW m \in Nat, NEW r, NEW a \in Nat, NEW b \in Nat, a <= b, Order(r, m, a, b), b - a + 1 < m
  PROVE  Order(Put(r, b + 1), m, a, b + 1)
<1>0. PICK s : s = Put(r, b + 1)
  OBVIOUS
<1>1. /\ Ring(r, m) /\ m >= 2 /\ r.head \in 0 .. m - 1 /\ r.tail \in 0 .. m - 1
      /\ r.slots \in [0 .. m - 1 -> Nat]
      /\ r \in [slots : [0 .. m - 1 -> Nat], head : 0 .. m - 1, tail : 0 .. m - 1]
      /\ Used(r, m) = b - a
  BY DEF Order, Ring
<1>2. (r.tail + 1) % CapOf(r) = Next1(r.tail, m) /\ Next1(r.tail, m) \in 0 .. m - 1
  BY <1>1, RingFacts
<1>3. /\ s \in [slots : [0 .. m - 1 -> Nat], head : 0 .. m - 1, tail : 0 .. m - 1]
      /\ s.slots = [r.slots EXCEPT ![r.tail] = b + 1] /\ s.head = r.head
      /\ s.tail = Next1(r.tail, m)
  <2>1. s = [slots |-> [r.slots EXCEPT ![r.tail] = b + 1], head |-> r.head, tail |-> Next1(r.tail, m)]
    BY <1>0, <1>1, <1>2 DEF Put
  <2>2. [r.slots EXCEPT ![r.tail] = b + 1] \in [0 .. m - 1 -> Nat]
    BY <1>1
  <2> QED
    BY <1>1, <1>2, <2>1, <2>2
<1>6. Dist(r.head, r.tail, m) = b - a
  BY <1>1, Fields
<1>7. /\ Dist(r.head, Next1(r.tail, m), m) = Dist(r.head, r.tail, m) + 1
      /\ \A i \in 0 .. Dist(r.head, r.tail, m) - 1 : Off(r.head, i, m) # r.tail
  BY <1>1, <1>6, TailMoves
<1>4. Used(s, m) = b + 1 - a
  <2>1. Used(s, m) = Dist(r.head, Next1(r.tail, m), m)
    BY <1>3, Fields
  <2> QED
    BY <1>6, <1>7, <2>1
<1>5. ASSUME NEW i \in 0 .. b + 1 - a - 1 PROVE s.slots[Place(s, m, i)] = a + i + 1
  <2>0. i \in 0 .. m - 1
    BY <1>5
  <2>1. Place(s, m, i) = Place(r, m, i) /\ Place(r, m, i) \in 0 .. m - 1
    BY <1>1, <1>3, <2>0, RingFacts DEF Place
  <2>2. CASE i = b - a
    <3>1. Place(r, m, i) = r.tail
      BY <1>1, <2>2, RingFacts
    <3>2. a + i + 1 = b + 1
      BY <2>2
    <3> QED
      BY <1>1, <1>3, <2>1, <3>1, <3>2
  <2>3. CASE i # b - a
    <3>1. i \in 0 .. b - a - 1
      BY <1>5, <2>3
    <3>2. Place(r, m, i) # r.tail
      BY <1>6, <1>7, <3>1, Fields
    <3>3. r.slots[Place(r, m, i)] = a + i + 1
      BY <3>1 DEF Order
    <3> QED
      BY <1>1, <1>3, <2>1, <3>2, <3>3
  <2> QED
    BY <2>2, <2>3
<1>8. Ring(s, m)
  BY <1>1, <1>3 DEF Ring
<1> QED
  BY <1>0, <1>4, <1>5, <1>8 DEF Order

LEMMA Doubled ==
  ASSUME NEW m \in Nat, NEW r, NEW a \in Nat, NEW b \in Nat, a <= b, Order(r, m, a, b)
  PROVE  Order([slots |-> [i \in 0 .. 2 * CapOf(r) - 1 |-> IF i < UsedOf(r) THEN Queued(r)[i + 1] ELSE 0],
                head |-> 0, tail |-> UsedOf(r)], m + m, a, b)
<1> DEFINE s == [slots |-> [i \in 0 .. 2 * CapOf(r) - 1 |-> IF i < UsedOf(r) THEN Queued(r)[i + 1] ELSE 0],
                 head |-> 0, tail |-> UsedOf(r)]
<1>1. m >= 2 /\ CapOf(r) = m /\ UsedOf(r) = b - a /\ b - a \in 0 .. m - 1
  BY RingFacts DEF Order, Ring
<1>2. Queued(r) = [i \in 1 .. b - a |-> a + i]
  BY HoldsQueue DEF RingHolds
<1>3. PICK f \in [0 .. m + m - 1 -> Nat] :
        f = [i \in 0 .. m + m - 1 |-> IF i < b - a THEN a + i + 1 ELSE 0]
  <2>1. [i \in 0 .. m + m - 1 |-> IF i < b - a THEN a + i + 1 ELSE 0] \in [0 .. m + m - 1 -> Nat]
    OBVIOUS
  <2> QED
    BY <2>1
<1>4. s = [slots |-> f, head |-> 0, tail |-> b - a]
  <2>1. \A i \in 0 .. m + m - 1 : i < b - a => Queued(r)[i + 1] = a + i + 1
    BY <1>1, <1>2
  <2>2. 2 * CapOf(r) - 1 = m + m - 1
    BY <1>1
  <2> QED
    BY <1>1, <1>3, <2>1, <2>2
<1>5. /\ s \in [slots : [0 .. m + m - 1 -> Nat], head : 0 .. m + m - 1, tail : 0 .. m + m - 1]
      /\ s.slots = f /\ s.head = 0 /\ s.tail = b - a
  <2>1. b - a \in 0 .. m + m - 1 /\ 0 \in 0 .. m + m - 1
    BY <1>1
  <2> HIDE DEF s
  <2> QED
    BY <1>4, <2>1
<1> HIDE DEF s
<1>6. Ring(s, m + m)
  BY <1>1, <1>5 DEF Ring
<1>7. Used(s, m + m) = b - a
  BY <1>1, <1>5 DEF Used
<1>8. ASSUME NEW i \in 0 .. b - a - 1 PROVE s.slots[Place(s, m + m, i)] = a + i + 1
  <2>1. Place(s, m + m, i) = i /\ i \in 0 .. m + m - 1 /\ i < b - a
    BY <1>1, <1>5, <1>8 DEF Place
  <2> QED
    BY <1>3, <1>5, <2>1
<1> QED
  BY <1>6, <1>7, <1>8 DEF Order, s

LEMMA PushHolds ==
  ASSUME NEW r, NEW a \in Nat, NEW b \in Nat, a <= b, RingHolds(r, a, b)
  PROVE  RingHolds(Pushed(r, b + 1), a, b + 1)
<1>1. PICK m \in Nat : Order(r, m, a, b)
  BY DEF RingHolds
<1>2. m >= 2 /\ CapOf(r) = m /\ UsedOf(r) = b - a /\ b - a \in 0 .. m - 1
  BY <1>1, RingFacts DEF Order, Ring
<1>3. CASE UsedOf(r) + 1 < CapOf(r)
  <2>1. Pushed(r, b + 1) = Put(r, b + 1)
    BY <1>3 DEF Pushed, Put
  <2> QED
    BY <1>1, <1>2, <1>3, <2>1, PushAt DEF RingHolds
<1>4. CASE ~ (UsedOf(r) + 1 < CapOf(r))
  <2> DEFINE g == [slots |-> [i \in 0 .. 2 * CapOf(r) - 1 |-> IF i < UsedOf(r) THEN Queued(r)[i + 1] ELSE 0],
                   head |-> 0, tail |-> UsedOf(r)]
  <2>1. Pushed(r, b + 1) = Put(g, b + 1)
    BY <1>4 DEF Pushed, Put
  <2>2. Order(g, m + m, a, b)
    BY <1>1, Doubled
  <2> HIDE DEF g
  <2>3. b - a + 1 < m + m /\ m + m \in Nat
    BY <1>2
  <2> QED
    BY <2>1, <2>2, <2>3, PushAt DEF RingHolds
<1> QED
  BY <1>3, <1>4

(* The event at the head is the oldest; without it the rest is in order.     *)
LEMMA PopHolds ==
  ASSUME NEW r, NEW a \in Nat, NEW b \in Nat, a < b, RingHolds(r, a, b)
  PROVE  /\ r.slots[r.head] = a + 1
         /\ RingHolds(Popped(r), a + 1, b)
<1>11. PICK s : s = Popped(r)
  OBVIOUS
<1>0. PICK m \in Nat : Order(r, m, a, b)
  BY DEF RingHolds
<1>1. /\ Ring(r, m) /\ m >= 2 /\ r.head \in 0 .. m - 1 /\ r.tail \in 0 .. m - 1
      /\ r.slots \in [0 .. m - 1 -> Nat]
      /\ r \in [slots : [0 .. m - 1 -> Nat], head : 0 .. m - 1, tail : 0 .. m - 1]
      /\ Used(r, m) = b - a /\ b - a \in 0 .. m - 1
  BY <1>0, RingFacts DEF Order, Ring
<1>2. (r.head + 1) % CapOf(r) = Next1(r.head, m) /\ Next1(r.head, m) \in 0 .. m - 1
  BY <1>1, RingFacts
<1>3. /\ s \in [slots : [0 .. m - 1 -> Nat], head : 0 .. m - 1, tail : 0 .. m - 1]
      /\ s.slots = [r.slots EXCEPT ![r.head] = 0] /\ s.tail = r.tail
      /\ s.head = Next1(r.head, m)
  <2>1. s = [slots |-> [r.slots EXCEPT ![r.head] = 0], head |-> Next1(r.head, m), tail |-> r.tail]
    BY <1>11, <1>1, <1>2 DEF Popped
  <2>2. [r.slots EXCEPT ![r.head] = 0] \in [0 .. m - 1 -> Nat]
    BY <1>1
  <2> QED
    BY <1>1, <1>2, <2>1, <2>2
<1>6. Dist(r.head, r.tail, m) = b - a
  BY <1>1, Fields
<1>7. /\ Dist(Next1(r.head, m), r.tail, m) = Dist(r.head, r.tail, m) - 1
      /\ \A i \in 0 .. m - 2 : /\ Off(Next1(r.head, m), i, m) = Off(r.head, i + 1, m)
                               /\ Off(r.head, i + 1, m) # r.head
  <2>1. b - a > 0
    OBVIOUS
  <2> QED
    BY <1>1, <1>6, <2>1, HeadMoves
<1>4. Used(s, m) = b - (a + 1)
  <2>1. Used(s, m) = Dist(Next1(r.head, m), r.tail, m)
    BY <1>3, Fields
  <2> QED
    BY <1>6, <1>7, <2>1
<1>5. ASSUME NEW i \in 0 .. b - (a + 1) - 1 PROVE s.slots[Place(s, m, i)] = (a + 1) + i + 1
  <2>0. i \in 0 .. m - 1 /\ i + 1 \in 0 .. m - 1 /\ i + 1 \in 0 .. b - a - 1
    <3>1. b - a \in 0 .. m - 1
      BY <1>1
    <3> QED
      BY <1>5, <3>1
  <2>1. Place(s, m, i) = Place(r, m, i + 1) /\ Place(r, m, i + 1) # r.head
    <3>1. i \in 0 .. m - 2
      BY <2>0
    <3>2. Place(s, m, i) = Off(Next1(r.head, m), i, m) /\ Place(r, m, i + 1) = Off(r.head, i + 1, m)
      BY <1>3, Fields
    <3> QED
      BY <1>7, <3>1, <3>2
  <2>2. Place(r, m, i + 1) \in 0 .. m - 1
    BY <1>1, <2>0, RingFacts
  <2>3. r.slots[Place(r, m, i + 1)] = a + (i + 1) + 1
    BY <1>0, <2>0 DEF Order
  <2> QED
    BY <1>1, <1>3, <2>1, <2>2, <2>3
<1>8. r.slots[r.head] = a + 1
  <2>1. 0 \in 0 .. b - a - 1
    BY <1>1
  <2>2. Place(r, m, 0) = r.head
    BY <1>1 DEF Place
  <2>3. r.slots[Place(r, m, 0)] = a + 0 + 1
    BY <1>0, <2>1 DEF Order
  <2> QED
    BY <2>2, <2>3
<1>9. Ring(s, m)
  BY <1>1, <1>3 DEF Ring
<1>10. RingHolds(s, a + 1, b)
  BY <1>4, <1>5, <1>9 DEF Order, RingHolds
<1> QED
  BY <1>11, <1>8, <1>10

(* The events that one feed pushes, one after the other.                     *)
Feeds(g, r, c, n) == g = [k \in 0 .. n |-> IF k = 0 THEN r ELSE Pushed(g[k - 1], c + k)]

LEMMA FeedsNext ==
  ASSUME NEW r, NEW c, NEW n \in Nat, NEW f, Feeds(f, r, c, n)
  PROVE  \E g : Feeds(g, r, c, n + 1)
<1> DEFINE step(k) == IF k = 0 THEN r ELSE Pushed(f[k - 1], c + k)
           g == [k \in 0 .. n + 1 |-> step(k)]
<1>1. f = [k \in 0 .. n |-> step(k)]
  BY DEF Feeds
<1>2. \A k \in 0 .. n : g[k] = f[k]
  <2> HIDE DEF step
  <2> QED
    BY <1>1
<1>3. \A k \in 0 .. n + 1 : k # 0 => k - 1 \in 0 .. n
  OBVIOUS
<1>4. \A k \in 0 .. n + 1 : step(k) = IF k = 0 THEN r ELSE Pushed(g[k - 1], c + k)
  <2> HIDE DEF g
  <2> QED
    BY <1>2, <1>3
<1>5. g = [k \in 0 .. n + 1 |-> IF k = 0 THEN r ELSE Pushed(g[k - 1], c + k)]
  BY <1>4
<1> HIDE DEF g
<1> QED
  BY <1>5 DEF Feeds

LEMMA FeedHolds ==
  ASSUME fed \in Nat, NEW a \in Nat, a <= fed, NEW r, RingHolds(r, a, fed), NEW n \in Nat
  PROVE  RingHolds(PushedNext(r, n), a, fed + n)
<1> DEFINE T == {k \in Nat : \E f : Feeds(f, r, fed, k)}
<1>1. 0 \in T
  <2>1. PICK f : f = [k \in 0 .. 0 |-> r]
    OBVIOUS
  <2>2. f = [k \in 0 .. 0 |-> IF k = 0 THEN r ELSE Pushed(f[k - 1], fed + k)]
    <3>1. \A k \in 0 .. 0 : k = 0
      OBVIOUS
    <3> QED
      BY <2>1, <3>1, Zenon
  <2> QED
    BY <2>2 DEF Feeds
<1>2. \A k \in 0 .. n - 1 : k \in T => k + 1 \in T
  BY FeedsNext
<1>3. n \in T
  <2> HIDE DEF T
  <2> QED
    BY <1>1, <1>2, UpTo, n \in 0 .. n
<1> DEFINE w == CHOOSE f : Feeds(f, r, fed, n)
<1>4. Feeds(w, r, fed, n)
  BY <1>3
<1>5. PushedNext(r, n) = w[n]
  BY DEF PushedNext, Feeds
<1>6. w[0] = r /\ \A k \in 1 .. n : w[k] = Pushed(w[k - 1], fed + k)
  <2> HIDE DEF w
  <2>1. PICK f : f = w /\ Feeds(f, r, fed, n)
    BY <1>4
  <2>2. \A k \in 0 .. n : f[k] = IF k = 0 THEN r ELSE Pushed(f[k - 1], fed + k)
    BY <2>1 DEF Feeds
  <2>3. 0 \in 0 .. n /\ \A k \in 1 .. n : k \in 0 .. n /\ k # 0
    OBVIOUS
  <2> QED
    BY <2>1, <2>2, <2>3
<1> HIDE DEF w
<1> DEFINE In == {k \in Nat : RingHolds(w[k], a, fed + k)}
<1>7. 0 \in In
  BY <1>6
<1>8. ASSUME NEW k \in 0 .. n - 1, k \in In PROVE k + 1 \in In
  <2>1. k + 1 \in 1 .. n /\ (k + 1) - 1 = k /\ fed + k \in Nat /\ a <= fed + k
    OBVIOUS
  <2>2. w[k + 1] = Pushed(w[k], fed + (k + 1))
    BY <1>6, <2>1
  <2>3. fed + (k + 1) = (fed + k) + 1
    OBVIOUS
  <2>4. RingHolds(w[k], a, fed + k)
    BY <1>8
  <2>5. RingHolds(Pushed(w[k], (fed + k) + 1), a, (fed + k) + 1)
    BY <2>1, <2>4, PushHolds
  <2> QED
    BY <2>2, <2>3, <2>5
<1>9. n \in In
  <2> HIDE DEF In
  <2> QED
    BY <1>7, <1>8, UpTo, n \in 0 .. n
<1> QED
  BY <1>5, <1>9

-------------------------------------------------------------------------------
(* Every event is in one place.                                              *)
FreeCount(e) == IF \/ e > fed
                   \/ user # "gone" /\ (e > taken \/ (e = current.ev /\ ~ current.staged))
                THEN 0 ELSE 1
QueueOK ==
  /\ doc \in Documents /\ fed \in 0 .. Len(doc) /\ taken \in 0 .. fed
  /\ source = "memory" => fed \in {0, Len(doc)}
  /\ user # "gone" => RingHolds(ring, taken, fed)
  /\ current \in [ev : 0 .. taken, staged : BOOLEAN]
  /\ releases \in [DOMAIN doc -> Nat]
  /\ \A e \in DOMAIN doc : releases[e] = FreeCount(e)

LEMMA DocFacts ==
  ASSUME NEW d \in Documents
  PROVE  /\ Len(d) \in Nat /\ Len(d) # 0 /\ DOMAIN d = 1 .. Len(d)
         /\ \A e \in 1 .. Len(d) : /\ d[e].type \in EventTypes
                                  /\ d[e].strings \in Seq(STRING) /\ d[e].attrs \in Seq(STRING)
<1> DEFINE R == [type : EventTypes, strings : Seq(STRING), attrs : Seq(STRING), prefix : STRING]
<1>1. d \in Seq(R) /\ d # <<>>
  BY PullAssumption
<1>2. Len(d) \in Nat /\ Len(d) # 0 /\ DOMAIN d = 1 .. Len(d)
  BY <1>1
<1>3. \A e \in 1 .. Len(d) : d[e] \in R
  <2> HIDE DEF R
  <2> QED
    BY <1>1
<1>4. ASSUME NEW e \in 1 .. Len(d)
      PROVE  d[e].type \in EventTypes /\ d[e].strings \in Seq(STRING) /\ d[e].attrs \in Seq(STRING)
  <2>1. d[e] \in R
    BY <1>3, <1>4
  <2> QED
    BY <2>1
<1> QED
  BY <1>2, <1>4, Zenon

LEMMA QueueInit ==
  ASSUME PullInit PROVE QueueOK
<1>1. doc \in Documents /\ Len(doc) \in Nat /\ DOMAIN doc = 1 .. Len(doc) /\ fed = 0 /\ taken = 0
  BY DocFacts DEF PullInit
<1>2. RingHolds(ring, 0, 0)
  <2>1. RingCap \in Nat /\ RingCap >= 2
    BY PullAssumption
  <2>2. [i \in 0 .. RingCap - 1 |-> 0] \in [0 .. RingCap - 1 -> Nat]
    OBVIOUS
  <2>3. ring \in [slots : [0 .. RingCap - 1 -> Nat], head : 0 .. RingCap - 1, tail : 0 .. RingCap - 1]
        /\ ring.head = 0 /\ ring.tail = 0
    BY <2>1, <2>2 DEF PullInit
  <2>4. Order(ring, RingCap, 0, 0)
    BY <2>1, <2>3 DEF Order, Ring, Used
  <2> QED
    BY <2>1, <2>4 DEF RingHolds
<1>3. current \in [ev : 0 .. taken, staged : BOOLEAN]
  BY <1>1 DEF PullInit, NoCurrent
<1>4. releases \in [DOMAIN doc -> Nat] /\ \A e \in DOMAIN doc : releases[e] = 0
  BY DEF PullInit
<1>5. \A e \in DOMAIN doc : FreeCount(e) = 0
  BY <1>1 DEF FreeCount
<1> QED
  BY <1>1, <1>2, <1>3, <1>4, <1>5 DEF QueueOK

(* A call takes the next event, or there was none and the current one stays. *)
Kept == IF current.staged THEN NoCurrent ELSE current
Takes == taken' = taken + 1 /\ current' = [ev |-> taken + 1, staged |-> FALSE]
Finds == taken' = taken /\ current' = Kept

FedBy(n, r) ==
  /\ fed + n <= Len(doc) /\ (source = "memory" => fed + n \in {0, Len(doc)})
  /\ fed' = fed + n /\ RingHolds(r, taken, fed + n)
  /\ IF UsedOf(r) = 0 THEN current' = Kept /\ UNCHANGED <<taken, ring, releases>>
     ELSE /\ releases' = Freeing(Kept, releases)
          /\ current' = [ev |-> r.slots[r.head], staged |-> FALSE]
          /\ ring' = Popped(r) /\ taken' = taken + 1

LEMMA AdvanceFeeds ==
  ASSUME QueueOK, user # "gone", Advance
  PROVE  \E n \in Nat : \E r : FedBy(n, r)
<1>1. /\ Len(doc) \in Nat /\ fed \in Nat /\ fed <= Len(doc) /\ taken \in Nat /\ taken <= fed
      /\ RingHolds(ring, taken, fed)
      /\ source = "memory" => fed \in {0, Len(doc)}
  BY DocFacts DEF QueueOK
<1> DEFINE idle == UsedOf(ring) = 0 /\ fed < Len(doc)
<1>2. PICK n \in IF ~idle THEN {0} ELSE IF source = "memory" THEN {Len(doc)} ELSE 1 .. Min({SliceEvents, Len(doc) - fed}) :
        /\ fed' = fed + n
        /\ IF UsedOf(PushedNext(ring, n)) = 0
           THEN current' = Kept /\ UNCHANGED <<taken, ring, releases>>
           ELSE /\ releases' = Freeing(Kept, releases)
                /\ current' = [ev |-> PushedNext(ring, n).slots[PushedNext(ring, n).head], staged |-> FALSE]
                /\ ring' = Popped(PushedNext(ring, n)) /\ taken' = taken + 1
  BY DEF Advance, Kept, Popped
<1>3. n \in Nat /\ fed + n <= Len(doc) /\ (source = "memory" => fed + n \in {0, Len(doc)})
  <2>1. CASE ~idle
    BY <1>1, <1>2, <2>1
  <2>2. CASE idle /\ source = "memory"
    BY <1>1, <1>2, <2>2
  <2>3. CASE idle /\ source # "memory"
    <3>1. SliceEvents \in Nat /\ Len(doc) - fed \in Nat
      BY <1>1, PullAssumption
    <3>2. Min({SliceEvents, Len(doc) - fed}) \in Nat /\ Min({SliceEvents, Len(doc) - fed}) <= Len(doc) - fed
      <4>1. \E x \in {SliceEvents, Len(doc) - fed} : \A y \in {SliceEvents, Len(doc) - fed} : x <= y
        BY <3>1
      <4> QED
        BY <3>1, <4>1 DEF Min
    <3>3. n \in 1 .. Min({SliceEvents, Len(doc) - fed})
      BY <1>2, <2>3
    <3> QED
      BY <1>1, <2>3, <3>1, <3>2, <3>3
  <2> QED
    BY <2>1, <2>2, <2>3
<1>4. RingHolds(PushedNext(ring, n), taken, fed + n)
  BY <1>1, <1>3, FeedHolds
<1> QED
  BY <1>2, <1>3, <1>4 DEF FedBy

LEMMA AdvanceKeeps ==
  ASSUME QueueOK, user # "gone", Advance, UNCHANGED <<doc, source, user>>
  PROVE  QueueOK' /\ (Takes \/ Finds)
<1>0. /\ Len(doc) \in Nat /\ fed \in Nat /\ fed <= Len(doc) /\ taken \in Nat /\ taken <= fed
      /\ DOMAIN doc = 1 .. Len(doc) /\ doc \in Documents
      /\ current \in [ev : 0 .. taken, staged : BOOLEAN]
      /\ current.ev \in 0 .. taken /\ current.staged \in BOOLEAN
      /\ releases \in [DOMAIN doc -> Nat] /\ \A e \in DOMAIN doc : releases[e] = FreeCount(e)
  BY DocFacts DEF QueueOK
<1>8. PICK n \in Nat : \E r : FedBy(n, r)
  BY AdvanceFeeds
<1>9. PICK r : FedBy(n, r)
  BY <1>8
<1>1.      /\ fed + n <= Len(doc) /\ (source = "memory" => fed + n \in {0, Len(doc)})
           /\ fed' = fed + n /\ RingHolds(r, taken, fed + n)
           /\ IF UsedOf(r) = 0 THEN current' = Kept /\ UNCHANGED <<taken, ring, releases>>
              ELSE /\ releases' = Freeing(Kept, releases)
                   /\ current' = [ev |-> r.slots[r.head], staged |-> FALSE]
                   /\ ring' = Popped(r) /\ taken' = taken + 1
  BY <1>9 DEF FedBy
<1>10. /\ fed \in Nat /\ taken \in Nat /\ taken <= fed /\ Len(doc) \in Nat /\ fed + n <= Len(doc)
       /\ DOMAIN doc = 1 .. Len(doc) /\ fed' = fed + n /\ n \in Nat
  BY <1>0, <1>1, <1>8
<1>2. UsedOf(r) = fed + n - taken
  <2>1. PICK c \in Nat : c = fed + n
    BY <1>10
  <2>2. RingHolds(r, taken, c) /\ taken \in Nat
    BY <1>1, <1>10, <2>1
  <2>3. UsedOf(r) = c - taken
    BY <2>2, HoldsUsed
  <2> QED
    BY <1>10, <2>1, <2>3
<1>3. Kept \in [ev : 0 .. taken, staged : BOOLEAN] /\ ~ Kept.staged
      /\ \A e \in DOMAIN doc : e = Kept.ev <=> e = current.ev /\ ~ current.staged
  BY <1>0 DEF Kept, NoCurrent
<1>4. CASE UsedOf(r) = 0
  <2>1. current' = Kept /\ taken' = taken /\ ring' = ring /\ releases' = releases
    BY <1>1, <1>4
  <2>2. fed' = fed
    BY <1>2, <1>4, <1>10
  <2>3. \A e \in DOMAIN doc : releases'[e] = FreeCount(e)'
    BY <1>0, <1>3, <2>1, <2>2 DEF FreeCount
  <2> QED
    BY <1>3, <2>1, <2>2, <2>3 DEF QueueOK, Finds
<1>5. CASE UsedOf(r) # 0
  <2>1. /\ releases' = Freeing(Kept, releases) /\ current' = [ev |-> r.slots[r.head], staged |-> FALSE]
        /\ ring' = Popped(r) /\ taken' = taken + 1 /\ fed' = fed + n
    BY <1>1, <1>5
  <2>2. taken < fed + n /\ fed + n \in Nat
    BY <1>2, <1>5, <1>10
  <2>3. r.slots[r.head] = taken + 1 /\ RingHolds(Popped(r), taken + 1, fed + n)
    BY <1>1, <1>10, <2>2, PopHolds
  <2>4. taken + 1 \in DOMAIN doc /\ taken + 1 \in 0 .. fed + n /\ fed + n \in 0 .. Len(doc)
    BY <1>10, <2>2
  <2>5. releases' = IF Kept.ev = 0 THEN releases ELSE [releases EXCEPT ![Kept.ev] = @ + 1]
    BY <1>3, <2>1 DEF Freeing
  <2>6. releases' \in [DOMAIN doc -> Nat]
    BY <1>0, <1>3, <2>5
  <2>7. \A e \in DOMAIN doc : releases'[e] = IF e = Kept.ev THEN releases[e] + 1 ELSE releases[e]
    BY <1>0, <1>3, <2>5
  <2>8. current'.ev = taken + 1 /\ ~ current'.staged /\ current' \in [ev : 0 .. taken + 1, staged : BOOLEAN]
    BY <1>0, <2>1, <2>3
  <2>9. ASSUME NEW e \in DOMAIN doc PROVE releases'[e] = FreeCount(e)'
    <3>1. FreeCount(e)' = IF e > fed + n \/ e > taken + 1 \/ e = taken + 1 THEN 0 ELSE 1
      BY <2>1, <2>8 DEF FreeCount
    <3>2. FreeCount(e) = IF e > fed \/ e > taken \/ e = Kept.ev THEN 0 ELSE 1
      BY <1>3 DEF FreeCount
    <3>3. Kept.ev \in 0 .. taken /\ e \in 1 .. Len(doc)
      BY <1>0, <1>3
    <3>4. releases[e] = FreeCount(e)
      BY <1>0
    <3> QED
      BY <1>0, <2>2, <2>7, <3>1, <3>2, <3>3, <3>4, SMTT(30)
  <2>10. Takes
    BY <2>1, <2>3 DEF Takes
  <2>11. taken' \in 0 .. fed' /\ fed' \in 0 .. Len(doc)
    BY <2>1, <2>4
  <2>12. current' \in [ev : 0 .. taken', staged : BOOLEAN]
    BY <2>1, <2>8
  <2>13. RingHolds(ring', taken', fed')
    BY <2>1, <2>3
  <2> QED
    BY <1>0, <1>1, <2>1, <2>6, <2>9, <2>10, <2>11, <2>12, <2>13 DEF QueueOK
<1> QED
  BY <1>4, <1>5

LEMMA QueueFacts ==
  ASSUME QueueOK
  PROVE  /\ doc \in Documents /\ Len(doc) \in Nat /\ DOMAIN doc = 1 .. Len(doc)
         /\ fed \in Nat /\ fed <= Len(doc) /\ taken \in Nat /\ taken <= fed
         /\ current.ev \in 0 .. taken /\ current.staged \in BOOLEAN
         /\ releases \in [DOMAIN doc -> Nat]
         /\ \A e \in DOMAIN doc : releases[e] = FreeCount(e)
BY DocFacts DEF QueueOK

(* Freeing the current event.                                                *)
LEMMA FreeingOne ==
  ASSUME QueueOK
  PROVE  /\ Freeing(current, releases) \in [DOMAIN doc -> Nat]
         /\ \A e \in DOMAIN doc : Freeing(current, releases)[e] =
              IF e = current.ev /\ ~ current.staged THEN releases[e] + 1 ELSE releases[e]
<1>1. /\ DOMAIN doc = 1 .. Len(doc) /\ Len(doc) \in Nat /\ releases \in [DOMAIN doc -> Nat]
      /\ current.ev \in Nat /\ current.ev <= Len(doc) /\ current.staged \in BOOLEAN
  BY QueueFacts
<1>2. CASE current.ev = 0 \/ current.staged
  BY <1>1, <1>2 DEF Freeing
<1>3. CASE ~ (current.ev = 0 \/ current.staged)
  <2>1. current.ev \in DOMAIN doc
    BY <1>1, <1>3
  <2>2. Freeing(current, releases) = [releases EXCEPT ![current.ev] = @ + 1]
    BY <1>3 DEF Freeing
  <2> QED
    BY <1>1, <1>3, <2>1, <2>2
<1> QED
  BY <1>2, <1>3

LEMMA QueueStart ==
  ASSUME QueueOK, current' = Kept, UNCHANGED <<doc, source, user, fed, taken, ring, releases>>
  PROVE  QueueOK'
<1>1. current'.ev \in 0 .. taken /\ current' \in [ev : 0 .. taken, staged : BOOLEAN]
  BY QueueFacts DEF QueueOK, Kept, NoCurrent
<1>2. ASSUME NEW e \in DOMAIN doc PROVE FreeCount(e)' = FreeCount(e)
  BY <1>2, QueueFacts DEF FreeCount, Kept, NoCurrent
<1> QED
  BY <1>1, <1>2 DEF QueueOK

LEMMA QueueEnd ==
  ASSUME QueueOK, BatchEnd, user # "gone", batch.last \in 0 .. taken
  PROVE  QueueOK'
<1>1. UNCHANGED <<doc, source, user, fed, taken, ring>>
  BY DEF BatchEnd
<1>2. CASE batch.last = 0
  <2>1. current' = current /\ releases' = releases
    BY <1>2 DEF BatchEnd
  <2>2. \A e \in DOMAIN doc : FreeCount(e)' = FreeCount(e)
    BY <1>1, <2>1 DEF FreeCount
  <2> QED
    BY <1>1, <2>1, <2>2 DEF QueueOK
<1>3. CASE batch.last # 0
  <2>1. current' = [ev |-> batch.last, staged |-> TRUE] /\ releases' = Freeing(current, releases)
    BY <1>3 DEF BatchEnd, Repointed
  <2>2. current' \in [ev : 0 .. taken, staged : BOOLEAN] /\ current'.staged
    BY <2>1
  <2>3. releases' \in [DOMAIN doc -> Nat]
    BY <2>1, FreeingOne
  <2>4. ASSUME NEW e \in DOMAIN doc PROVE releases'[e] = FreeCount(e)'
    <3>1. releases'[e] = IF e = current.ev /\ ~ current.staged THEN releases[e] + 1 ELSE releases[e]
      BY <2>1, <2>4, FreeingOne
    <3>2. releases[e] = FreeCount(e) /\ e \in 1 .. Len(doc) /\ e \in Nat
      BY <2>4, QueueFacts
    <3>3. FreeCount(e)' = IF e > fed \/ (user # "gone" /\ e > taken) THEN 0 ELSE 1
      BY <1>1, <2>2 DEF FreeCount
    <3>4. current.ev \in 0 .. taken /\ taken \in Nat /\ fed \in Nat /\ taken <= fed
      BY QueueFacts
    <3> QED
      BY <3>1, <3>2, <3>3, <3>4 DEF FreeCount
  <2> QED
    BY <1>1, <2>2, <2>3, <2>4 DEF QueueOK
<1> QED
  BY <1>2, <1>3

LEMMA QueueFreed ==
  ASSUME QueueOK, Freed, user # "gone"
  PROVE  QueueOK'
<1>1. /\ UNCHANGED <<doc, source, fed, taken, ring>> /\ user' = "gone" /\ current' = NoCurrent
      /\ releases' = [e \in DOMAIN Freeing(current, releases) |->
           Freeing(current, releases)[e] + IF e \in ToSet(Queued(ring)) THEN 1 ELSE 0]
  BY DEF Freed
<1>2. /\ Len(doc) \in Nat /\ DOMAIN doc = 1 .. Len(doc) /\ fed \in Nat /\ fed <= Len(doc)
      /\ taken \in Nat /\ taken <= fed /\ current.ev \in 0 .. taken
  BY QueueFacts
<1>3. ToSet(Queued(ring)) = taken + 1 .. fed
  <2>1. RingHolds(ring, taken, fed)
    BY DEF QueueOK
  <2>2. Queued(ring) = [i \in 1 .. fed - taken |-> taken + i]
    BY <1>2, <2>1, HoldsQueue
  <2>3. \A x \in taken + 1 .. fed : x - taken \in 1 .. fed - taken /\ x = taken + (x - taken)
    BY <1>2
  <2>4. \A i \in 1 .. fed - taken : taken + i \in taken + 1 .. fed
    BY <1>2
  <2> QED
    BY <2>2, <2>3, <2>4 DEF ToSet
<1>4. DOMAIN Freeing(current, releases) = DOMAIN doc
  BY FreeingOne
<1>5. ASSUME NEW e \in DOMAIN doc PROVE releases'[e] = FreeCount(e)' /\ releases'[e] \in Nat
  <2>1. releases'[e] = Freeing(current, releases)[e] + IF e \in taken + 1 .. fed THEN 1 ELSE 0
    BY <1>1, <1>3, <1>4, <1>5
  <2>2. Freeing(current, releases)[e] =
          IF e = current.ev /\ ~ current.staged THEN releases[e] + 1 ELSE releases[e]
    BY <1>5, FreeingOne
  <2>3. releases[e] = FreeCount(e) /\ e \in 1 .. Len(doc) /\ e \in Nat
    BY <1>5, QueueFacts
  <2>4. FreeCount(e)' = IF e > fed THEN 0 ELSE 1
    BY <1>1 DEF FreeCount
  <2> QED
    BY <1>2, <2>1, <2>2, <2>3, <2>4 DEF FreeCount
<1>6. releases' \in [DOMAIN doc -> Nat]
  BY <1>1, <1>4, <1>5
<1>7. current' \in [ev : 0 .. taken, staged : BOOLEAN]
  BY <1>1, <1>2 DEF NoCurrent
<1> QED
  BY <1>1, <1>5, <1>6, <1>7 DEF QueueOK

-------------------------------------------------------------------------------
(* Strings in the stage.  A string that has been put there stays where it is *)
(* as long as more are put.                                                  *)
HasAt(st, p, s) == p[1] \in DOMAIN st /\ p[2] \in DOMAIN st[p[1]] /\ st[p[1]][p[2]] = s
Points(st, ptrs, strings) ==
  DOMAIN ptrs = DOMAIN strings /\ \A k \in DOMAIN ptrs : HasAt(st, ptrs[k], strings[k])
Widens(st, t) == \A p, s : HasAt(st, p, s) => HasAt(t, p, s)
Stages(T) == Seq(Seq(T))

LEMMA AppendAt ==
  ASSUME NEW S, NEW w \in Seq(S), NEW x \in S
  PROVE  /\ Append(w, x) \in Seq(S) /\ Len(w) \in Nat /\ Len(Append(w, x)) = Len(w) + 1
         /\ Last(Append(w, x)) = x
         /\ DOMAIN w = 1 .. Len(w) /\ DOMAIN Append(w, x) = 1 .. Len(w) + 1
         /\ Append(w, x)[Len(w) + 1] = x /\ \A i \in 1 .. Len(w) : Append(w, x)[i] = w[i]
<1>1. /\ Append(w, x) \in Seq(S) /\ Len(w) \in Nat /\ Len(Append(w, x)) = Len(w) + 1
      /\ DOMAIN w = 1 .. Len(w) /\ Append(w, x)[Len(w) + 1] = x
      /\ \A i \in 1 .. Len(w) : Append(w, x)[i] = w[i]
  OBVIOUS
<1>2. DOMAIN Append(w, x) = 1 .. Len(Append(w, x))
  BY <1>1
<1>3. Last(Append(w, x)) = Append(w, x)[Len(w) + 1]
  BY <1>1 DEF Last
<1> QED
  BY <1>1, <1>2, <1>3

TailSet(w, x) == [w EXCEPT ![Len(w)] = x]
TailIs(v, S, w, x) ==
  /\ v \in Seq(S) /\ Len(w) \in Nat /\ Len(v) = Len(w) /\ Last(v) = x
  /\ DOMAIN w = 1 .. Len(w) /\ DOMAIN v = 1 .. Len(w) /\ v[Len(w)] = x
  /\ \A i \in 1 .. Len(w) : i # Len(w) => v[i] = w[i]

LEMMA LastAt ==
  ASSUME NEW S, NEW w \in Seq(S), Len(w) # 0
  PROVE  /\ Len(w) \in Nat /\ Len(w) \in 1 .. Len(w) /\ DOMAIN w = 1 .. Len(w)
         /\ w[Len(w)] \in S /\ Last(w) = w[Len(w)]
BY DEF Last

LEMMA LastPut ==
  ASSUME NEW S, NEW w \in Seq(S), Len(w) # 0, NEW x \in S
  PROVE  TailIs(TailSet(w, x), S, w, x)
<1>1. Len(w) \in Nat /\ DOMAIN w = 1 .. Len(w) /\ Len(w) \in 1 .. Len(w) /\ w[Len(w)] \in S
  OBVIOUS
<1>2. /\ DOMAIN TailSet(w, x) = 1 .. Len(w) /\ TailSet(w, x)[Len(w)] = x
      /\ \A i \in 1 .. Len(w) : i # Len(w) => TailSet(w, x)[i] = w[i]
  BY <1>1 DEF TailSet
<1>3. TailSet(w, x) \in Seq(S) /\ Len(TailSet(w, x)) = Len(w)
  <2>1. TailSet(w, x) \in [1 .. Len(w) -> S]
    BY <1>1 DEF TailSet
  <2> QED
    BY <1>1, <2>1
<1>4. Last(TailSet(w, x)) = TailSet(w, x)[Len(w)]
  BY <1>3 DEF Last
<1> QED
  BY <1>1, <1>2, <1>3, <1>4 DEF TailIs

(* A string is put at the end of the last block or in a block of its own.    *)
LEMMA PutNew ==
  ASSUME NEW T, NEW st \in Stages(T), NEW s \in T
  PROVE  /\ Append(st, <<s>>) \in Stages(T) /\ Widens(st, Append(st, <<s>>))
         /\ HasAt(Append(st, <<s>>), <<Len(Append(st, <<s>>)), Len(Last(Append(st, <<s>>)))>>, s)
<1>1. PICK S : S = Seq(T)
  OBVIOUS
<1>2. st \in Seq(S)
  BY <1>1 DEF Stages
<1>3. PICK b : b = <<s>>
  OBVIOUS
<1>4. b \in S /\ Len(b) = 1 /\ b[1] = s /\ DOMAIN b = 1 .. 1
  <2>1. <<s>> \in Seq(T) /\ Len(<<s>>) = 1 /\ <<s>>[1] = s /\ DOMAIN <<s>> = 1 .. 1
    OBVIOUS
  <2> QED
    BY <1>1, <1>3, <2>1
<1>5. PICK t : t = Append(st, b)
  OBVIOUS
<1>6. /\ t \in Seq(S) /\ Len(st) \in Nat /\ Len(t) = Len(st) + 1 /\ Last(t) = b
      /\ DOMAIN st = 1 .. Len(st) /\ DOMAIN t = 1 .. Len(st) + 1
      /\ t[Len(st) + 1] = b /\ \A i \in 1 .. Len(st) : t[i] = st[i]
  BY <1>2, <1>4, <1>5, AppendAt
<1>7. Widens(st, t)
  <2>1. ASSUME NEW p, NEW x, HasAt(st, p, x) PROVE HasAt(t, p, x)
    BY <1>6, <2>1 DEF HasAt
  <2> QED
    BY <2>1 DEF Widens
<1>8. HasAt(t, <<Len(t), Len(Last(t))>>, s)
  <2>1. Len(t) \in DOMAIN t /\ Len(Last(t)) = 1 /\ t[Len(t)] = b
    BY <1>4, <1>6
  <2>2. 1 \in DOMAIN b /\ b[1] = s
    BY <1>4
  <2>3. HasAt(t, <<Len(t), 1>>, s)
    BY <2>1, <2>2 DEF HasAt
  <2> QED
    BY <2>1, <2>3
<1>9. t \in Stages(T)
  BY <1>1, <1>6 DEF Stages
<1> QED
  BY <1>3, <1>5, <1>7, <1>8, <1>9

LEMMA PutLast ==
  ASSUME NEW T, NEW st \in Stages(T), NEW s \in T, Len(st) # 0
  PROVE  \A t : t = TailSet(st, Append(Last(st), s)) => t \in Stages(T) /\ Widens(st, t) /\ HasAt(t, <<Len(t), Len(Last(t))>>, s)
<1>1. PICK S : S = Seq(T)
  OBVIOUS
<1>2. st \in Seq(S)
  BY <1>1 DEF Stages
<1>3. PICK b : b = Last(st)
  OBVIOUS
<1>4. Last(st) = st[Len(st)] /\ st[Len(st)] \in S /\ Len(st) \in Nat /\ Len(st) \in 1 .. Len(st)
  BY <1>2, LastAt
<1>5. b \in Seq(T) /\ b = st[Len(st)]
  BY <1>1, <1>3, <1>4
<1>6. PICK c : c = Append(b, s)
  OBVIOUS
<1>7. /\ c \in Seq(T) /\ Len(b) \in Nat /\ Len(c) = Len(b) + 1 /\ DOMAIN b = 1 .. Len(b)
      /\ DOMAIN c = 1 .. Len(b) + 1 /\ c[Len(b) + 1] = s /\ \A i \in 1 .. Len(b) : c[i] = b[i]
  BY <1>5, <1>6, AppendAt
<1> SUFFICES ASSUME NEW t, t = TailSet(st, c)
             PROVE  t \in Stages(T) /\ Widens(st, t) /\ HasAt(t, <<Len(t), Len(Last(t))>>, s)
  BY <1>3, <1>6
<1>8. c \in S /\ t = TailSet(st, c)
  BY <1>1, <1>3, <1>6, <1>7
<1>9. /\ t \in Seq(S) /\ Len(t) = Len(st) /\ Last(t) = c /\ DOMAIN st = 1 .. Len(st)
      /\ DOMAIN t = 1 .. Len(st) /\ t[Len(st)] = c
      /\ \A i \in 1 .. Len(st) : i # Len(st) => t[i] = st[i]
  <2>1. c \in S /\ st \in Seq(S) /\ Len(st) # 0
    BY <1>2, <1>8
  <2>2. TailIs(TailSet(st, c), S, st, c)
    BY <2>1, LastPut
  <2>3. TailIs(t, S, st, c)
    BY <1>8, <2>2, Zenon
  <2> QED
    BY <2>3 DEF TailIs
<1>10. Widens(st, t)
  <2>1. ASSUME NEW p, NEW x, HasAt(st, p, x) PROVE HasAt(t, p, x)
    <3>1. p[1] \in 1 .. Len(st) /\ p[2] \in DOMAIN st[p[1]] /\ st[p[1]][p[2]] = x
      BY <1>9, <2>1 DEF HasAt
    <3>2. CASE p[1] # Len(st)
      BY <1>9, <3>1, <3>2 DEF HasAt
    <3>3. CASE p[1] = Len(st)
      <4>1. p[2] \in 1 .. Len(b) /\ b[p[2]] = x
        BY <1>5, <1>7, <3>1, <3>3
      <4>2. p[2] \in 1 .. Len(b) + 1 /\ c[p[2]] = x
        BY <1>7, <4>1
      <4> QED
        BY <1>7, <1>9, <3>1, <3>3, <4>2 DEF HasAt
    <3> QED
      BY <3>2, <3>3
  <2> QED
    BY <2>1 DEF Widens
<1>11. HasAt(t, <<Len(t), Len(Last(t))>>, s)
  <2>0. Len(b) + 1 \in DOMAIN c
    BY <1>7
  <2>1. Len(t) \in DOMAIN t /\ Len(Last(t)) = Len(b) + 1 /\ t[Len(t)] = c /\ Len(b) + 1 \in DOMAIN c
    BY <1>4, <1>7, <1>9, <2>0, Zenon
  <2>2. HasAt(t, <<Len(t), Len(b) + 1>>, s)
    BY <1>7, <2>1 DEF HasAt
  <2> QED
    BY <2>1, <2>2
<1>12. t \in Stages(T)
  BY <1>1, <1>9 DEF Stages
<1> QED
  BY <1>10, <1>11, <1>12

LEMMA PutKeeps ==
  ASSUME NEW T, NEW st \in Stages(T), NEW s \in T
  PROVE  /\ StagePut(st, s) \in Stages(T) /\ Widens(st, StagePut(st, s))
         /\ HasAt(StagePut(st, s), <<Len(StagePut(st, s)), Len(Last(StagePut(st, s)))>>, s)
<1>1. CASE st = <<>> \/ Len(Last(st)) = BlockStrings
  BY <1>1, PutNew DEF StagePut
<1>2. CASE ~ (st = <<>> \/ Len(Last(st)) = BlockStrings)
  <2>1. Len(st) # 0 /\ Last(st) = st[Len(st)]
    BY <1>2 DEF Stages, Last
  <2>2. StagePut(st, s) = TailSet(st, Append(Last(st), s))
    BY <1>2, <2>1 DEF StagePut, TailSet
  <2> QED
    BY <2>1, <2>2, PutLast
<1> QED
  BY <1>1, <1>2

LEMMA PtrIn ==
  ASSUME NEW T, NEW t \in Stages(T), NEW a, NEW b, NEW s, HasAt(t, <<a, b>>, s)
  PROVE  a \in Nat /\ b \in Nat
<1>1. PICK S : S = Seq(T)
  OBVIOUS
<1>2. a \in DOMAIN t /\ b \in DOMAIN t[a] /\ t \in Seq(S)
  BY <1>1 DEF HasAt, Stages
<1>3. a \in Nat /\ t[a] \in S
  BY <1>2
<1>4. b \in Nat
  BY <1>1, <1>2, <1>3
<1> QED
  BY <1>3, <1>4

(* The first k strings are in the stage, and what was there before is.       *)
Ptrs == Seq(Nat \X Nat)
Placed(a, T, st, strings, k) ==
  /\ a.st \in Stages(T) /\ Widens(st, a.st) /\ a.ptrs \in Ptrs /\ Len(a.ptrs) = k
  /\ \A i \in 1 .. k : HasAt(a.st, a.ptrs[i], strings[i])

LEMMA PlacedOne ==
  ASSUME NEW T, NEW st, NEW strings \in Seq(T), NEW k \in Nat, k < Len(strings),
         NEW a, Placed(a, T, st, strings, k)
  PROVE  Placed(StagedOne(a, strings[k + 1]), T, st, strings, k + 1)
<1>1. PICK s : s = strings[k + 1] /\ s \in T
  <2>1. k + 1 \in 1 .. Len(strings)
    OBVIOUS
  <2> QED
    BY <2>1
<1>2. PICK b : b = a.st /\ b \in Stages(T) /\ Widens(st, b)
  BY DEF Placed
<1>3. PICK p : p = a.ptrs /\ p \in Ptrs /\ Len(p) = k /\ \A i \in 1 .. k : HasAt(b, p[i], strings[i])
  BY <1>2 DEF Placed
<1>4. PICK t : t = StagePut(b, s)
  OBVIOUS
<1>5. t \in Stages(T) /\ Widens(b, t) /\ HasAt(t, <<Len(t), Len(Last(t))>>, s)
  BY <1>1, <1>2, <1>4, PutKeeps
<1>6. Len(t) \in Nat /\ Len(Last(t)) \in Nat
  BY <1>5, PtrIn
<1>7. PICK x : x = <<Len(t), Len(Last(t))>>
  OBVIOUS
<1>8. PICK P : P = Nat \X Nat
  OBVIOUS
<1>9. x \in P /\ p \in Seq(P)
  BY <1>3, <1>6, <1>7, <1>8 DEF Ptrs
<1>10. PICK q : q = Append(p, x)
  OBVIOUS
<1>11. q \in Seq(P) /\ Len(q) = k + 1 /\ q[k + 1] = x /\ \A i \in 1 .. k : q[i] = p[i]
  BY <1>3, <1>9, <1>10, AppendAt
<1>12. ASSUME NEW i \in 1 .. k + 1 PROVE HasAt(t, q[i], strings[i])
  <2>1. CASE i = k + 1
    BY <1>1, <1>5, <1>7, <1>11, <2>1, Zenon
  <2>2. CASE i # k + 1
    <3>1. i \in 1 .. k
      BY <1>12, <2>2
    <3>2. HasAt(b, p[i], strings[i]) /\ q[i] = p[i]
      BY <1>3, <1>11, <3>1
    <3> QED
      BY <1>5, <3>2 DEF Widens
  <2> QED
    BY <2>1, <2>2
<1>13. Widens(st, t)
  BY <1>2, <1>5 DEF Widens
<1>14. StagedOne(a, strings[k + 1]) = [st |-> t, ptrs |-> q]
  BY <1>1, <1>2, <1>3, <1>4, <1>7, <1>10 DEF StagedOne
<1>15. q \in Ptrs
  BY <1>8, <1>11 DEF Ptrs
<1>16. PICK c : c = [st |-> t, ptrs |-> q]
  OBVIOUS
<1>17. c.st = t /\ c.ptrs = q
  BY <1>16
<1>18. Placed(c, T, st, strings, k + 1)
  BY <1>5, <1>11, <1>12, <1>13, <1>15, <1>17 DEF Placed
<1> QED
  BY <1>14, <1>16, <1>18

Stagings(g, st, strings, n) ==
  g = [k \in 0 .. n |-> IF k = 0 THEN [st |-> st, ptrs |-> <<>>] ELSE StagedOne(g[k - 1], strings[k])]

LEMMA StagingsNext ==
  ASSUME NEW st, NEW strings, NEW n \in Nat, NEW f, Stagings(f, st, strings, n)
  PROVE  \E g : Stagings(g, st, strings, n + 1)
<1>1. PICK z : z = [st |-> st, ptrs |-> <<>>]
  OBVIOUS
<1> DEFINE step(k) == IF k = 0 THEN z ELSE StagedOne(f[k - 1], strings[k])
           g == [k \in 0 .. n + 1 |-> step(k)]
<1>2. f = [k \in 0 .. n |-> step(k)]
  BY <1>1 DEF Stagings
<1>3. \A k \in 0 .. n : g[k] = f[k]
  <2> HIDE DEF step
  <2> QED
    BY <1>2
<1>4. \A k \in 0 .. n + 1 : k # 0 => k - 1 \in 0 .. n
  OBVIOUS
<1>5. \A k \in 0 .. n + 1 : step(k) = IF k = 0 THEN z ELSE StagedOne(g[k - 1], strings[k])
  <2> HIDE DEF g
  <2> QED
    BY <1>3, <1>4
<1>6. g = [k \in 0 .. n + 1 |-> IF k = 0 THEN z ELSE StagedOne(g[k - 1], strings[k])]
  BY <1>5
<1> HIDE DEF g
<1> QED
  BY <1>1, <1>6 DEF Stagings

LEMMA StagedPlaces ==
  ASSUME NEW T, NEW st \in Stages(T), NEW strings \in Seq(T)
  PROVE  Placed(Staged(st, strings), T, st, strings, Len(strings))
<1>0. PICK n \in Nat : n = Len(strings)
  OBVIOUS
<1>z. PICK z : z = [st |-> st, ptrs |-> <<>>]
  OBVIOUS
<1> DEFINE Made == {k \in Nat : \E f : Stagings(f, st, strings, k)}
<1>1. 0 \in Made
  <2>1. PICK f : f = [k \in 0 .. 0 |-> z]
    OBVIOUS
  <2>2. f = [k \in 0 .. 0 |-> IF k = 0 THEN z ELSE StagedOne(f[k - 1], strings[k])]
    <3>1. \A k \in 0 .. 0 : k = 0
      OBVIOUS
    <3> QED
      BY <2>1, <3>1, Zenon
  <2> QED
    BY <1>z, <2>2 DEF Stagings
<1>2. \A k \in 0 .. n - 1 : k \in Made => k + 1 \in Made
  BY StagingsNext
<1>3. n \in Made
  <2> HIDE DEF Made
  <2> QED
    BY <1>0, <1>1, <1>2, UpTo, n \in 0 .. n
<1> DEFINE w == CHOOSE f : Stagings(f, st, strings, n)
<1>4. Stagings(w, st, strings, n)
  BY <1>3
<1>5. Staged(st, strings) = w[n]
  BY <1>0 DEF Staged, Stagings
<1>6. w[0] = z /\ \A k \in 1 .. n : w[k] = StagedOne(w[k - 1], strings[k])
  <2> HIDE DEF w
  <2>1. PICK f : f = w /\ Stagings(f, st, strings, n)
    BY <1>4
  <2>2. \A k \in 0 .. n : f[k] = IF k = 0 THEN z ELSE StagedOne(f[k - 1], strings[k])
    BY <1>z, <2>1 DEF Stagings
  <2>3. 0 \in 0 .. n /\ \A k \in 1 .. n : k \in 0 .. n /\ k # 0
    BY <1>0
  <2> QED
    BY <2>1, <2>2, <2>3
<1> HIDE DEF w
<1> DEFINE In == {k \in Nat : Placed(w[k], T, st, strings, k)}
<1>7. 0 \in In
  <2>1. z.st = st /\ z.ptrs = <<>>
    BY <1>z
  <2>2. <<>> \in Ptrs /\ Len(<<>>) = 0
    BY DEF Ptrs
  <2>3. Widens(st, st) /\ \A i \in 1 .. 0 : FALSE
    BY DEF Widens
  <2>4. Placed(z, T, st, strings, 0)
    BY <2>1, <2>2, <2>3 DEF Placed
  <2> QED
    BY <1>6, <2>4
<1>8. ASSUME NEW k \in 0 .. n - 1, k \in In PROVE k + 1 \in In
  <2>1. k + 1 \in 1 .. n /\ (k + 1) - 1 = k /\ k \in Nat /\ k < Len(strings)
    BY <1>0, <1>8
  <2>2. w[k + 1] = StagedOne(w[k], strings[k + 1])
    BY <1>6, <2>1
  <2>3. Placed(w[k], T, st, strings, k)
    BY <1>8
  <2>4. Placed(StagedOne(w[k], strings[k + 1]), T, st, strings, k + 1)
    BY <2>1, <2>3, PlacedOne
  <2> QED
    BY <2>1, <2>2, <2>4
<1>9. n \in In
  <2> HIDE DEF In
  <2> QED
    BY <1>0, <1>7, <1>8, UpTo, n \in 0 .. n
<1> QED
  BY <1>0, <1>5, <1>9

LEMMA PlacedPoints ==
  ASSUME NEW a, NEW T, NEW st, NEW strings \in Seq(T), Placed(a, T, st, strings, Len(strings))
  PROVE  /\ a.st \in Stages(T) /\ Widens(st, a.st) /\ a.ptrs \in Ptrs
         /\ Points(a.st, a.ptrs, strings)
<1>1. /\ a.st \in Stages(T) /\ Widens(st, a.st) /\ a.ptrs \in Ptrs /\ Len(a.ptrs) = Len(strings)
      /\ \A i \in 1 .. Len(strings) : HasAt(a.st, a.ptrs[i], strings[i])
  BY DEF Placed
<1>2. DOMAIN a.ptrs = 1 .. Len(a.ptrs) /\ DOMAIN strings = 1 .. Len(strings)
  <2>1. PICK P : P = Nat \X Nat
    OBVIOUS
  <2>2. a.ptrs \in Seq(P)
    BY <1>1, <2>1 DEF Ptrs
  <2> QED
    BY <2>2
<1> QED
  BY <1>1, <1>2 DEF Points

LEMMA PointsWiden ==
  ASSUME NEW st, NEW t, Widens(st, t), NEW ptrs, NEW strings, Points(st, ptrs, strings)
  PROVE  Points(t, ptrs, strings)
BY DEF Points, Widens

(* The entries of a batch, and its mirror, in document d.                    *)
Entries == [ev : Nat, ptrs : Ptrs]
Outs == Seq(Entries)
Bears(d, e) == d[e].type = "start" /\ d[e].attrs # <<>>
OutOK(d, st, out, n) ==
  out \in Outs /\ \A k \in 1 .. Len(out) :
                    out[k].ev \in 1 .. n /\ Points(st, out[k].ptrs, d[out[k].ev].strings)
MirrorOK(d, st, m, out, last) ==
  \/ last = 0 /\ \A k \in 1 .. Len(out) : ~ Bears(d, out[k].ev)
  \/ \E k \in 1 .. Len(out) :
       /\ out[k].ev = last /\ Bears(d, last) /\ Points(st, m, d[last].attrs)
       /\ \A j \in 1 .. Len(out) : j > k => ~ Bears(d, out[j].ev)

LEMMA OutGrows ==
  ASSUME NEW d, NEW st, NEW t, Widens(st, t), NEW out, NEW n \in Nat, OutOK(d, st, out, n),
         NEW x \in Entries, x.ev = n + 1, Points(t, x.ptrs, d[n + 1].strings)
  PROVE  OutOK(d, t, Append(out, x), n + 1)
<1>1. out \in Seq(Entries)
  BY DEF OutOK, Outs
<1>2. PICK v : v = Append(out, x)
  OBVIOUS
<1>3. /\ v \in Seq(Entries) /\ Len(out) \in Nat /\ Len(v) = Len(out) + 1 /\ v[Len(out) + 1] = x
      /\ \A i \in 1 .. Len(out) : v[i] = out[i]
  BY <1>1, <1>2, AppendAt
<1>4. ASSUME NEW k \in 1 .. Len(v)
      PROVE  v[k].ev \in 1 .. n + 1 /\ Points(t, v[k].ptrs, d[v[k].ev].strings)
  <2>1. CASE k = Len(out) + 1
    <3>1. v[k] = x /\ n + 1 \in 1 .. n + 1
      BY <1>3, <2>1
    <3> QED
      BY <3>1
  <2>2. CASE k # Len(out) + 1
    <3>1. k \in 1 .. Len(out) /\ v[k] = out[k]
      BY <1>3, <1>4, <2>2
    <3>2. out[k].ev \in 1 .. n /\ Points(st, out[k].ptrs, d[out[k].ev].strings)
      BY <3>1 DEF OutOK
    <3>3. Points(t, out[k].ptrs, d[out[k].ev].strings)
      BY <3>2, PointsWiden
    <3>4. out[k].ev \in 1 .. n + 1
      BY <3>2
    <3> QED
      BY <3>1, <3>3, <3>4
  <2> QED
    BY <2>1, <2>2
<1> QED
  BY <1>2, <1>3, <1>4 DEF OutOK, Outs

LEMMA OutMore ==
  ASSUME NEW d, NEW st, NEW out, NEW n \in Nat, OutOK(d, st, out, n)
  PROVE  OutOK(d, st, out, n + 1)
<1>1. 1 .. n \subseteq 1 .. n + 1
  OBVIOUS
<1> QED
  BY <1>1 DEF OutOK

LEMMA MirrorStays ==
  ASSUME NEW d, NEW st, NEW t, Widens(st, t), NEW m, NEW out \in Outs, NEW last,
         MirrorOK(d, st, m, out, last), NEW x \in Entries, ~ Bears(d, x.ev)
  PROVE  MirrorOK(d, t, m, Append(out, x), last)
<1>1. out \in Seq(Entries)
  BY DEF Outs
<1>2. PICK v : v = Append(out, x)
  OBVIOUS
<1>3. /\ Len(out) \in Nat /\ Len(v) = Len(out) + 1 /\ v[Len(out) + 1] = x
      /\ \A i \in 1 .. Len(out) : v[i] = out[i]
  BY <1>1, <1>2, AppendAt
<1>4. ASSUME NEW j \in 1 .. Len(v), Bears(d, v[j].ev) PROVE j \in 1 .. Len(out) /\ v[j] = out[j]
  BY <1>3, <1>4
<1>5. CASE last = 0 /\ \A k \in 1 .. Len(out) : ~ Bears(d, out[k].ev)
  <2>1. \A k \in 1 .. Len(v) : ~ Bears(d, v[k].ev)
    BY <1>4, <1>5
  <2> QED
    BY <1>2, <1>5, <2>1 DEF MirrorOK
<1>6. ASSUME NEW k \in 1 .. Len(out), out[k].ev = last, Bears(d, last), Points(st, m, d[last].attrs),
             \A j \in 1 .. Len(out) : j > k => ~ Bears(d, out[j].ev)
      PROVE  MirrorOK(d, t, m, Append(out, x), last)
  <2>1. k \in 1 .. Len(v) /\ v[k].ev = last
    BY <1>3, <1>6
  <2>2. Points(t, m, d[last].attrs)
    BY <1>6, PointsWiden
  <2>3. \A j \in 1 .. Len(v) : j > k => ~ Bears(d, v[j].ev)
    BY <1>4, <1>6
  <2> QED
    BY <1>2, <1>6, <2>1, <2>2, <2>3 DEF MirrorOK
<1> QED
  BY <1>5, <1>6 DEF MirrorOK

LEMMA MirrorMoves ==
  ASSUME NEW d, NEW t, NEW m, NEW out \in Outs, NEW x \in Entries, Bears(d, x.ev),
         Points(t, m, d[x.ev].attrs)
  PROVE  MirrorOK(d, t, m, Append(out, x), x.ev)
<1>1. out \in Seq(Entries)
  BY DEF Outs
<1>2. PICK v : v = Append(out, x)
  OBVIOUS
<1>3. Len(out) \in Nat /\ Len(v) = Len(out) + 1 /\ v[Len(out) + 1] = x
  BY <1>1, <1>2, AppendAt
<1>4. PICK k \in 1 .. Len(v) : k = Len(v)
  BY <1>3
<1>5. v[k].ev = x.ev /\ \A j \in 1 .. Len(v) : ~ (j > k)
  BY <1>3, <1>4
<1> QED
  BY <1>2, <1>4, <1>5 DEF MirrorOK

-------------------------------------------------------------------------------
(* A batch stays readable, and the event that bears its mirror is current.   *)
StagedOK ==
  /\ current.staged => ~ batch.on /\ batch.last # 0 /\ current.ev = batch.last
  /\ ~ batch.on /\ ~ current.staged /\ batch.last # 0 => current.ev # Last(batch.out).ev
BatchOK ==
  /\ stage \in Stages(STRING)
  /\ batch \in [on : BOOLEAN, max : Nat, out : Outs, last : Nat] /\ batch.last \in 0 .. taken
  /\ OutOK(doc, stage, batch.out, taken)
  /\ MirrorOK(doc, stage, mirror, batch.out, batch.last)
  /\ StagedOK
  /\ batch.on => user = "pull"

(* No batch at all.                                                          *)
LEMMA EmptyOut ==
  ASSUME NEW d, NEW st, NEW m, NEW n
  PROVE  <<>> \in Outs /\ OutOK(d, st, <<>>, n) /\ MirrorOK(d, st, m, <<>>, 0)
<1>1. <<>> \in Outs /\ Len(<<>>) = 0
  BY DEF Outs
<1>2. \A k \in 1 .. 0 : FALSE
  OBVIOUS
<1> QED
  BY <1>1, <1>2 DEF OutOK, MirrorOK

LEMMA BatchInit ==
  ASSUME PullInit PROVE BatchOK
<1>1. stage = <<>> /\ batch = NoBatch /\ current = NoCurrent /\ taken = 0
  BY DEF PullInit
<1>2. stage \in Stages(STRING)
  BY <1>1 DEF Stages
<1>3. batch.out = <<>> /\ batch.last = 0 /\ ~ batch.on
      /\ batch \in [on : BOOLEAN, max : Nat, out : Outs, last : Nat]
  BY <1>1, EmptyOut DEF NoBatch
<1>4. ~ current.staged
  BY <1>1 DEF NoCurrent
<1> QED
  BY <1>1, <1>2, <1>3, <1>4, EmptyOut DEF BatchOK, StagedOK

LEMMA LastEv ==
  ASSUME NEW d, NEW st, NEW m, NEW out, NEW n \in Nat, NEW last \in Nat, OutOK(d, st, out, n),
         out # <<>> \/ (MirrorOK(d, st, m, out, last) /\ last # 0)
  PROVE  Last(out).ev \in 1 .. n
<1>1. out \in Seq(Entries)
  BY DEF OutOK, Outs
<1>2. Len(out) # 0
  <2>1. CASE out # <<>>
    BY <1>1, <2>1
  <2>2. CASE MirrorOK(d, st, m, out, last) /\ last # 0
    <3>1. PICK k \in 1 .. Len(out) : TRUE
      BY <2>2 DEF MirrorOK
    <3> QED
      BY <1>1, <3>1
  <2> QED
    BY <2>1, <2>2
<1>3. Len(out) \in 1 .. Len(out) /\ Last(out) = out[Len(out)]
  BY <1>1, <1>2, LastAt
<1> QED
  BY <1>3 DEF OutOK

LEMMA BatchFacts ==
  ASSUME BatchOK
  PROVE  /\ batch.on \in BOOLEAN /\ batch.out \in Outs /\ batch.last \in Nat
         /\ batch \in [on : BOOLEAN, max : Nat, out : Outs, last : Nat]
BY DEF BatchOK

LEMMA BatchIdle ==
  ASSUME QueueOK, BatchOK, ~ batch.on, Takes \/ Finds, UNCHANGED <<doc, stage, mirror, batch>>
  PROVE  BatchOK'
<1>1. taken \in Nat /\ current.ev \in 0 .. taken /\ current.staged \in BOOLEAN
  BY QueueFacts
<1>2. batch.on \in BOOLEAN /\ batch.out \in Outs /\ batch.last \in Nat
  BY BatchFacts
<1>3. batch.last # 0 => Last(batch.out).ev \in 1 .. taken
  BY <1>1, <1>2, LastEv DEF BatchOK
<1>4. taken' \in {taken, taken + 1}
  BY DEF Takes, Finds
<1>5. OutOK(doc, stage, batch.out, taken') /\ batch.last \in 0 .. taken'
  BY <1>1, <1>2, <1>4, OutMore DEF BatchOK
<1>6. ~ current'.staged
  <2>1. CASE Takes
    BY <2>1 DEF Takes
  <2>2. CASE Finds
    BY <1>1, <2>2 DEF Finds, Kept, NoCurrent
  <2> QED
    BY <2>1, <2>2
<1>7. batch.last # 0 => current'.ev # Last(batch.out).ev
  <2>1. CASE Takes
    BY <1>1, <1>3, <2>1 DEF Takes
  <2>2. CASE Finds /\ current.staged
    <3>1. current'.ev = 0
      BY <2>2 DEF Finds, Kept, NoCurrent
    <3> QED
      BY <1>1, <1>3, <3>1
  <2>3. CASE Finds /\ ~ current.staged
    <3>1. current' = current
      BY <2>3 DEF Finds, Kept
    <3> QED
      BY <2>3, <3>1 DEF BatchOK, StagedOK
  <2> QED
    BY <2>1, <2>2, <2>3
<1>8. StagedOK'
  BY <1>6, <1>7 DEF StagedOK
<1> QED
  BY <1>5, <1>8 DEF BatchOK

LEMMA BatchStarts ==
  ASSUME QueueOK, BatchOK, NEW max \in Nat, BatchStart(max)
  PROVE  BatchOK' /\ current' = Kept
<1>1. /\ user' = user /\ user = "pull" /\ UNCHANGED <<doc, taken, mirror>>
      /\ batch' = [NoBatch EXCEPT !.on = TRUE, !.max = max]
      /\ stage' = [b \in DOMAIN stage |-> <<>>] /\ current' = Kept
  BY DEF BatchStart, Kept
<1>2. stage' \in Stages(STRING)
  <2>1. PICK S : S = Seq(STRING)
    OBVIOUS
  <2>2. <<>> \in S
    BY <2>1
  <2>3. stage \in Seq(S)
    BY <2>1 DEF BatchOK, Stages
  <2>4. stage' \in Seq(S)
    BY <1>1, <2>2, <2>3
  <2> QED
    BY <2>1, <2>4 DEF Stages
<1>3. batch'.out = <<>> /\ batch'.last = 0 /\ batch'.on
      /\ batch' \in [on : BOOLEAN, max : Nat, out : Outs, last : Nat]
  BY <1>1, EmptyOut DEF NoBatch
<1>4. ~ current'.staged
  BY <1>1, QueueFacts DEF Kept, NoCurrent
<1>5. StagedOK'
  BY <1>3, <1>4 DEF StagedOK
<1>6. taken \in Nat
  BY QueueFacts
<1> QED
  BY <1>1, <1>2, <1>3, <1>5, <1>6, EmptyOut DEF BatchOK

LEMMA BatchEnds ==
  ASSUME QueueOK, BatchOK, BatchEnd
  PROVE  BatchOK'
<1>1. /\ batch.on /\ UNCHANGED <<doc, user, taken, stage, mirror>>
      /\ batch' = [batch EXCEPT !.on = FALSE]
      /\ IF batch.last = 0 THEN current' = current ELSE current' = [ev |-> batch.last, staged |-> TRUE]
  BY DEF BatchEnd
<1>2. batch'.out = batch.out /\ batch'.last = batch.last /\ batch'.on = FALSE
      /\ batch' \in [on : BOOLEAN, max : Nat, out : Outs, last : Nat]
  BY <1>1, BatchFacts
<1>3. ~ current.staged
  BY <1>1 DEF BatchOK, StagedOK
<1>4. StagedOK'
  <2>1. CASE batch.last = 0
    BY <1>1, <1>2, <1>3, <2>1 DEF StagedOK
  <2>2. CASE batch.last # 0
    BY <1>1, <1>2, <2>2 DEF StagedOK
  <2> QED
    BY <2>1, <2>2
<1> QED
  BY <1>1, <1>2, <1>4 DEF BatchOK

LEMMA BatchFreed ==
  ASSUME QueueOK, BatchOK, Freed
  PROVE  BatchOK'
<1>1. stage' = <<>> /\ batch' = NoBatch /\ current' = NoCurrent /\ taken' = taken
  BY DEF Freed
<1>2. stage' \in Stages(STRING)
  BY <1>1 DEF Stages
<1>3. batch'.out = <<>> /\ batch'.last = 0 /\ batch'.on = FALSE
      /\ batch' \in [on : BOOLEAN, max : Nat, out : Outs, last : Nat]
  BY <1>1, EmptyOut DEF NoBatch
<1>4. StagedOK'
  BY <1>1, <1>3 DEF StagedOK, NoCurrent
<1>5. taken \in Nat
  BY QueueFacts
<1> QED
  BY <1>1, <1>2, <1>3, <1>4, <1>5, EmptyOut DEF BatchOK

LEMMA BatchSteps ==
  ASSUME QueueOK, QueueOK', BatchOK, BatchStep, Takes \/ Finds
  PROVE  BatchOK'
<1>1. /\ batch.on /\ taken' # taken /\ UNCHANGED <<doc, user>> /\ user = "pull"
      /\ current' = [ev |-> taken + 1, staged |-> FALSE] /\ taken' = taken + 1
  BY DEF BatchStep, Takes, Finds, BatchOK
<1>2. PICK e : e = taken + 1
  OBVIOUS
<1>3. taken \in Nat /\ e \in 1 .. Len(doc) /\ doc \in Documents
  <2>1. fed' \in 0 .. Len(doc) /\ taken' \in 0 .. fed'
    BY <1>1 DEF QueueOK
  <2> QED
    BY <1>1, <1>2, <2>1, QueueFacts
<1>4. PICK T : T = STRING
  OBVIOUS
<1>5. PICK strings : strings = doc[e].strings /\ strings \in Seq(T)
  BY <1>3, <1>4, DocFacts
<1>6. PICK attrs : attrs = doc[e].attrs /\ attrs \in Seq(T)
  BY <1>3, <1>4, DocFacts
<1>7. PICK s : s = Staged(stage, strings)
  OBVIOUS
<1>8. PICK a : a = Staged(s.st, attrs)
  OBVIOUS
<1>9. stage \in Stages(T)
  BY <1>4 DEF BatchOK
<1>10. s.st \in Stages(T) /\ Widens(stage, s.st) /\ s.ptrs \in Ptrs /\ Points(s.st, s.ptrs, strings)
  <2>1. Placed(s, T, stage, strings, Len(strings))
    BY <1>5, <1>7, <1>9, StagedPlaces
  <2> QED
    BY <1>5, <2>1, PlacedPoints
<1>11. a.st \in Stages(T) /\ Widens(s.st, a.st) /\ Points(a.st, a.ptrs, attrs)
  <2>1. Placed(a, T, s.st, attrs, Len(attrs))
    BY <1>6, <1>8, <1>10, StagedPlaces
  <2> QED
    BY <1>6, <2>1, PlacedPoints
<1>12. Points(a.st, s.ptrs, strings) /\ Widens(stage, a.st)
  BY <1>10, <1>11, PointsWiden DEF Widens
<1>13. PICK x : x = [ev |-> e, ptrs |-> s.ptrs]
  OBVIOUS
<1>14. x \in Entries /\ x.ev = e /\ x.ptrs = s.ptrs
  BY <1>2, <1>3, <1>10, <1>13 DEF Entries
<1>15. /\ stage' = a.st
       /\ IF Bears(doc, e)
          THEN mirror' = a.ptrs /\ batch' = [batch EXCEPT !.out = Append(@, x), !.last = e]
          ELSE mirror' = mirror /\ batch' = [batch EXCEPT !.out = Append(@, x)]
  <2>1. current'.ev = e
    BY <1>1, <1>2
  <2> QED
    BY <1>5, <1>6, <1>7, <1>8, <1>13, <2>1 DEF BatchStep, Mirrored, Bears
<1>16. PICK out : out = batch.out
  OBVIOUS
<1>17. out \in Outs /\ Append(out, x) \in Outs
  <2>1. out \in Seq(Entries)
    BY <1>16, BatchFacts DEF Outs
  <2> QED
    BY <1>14, <2>1 DEF Outs
<1>18. OutOK(doc, a.st, Append(out, x), taken + 1)
  BY <1>2, <1>3, <1>5, <1>12, <1>14, <1>16, OutGrows DEF BatchOK
<1>19. CASE Bears(doc, e)
  <2>1. MirrorOK(doc, a.st, a.ptrs, Append(out, x), e)
    BY <1>6, <1>11, <1>14, <1>17, <1>19, MirrorMoves
  <2>2. batch'.out = Append(out, x) /\ batch'.last = e /\ batch'.on
        /\ batch' \in [on : BOOLEAN, max : Nat, out : Outs, last : Nat]
    <3>1. e \in Nat
      BY <1>2, <1>3
    <3>2. batch' = [batch EXCEPT !.out = Append(out, x), !.last = e]
      BY <1>15, <1>16, <1>19
    <3> QED
      BY <1>1, <1>17, <3>1, <3>2, BatchFacts
  <2>3. StagedOK'
    BY <1>1, <2>2 DEF StagedOK
  <2>4. stage' \in Stages(STRING) /\ batch'.last \in 0 .. taken'
    BY <1>1, <1>2, <1>3, <1>4, <1>11, <1>15, <2>2
  <2>5. OutOK(doc, stage, batch.out, taken)' /\ MirrorOK(doc, stage, mirror, batch.out, batch.last)'
    BY <1>1, <1>15, <1>18, <1>19, <2>1, <2>2
  <2> QED
    BY <1>1, <2>2, <2>3, <2>4, <2>5 DEF BatchOK
<1>20. CASE ~ Bears(doc, e)
  <2>1. MirrorOK(doc, a.st, mirror, Append(out, x), batch.last)
    BY <1>12, <1>14, <1>16, <1>17, <1>20, MirrorStays DEF BatchOK
  <2>2. batch'.out = Append(out, x) /\ batch'.last = batch.last /\ batch'.on
        /\ batch' \in [on : BOOLEAN, max : Nat, out : Outs, last : Nat]
    <3>1. batch' = [batch EXCEPT !.out = Append(out, x)]
      BY <1>15, <1>16, <1>20
    <3> QED
      BY <1>1, <1>17, <3>1, BatchFacts
  <2>3. StagedOK'
    BY <1>1, <2>2 DEF StagedOK
  <2>4. stage' \in Stages(STRING) /\ batch'.last \in 0 .. taken'
    BY <1>1, <1>3, <1>4, <1>11, <1>15, <2>2 DEF BatchOK
  <2>5. OutOK(doc, stage, batch.out, taken)' /\ MirrorOK(doc, stage, mirror, batch.out, batch.last)'
    BY <1>1, <1>15, <1>18, <1>20, <2>1, <2>2
  <2> QED
    BY <1>1, <2>2, <2>3, <2>4, <2>5 DEF BatchOK
<1> QED
  BY <1>19, <1>20

-------------------------------------------------------------------------------
(* The iterator runs only under the user that is one.                        *)
Whole(w) == "it" \in DOMAIN w /\ "running" \in DOMAIN w.it
RunOK == "running" \in DOMAIN it /\ (it.running => user = "iter")

LEMMA FlushWhole ==
  ASSUME NEW w, Whole(w) PROVE Whole(FlushText(w))
BY DEF Whole, FlushText

LEMMA HandledWhole ==
  ASSUME NEW w, Whole(w), NEW e, doc[e].type \in EventTypes
  PROVE  Whole(Handled(w, e))
<1>1. Whole(Started(w, e))
  <2>1. PICK v : v = FlushText(w) /\ Whole(v)
    BY FlushWhole
  <2> QED
    BY <2>1 DEF Started, Whole
<1>2. Whole(Ended(w))
  <2>1. PICK v : v = FlushText(w) /\ Whole(v)
    BY FlushWhole
  <2> QED
    BY <2>1 DEF Ended, Whole
<1>3. \A b : Whole(Stop(w, b))
  BY DEF Stop, Whole
<1>4. doc[e].type \in {"startPrefix", "text", "cdata"} => Whole(Handled(w, e))
  BY DEF Handled, Whole
<1>5. Whole(FlushText(w))
  BY FlushWhole
<1> QED
  BY <1>1, <1>2, <1>3, <1>4, <1>5 DEF Handled, EventTypes

LEMMA RunInit ==
  ASSUME Init PROVE RunOK
BY DEF Init, RunOK

LEMMA ReleasedWhole ==
  ASSUME NEW w, Whole(w) PROVE Whole(Released(w))
BY DEF Whole, Released

-------------------------------------------------------------------------------
(* The invariant, and the steps.                                             *)
IInv == QueueOK /\ BatchOK /\ RunOK

LEMMA InitIInv ==
  ASSUME Init PROVE IInv
BY QueueInit, BatchInit, RunInit DEF Init, IInv

LEMMA SamePull ==
  ASSUME IInv, UNCHANGED pullVars PROVE QueueOK' /\ BatchOK'
<1>1. UNCHANGED <<doc, source, user, fed, taken, ring, current, stage, mirror, batch, releases>>
  BY DEF pullVars
<1>2. QueueOK'
  BY <1>1 DEF IInv, QueueOK, FreeCount
<1>3. BatchOK'
  BY <1>1 DEF IInv, BatchOK, StagedOK
<1> QED
  BY <1>2, <1>3

LEMMA PullStep ==
  ASSUME IInv, PullAction, UNCHANGED <<it, nodes>>
  PROVE  IInv'
<1> USE DEF IInv
<1>1. CASE PullNext
  <2>1. user = "pull" /\ ~ batch.on /\ Advance /\ UNCHANGED <<doc, source, user, stage, mirror, batch>>
    BY <1>1 DEF PullNext
  <2>2. QueueOK' /\ (Takes \/ Finds)
    BY <2>1, AdvanceKeeps
  <2>3. BatchOK'
    BY <2>1, <2>2, BatchIdle
  <2> QED
    BY <2>1, <2>2, <2>3 DEF RunOK
<1>2. ASSUME NEW max \in 1 .. MaxBatch, BatchStart(max) PROVE IInv'
  <2>1. max \in Nat /\ UNCHANGED <<doc, source, user, fed, taken, ring, releases>>
    BY <1>2 DEF BatchStart
  <2>2. BatchOK' /\ current' = Kept
    BY <1>2, <2>1, BatchStarts
  <2>3. QueueOK'
    BY <2>1, <2>2, QueueStart
  <2> QED
    BY <2>1, <2>2, <2>3 DEF RunOK
<1>3. CASE BatchStep
  <2>1. user = "pull" /\ Advance /\ UNCHANGED <<doc, source, user>>
    BY <1>3 DEF BatchStep, BatchOK
  <2>2. QueueOK' /\ (Takes \/ Finds)
    BY <2>1, AdvanceKeeps
  <2>3. BatchOK'
    BY <1>3, <2>2, BatchSteps
  <2> QED
    BY <2>1, <2>2, <2>3 DEF RunOK
<1>4. CASE BatchEnd
  <2>1. user = "pull" /\ user' = user /\ batch.last \in 0 .. taken
    BY <1>4 DEF BatchEnd, BatchOK
  <2> QED
    BY <1>4, <2>1, QueueEnd, BatchEnds DEF RunOK
<1>5. CASE PullFree
  <2>1. user = "pull" /\ Freed
    BY <1>5 DEF PullFree
  <2> QED
    BY <2>1, QueueFreed, BatchFreed DEF RunOK
<1> QED
  BY <1>1, <1>2, <1>3, <1>4, <1>5 DEF PullAction

LEMMA IterEventStep ==
  ASSUME IInv, IterEvent
  PROVE  IInv'
<1> USE DEF IInv
<1>1. /\ it.running /\ user = "iter" /\ ~ batch.on /\ Advance
      /\ UNCHANGED <<doc, source, user, stage, mirror, batch>>
  BY DEF IterEvent, RunOK, BatchOK
<1>2. QueueOK' /\ (Takes \/ Finds)
  BY <1>1, AdvanceKeeps
<1>3. BatchOK'
  BY <1>1, <1>2, BatchIdle
<1>4. "running" \in DOMAIN it'
  <2>1. PICK w : w = [it |-> it, nodes |-> nodes]
    OBVIOUS
  <2>2. Whole(w)
    BY <2>1 DEF Whole, RunOK
  <2>3. CASE taken' = taken
    <3>1. it' = Stop(w, it.error \/ it.depth # 0).it
      BY <2>1, <2>3 DEF IterEvent
    <3>2. Whole(Stop(w, it.error \/ it.depth # 0))
      BY <2>2 DEF Stop, Whole
    <3> QED
      BY <3>1, <3>2 DEF Whole
  <2>4. CASE taken' # taken
    <3>1. PICK e : e = current'.ev
      OBVIOUS
    <3>2. e = taken + 1 /\ taken' = taken + 1
      BY <1>2, <2>4, <3>1 DEF Takes, Finds
    <3>3. doc[e].type \in EventTypes
      <4>1. doc' = doc /\ fed' \in 0 .. Len(doc) /\ taken' \in 0 .. fed'
        BY <1>1, <1>2 DEF QueueOK
      <4>2. e \in 1 .. Len(doc)
        BY <3>2, <4>1, QueueFacts
      <4> QED
        BY <4>2, DocFacts, QueueFacts
    <3>4. it' = Handled(w, e).it
      BY <2>1, <2>4, <3>1 DEF IterEvent
    <3>5. Whole(Handled(w, e))
      BY <2>2, <3>3, HandledWhole
    <3> QED
      BY <3>4, <3>5 DEF Whole
  <2> QED
    BY <2>3, <2>4
<1>5. RunOK'
  BY <1>1, <1>4 DEF RunOK
<1> QED
  BY <1>2, <1>3, <1>5

LEMMA StepIInv ==
  ASSUME IInv, [Next]_vars
  PROVE  IInv'
<1>1. CASE PullAction /\ UNCHANGED <<it, nodes>>
  BY <1>1, PullStep
<1>2. CASE IterNext
  <2>1. QueueOK' /\ BatchOK'
    BY <1>2, SamePull DEF IterNext
  <2>2. user = "iter" /\ user' = user
    BY <1>2 DEF IterNext, pullVars
  <2>3. PICK w : w = Released([it |-> it, nodes |-> nodes]) /\ Whole(w)
    <3>1. Whole([it |-> it, nodes |-> nodes])
      BY DEF IInv, RunOK, Whole
    <3> QED
      BY <3>1, ReleasedWhole
  <2>4. it' = [w.it EXCEPT !.running = TRUE]
    BY <1>2, <2>3 DEF IterNext
  <2>5. RunOK'
    BY <2>2, <2>3, <2>4 DEF RunOK, Whole
  <2> QED
    BY <2>1, <2>5 DEF IInv
<1>3. CASE IterEvent
  BY <1>3, IterEventStep
<1>4. CASE IterFree
  <2>1. /\ user = "iter" /\ ~ it.running /\ Freed
        /\ it' = [it EXCEPT !.done = 0, !.subDoc = FALSE, !.rootDoc = FALSE]
    BY <1>4 DEF IterFree
  <2>2. QueueOK' /\ BatchOK'
    BY <2>1, QueueFreed, BatchFreed DEF IInv
  <2>3. RunOK'
    BY <2>1 DEF IInv, RunOK
  <2> QED
    BY <2>2, <2>3 DEF IInv
<1>5. CASE UNCHANGED vars
  <2>1. UNCHANGED pullVars /\ it' = it /\ user' = user
    BY <1>5 DEF vars, pullVars
  <2> QED
    BY <2>1, SamePull DEF IInv, RunOK
<1> QED
  BY <1>1, <1>2, <1>3, <1>4, <1>5 DEF Next

(* The invariant of the queue, the batch and the iterator's turn, at every step.     *)
THEOREM PullInvariant == Spec => []IInv
<1>1. Init => IInv
  BY InitIInv
<1>2. IInv /\ [Next]_vars => IInv'
  BY StepIInv
<1> QED
  BY <1>1, <1>2, PTL DEF Spec

(* Every event is in one place and freed once (pull.c): whatever the slices, the     *)
(* size of the ring, the batches and the calls, of the program or of the iterator.   *)
THEOREM EventsAccounted == Spec => []Accounted
<1>1. IInv => Accounted
  <2> SUFFICES ASSUME IInv PROVE Accounted
    OBVIOUS
  <2>1. QueueOK
    BY DEF IInv
  <2>2. taken \in Nat /\ fed \in Nat
    BY <2>1, QueueFacts
  <2>3. user # "gone" => Queued(ring) = [i \in 1 .. (fed - taken) |-> taken + i]
    BY <2>1, <2>2, HoldsQueue DEF QueueOK
  <2> QED
    BY <2>1, <2>3, QueueFacts DEF Accounted, FreeCount
<1> QED
  BY <1>1, PullInvariant, PTL

LEMMA PointsRead ==
  ASSUME NEW ptrs, NEW T, NEW strings \in Seq(T), Points(stage, ptrs, strings)
  PROVE  Read(ptrs) = strings
<1>1. DOMAIN ptrs = DOMAIN strings /\ \A k \in DOMAIN ptrs : HasAt(stage, ptrs[k], strings[k])
  BY DEF Points
<1>2. \A k \in DOMAIN ptrs : Deref(ptrs[k]) = strings[k]
  BY <1>1 DEF HasAt, Deref
<1>3. Read(ptrs) = [k \in DOMAIN strings |-> strings[k]]
  BY <1>1, <1>2 DEF Read
<1>4. strings = [k \in DOMAIN strings |-> strings[k]]
  OBVIOUS
<1> QED
  BY <1>3, <1>4, Zenon

LEMMA ReadsBatch ==
  ASSUME IInv PROVE BatchReadable
<1>1. ASSUME NEW k \in DOMAIN batch.out
      PROVE  Read(batch.out[k].ptrs) = doc[batch.out[k].ev].strings
  <2>1. PICK T : T = STRING
    OBVIOUS
  <2>2. k \in 1 .. Len(batch.out)
    BY <1>1, BatchFacts DEF IInv, Outs
  <2>3. batch.out[k].ev \in 1 .. taken /\ Points(stage, batch.out[k].ptrs, doc[batch.out[k].ev].strings)
    BY <2>2 DEF IInv, BatchOK, OutOK
  <2>4. batch.out[k].ev \in 1 .. Len(doc)
    BY <2>3, QueueFacts DEF IInv
  <2>5. doc[batch.out[k].ev].strings \in Seq(T)
    BY <2>1, <2>4, DocFacts, QueueFacts DEF IInv
  <2> QED
    BY <2>3, <2>5, PointsRead
<1> QED
  BY <1>1 DEF BatchReadable

(* The strings of a batch read what the events held until the next batch             *)
(* (pull.c:311-317), whatever the blocks of the stage hold.                          *)
THEOREM BatchesReadable == Spec => []BatchReadable
BY ReadsBatch, PullInvariant, PTL

LEMMA ServesAttrs ==
  ASSUME IInv, JustBatched
  PROVE  \/ Bearing = {} /\ Served = <<>>
         \/ \E k \in Bearing : (\A j \in Bearing : j <= k) /\ Served = AttrsAt(k)
<1>0. /\ QueueOK /\ BatchOK /\ doc \in Documents /\ taken \in Nat /\ taken <= Len(doc) /\ Len(doc) \in Nat
      /\ current.staged \in BOOLEAN /\ batch.last \in Nat /\ batch.out \in Outs
  BY QueueFacts, BatchFacts DEF IInv
<1>1. PICK out : out = batch.out
  OBVIOUS
<1>2. /\ out \in Seq(Entries) /\ Len(out) \in Nat /\ DOMAIN out = 1 .. Len(out) /\ out # <<>>
      /\ current.staged \/ current.ev = Last(out).ev
  BY <1>0, <1>1 DEF Outs, JustBatched
<1>3. /\ MirrorOK(doc, stage, mirror, out, batch.last) /\ OutOK(doc, stage, out, taken)
      /\ current.staged => batch.last # 0 /\ current.ev = batch.last
      /\ ~ current.staged => batch.last = 0
  BY <1>0, <1>1, <1>2 DEF BatchOK, StagedOK, JustBatched
<1>4. \A k \in 1 .. Len(out) : Bears(doc, out[k].ev) <=> k \in Starts /\ AttrsAt(k) # <<>>
  BY <1>1, <1>2 DEF Bears, Starts, AttrsAt
<1>5. CASE batch.last = 0
  <2>1. ~ current.staged /\ current.ev = Last(out).ev
    BY <1>2, <1>3, <1>5
  <2>2. \A k \in 1 .. Len(out) : ~ Bears(doc, out[k].ev)
    <3>1. \A k \in 1 .. Len(out) : out[k].ev # 0
      BY <1>0, <1>3 DEF OutOK
    <3> QED
      BY <1>3, <1>5, <3>1 DEF MirrorOK
  <2>3. \A k \in Starts : k \in 1 .. Len(out) /\ AttrsAt(k) = <<>>
    BY <1>1, <1>2, <1>4, <2>2 DEF Starts
  <2>4. Len(out) \in 1 .. Len(out) /\ Last(out) = out[Len(out)]
    <3>1. Len(out) # 0
      BY <1>2
    <3> QED
      BY <1>2, <3>1, LastAt
  <2>5. ~ Bears(doc, current.ev)
    BY <2>1, <2>2, <2>4
  <2>6. Served = <<>>
    BY <2>1, <2>5 DEF Served, Bears
  <2>7. Bearing = {}
    BY <2>3 DEF Bearing
  <2> QED
    BY <2>6, <2>7
<1>6. CASE batch.last # 0
  <2>1. current.staged /\ current.ev = batch.last
    BY <1>3, <1>6
  <2>2. PICK m \in 1 .. Len(out) :
          /\ out[m].ev = batch.last /\ Bears(doc, batch.last) /\ Points(stage, mirror, doc[batch.last].attrs)
          /\ \A j \in 1 .. Len(out) : j > m => ~ Bears(doc, out[j].ev)
    BY <1>3, <1>6 DEF MirrorOK
  <2>3. batch.last \in 1 .. Len(doc)
    <3>1. out[m].ev \in 1 .. taken
      BY <1>3 DEF OutOK
    <3> QED
      BY <1>0, <2>2, <3>1
  <2>4. PICK T : T = STRING
    OBVIOUS
  <2>5. doc[batch.last].attrs \in Seq(T)
    BY <1>0, <2>3, <2>4, DocFacts
  <2>6. Read(mirror) = doc[batch.last].attrs
    BY <2>2, <2>5, PointsRead
  <2>7. Served = doc[batch.last].attrs
    BY <1>6, <2>1, <2>2, <2>6 DEF Served, Bears
  <2>8. m \in Bearing /\ Served = AttrsAt(m)
    BY <1>1, <1>4, <2>2, <2>7 DEF Bearing, AttrsAt
  <2>9. ASSUME NEW k \in Bearing PROVE k <= m
    <3>1. k \in 1 .. Len(out) /\ Bears(doc, out[k].ev)
      BY <1>1, <1>2, <1>4 DEF Bearing, Starts
    <3> QED
      BY <2>2, <3>1
  <2> QED
    BY <2>8, <2>9
<1> QED
  BY <1>5, <1>6

(* After a batch the attribute calls serve its last START when that has attributes,   *)
(* and never those of an earlier batch or of a START that a later one of the batch     *)
(* overwrote (pull.c:439-441, 465-466, 496-511), also when an earlier event was        *)
(* current and the batch ended with another event.                                     *)
THEOREM AttributesServed == Spec => []AttrsServed
<1>1. IInv => AttrsServed
  <2> SUFFICES ASSUME IInv, JustBatched
               PROVE  /\ \A k \in Starts : (\A j \in Starts : j <= k) /\ AttrsAt(k) # <<>> => Served = AttrsAt(k)
                      /\ Served # <<>> => \E k \in Bearing : (\A j \in Bearing : j <= k) /\ Served = AttrsAt(k)
    BY DEF AttrsServed
  <2>1. CASE Bearing = {} /\ Served = <<>>
    BY <2>1 DEF Bearing
  <2>2. ASSUME NEW m \in Bearing, \A j \in Bearing : j <= m, Served = AttrsAt(m),
               NEW k \in Starts, \A j \in Starts : j <= k, AttrsAt(k) # <<>>
        PROVE  k = m
    <3>1. Starts \subseteq Nat
      BY QueueFacts, BatchFacts DEF IInv, Starts, Outs
    <3>2. k \in Bearing /\ m \in Starts
      BY <2>2 DEF Bearing
    <3>3. k <= m /\ m <= k
      BY <2>2, <3>2
    <3> QED
      BY <3>1, <3>2, <3>3
  <2> QED
    BY ServesAttrs, <2>1, <2>2
<1> QED
  BY <1>1, PullInvariant, PTL
===============================================================================
