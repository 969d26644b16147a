--------------------------- MODULE RootDocMapProofs ---------------------------
(* Theorems of RootDocMap, for any number of threads, documents, addresses   *)
(* and buckets: a trusted memo agrees with the map, buckets and document     *)
(* chains agree, an element resolves into its own family.                    *)
EXTENDS RootDocMap, ChainsProofs

BucketSet == {Bucket[r] : r \in Roots}
EntryType == [root : Roots \cup {None}, doc : Docs \cup {None}]
EntriesAt(r) == {e \in Entries : entry[e].root = r}

(* The map by itself: an entry is spare, or it names a root and a document   *)
(* and is in the bucket of the one and the chain of the other.               *)
MapType == /\ buckets \in [BucketSet -> Seq(Entries)]
           /\ chains \in [Docs -> Seq(Entries)]
           /\ entry \in [Entries -> EntryType]
           /\ spare \subseteq Entries
SpareOK(e) == /\ \A b \in BucketSet : e \notin ToSet(buckets[b])
              /\ \A d \in Docs : e \notin ToSet(chains[d])
TakenOK(e) == /\ entry[e].root \in Roots /\ entry[e].doc \in Docs
              /\ \A b \in BucketSet : e \in ToSet(buckets[b]) <=> b = Bucket[entry[e].root]
              /\ \A d \in Docs : e \in ToSet(chains[d]) <=> d = entry[e].doc
MapOK == /\ MapType
         /\ \A e \in Entries : IF e \in spare THEN SpareOK(e) ELSE TakenOK(e)
         /\ \A b \in BucketSet : IsInjective(buckets[b])

(* The walk over a bucket finds one entry of the root or none.               *)
LEMMA WalkFinds ==
  ASSUME MapOK, NEW r \in Roots
  PROVE  /\ \A e \in Found(r) : /\ e \in Entries \ spare /\ e \in ToSet(buckets[Bucket[r]])
                                /\ entry[e].root = r /\ entry[e].doc \in Docs
                                /\ Found(r) = {e} /\ Find(r) = entry[e].doc
         /\ Found(r) = {} => Find(r) = None
<1>1. Bucket[r] \in BucketSet /\ buckets[Bucket[r]] \in Seq(Entries)
  BY DEF BucketSet, MapOK, MapType
<1>2. /\ Found(r) \subseteq ToSet(buckets[Bucket[r]]) \cap EntriesAt(r)
      /\ \A x, y \in Found(r) : x = y
  BY <1>1, FirstOnce DEF Found, EntriesAt
<1>3. ASSUME NEW e \in Found(r)
      PROVE  /\ e \in Entries \ spare /\ e \in ToSet(buckets[Bucket[r]])
             /\ entry[e].root = r /\ entry[e].doc \in Docs
             /\ Found(r) = {e} /\ Find(r) = entry[e].doc
  <2>1. e \in Entries /\ e \in ToSet(buckets[Bucket[r]]) /\ entry[e].root = r
    BY <1>2, <1>3 DEF EntriesAt
  <2>2. e \notin spare
    BY <1>1, <2>1 DEF MapOK, SpareOK
  <2>3. Found(r) = {e}
    BY <1>2, <1>3
  <2>4. (CHOOSE x \in Found(r) : TRUE) = e
    BY <2>3
  <2> QED
    BY <2>1, <2>2, <2>3, <2>4 DEF MapOK, TakenOK, Find
<1> QED
  BY <1>3 DEF Find

(* The walk depends on the bucket and the roots of its entries alone.        *)
LEMMA SameWalk ==
  ASSUME MapOK, MapOK', NEW r \in Roots, Found(r)' = Found(r),
         \A e \in Found(r) : entry'[e].doc = entry[e].doc
  PROVE  Find(r)' = Find(r)
<1>1. CASE Found(r) = {}
  BY <1>1 DEF Find
<1>2. CASE Found(r) # {}
  BY <1>2, WalkFinds DEF Find
<1> QED
  BY <1>1, <1>2

-------------------------------------------------------------------------------
LEMMA MapStays ==
  ASSUME MapOK, UNCHANGED map
  PROVE  MapOK' /\ \A q \in Roots : Find(q)' = Find(q)
<1>1. /\ UNCHANGED <<buckets, chains, entry, spare>>
      /\ BucketSet' = BucketSet /\ EntryType' = EntryType
  BY DEF map, BucketSet, EntryType
<1>2. MapType'
  BY <1>1 DEF MapOK, MapType
<1>3. \A e \in Entries : (SpareOK(e) => SpareOK(e)') /\ (TakenOK(e) => TakenOK(e)')
  BY <1>1 DEF SpareOK, TakenOK
<1>4. MapOK'
  BY <1>1, <1>2, <1>3 DEF MapOK
<1>5. \A q \in Roots : Found(q)' = Found(q)
  BY <1>1 DEF Found
<1> QED
  BY <1>1, <1>4, <1>5, SameWalk

(* A new entry is the first of its root and of no other.                     *)
LEMMA PrependedMap ==
  ASSUME MapOK, NEW r \in Roots, NEW d \in Docs, Prepended(r, d)
  PROVE  /\ MapOK' /\ Find(r)' = d
         /\ \A q \in Roots \ {r} : Find(q)' = Find(q)
         /\ \A e \in Entries \ spare' : entry'[e].doc = d \/ (e \notin spare /\ entry'[e] = entry[e])
<1>1. PICK e \in spare :
        /\ entry' = [entry EXCEPT ![e] = [root |-> r, doc |-> d]]
        /\ buckets' = [buckets EXCEPT ![Bucket[r]] = Push(@, e)]
        /\ chains' = [chains EXCEPT ![d] = Push(@, e)]
        /\ spare' = spare \ {e}
  BY DEF Prepended
<1>2. /\ e \in Entries /\ Bucket[r] \in BucketSet /\ SpareOK(e)
      /\ buckets \in [BucketSet -> Seq(Entries)] /\ chains \in [Docs -> Seq(Entries)]
      /\ entry \in [Entries -> EntryType] /\ spare \subseteq Entries
  BY <1>1 DEF MapOK, MapType, BucketSet
<1>3. /\ entry'[e] = [root |-> r, doc |-> d]
      /\ \A x \in Entries \ {e} : entry'[x] = entry[x]
  BY <1>1, <1>2
<1>4. /\ buckets'[Bucket[r]] = Push(buckets[Bucket[r]], e)
      /\ chains'[d] = Push(chains[d], e)
      /\ \A b \in BucketSet \ {Bucket[r]} : buckets'[b] = buckets[b]
      /\ \A c \in Docs \ {d} : chains'[c] = chains[c]
  BY <1>1, <1>2
<1>5. /\ buckets'[Bucket[r]] \in Seq(Entries) /\ chains'[d] \in Seq(Entries)
      /\ ToSet(buckets'[Bucket[r]]) = ToSet(buckets[Bucket[r]]) \cup {e}
      /\ ToSet(chains'[d]) = ToSet(chains[d]) \cup {e}
      /\ IsInjective(buckets'[Bucket[r]])
  <2>1. buckets[Bucket[r]] \in Seq(Entries) /\ chains[d] \in Seq(Entries)
    BY <1>2
  <2>2. IsInjective(buckets[Bucket[r]]) /\ e \notin ToSet(buckets[Bucket[r]])
    BY <1>2 DEF MapOK, SpareOK
  <2>3. PICK s \in Seq(Entries), c \in Seq(Entries) : s = buckets[Bucket[r]] /\ c = chains[d]
    BY <2>1
  <2> QED
    BY <1>2, <1>4, <2>2, <2>3, PushFront
<1>0. BucketSet' = BucketSet
  BY DEF BucketSet
<1>6. MapType'
  <2>1. entry' \in [Entries -> EntryType]
    BY <1>1, <1>2 DEF EntryType
  <2>2. buckets' \in [BucketSet -> Seq(Entries)]
    BY <1>1, <1>2, <1>5
  <2>3. chains' \in [Docs -> Seq(Entries)]
    BY <1>1, <1>2, <1>5
  <2> QED
    BY <1>0, <1>1, <1>2, <2>1, <2>2, <2>3 DEF MapType, EntryType
<1>7. \A x \in Entries : IF x \in spare' THEN SpareOK(x)' ELSE TakenOK(x)'
  <2>1. \A b \in BucketSet, x \in Entries :
           x \in ToSet(buckets'[b]) <=> (IF x = e THEN b = Bucket[r] ELSE x \in ToSet(buckets[b]))
    BY <1>2, <1>4, <1>5 DEF SpareOK
  <2>2. \A c \in Docs, x \in Entries :
           x \in ToSet(chains'[c]) <=> (IF x = e THEN c = d ELSE x \in ToSet(chains[c]))
    BY <1>2, <1>4, <1>5 DEF SpareOK
  <2>3. ASSUME NEW x \in Entries, x # e, x \in spare PROVE SpareOK(x)'
    BY <1>0, <2>1, <2>2, <2>3 DEF SpareOK, MapOK
  <2>4. ASSUME NEW x \in Entries, x # e, x \notin spare PROVE TakenOK(x)'
    <3>1. TakenOK(x) /\ entry'[x] = entry[x]
      BY <1>3, <2>4 DEF MapOK
    <3> QED
      BY <1>0, <2>1, <2>2, <2>4, <3>1 DEF TakenOK
  <2>5. TakenOK(e)'
    BY <1>0, <1>2, <1>3, <2>1, <2>2 DEF TakenOK
  <2> QED
    BY <1>1, <2>3, <2>4, <2>5
<1>8. MapOK'
  BY <1>0, <1>4, <1>5, <1>6, <1>7 DEF MapOK
<1>9. Find(r)' = d
  <2>1. PICK s \in Seq(Entries) : s = buckets[Bucket[r]]
    BY <1>2
  <2>2. PICK R : R = {x \in Entries : entry'[x].root = r}
    OBVIOUS
  <2>3. e \in R
    BY <1>2, <1>3, <2>2
  <2>4. Found(r)' = FirstOf(buckets'[Bucket[r]], R)
    BY <2>2 DEF Found
  <2>5. FirstOf(buckets'[Bucket[r]], R) = {e}
    BY <1>2, <1>4, <2>1, <2>3, FirstPushed
  <2>6. Found(r)' = {e}
    BY <2>4, <2>5
  <2>7. (CHOOSE x \in {e} : TRUE) = e
    OBVIOUS
  <2> QED
    BY <1>3, <2>6, <2>7 DEF Find
<1>10. ASSUME NEW q \in Roots \ {r} PROVE Find(q)' = Find(q)
  <2>1. {x \in Entries : entry'[x].root = q} = EntriesAt(q) \ {e}
    BY <1>2, <1>3 DEF EntriesAt
  <2>2. Bucket[q] \in BucketSet /\ buckets[Bucket[q]] \in Seq(Entries)
    BY <1>2 DEF BucketSet
  <2>3. e \notin Found(q)
    BY <1>1, WalkFinds
  <2>4. Found(q)' = FirstOf(buckets[Bucket[q]], EntriesAt(q) \ {e})
    <3>1. Found(q)' = FirstOf(buckets'[Bucket[q]], EntriesAt(q) \ {e})
      BY <2>1 DEF Found
    <3>2. CASE Bucket[q] = Bucket[r]
      <4>1. PICK s, R : s \in Seq(Entries) /\ s = buckets[Bucket[q]] /\ R = EntriesAt(q) \ {e}
        BY <2>2
      <4>2. FirstOf(buckets'[Bucket[q]], R) = FirstOf(s, R)
        BY <1>2, <1>4, <3>2, <4>1, FirstPushed
      <4> QED
        BY <3>1, <4>1, <4>2
    <3>3. CASE Bucket[q] # Bucket[r]
      BY <1>4, <2>2, <3>1, <3>3
    <3> QED
      BY <3>2, <3>3
  <2>5. FirstOf(buckets[Bucket[q]], EntriesAt(q) \ {e}) = FirstOf(buckets[Bucket[q]], EntriesAt(q))
    <3>1. e \notin ToSet(buckets[Bucket[q]])
      BY <1>2, <2>2 DEF SpareOK
    <3> QED
      BY <2>2, <3>1, FirstUnder
  <2>6. Found(q)' = Found(q)
    BY <2>4, <2>5 DEF Found, EntriesAt
  <2>7. \A x \in Found(q) : entry'[x] = entry[x]
    BY <1>3, <2>3, WalkFinds
  <2> QED
    BY <1>8, <2>6, <2>7, SameWalk
<1> QED
  BY <1>1, <1>3, <1>8, <1>9, <1>10

(* An entry that moves to another document stays in its bucket.              *)
LEMMA RechainedMap ==
  ASSUME MapOK, NEW r \in Roots, NEW d \in Docs, Rechained(r, d)
  PROVE  /\ MapOK' /\ Find(r)' = d
         /\ \A q \in Roots \ {r} : Find(q)' = Find(q)
         /\ \A e \in Entries \ spare' : entry'[e].doc = d \/ (e \notin spare /\ entry'[e] = entry[e])
<1>1. PICK e \in Found(r) :
        IF entry[e].doc = d THEN UNCHANGED map
        ELSE /\ entry' = [entry EXCEPT ![e].doc = d]
             /\ chains' = [chains EXCEPT ![entry[e].doc] = Without(@, {e}), ![d] = Push(@, e)]
             /\ UNCHANGED <<buckets, spare>>
  BY DEF Rechained
<1>2. /\ e \in Entries \ spare /\ entry[e].root = r /\ entry[e].doc \in Docs
      /\ Found(r) = {e} /\ Find(r) = entry[e].doc
  BY WalkFinds
<1>3. CASE entry[e].doc = d
  <2>1. UNCHANGED map
    BY <1>1, <1>3
  <2>2. MapOK' /\ \A q \in Roots : Find(q)' = Find(q)
    BY <2>1, MapStays
  <2> QED
    BY <1>2, <1>3, <2>1, <2>2 DEF map
<1>4. CASE entry[e].doc # d
  <2>1. PICK old \in Docs : old = entry[e].doc /\ old # d
    BY <1>2, <1>4
  <2>2. /\ entry' = [entry EXCEPT ![e].doc = d]
        /\ chains' = [chains EXCEPT ![old] = Without(@, {e}), ![d] = Push(@, e)]
        /\ UNCHANGED <<buckets, spare>>
    BY <1>1, <2>1
  <2>3. /\ entry \in [Entries -> EntryType] /\ chains \in [Docs -> Seq(Entries)]
        /\ buckets \in [BucketSet -> Seq(Entries)] /\ BucketSet' = BucketSet
        /\ spare \subseteq Entries
    BY DEF MapOK, MapType, BucketSet
  <2>4. /\ entry' \in [Entries -> EntryType]
        /\ entry'[e].root = r /\ entry'[e].doc = d
        /\ \A x \in Entries \ {e} : entry'[x] = entry[x]
    BY <1>2, <2>2, <2>3 DEF EntryType
  <2>5. /\ chains'[old] = Without(chains[old], {e}) /\ chains'[d] = Push(chains[d], e)
        /\ \A c \in Docs \ {old, d} : chains'[c] = chains[c]
    BY <2>1, <2>2, <2>3
  <2>6. TakenOK(e)
    BY <1>2 DEF MapOK
  <2>7. /\ chains'[old] \in Seq(Entries) /\ chains'[d] \in Seq(Entries)
        /\ ToSet(chains'[old]) = ToSet(chains[old]) \ {e}
        /\ ToSet(chains'[d]) = ToSet(chains[d]) \cup {e}
    <3>1. PICK s \in Seq(Entries), c \in Seq(Entries) : s = chains[old] /\ c = chains[d]
      BY <2>3
    <3>2. /\ Without(s, {e}) \in Seq(Entries)
          /\ ToSet(Without(s, {e})) = ToSet(s) \ {e}
      BY WithoutSeq
    <3>3. /\ chains'[d] \in Seq(Entries) /\ ToSet(chains'[d]) = ToSet(c) \cup {e}
      BY <1>2, <2>5, <3>1, PushFront
    <3> QED
      BY <2>5, <3>1, <3>2, <3>3
  <2>8. chains' \in [Docs -> Seq(Entries)]
    BY <2>2, <2>3, <2>5, <2>7
  <2>9. MapType'
    BY <2>2, <2>3, <2>4, <2>8 DEF MapType, EntryType
  <2>10. \A c \in Docs, x \in Entries :
            x \in ToSet(chains'[c]) <=> (IF x = e THEN c = d ELSE x \in ToSet(chains[c]))
    <3>1. \A c \in Docs : e \in ToSet(chains[c]) <=> c = old
      BY <2>1, <2>6 DEF TakenOK
    <3>2. ASSUME NEW c \in Docs \ {old, d} PROVE ToSet(chains'[c]) = ToSet(chains[c])
      BY <2>5
    <3> QED
      BY <2>1, <2>7, <3>1, <3>2
  <2>11. ASSUME NEW x \in Entries PROVE IF x \in spare' THEN SpareOK(x)' ELSE TakenOK(x)'
    <3>1. CASE x = e
      <4>1. TakenOK(e)'
        <5>1. \A b \in BucketSet : e \in ToSet(buckets'[b]) <=> b = Bucket[entry'[e].root]
          BY <1>2, <2>2, <2>4, <2>6 DEF TakenOK
        <5>2. \A c \in Docs : e \in ToSet(chains'[c]) <=> c = entry'[e].doc
          BY <1>2, <2>4, <2>10
        <5> QED
          BY <2>3, <2>4, <5>1, <5>2 DEF TakenOK
      <4> QED
        BY <1>2, <2>2, <3>1, <4>1
    <3>2. CASE x # e /\ x \in spare
      BY <2>2, <2>3, <2>10, <3>2 DEF SpareOK, MapOK
    <3>3. CASE x # e /\ x \notin spare
      <4>1. TakenOK(x) /\ entry'[x] = entry[x]
        BY <2>4, <3>3 DEF MapOK
      <4> QED
        BY <2>2, <2>3, <2>10, <3>3, <4>1 DEF TakenOK
    <3> QED
      BY <3>1, <3>2, <3>3
  <2>12. MapOK'
    BY <2>2, <2>3, <2>9, <2>11 DEF MapOK
  <2>13. ASSUME NEW q \in Roots PROVE Found(q)' = Found(q)
    <3>1. {x \in Entries : entry'[x].root = q} = EntriesAt(q)
      BY <1>2, <2>4 DEF EntriesAt
    <3> QED
      BY <2>2, <3>1 DEF Found, EntriesAt
  <2>14. ASSUME NEW q \in Roots \ {r} PROVE Find(q)' = Find(q)
    <3>1. \A x \in Found(q) : x \in Entries \ {e}
      BY <1>2, WalkFinds
    <3> QED
      BY <2>4, <2>12, <2>13, <3>1, SameWalk
  <2>15. Find(r)' = d
    <3>1. (CHOOSE x \in {e} : TRUE) = e
      OBVIOUS
    <3> QED
      BY <1>2, <2>4, <2>13, <3>1 DEF Find
  <2> QED
    BY <1>2, <2>2, <2>4, <2>12, <2>14, <2>15
<1> QED
  BY <1>3, <1>4

(* Registering: r resolves to d, nothing else changes.                       *)
LEMMA RegisterMap ==
  ASSUME MapOK, NEW r \in Roots, NEW d \in Docs, NEW mark, Register(r, d, mark)
  PROVE  /\ MapOK' /\ Find(r)' = d
         /\ \A q \in Roots \ {r} : Find(q)' = Find(q)
         /\ \A e \in Entries \ spare' : entry'[e].doc = d \/ (e \notin spare /\ entry'[e] = entry[e])
BY PrependedMap, RechainedMap DEF Register

(* Dropping entries of d's chain: a walk that found none of them still finds *)
(* what it found.                                                            *)
LEMMA DroppedMap ==
  ASSUME MapOK, NEW d \in Docs, NEW E \in SUBSET ToSet(chains[d]), Dropped(E, d)
  PROVE  /\ MapOK' /\ entry' = entry /\ spare' = spare \cup E
         /\ ToSet(chains'[d]) = ToSet(chains[d]) \ E /\ chains'[d] \in Seq(Entries)
         /\ \A c \in Docs \ {d} : chains'[c] = chains[c]
         /\ \A q \in Roots : E \cap EntriesAt(q) = {} => Find(q)' = Find(q)
         /\ \A q \in Roots : \A e \in Found(q) \ E : Find(q)' = Find(q)
<1>1. /\ buckets \in [BucketSet -> Seq(Entries)] /\ chains \in [Docs -> Seq(Entries)]
      /\ entry \in [Entries -> EntryType] /\ spare \subseteq Entries /\ BucketSet' = BucketSet
  BY DEF MapOK, MapType, BucketSet
<1>2. /\ buckets' = [b \in BucketSet |-> Without(buckets[b], E)]
      /\ chains' = [chains EXCEPT ![d] = Without(@, E)]
      /\ spare' = spare \cup E /\ entry' = entry
  BY <1>1 DEF Dropped
<1>3. ASSUME NEW b \in BucketSet
      PROVE  /\ buckets'[b] \in Seq(Entries) /\ ToSet(buckets'[b]) = ToSet(buckets[b]) \ E
             /\ IsInjective(buckets'[b])
             /\ \A R : FirstOf(buckets'[b], R) = FirstOf(buckets[b], R \ E)
  <2>1. PICK s \in Seq(Entries) : s = buckets[b] /\ IsInjective(s)
    BY <1>1 DEF MapOK
  <2>2. buckets'[b] = Without(s, E)
    BY <1>2, <2>1
  <2>3. \A R : FirstOf(Without(s, E), R) = FirstOf(s, R \ E)
    BY FirstWithout
  <2> QED
    BY <2>1, <2>2, <2>3, WithoutSeq
<1>4. /\ chains'[d] \in Seq(Entries) /\ ToSet(chains'[d]) = ToSet(chains[d]) \ E
      /\ \A c \in Docs \ {d} : chains'[c] = chains[c]
  <2>1. PICK s \in Seq(Entries) : s = chains[d]
    BY <1>1
  <2>2. chains'[d] = Without(s, E)
    BY <1>1, <1>2, <2>1
  <2> QED
    BY <1>1, <1>2, <2>1, <2>2, WithoutSeq
<1>5. E \subseteq Entries
  BY <1>1 DEF ToSet
<1>6. MapType'
  <2>1. chains' \in [Docs -> Seq(Entries)]
    BY <1>1, <1>2, <1>4
  <2>2. buckets' \in [BucketSet -> Seq(Entries)]
    BY <1>2, <1>3
  <2> QED
    BY <1>1, <1>2, <1>5, <2>1, <2>2 DEF MapType, EntryType
<1>7. ASSUME NEW x \in Entries PROVE IF x \in spare' THEN SpareOK(x)' ELSE TakenOK(x)'
  <2>1. CASE x \in E
    <3>1. x \in ToSet(chains[d]) /\ x \notin spare
      BY <2>1 DEF MapOK, SpareOK
    <3>2. TakenOK(x)
      BY <3>1 DEF MapOK
    <3> QED
      BY <1>1, <1>2, <1>3, <1>4, <2>1, <3>1, <3>2 DEF SpareOK, TakenOK
  <2>2. CASE x \notin E /\ x \in spare
    BY <1>1, <1>2, <1>3, <1>4, <2>2 DEF SpareOK, MapOK
  <2>3. CASE x \notin E /\ x \notin spare
    <3>1. TakenOK(x)
      BY <2>3 DEF MapOK
    <3> QED
      BY <1>1, <1>2, <1>3, <1>4, <2>3, <3>1 DEF TakenOK
  <2> QED
    BY <2>1, <2>2, <2>3
<1>8. MapOK'
  BY <1>1, <1>3, <1>6, <1>7 DEF MapOK
<1>9. ASSUME NEW q \in Roots
      PROVE  Found(q)' = FirstOf(buckets[Bucket[q]], EntriesAt(q) \ E)
  <2>1. Bucket[q] \in BucketSet
    BY DEF BucketSet
  <2>2. PICK R : R = EntriesAt(q)
    OBVIOUS
  <2>3. Found(q)' = FirstOf(buckets'[Bucket[q]], R)
    BY <1>2, <2>2 DEF Found, EntriesAt
  <2> QED
    BY <1>3, <2>1, <2>2, <2>3
<1>10. ASSUME NEW q \in Roots, E \cap EntriesAt(q) = {} PROVE Find(q)' = Find(q)
  <2>1. EntriesAt(q) \ E = EntriesAt(q)
    BY <1>10
  <2>2. Found(q)' = Found(q)
    BY <1>9, <2>1 DEF Found, EntriesAt
  <2> QED
    BY <1>2, <1>8, <2>2, SameWalk
<1>11. ASSUME NEW q \in Roots, NEW e \in Found(q) \ E PROVE Find(q)' = Find(q)
  <2>1. PICK s \in Seq(Entries) : s = buckets[Bucket[q]]
    BY <1>1 DEF BucketSet
  <2>2. PICK R : R = EntriesAt(q)
    OBVIOUS
  <2>3. e \in FirstOf(s, R)
    BY <2>1, <2>2 DEF Found, EntriesAt
  <2>4. e \in FirstOf(s, R \ E)
    BY <2>3, FirstAmong
  <2>5. PICK Q : Q = R \ E
    OBVIOUS
  <2>6. Found(q)' = FirstOf(s, Q)
    BY <1>9, <2>1, <2>2, <2>5
  <2>7. Found(q)' = {e}
    BY <2>4, <2>5, <2>6, FirstOnce
  <2>8. Found(q)' = Found(q)
    BY <2>7, WalkFinds
  <2> QED
    BY <1>2, <1>8, <2>8, SameWalk
<1> QED
  BY <1>2, <1>4, <1>8, <1>10, <1>11

-------------------------------------------------------------------------------
(* Families, for any function a that says who absorbed a document.           *)
Kin(a, d) == Reached(d, [x \in Docs |-> {c \in Docs : a[c] = x}])

LEMMA KinSet ==
  ASSUME NEW a, NEW d \in Docs
  PROVE  /\ d \in Kin(a, d) /\ Kin(a, d) \subseteq Docs
         /\ \A x \in Kin(a, d), c \in Docs : a[c] = x => c \in Kin(a, d)
<1>1. PICK next \in [Docs -> SUBSET Docs] : next = [x \in Docs |-> {c \in Docs : a[c] = x}]
  OBVIOUS
<1>2. /\ d \in Reached(d, next) /\ Reached(d, next) \subseteq Docs
      /\ \A x \in Reached(d, next) : next[x] \subseteq Reached(d, next)
  BY ReachedSet, RootDocAssumption
<1>3. Kin(a, d) = Reached(d, next)
  BY <1>1 DEF Kin
<1> QED
  BY <1>1, <1>2, <1>3

LEMMA KinLeast ==
  ASSUME NEW a, NEW d \in Docs, NEW T \in SUBSET Docs, d \in T,
         \A x \in T, c \in Docs : a[c] = x => c \in T
  PROVE  Kin(a, d) \subseteq T
<1>1. PICK next \in [Docs -> SUBSET Docs] : next = [x \in Docs |-> {c \in Docs : a[c] = x}]
  OBVIOUS
<1>2. \A x \in T : next[x] \subseteq T
  BY <1>1
<1>3. Reached(d, next) \subseteq T
  BY <1>2, ReachedLeast, RootDocAssumption
<1> QED
  BY <1>1, <1>3 DEF Kin

(* All but its head were absorbed by one of the family.                      *)
LEMMA KinFrom ==
  ASSUME NEW a, NEW d \in Docs, NEW c \in Kin(a, d), c # d
  PROVE  a[c] \in Kin(a, d)
<1> DEFINE T == {x \in Kin(a, d) : x = d \/ a[x] \in Kin(a, d)}
<1>1. d \in T /\ T \in SUBSET Docs /\ \A x \in T, y \in Docs : a[y] = x => y \in T
  BY KinSet
<1>2. Kin(a, d) \subseteq T
  <2> HIDE DEF T
  <2> QED
    BY <1>1, KinLeast
<1> QED
  BY <1>2

(* A family holds the families of its members.                               *)
LEMMA KinWithin ==
  ASSUME NEW a, NEW d \in Docs, NEW c \in Kin(a, d)
  PROVE  Kin(a, c) \subseteq Kin(a, d)
<1>1. PICK T \in SUBSET Docs : T = Kin(a, d) /\ c \in Docs
  BY KinSet
<1> QED
  BY <1>1, KinSet, KinLeast

(* Families grow when a document is absorbed; a document that absorbed none  *)
(* leaves without breaking one up.                                           *)
LEMMA KinMore ==
  ASSUME NEW a, NEW b, NEW d \in Docs, \A c \in Docs : a[c] \in Docs => b[c] = a[c]
  PROVE  Kin(a, d) \subseteq Kin(b, d)
<1>1. PICK T \in SUBSET Docs : T = Kin(b, d)
  BY KinSet
<1>2. d \in T /\ \A x \in T, c \in Docs : a[c] = x => c \in T
  BY <1>1, KinSet
<1> QED
  BY <1>1, <1>2, KinLeast

LEMMA KinLess ==
  ASSUME NEW a, NEW b, NEW d \in Docs, NEW c \in Docs, \A x \in Docs : a[x] # c,
         \A x \in Docs \ {c} : b[x] = a[x]
  PROVE  Kin(a, d) \subseteq Kin(b, d) \cup {c}
<1>1. PICK T \in SUBSET Docs : T = Kin(b, d) \cup {c}
  BY KinSet
<1>2. d \in T /\ \A x \in T, y \in Docs : a[y] = x => y \in T
  BY <1>1, KinSet
<1> QED
  BY <1>1, <1>2, KinLeast

LEMMA KinAlone ==
  ASSUME NEW a, NEW c \in Docs, \A x \in Docs : a[x] # c
  PROVE  Kin(a, c) \subseteq {c}
<1>1. PICK T \in SUBSET Docs : T = {c}
  OBVIOUS
<1>2. c \in T /\ \A x \in T, y \in Docs : a[y] = x => y \in T
  BY <1>1
<1> QED
  BY <1>1, <1>2, KinLeast

LEMMA FamilyKin ==
  ASSUME NEW d
  PROVE  Family(d) = Kin(absorbed, d) /\ Family(d)' = Kin(absorbed', d)
BY DEF Family, Kin

-------------------------------------------------------------------------------
(* Who may touch what: a document's family has the users of its parent, and  *)
(* a document that is being freed has one, the thread that frees it.         *)
FreeOps == {"free", "unregister", "sweep", "release"}
Freeing(t) == call[t].op \in FreeOps
CoreType ==
  /\ pool \in [Roots -> Docs \cup {None}] /\ users \in [Docs -> SUBSET Threads]
  /\ top \in [Docs -> Roots \cup {None}] /\ absorbed \in [Docs -> Docs \cup {None}]
  /\ call \in [Threads -> [op : {"idle", "walk"} \cup FreeOps,
                           arg : Docs \cup Roots \cup {None}]]
FrameOK(t) ==
  /\ call[t].op = "idle" => call[t] = Idle
  /\ call[t].op = "walk" => /\ call[t].arg \in Roots /\ pool[call[t].arg] # None
                            /\ t \in users[pool[call[t].arg]]
  /\ Freeing(t) => /\ call[t].arg \in Docs /\ users[call[t].arg] = {t}
                   /\ absorbed[call[t].arg] = None
  /\ call[t].op \in {"unregister", "sweep", "release"} =>
       \A c \in Docs : absorbed[c] # call[t].arg
  /\ call[t].op = "unregister" => top[call[t].arg] # None
DocOK(d) ==
  /\ users[d] = {} => top[d] = None /\ absorbed[d] = None
  /\ absorbed[d] # None => users[d] = users[absorbed[d]]
  /\ top[d] # None => pool[top[d]] = d
RootOK(r) == pool[r] # None => users[pool[r]] # {}
CoreOK == /\ CoreType
          /\ \A t \in Threads : FrameOK(t)
          /\ \A d \in Docs : DocOK(d)
          /\ \A r \in Roots : RootOK(r)

LEMMA CoreTypes ==
  ASSUME CoreOK
  PROVE  /\ \A r \in Roots : pool[r] \in Docs \cup {None}
         /\ \A d \in Docs : /\ users[d] \subseteq Threads /\ top[d] \in Roots \cup {None}
                           /\ absorbed[d] \in Docs \cup {None}
         /\ None \notin Docs \cup Roots
BY RootDocAssumption DEF CoreOK, CoreType

LEMMA CoreInit == Init => CoreOK
BY RootDocAssumption DEF Init, CoreOK, CoreType, FrameOK, DocOK, RootOK, Idle, Freeing, FreeOps

LEMMA CoreStays ==
  ASSUME CoreOK, UNCHANGED <<pool, users, top, absorbed, call>> PROVE CoreOK'
<1>1. CoreType'
  BY DEF CoreOK, CoreType, FreeOps
<1>2. \A t \in Threads : FrameOK(t)'
  BY DEF CoreOK, FrameOK, Freeing, FreeOps, Idle
<1>3. \A d \in Docs : DocOK(d)'
  BY DEF CoreOK, DocOK
<1>4. \A r \in Roots : RootOK(r)'
  BY DEF CoreOK, RootOK
<1> QED
  BY <1>1, <1>2, <1>3, <1>4 DEF CoreOK

LEMMA ParseCore ==
  ASSUME CoreOK, NEW t \in Threads, NEW d \in Docs, NEW r \in Roots, Parse(t, d, r)
  PROVE  CoreOK'
<1>1. /\ users[d] = {} /\ pool[r] = None /\ call' = call /\ absorbed' = absorbed
      /\ users'[d] = {t} /\ \A c \in Docs \ {d} : users'[c] = users[c]
      /\ pool'[r] = d /\ \A q \in Roots \ {r} : pool'[q] = pool[q]
      /\ top'[d] = r /\ \A c \in Docs \ {d} : top'[c] = top[c]
  BY DEF Parse, CoreOK, CoreType
<1>2. CoreType'
  BY DEF Parse, CoreOK, CoreType, FreeOps
<1>3. ASSUME NEW u \in Threads PROVE FrameOK(u)'
  <2>1. FrameOK(u) /\ call'[u] = call[u]
    BY <1>1 DEF CoreOK
  <2>2. CASE call[u].op = "walk"
    BY <1>1, <2>1, <2>2, CoreTypes DEF FrameOK, Freeing, FreeOps
  <2>3. CASE Freeing(u)
    <3>1. call[u].arg \in Docs \ {d}
      BY <1>1, <2>1, <2>3 DEF FrameOK
    <3> QED
      BY <1>1, <2>1, <2>3, <3>1, CoreTypes DEF FrameOK, Freeing, FreeOps
  <2> QED
    BY <2>1, <2>2, <2>3 DEF FrameOK, Freeing, FreeOps, Idle
<1>4. ASSUME NEW c \in Docs PROVE DocOK(c)'
  <2>1. DocOK(c)
    BY DEF CoreOK
  <2>2. CASE c = d
    BY <1>1, <2>1, <2>2, CoreTypes DEF DocOK
  <2>3. CASE c # d
    <3>1. top[c] # None => pool'[top[c]] = c
      BY <1>1, <2>1, <2>3, CoreTypes DEF DocOK
    <3>2. absorbed[c] # None => absorbed[c] \in Docs \ {d}
      BY <1>1, <2>1, <2>3, CoreTypes DEF DocOK
    <3> QED
      BY <1>1, <2>1, <2>3, <3>1, <3>2, CoreTypes DEF DocOK
  <2> QED
    BY <2>2, <2>3
<1>5. ASSUME NEW q \in Roots PROVE RootOK(q)'
  <2>1. q # r => RootOK(q) /\ pool'[q] = pool[q]
    BY <1>1 DEF CoreOK
  <2> QED
    BY <1>1, <2>1, CoreTypes DEF RootOK
<1> QED
  BY <1>2, <1>3, <1>4, <1>5 DEF CoreOK

LEMMA CreateCore ==
  ASSUME CoreOK, NEW t \in Threads, NEW d \in Docs, NEW r \in Roots, Create(t, d, r)
  PROVE  CoreOK'
<1>1. /\ users[d] = {t} /\ pool[r] = None /\ UNCHANGED <<call, absorbed, users, top>>
      /\ pool'[r] = d /\ \A q \in Roots \ {r} : pool'[q] = pool[q]
  BY DEF Create, Holds, CoreOK, CoreType
<1>2. CoreType'
  BY DEF Create, CoreOK, CoreType, FreeOps
<1>3. ASSUME NEW u \in Threads PROVE FrameOK(u)'
  BY <1>1, RootDocAssumption DEF CoreOK, CoreType, FrameOK, Freeing, FreeOps
<1>4. ASSUME NEW c \in Docs PROVE DocOK(c)'
  BY <1>1, RootDocAssumption DEF CoreOK, CoreType, DocOK
<1>5. ASSUME NEW q \in Roots PROVE RootOK(q)'
  BY <1>1 DEF CoreOK, CoreType, RootOK
<1> QED
  BY <1>2, <1>3, <1>4, <1>5 DEF CoreOK

LEMMA ReregisterCore ==
  ASSUME CoreOK, NEW t \in Threads, NEW d \in Docs, NEW r \in Roots, NEW root \in BOOLEAN,
         Reregister(t, d, r, root)
  PROVE  CoreOK'
<1>1. /\ users[d] = {t} /\ UNCHANGED <<call, absorbed, users, pool>>
      /\ \A c \in Docs : top'[c] = top[c] \/ (c = d /\ top'[c] = r /\ pool[r] = d)
  BY DEF Reregister, Holds, CoreOK, CoreType
<1>2. CoreType'
  BY DEF Reregister, CoreOK, CoreType, FreeOps
<1>3. ASSUME NEW u \in Threads PROVE FrameOK(u)'
  BY <1>1, CoreTypes DEF CoreOK, FrameOK, Freeing, FreeOps, Idle
<1>4. ASSUME NEW c \in Docs PROVE DocOK(c)'
  BY <1>1, CoreTypes DEF CoreOK, DocOK
<1>5. ASSUME NEW q \in Roots PROVE RootOK(q)'
  BY <1>1 DEF CoreOK, RootOK
<1> QED
  BY <1>2, <1>3, <1>4, <1>5 DEF CoreOK

LEMMA AbsorbCore ==
  ASSUME CoreOK, NEW t \in Threads, NEW d \in Docs, NEW c \in Docs, Absorb(t, d, c)
  PROVE  CoreOK'
<1>1. /\ users[d] = {t} /\ users[c] = {t} /\ call[t] = Idle /\ c # d
      /\ absorbed[d] = None /\ absorbed[c] = None
      /\ absorbed'[c] = d /\ \A x \in Docs \ {c} : absorbed'[x] = absorbed[x]
      /\ UNCHANGED <<call, users, pool, top>>
  BY DEF Absorb, Holds, CoreOK, CoreType
<1>2. CoreType'
  BY DEF Absorb, CoreOK, CoreType, FreeOps
<1>3. ASSUME NEW u \in Threads PROVE FrameOK(u)'
  <2>1. FrameOK(u) /\ call'[u] = call[u]
    BY <1>1 DEF CoreOK
  <2>2. CASE Freeing(u)
    <3>1. u # t
      BY <1>1, <2>2 DEF Freeing, FreeOps, Idle
    <3>2. call[u].arg \in Docs \ {c, d}
      BY <1>1, <2>1, <2>2, <3>1 DEF FrameOK
    <3> QED
      BY <1>1, <2>1, <2>2, <3>2, CoreTypes DEF FrameOK, Freeing, FreeOps
  <2>3. CASE ~ Freeing(u)
    BY <1>1, <2>1, <2>3 DEF FrameOK, Freeing, FreeOps, Idle
  <2> QED
    BY <2>2, <2>3
<1>4. ASSUME NEW x \in Docs PROVE DocOK(x)'
  <2>1. DocOK(x)
    BY DEF CoreOK
  <2>2. CASE x = c
    BY <1>1, <2>1, <2>2, CoreTypes DEF DocOK
  <2>3. CASE x # c
    BY <1>1, <2>1, <2>3, CoreTypes DEF DocOK
  <2> QED
    BY <2>2, <2>3
<1>5. ASSUME NEW q \in Roots PROVE RootOK(q)'
  BY <1>1 DEF CoreOK, CoreType, RootOK
<1> QED
  BY <1>2, <1>3, <1>4, <1>5 DEF CoreOK

(* What a family is, and what a call is about.                               *)
LEMMA CoreFacts ==
  ASSUME CoreOK
  PROVE  /\ \A d \in Docs : \A c \in Family(d) :
              /\ c \in Docs /\ users[c] = users[d]
              /\ c # d => absorbed[c] # None
         /\ \A t \in Threads : Freeing(t) => /\ call[t].arg \in Docs
                                             /\ users[call[t].arg] = {t}
                                             /\ absorbed[call[t].arg] = None
         /\ call \in [Threads -> [op : {"idle", "walk"} \cup FreeOps,
                                  arg : Docs \cup Roots \cup {None}]]
<1>1. ASSUME NEW d \in Docs, NEW c \in Family(d)
      PROVE  c \in Docs /\ users[c] = users[d] /\ (c # d => absorbed[c] # None)
  <2>1. PICK T \in SUBSET Docs : T = {x \in Docs : users[x] = users[d]}
    OBVIOUS
  <2>2. d \in T /\ \A x \in T, y \in Docs : absorbed[y] = x => y \in T
    BY <2>1, CoreTypes DEF CoreOK, DocOK
  <2>3. Kin(absorbed, d) \subseteq T
    BY <2>2, KinLeast
  <2>4. c \in T /\ (c # d => absorbed[c] \in Docs)
    BY <1>1, <2>3, FamilyKin, KinFrom, KinSet
  <2> QED
    BY <2>1, <2>4, CoreTypes
<1> QED
  BY <1>1 DEF CoreOK, CoreType, FrameOK

(* Readers come and go; a family keeps its users in common.                  *)
LEMMA UsersCore ==
  ASSUME CoreOK, NEW d \in Docs, absorbed[d] = None, NEW U \in SUBSET Threads, U # {},
         \A u \in Threads : call[u] # Idle => (u \in users[d] <=> u \in U),
         users' = [c \in Docs |-> IF c \in Family(d) THEN U ELSE users[c]],
         \A u \in Threads : Freeing(u) => call[u].arg # d,
         UNCHANGED <<pool, top, absorbed, call>>
  PROVE  CoreOK'
<1>1. \A c \in Docs : /\ c \in Family(d) => users'[c] = U /\ users[c] = users[d]
                      /\ c \notin Family(d) => users'[c] = users[c]
                      /\ c \in Family(d) => c = d \/ absorbed[c] \in Family(d)
                      /\ absorbed[c] \in Family(d) => c \in Family(d)
  BY CoreFacts, FamilyKin, KinFrom, KinSet
<1>2. CoreType'
  BY DEF CoreOK, CoreType, FreeOps
<1>3. ASSUME NEW u \in Threads PROVE FrameOK(u)'
  <2>1. FrameOK(u)
    BY DEF CoreOK
  <2>2. CASE call[u].op = "idle"
    BY <2>1, <2>2 DEF FrameOK, Freeing, FreeOps, Idle
  <2>3. CASE call[u].op = "walk"
    <3>1. PICK p \in Docs : p = pool[call[u].arg] /\ u \in users[p]
      BY <2>1, <2>3, CoreTypes DEF FrameOK
    <3>2. u \in users'[p]
      BY <1>1, <2>3, <3>1 DEF Idle
    <3> QED
      BY <2>1, <2>3, <3>1, <3>2 DEF FrameOK, Freeing, FreeOps
  <2>4. CASE Freeing(u)
    <3>1. call[u].arg \in Docs /\ call[u].arg \notin Family(d)
      BY <1>1, <2>1, <2>4, CoreFacts DEF FrameOK
    <3>2. users'[call[u].arg] = users[call[u].arg]
      BY <1>1, <3>1
    <3> QED
      BY <2>1, <2>4, <3>2 DEF FrameOK, Freeing, FreeOps
  <2> QED
    BY <2>2, <2>3, <2>4 DEF CoreOK, CoreType, Freeing
<1>4. ASSUME NEW x \in Docs PROVE DocOK(x)'
  <2>1. DocOK(x) /\ (users'[x] = {} => users[x] = {})
    BY <1>1 DEF CoreOK
  <2>2. ASSUME absorbed[x] # None PROVE users'[x] = users'[absorbed[x]]
    <3>1. PICK y \in Docs : y = absorbed[x] /\ users[x] = users[y] /\ x # d
      BY <2>1, <2>2, CoreTypes DEF DocOK
    <3>2. x \in Family(d) <=> y \in Family(d)
      BY <1>1, <3>1, CoreTypes
    <3> QED
      BY <1>1, <3>1, <3>2
  <2> QED
    BY <2>1, <2>2 DEF DocOK
<1>5. ASSUME NEW q \in Roots PROVE RootOK(q)'
  BY <1>1 DEF CoreOK, CoreType, RootOK
<1> QED
  BY <1>2, <1>3, <1>4, <1>5 DEF CoreOK

(* A thread goes on in its call, or ends it.                                 *)
LEMMA CallCore ==
  ASSUME CoreOK, NEW t \in Threads, NEW f, call' = [call EXCEPT ![t] = f],
         f \in [op : {"idle", "walk"} \cup FreeOps, arg : Docs \cup Roots \cup {None}],
         UNCHANGED <<pool, users, top, absorbed>>, FrameOK(t)'
  PROVE  CoreOK'
<1>1. call'[t] = f /\ \A u \in Threads \ {t} : call'[u] = call[u]
  BY DEF CoreOK, CoreType
<1>2. CoreType'
  BY DEF CoreOK, CoreType, FreeOps
<1>3. ASSUME NEW u \in Threads PROVE FrameOK(u)'
  BY <1>1 DEF CoreOK, FrameOK, Freeing, FreeOps, Idle
<1>4. \A x \in Docs : DocOK(x)'
  BY DEF CoreOK, DocOK
<1>5. \A q \in Roots : RootOK(q)'
  BY DEF CoreOK, RootOK
<1> QED
  BY <1>2, <1>3, <1>4, <1>5 DEF CoreOK

(* The storage of a document goes; the thread that frees its family is the   *)
(* only one that may touch it.                                               *)
LEMMA GoneCore ==
  ASSUME CoreOK, NEW t \in Threads, NEW c \in Docs, PoolGone(c), users[c] = {t},
         \A x \in Docs : absorbed[x] # c,
         \A u \in Threads \ {t} : call'[u] = call[u],
         call'[t] = Idle \/ (call'[t] = call[t] /\ call[t].op = "free" /\ call[t].arg # c),
         call' \in [Threads -> [op : {"idle", "walk"} \cup FreeOps,
                               arg : Docs \cup Roots \cup {None}]]
  PROVE  CoreOK'
<1>1. /\ users'[c] = {} /\ top'[c] = None /\ absorbed'[c] = None
      /\ \A x \in Docs \ {c} : users'[x] = users[x] /\ top'[x] = top[x] /\ absorbed'[x] = absorbed[x]
      /\ \A q \in Roots : pool'[q] = IF pool[q] = c THEN None ELSE pool[q]
  BY DEF PoolGone, CoreOK, CoreType
<1>2. CoreType'
  BY DEF PoolGone, CoreOK, CoreType, FreeOps
<1>3. ASSUME NEW u \in Threads PROVE FrameOK(u)'
  <2>1. CASE u = t
    BY <1>1, <2>1, RootDocAssumption DEF CoreOK, CoreType, FrameOK, Freeing, FreeOps, Idle
  <2>2. CASE u # t
    <3>1. FrameOK(u) /\ call'[u] = call[u]
      BY <2>2 DEF CoreOK
    <3>2. CASE call[u].op = "walk"
      BY <1>1, <2>2, <3>1, <3>2, CoreTypes DEF FrameOK, Freeing, FreeOps
    <3>3. CASE Freeing(u)
      BY <1>1, <2>2, <3>1, <3>3, CoreTypes DEF FrameOK, Freeing, FreeOps
    <3> QED
      BY <3>1, <3>2, <3>3 DEF FrameOK, Freeing, FreeOps, CoreOK, CoreType, Idle
  <2> QED
    BY <2>1, <2>2
<1>4. ASSUME NEW x \in Docs PROVE DocOK(x)'
  BY <1>1, RootDocAssumption DEF CoreOK, CoreType, DocOK
<1>5. ASSUME NEW q \in Roots PROVE RootOK(q)'
  BY <1>1, CoreTypes DEF CoreOK, RootOK
<1> QED
  BY <1>2, <1>3, <1>4, <1>5 DEF CoreOK

LEMMA ShareCore ==
  ASSUME CoreOK, NEW t \in Threads, NEW u \in Threads, NEW d \in Docs, Share(t, u, d)
  PROVE  CoreOK'
<1>1. PICK U \in SUBSET Threads : U = users[d] \cup {u}
  BY CoreTypes
<1>2. users' = [c \in Docs |-> IF c \in Family(d) THEN U ELSE users[c]]
  <2>1. \A c \in Family(d) : users[c] \cup {u} = U
    BY <1>1, CoreFacts
  <2> QED
    BY <2>1 DEF Share
<1>3. \A x \in Threads : Freeing(x) => call[x].arg # d
  BY CoreFacts DEF Share, Freeing, FreeOps, Idle
<1>4. /\ absorbed[d] = None /\ UNCHANGED <<pool, top, absorbed, call>>
      /\ \A x \in Threads : call[x] # Idle => (x \in users[d] <=> x \in U)
  BY <1>1 DEF Share
<1> QED
  BY <1>1, <1>2, <1>3, <1>4, UsersCore

LEMMA LeaveCore ==
  ASSUME CoreOK, NEW t \in Threads, NEW d \in Docs, Leave(t, d)
  PROVE  CoreOK'
<1>1. PICK U \in SUBSET Threads : U = users[d] \ {t} /\ U # {}
  <2>1. t \in users[d] /\ users[d] # {t}
    BY DEF Leave
  <2>2. users[d] \ {t} # {} /\ users[d] \ {t} \in SUBSET Threads
    BY <2>1, CoreTypes
  <2> QED
    BY <2>2
<1>2. users' = [c \in Docs |-> IF c \in Family(d) THEN U ELSE users[c]]
  <2>1. \A c \in Family(d) : users[c] \ {t} = U
    BY <1>1, CoreFacts
  <2> QED
    BY <2>1 DEF Leave
<1>3. \A x \in Threads : Freeing(x) => call[x].arg # d
  BY CoreFacts DEF Leave, Freeing, FreeOps, Idle
<1>4. /\ absorbed[d] = None /\ UNCHANGED <<pool, top, absorbed, call>>
      /\ \A x \in Threads : call[x] # Idle => (x \in users[d] <=> x \in U)
  BY <1>1 DEF Leave
<1> QED
  BY <1>1, <1>2, <1>3, <1>4, UsersCore

LEMMA ReadCore ==
  ASSUME CoreOK, NEW t \in Threads,
         (\E r \in Roots : GetDocumentMiss(t, r)) \/ GetDocumentWalk(t)
  PROVE  CoreOK'
<1>1. ASSUME NEW r \in Roots, GetDocumentMiss(t, r) PROVE CoreOK'
  <2>1. PICK f : f = [op |-> "walk", arg |-> r]
    OBVIOUS
  <2>2. /\ call' = [call EXCEPT ![t] = f] /\ UNCHANGED <<pool, users, top, absorbed>>
        /\ f \in [op : {"idle", "walk"} \cup FreeOps, arg : Docs \cup Roots \cup {None}]
    BY <1>1, <2>1 DEF GetDocumentMiss, docs
  <2>3. FrameOK(t)'
    BY <1>1, <2>1, <2>2, CoreFacts DEF GetDocumentMiss, docs, FrameOK, Freeing, FreeOps
  <2> QED
    BY <2>2, <2>3, CallCore
<1>2. CASE GetDocumentWalk(t)
  <2>1. PICK f : f = Idle
    OBVIOUS
  <2>2. /\ call' = [call EXCEPT ![t] = f] /\ UNCHANGED <<pool, users, top, absorbed>>
        /\ f \in [op : {"idle", "walk"} \cup FreeOps, arg : Docs \cup Roots \cup {None}]
    BY <1>2, <2>1 DEF GetDocumentWalk, docs, Idle
  <2>3. FrameOK(t)'
    BY <2>1, <2>2, CoreFacts DEF FrameOK, Freeing, FreeOps, Idle
  <2> QED
    BY <2>2, <2>3, CallCore
<1> QED
  BY <1>1, <1>2

GoesOn(t, op) == call' = [call EXCEPT ![t] = [op |-> op, arg |-> call[t].arg]]

LEMMA NextOp ==
  ASSUME CoreOK, NEW t \in Threads, NEW op, call' = [call EXCEPT ![t].op = op]
  PROVE  GoesOn(t, op)
<1>1. call[t] \in [op : {"idle", "walk"} \cup FreeOps, arg : Docs \cup Roots \cup {None}]
  BY CoreFacts
<1>2. PICK f : f = call[t] /\ f = [op |-> f.op, arg |-> f.arg]
  BY <1>1
<1>3. [f EXCEPT !.op = op] = [op |-> op, arg |-> f.arg]
  BY <1>2
<1>4. call' = [call EXCEPT ![t] = [f EXCEPT !.op = op]]
  BY <1>2
<1> QED
  BY <1>2, <1>3, <1>4 DEF GoesOn

LEMMA FreeCore ==
  ASSUME CoreOK, NEW t \in Threads,
         (\E d \in Docs : FreeDocument(t, d)) \/ UnregisterProbe(t)
           \/ UnregisterLocked(t) \/ Sweep(t)
  PROVE  CoreOK'
<1>1. ASSUME NEW d \in Docs, FreeDocument(t, d) PROVE CoreOK'
  <2>1. PICK f : f = [op |-> "free", arg |-> d]
    OBVIOUS
  <2>2. /\ call' = [call EXCEPT ![t] = f] /\ UNCHANGED <<pool, users, top, absorbed>>
        /\ f \in [op : {"idle", "walk"} \cup FreeOps, arg : Docs \cup Roots \cup {None}]
    BY <1>1, <2>1 DEF FreeDocument, docs, FreeOps
  <2>3. FrameOK(t)'
    BY <1>1, <2>1, <2>2, CoreFacts DEF FreeDocument, Holds, FrameOK, Freeing, FreeOps
  <2> QED
    BY <2>2, <2>3, CallCore
<1>2. ASSUME UnregisterProbe(t) \/ UnregisterLocked(t) \/ Sweep(t) PROVE CoreOK'
  <2>1. PICK op \in {"unregister", "sweep", "release"} :
           /\ GoesOn(t, op) /\ Freeing(t)
           /\ op = "unregister" => top[call[t].arg] # None
           /\ \A c \in Docs : absorbed[c] # call[t].arg
    <3>1. CASE UnregisterProbe(t)
      <4>1. Freeing(t) /\ call[t].arg \in Docs /\ absorbed[call[t].arg] = None
        BY <3>1, CoreFacts DEF UnregisterProbe, Freeing, FreeOps
      <4>2. \A c \in Docs : absorbed[c] # call[t].arg
        BY <3>1 DEF UnregisterProbe, Childless
      <4>3. PICK op \in {"unregister", "sweep"} :
               /\ op = "unregister" => top[call[t].arg] # None
               /\ call' = [call EXCEPT ![t].op = op]
        BY <3>1 DEF UnregisterProbe
      <4>4. GoesOn(t, op)
        BY <4>3, NextOp
      <4> QED
        BY <4>1, <4>2, <4>3, <4>4
    <3>2. CASE UnregisterLocked(t)
      <4>1. Freeing(t) /\ call[t].op = "unregister"
        BY <3>2 DEF UnregisterLocked, Freeing, FreeOps
      <4>2. GoesOn(t, "sweep")
        BY <3>2, NextOp DEF UnregisterLocked
      <4>3. (\A c \in Docs : absorbed[c] # call[t].arg)
        BY <4>1 DEF CoreOK, FrameOK
      <4> QED
        BY <4>1, <4>2, <4>3
    <3>3. CASE Sweep(t)
      <4>1. Freeing(t) /\ call[t].op = "sweep"
        BY <3>3 DEF Sweep, Freeing, FreeOps
      <4>2. GoesOn(t, "release")
        BY <3>3, NextOp DEF Sweep
      <4>3. (\A c \in Docs : absorbed[c] # call[t].arg)
        BY <4>1 DEF CoreOK, FrameOK
      <4> QED
        BY <4>1, <4>2, <4>3
    <3> QED
      BY <1>2, <3>1, <3>2, <3>3
  <2>2. PICK d \in Docs : d = call[t].arg /\ UNCHANGED <<pool, users, top, absorbed>>
    BY <1>2, <2>1, CoreFacts DEF UnregisterProbe, UnregisterLocked, Sweep, docs
  <2>3. PICK f : f = [op |-> op, arg |-> d]
    OBVIOUS
  <2>4. FrameOK(t)'
    BY <2>1, <2>2, CoreFacts DEF GoesOn, FrameOK, Freeing, FreeOps
  <2> QED
    <3>1. f \in [op : {"idle", "walk"} \cup FreeOps, arg : Docs \cup Roots \cup {None}]
      BY <2>3 DEF FreeOps
    <3>2. call' = [call EXCEPT ![t] = f]
      BY <2>1, <2>2, <2>3 DEF GoesOn
    <3> QED
      BY <2>2, <2>4, <3>1, <3>2, CallCore
<1> QED
  BY <1>1, <1>2

LEMMA FreeChildCore ==
  ASSUME CoreOK, NEW t \in Threads, FreeChild(t)
  PROVE  CoreOK'
<1>1. PICK c \in Family(call[t].arg) \ {call[t].arg} : top' = [top EXCEPT ![c] = None]
  BY DEF FreeChild
<1>2. /\ Freeing(t) /\ call[t].op = "free" /\ c \in Docs /\ users[c] = {t}
      /\ UNCHANGED <<pool, users, absorbed, call>>
  BY <1>1, CoreFacts DEF FreeChild, Freeing, FreeOps
<1>3. top'[c] = None /\ \A x \in Docs \ {c} : top'[x] = top[x]
  BY <1>1, <1>2 DEF CoreOK, CoreType
<1>4. CoreType'
  BY <1>1, <1>2 DEF CoreOK, CoreType, FreeOps
<1>5. ASSUME NEW u \in Threads PROVE FrameOK(u)'
  <2>1. FrameOK(u)
    BY DEF CoreOK
  <2>2. call[u].op = "unregister" => call[u].arg \in Docs \ {c}
    BY <1>2, CoreFacts DEF Freeing, FreeOps
  <2> QED
    BY <1>2, <1>3, <2>1, <2>2 DEF FrameOK, Freeing, FreeOps, Idle
<1>6. ASSUME NEW x \in Docs PROVE DocOK(x)'
  BY <1>2, <1>3 DEF CoreOK, DocOK
<1>7. ASSUME NEW q \in Roots PROVE RootOK(q)'
  BY <1>2 DEF CoreOK, RootOK
<1> QED
  BY <1>4, <1>5, <1>6, <1>7 DEF CoreOK

LEMMA ReleaseCore ==
  ASSUME CoreOK, NEW t \in Threads, ReleaseChild(t) \/ Release(t)
  PROVE  CoreOK'
<1>1. CASE ReleaseChild(t)
  <2>1. PICK c \in Family(call[t].arg) \ {call[t].arg} : PoolGone(c) /\ Childless(c)
    BY <1>1 DEF ReleaseChild
  <2>2. Freeing(t) /\ call' = call /\ call[t].op = "free"
    BY <1>1 DEF ReleaseChild, Freeing, FreeOps
  <2>3. c \in Docs /\ users[c] = {t} /\ \A x \in Docs : absorbed[x] # c
    BY <2>1, <2>2, CoreFacts DEF Childless
  <2> QED
    BY <2>1, <2>2, <2>3, CoreFacts, GoneCore
<1>2. CASE Release(t)
  <2>1. Freeing(t) /\ call[t].op = "release" /\ PoolGone(call[t].arg) /\ call' = [call EXCEPT ![t] = Idle]
    BY <1>2 DEF Release, Freeing, FreeOps
  <2>2. \A x \in Docs : absorbed[x] # call[t].arg
    BY <2>1 DEF CoreOK, FrameOK
  <2>3. /\ call' \in [Threads -> [op : {"idle", "walk"} \cup FreeOps,
                                 arg : Docs \cup Roots \cup {None}]]
        /\ call'[t] = Idle /\ \A u \in Threads \ {t} : call'[u] = call[u]
    BY <2>1, CoreFacts DEF Idle
  <2> QED
    BY <2>1, <2>2, <2>3, CoreFacts, GoneCore
<1> QED
  BY <1>1, <1>2

LEMMA CoreNext ==
  ASSUME CoreOK, NEW t \in Threads, Step(t)
  PROVE  CoreOK'
<1>1. ASSUME NEW d \in Docs, NEW r \in Roots, Parse(t, d, r) \/ Create(t, d, r) PROVE CoreOK'
  BY <1>1, ParseCore, CreateCore
<1>2. ASSUME (\E d \in Docs, r \in Roots : MemoPrime(t, d, r)) \/ DrainThread(t) PROVE CoreOK'
  BY <1>2, CoreStays DEF MemoPrime, DrainThread, docs
<1> QED
  BY <1>1, <1>2, ReregisterCore, AbsorbCore, ShareCore, LeaveCore, ReadCore, FreeCore,
     FreeChildCore, ReleaseCore DEF Step

-------------------------------------------------------------------------------
(* What a step does to the map: nothing, a registration for a document the   *)
(* thread alone may touch, or entries of one document dropped.               *)
AuxOK == /\ gen \in Nat /\ marked \in [Roots -> BOOLEAN]
         /\ memo \in [Threads -> [root : Roots \cup {None}, doc : Docs \cup {None}, gen : Nat]]

LEMMA LockedDrop ==
  ASSUME MapOK, CoreOK, NEW t \in Threads, UnregisterLocked(t), NEW r \in Roots,
         r = top[call[t].arg], Found(r) # {}
  PROVE  /\ Find(r) \in Docs /\ Found(r) \in SUBSET ToSet(chains[Find(r)])
         /\ Dropped(Found(r), Find(r))
<1>1. PICK e \in Found(r) : /\ e \in Entries \ spare /\ entry[e].doc \in Docs
                            /\ Found(r) = {e} /\ Find(r) = entry[e].doc
  BY WalkFinds
<1>2. e \in ToSet(chains[entry[e].doc])
  BY <1>1 DEF MapOK, TakenOK
<1> QED
  BY <1>1, <1>2 DEF UnregisterLocked

LEMMA TopIsRoot ==
  ASSUME CoreOK, NEW t \in Threads, call[t].op = "unregister"
  PROVE  top[call[t].arg] \in Roots /\ pool[top[call[t].arg]] = call[t].arg /\ Freeing(t)
BY CoreTypes, CoreFacts DEF CoreOK, FrameOK, DocOK, Freeing, FreeOps

LEMMA MapNext ==
  ASSUME MapOK, CoreOK, NEW t \in Threads, Step(t)
  PROVE  MapOK'
<1>1. ASSUME NEW d \in Docs, NEW r \in Roots, Parse(t, d, r) \/ Create(t, d, r) PROVE MapOK'
  BY <1>1, RegisterMap DEF Parse, Create
<1>2. ASSUME NEW d \in Docs, NEW r \in Roots, NEW root \in BOOLEAN, Reregister(t, d, r, root)
      PROVE  MapOK'
  BY <1>2, RegisterMap DEF Reregister
<1>3. ASSUME UNCHANGED map PROVE MapOK'
  BY <1>3, MapStays
<1>4. CASE FreeChild(t)
  <2>1. PICK c \in Family(call[t].arg) : Dropped(ToSet(chains[c]), c)
    BY <1>4 DEF FreeChild, UnregisterDoc
  <2>2. c \in Docs
    BY <1>4, <2>1, CoreFacts DEF FreeChild, Freeing, FreeOps
  <2> QED
    BY <2>1, <2>2, DroppedMap
<1>5. CASE UnregisterLocked(t)
  <2>1. PICK r \in Roots : r = top[call[t].arg]
    BY <1>5, TopIsRoot DEF UnregisterLocked
  <2> QED
    BY <1>3, <1>5, <2>1, LockedDrop, DroppedMap DEF UnregisterLocked
<1>6. CASE Sweep(t)
  <2>1. call[t].arg \in Docs
    BY <1>6, CoreFacts DEF Sweep, Freeing, FreeOps
  <2> QED
    BY <1>6, <2>1, DroppedMap DEF Sweep, UnregisterDoc
<1> QED
  BY <1>1, <1>2, <1>3, <1>4, <1>5, <1>6
  DEF Step, MemoPrime, Absorb, Share, Leave, FreeDocument, GetDocumentMiss, GetDocumentWalk,
      DrainThread, ReleaseChild, UnregisterProbe, Release

(* Entries in use name a document that exists and that no sweep has left.    *)
EntryLive(e) == /\ users[entry[e].doc] # {}
                /\ \A t \in Threads : call[t].op = "release" => call[t].arg # entry[e].doc
LiveOK == \A e \in Entries \ spare : EntryLive(e)

(* As long as the map only drops entries, the documents that have entries    *)
(* keep a user, and no thread starts to release one.                         *)
LEMMA LiveKept ==
  ASSUME LiveOK, entry' = entry, spare \subseteq spare',
         \A e \in Entries \ spare' : users[entry[e].doc] # {} => users'[entry[e].doc] # {},
         \A e \in Entries \ spare' : \A t \in Threads :
            call'[t].op = "release" /\ call'[t].arg = entry[e].doc => call'[t] = call[t]
  PROVE  LiveOK'
BY DEF LiveOK, EntryLive

LEMMA LiveRegister ==
  ASSUME LiveOK, MapOK, CoreOK, CoreOK', NEW t \in Threads, NEW d \in Docs, NEW r \in Roots, NEW mark,
         Register(r, d, mark), users'[d] = {t}, call[t] = Idle, call' = call,
         \A c \in Docs \ {d} : users'[c] = users[c]
  PROVE  LiveOK'
<1>1. \A e \in Entries \ spare' : entry'[e].doc = d \/ (e \notin spare /\ entry'[e] = entry[e])
  BY RegisterMap
<1>2. \A u \in Threads : call'[u].op = "release" => call'[u].arg # d
  <2>1. \A u \in Threads : call'[u].op = "release" => users'[call'[u].arg] = {u}
    BY DEF CoreOK, FrameOK, Freeing, FreeOps
  <2> QED
    BY <2>1 DEF Idle
<1>3. ASSUME NEW e \in Entries \ spare', entry'[e].doc # d PROVE EntryLive(e)'
  <2>1. e \notin spare /\ entry'[e] = entry[e] /\ entry[e].doc \in Docs /\ EntryLive(e)
    BY <1>1, <1>3 DEF LiveOK, MapOK, TakenOK
  <2> QED
    BY <1>3, <2>1 DEF EntryLive
<1>4. ASSUME NEW e \in Entries \ spare', entry'[e].doc = d PROVE EntryLive(e)'
  BY <1>2, <1>4 DEF EntryLive
<1> QED
  BY <1>3, <1>4 DEF LiveOK

LEMMA LiveGone ==
  ASSUME LiveOK, MapOK, CoreOK, NEW c \in Docs, PoolGone(c), UNCHANGED map,
         \A e \in Entries \ spare : entry[e].doc # c,
         \A u \in Threads : call'[u].op = "release" => call'[u] = call[u]
  PROVE  LiveOK'
<1>1. /\ \A x \in Docs \ {c} : users'[x] = users[x]
      /\ entry' = entry /\ spare' = spare
  BY DEF PoolGone, CoreOK, CoreType, map
<1>2. \A e \in Entries \ spare : users'[entry[e].doc] = users[entry[e].doc]
  BY <1>1 DEF MapOK, TakenOK
<1> QED
  BY <1>1, <1>2, LiveKept

LEMMA EntriesOf ==
  ASSUME MapOK, NEW d \in Docs
  PROVE  \A e \in Entries : e \in ToSet(chains[d]) <=> e \notin spare /\ entry[e].doc = d
BY DEF MapOK, SpareOK, TakenOK

LEMMA LiveNext ==
  ASSUME LiveOK, MapOK, CoreOK, NEW t \in Threads, Step(t)
  PROVE  LiveOK'
<1>0. CoreOK'
  BY CoreNext
<1>1. ASSUME NEW d \in Docs, NEW r \in Roots,
             Parse(t, d, r) \/ Create(t, d, r) \/ \E root \in BOOLEAN : Reregister(t, d, r, root)
      PROVE  LiveOK'
  <2>1. PICK mark : Register(r, d, mark)
    BY <1>1 DEF Parse, Create, Reregister
  <2>2. /\ users'[d] = {t} /\ call[t] = Idle /\ call' = call
        /\ \A c \in Docs \ {d} : users'[c] = users[c]
    BY <1>1 DEF Parse, Create, Reregister, Holds, CoreOK, CoreType
  <2> QED
    BY <1>0, <2>1, <2>2, LiveRegister
<1>2. ASSUME UNCHANGED map,
             \A d \in Docs : users[d] # {} => users'[d] # {},
             \A u \in Threads : call'[u].op = "release" => call'[u] = call[u]
      PROVE  LiveOK'
  <2>1. entry' = entry /\ spare' = spare
    BY <1>2 DEF map
  <2>2. \A e \in Entries \ spare : entry[e].doc \in Docs
    BY DEF MapOK, TakenOK
  <2> QED
    BY <1>2, <2>1, <2>2, LiveKept
<1>4. ASSUME NEW d \in Docs, (\E u \in Threads : Share(t, u, d)) \/ Leave(t, d) PROVE LiveOK'
  <2>1. \A c \in Family(d) : users[c] = users[d]
    BY CoreFacts
  <2>2. \A c \in Docs : users[c] # {} => users'[c] # {}
    <3>1. ASSUME NEW u \in Threads, Share(t, u, d), NEW c \in Docs PROVE users[c] # {} => users'[c] # {}
      BY <3>1 DEF Share
    <3>2. ASSUME Leave(t, d), NEW c \in Docs PROVE users[c] # {} => users'[c] # {}
      BY <2>1, <3>2 DEF Leave
    <3> QED
      BY <1>4, <3>1, <3>2
  <2> QED
    BY <1>2, <1>4, <2>2 DEF Share, Leave
<1>5. ASSUME \/ \E d \in Docs, r \in Roots : MemoPrime(t, d, r)
             \/ \E d, c \in Docs : Absorb(t, d, c)
             \/ \E d \in Docs : FreeDocument(t, d)
             \/ \E r \in Roots : GetDocumentMiss(t, r)
             \/ GetDocumentWalk(t) \/ DrainThread(t) \/ UnregisterProbe(t)
      PROVE  LiveOK'
  <2>1. UNCHANGED <<map, users>>
    BY <1>5 DEF MemoPrime, Absorb, FreeDocument, GetDocumentMiss, GetDocumentWalk, DrainThread,
                UnregisterProbe, docs
  <2>2. \A u \in Threads : call'[u].op = "release" => call'[u] = call[u]
    <3>1. CASE UnregisterProbe(t)
      <4>1. PICK op \in {"unregister", "sweep"} : call' = [call EXCEPT ![t].op = op]
        BY <3>1 DEF UnregisterProbe
      <4> QED
        BY <4>1, NextOp, CoreFacts DEF GoesOn
    <3>2. CASE ~ UnregisterProbe(t)
      BY <1>5, <3>2, CoreFacts
      DEF MemoPrime, Absorb, FreeDocument, GetDocumentMiss, GetDocumentWalk, DrainThread, docs, Idle
    <3> QED
      BY <3>1, <3>2
  <2> QED
    BY <1>2, <2>1, <2>2
<1>6. CASE FreeChild(t)
  <2>1. PICK c : Dropped(ToSet(chains[c]), c)
    BY <1>6 DEF FreeChild, UnregisterDoc
  <2> QED
    BY <1>6, <2>1, LiveKept DEF FreeChild, Dropped
<1>7. CASE UnregisterLocked(t)
  <2>1. PICK r : r = top[call[t].arg]
    OBVIOUS
  <2>2. entry' = entry /\ spare \subseteq spare' /\ users' = users
    BY <1>7, <2>1 DEF UnregisterLocked, Dropped, map
  <2>3. \A u \in Threads : call'[u].op = "release" => call'[u] = call[u]
    BY <1>7, NextOp, CoreFacts DEF UnregisterLocked, GoesOn
  <2> QED
    BY <2>2, <2>3, LiveKept
<1>8. CASE Sweep(t)
  <2>1. PICK d \in Docs : d = call[t].arg /\ Dropped(ToSet(chains[d]), d)
    BY <1>8, CoreFacts DEF Sweep, UnregisterDoc, Freeing, FreeOps
  <2>2. entry' = entry /\ spare' = spare \cup ToSet(chains[d]) /\ users' = users
    BY <1>8, <2>1 DEF Sweep, docs, Dropped
  <2>3. \A e \in Entries \ spare' : entry[e].doc # d
    BY <2>2, EntriesOf
  <2>4. \A u \in Threads : call'[u].op = "release" => call'[u] = call[u] \/ call'[u].arg = d
    BY <1>8, <2>1, NextOp, CoreFacts DEF Sweep, GoesOn
  <2> QED
    BY <2>2, <2>3, <2>4, LiveKept
<1>9. CASE ReleaseChild(t)
  <2>1. PICK c \in Family(call[t].arg) : PoolGone(c) /\ chains[c] = <<>>
    BY <1>9 DEF ReleaseChild
  <2>2. c \in Docs
    BY <1>9, <2>1, CoreFacts DEF ReleaseChild, Freeing, FreeOps
  <2>3. \A e \in Entries \ spare : entry[e].doc # c
    BY <2>1, <2>2, EntriesOf, NoElements
  <2> QED
    BY <1>9, <2>1, <2>2, <2>3, LiveGone DEF ReleaseChild
<1>10. CASE Release(t)
  <2>1. PICK d \in Docs : d = call[t].arg /\ PoolGone(d)
    BY <1>10, CoreFacts DEF Release, Freeing, FreeOps
  <2>2. \A e \in Entries \ spare : entry[e].doc # d
    BY <1>10, <2>1 DEF LiveOK, EntryLive, Release
  <2>3. \A u \in Threads : call'[u].op = "release" => call'[u] = call[u]
    BY <1>10, CoreFacts DEF Release, Idle
  <2> QED
    BY <1>10, <2>1, <2>2, <2>3, LiveGone DEF Release
<1> QED
  BY <1>1, <1>4, <1>5, <1>6, <1>7, <1>8, <1>9, <1>10 DEF Step

-------------------------------------------------------------------------------
(* A memo of the current generation is what a walk would find; while a root  *)
(* is being unregistered, which drops its entry without another bump, no     *)
(* memo of it is current.                                                    *)
MemoOK(s) ==
  /\ memo[s].gen <= gen
  /\ memo[s].root # None /\ memo[s].gen = gen => Find(memo[s].root) = memo[s].doc
  /\ \A u \in Threads : call[u].op = "unregister" /\ memo[s].root = top[call[u].arg]
                        => memo[s].gen # gen
MemosOK == \A s \in Threads : MemoOK(s)

LEMMA AuxFacts ==
  ASSUME AuxOK
  PROVE  /\ gen \in Nat
         /\ \A t \in Threads : /\ memo[t].gen \in Nat /\ memo[t].root \in Roots \cup {None}
                              /\ memo[t].doc \in Docs \cup {None}
BY DEF AuxOK

LEMMA FindType ==
  ASSUME MapOK, NEW r \in Roots PROVE Find(r) \in Docs \cup {None}
BY WalkFinds

(* What the memo of a thread becomes in each step.                           *)
LEMMA MemoSet ==
  ASSUME AuxOK, NEW t \in Threads, NEW m, memo' = [memo EXCEPT ![t] = m],
         NEW r \in Roots \cup {None}, NEW d \in Docs \cup {None}, NEW g \in Nat,
         m = [root |-> r, doc |-> d, gen |-> g],
         gen' \in Nat, marked' \in [Roots -> BOOLEAN]
  PROVE  AuxOK' /\ memo'[t] = m /\ \A s \in Threads \ {t} : memo'[s] = memo[s]
BY DEF AuxOK

LEMMA Forgotten ==
  ASSUME NEW m, m = [root |-> m.root, doc |-> m.doc, gen |-> m.gen]
  PROVE  [m EXCEPT !.root = None, !.doc = None] = [root |-> None, doc |-> None, gen |-> m.gen]
<1>1. PICK n : n = [m EXCEPT !.root = None]
  OBVIOUS
<1>2. n = [root |-> None, doc |-> m.doc, gen |-> m.gen]
  BY <1>1
<1>3. [n EXCEPT !.doc = None] = [root |-> None, doc |-> None, gen |-> m.gen]
  BY <1>2
<1> QED
  BY <1>1, <1>3

LEMMA MemoLess ==
  ASSUME AuxOK, NEW t \in Threads, NEW R
  PROVE  MemoWithout(t, R) = [root |-> IF memo[t].root \in R THEN None ELSE memo[t].root,
                              doc  |-> IF memo[t].root \in R THEN None ELSE memo[t].doc,
                              gen  |-> memo[t].gen]
<1>1. PICK m \in [root : Roots \cup {None}, doc : Docs \cup {None}, gen : Nat] : m = memo[t]
  BY DEF AuxOK
<1>2. m = [root |-> m.root, doc |-> m.doc, gen |-> m.gen]
  BY <1>1
<1>3. [m EXCEPT !.root = None, !.doc = None] = [root |-> None, doc |-> None, gen |-> m.gen]
  BY <1>2, Forgotten
<1> QED
  BY <1>1, <1>2, <1>3 DEF MemoWithout

LEMMA AuxNext ==
  ASSUME AuxOK, MapOK, CoreOK, NEW t \in Threads, Step(t)
  PROVE  AuxOK'
<1>1. ASSUME UNCHANGED memo, gen' \in Nat, marked' \in [Roots -> BOOLEAN] PROVE AuxOK'
  BY <1>1 DEF AuxOK
<1>2. gen \in Nat /\ gen + 1 \in Nat /\ marked \in [Roots -> BOOLEAN]
  BY DEF AuxOK
<1>3. ASSUME NEW d \in Docs, NEW r \in Roots,
             Parse(t, d, r) \/ Create(t, d, r) \/ \E root \in BOOLEAN : Reregister(t, d, r, root)
      PROVE  AuxOK'
  BY <1>1, <1>2, <1>3 DEF Parse, Create, Reregister, Register, Bumped
<1>4. ASSUME NEW d \in Docs, NEW r \in Roots, MemoPrime(t, d, r) PROVE AuxOK'
  <2>1. PICK m : m = [root |-> r, doc |-> d, gen |-> gen]
    OBVIOUS
  <2>2. memo' = [memo EXCEPT ![t] = m] /\ gen' = gen /\ marked' = marked
    BY <1>4, <2>1 DEF MemoPrime, docs
  <2>3. PICK q \in Roots \cup {None}, c \in Docs \cup {None} : m = [root |-> q, doc |-> c, gen |-> gen]
    BY <2>1
  <2> QED
    BY <1>2, <2>2, <2>3, MemoSet
<1>5. CASE GetDocumentWalk(t)
  <2>1. PICK r \in Roots : r = call[t].arg
    BY <1>5 DEF GetDocumentWalk, CoreOK, FrameOK
  <2>2. PICK m : m = [root |-> r, doc |-> Find(r), gen |-> gen]
    OBVIOUS
  <2>3. CASE memo' = memo
    BY <1>1, <1>2, <1>5, <2>3 DEF GetDocumentWalk, docs
  <2>4. CASE memo' # memo
    BY <1>2, <1>5, <2>1, <2>2, <2>4, FindType, MemoSet DEF GetDocumentWalk, docs
  <2> QED
    BY <2>3, <2>4
<1>6. CASE DrainThread(t)
  <2>1. PICK m : m = [root |-> None, doc |-> None, gen |-> gen]
    OBVIOUS
  <2>2. memo' = [memo EXCEPT ![t] = m] /\ gen' = gen /\ marked' = marked
    BY <1>6, <2>1 DEF DrainThread, docs
  <2>3. PICK q \in Roots \cup {None}, c \in Docs \cup {None} : m = [root |-> q, doc |-> c, gen |-> gen]
    BY <2>1
  <2> QED
    BY <1>2, <2>2, <2>3, MemoSet
<1>7. ASSUME NEW d \in Docs, FreeDocument(t, d) PROVE AuxOK'
  <2>1. gen' \in Nat /\ marked' = marked
    BY <1>2, <1>7 DEF FreeDocument, MemoInvalidate, Bumped, docs
  <2>2. memo' = [memo EXCEPT ![t] = IF @.doc = d THEN [@ EXCEPT !.root = None, !.doc = None] ELSE @]
    BY <1>7 DEF FreeDocument, MemoInvalidate
  <2>3. PICK m \in [root : Roots \cup {None}, doc : Docs \cup {None}, gen : Nat] : m = memo[t]
    BY DEF AuxOK
  <2>4. [m EXCEPT !.root = None, !.doc = None] = [root |-> None, doc |-> None, gen |-> m.gen]
    <3>1. m = [root |-> m.root, doc |-> m.doc, gen |-> m.gen]
      BY <2>3
    <3> QED
      BY <3>1, Forgotten
  <2>5. memo' = memo \/ memo' = [memo EXCEPT ![t] = [root |-> None, doc |-> None, gen |-> m.gen]]
    <3>1. CASE m.doc = d
      BY <2>2, <2>3, <2>4, <3>1
    <3>2. CASE m.doc # d
      BY <2>2, <2>3, <3>2 DEF AuxOK
    <3> QED
      BY <3>1, <3>2
  <2>6. PICK n : n = [root |-> None, doc |-> None, gen |-> m.gen]
    OBVIOUS
  <2> QED
    BY <1>1, <1>2, <2>1, <2>3, <2>5, <2>6, MemoSet
<1>8. ASSUME NEW R, memo' = [memo EXCEPT ![t] = MemoWithout(t, R)], gen' \in Nat,
             marked' \in [Roots -> BOOLEAN] PROVE AuxOK'
  <2>1. PICK m : m = MemoWithout(t, R)
    OBVIOUS
  <2>2. PICK r \in Roots \cup {None}, d \in Docs \cup {None} : m = [root |-> r, doc |-> d, gen |-> memo[t].gen]
    <3>1. CASE memo[t].root \in R
      BY <2>1, <3>1, MemoLess
    <3>2. CASE memo[t].root \notin R
      BY <2>1, <3>2, MemoLess, AuxFacts
    <3> QED
      BY <3>1, <3>2
  <2> QED
    <3>1. PICK g \in Nat : g = memo[t].gen
      BY AuxFacts
    <3>2. m = [root |-> r, doc |-> d, gen |-> g]
      BY <2>2, <3>1
    <3>3. memo' = [memo EXCEPT ![t] = m] /\ gen' \in Nat /\ marked' \in [Roots -> BOOLEAN]
      BY <1>8, <2>1
    <3> QED
      BY <3>2, <3>3, MemoSet
<1>9. ASSUME NEW c, UnregisterDoc(t, c), marked' = marked PROVE AuxOK'
  BY <1>2, <1>8, <1>9 DEF UnregisterDoc, Bumped
<1>10. CASE UnregisterProbe(t)
  <2>1. gen' \in Nat /\ marked' = marked
    BY <1>2, <1>10 DEF UnregisterProbe, Bumped, docs
  <2>2. memo' = memo \/ memo' = [memo EXCEPT ![t] = MemoWithout(t, {top[call[t].arg]})]
    BY <1>10 DEF UnregisterProbe
  <2> QED
    BY <1>1, <1>2, <1>8, <2>1, <2>2
<1>11. CASE UnregisterLocked(t)
  BY <1>1, <1>2, <1>11 DEF UnregisterLocked
<1>12. ASSUME NEW c, PoolGone(c), UNCHANGED <<gen, memo>> PROVE AuxOK'
  BY <1>1, <1>2, <1>12 DEF PoolGone
<1>13. ASSUME UNCHANGED <<gen, memo, marked>> PROVE AuxOK'
  BY <1>1, <1>2, <1>13
<1>14. CASE FreeChild(t) \/ Sweep(t)
  BY <1>9, <1>14 DEF FreeChild, Sweep, docs
<1>15. CASE ReleaseChild(t) \/ Release(t)
  BY <1>12, <1>15 DEF ReleaseChild, Release
<1>16. ASSUME \/ \E d, c \in Docs : Absorb(t, d, c)
              \/ \E d \in Docs : Leave(t, d) \/ \E u \in Threads : Share(t, u, d)
              \/ \E r \in Roots : GetDocumentMiss(t, r)
       PROVE  AuxOK'
  BY <1>13, <1>16 DEF Absorb, Leave, Share, GetDocumentMiss, docs
<1> QED
  BY <1>3, <1>4, <1>5, <1>6, <1>7, <1>10, <1>11, <1>14, <1>15, <1>16 DEF Step

(* A bump makes every memo stale.                                            *)
LEMMA MemoBumped ==
  ASSUME AuxOK, MemosOK, gen' = gen + 1,
         \A s \in Threads : memo'[s].gen = memo[s].gen
  PROVE  MemosOK'
BY AuxFacts DEF MemosOK, MemoOK

(* Without one, the map answers as before, and a memo that is written holds  *)
(* what the map answers for a root that nobody unregisters, or nothing.      *)
LEMMA MemoKept ==
  ASSUME AuxOK, MemosOK, gen' = gen, NEW t \in Threads, NEW m, memo'[t] = m,
         \A s \in Threads \ {t} : memo'[s] = memo[s],
         \A q \in Roots : (\E s \in Threads : memo[s].root = q /\ memo[s].gen = gen)
                        => Find(q)' = Find(q),
         \A u \in Threads : call'[u].op = "unregister"
                          => call[u].op = "unregister" /\ top'[call'[u].arg] = top[call[u].arg],
         \/ m = memo[t]
         \/ /\ m.gen <= gen /\ m.root \in Roots \cup {None}
            /\ \A q \in Roots : m.root = q => Find(q)' = m.doc
            /\ \A u \in Threads : call[u].op = "unregister" => m.root # top[call[u].arg]
  PROVE  MemosOK'
<1>1. ASSUME NEW s \in Threads, memo'[s] = memo[s] PROVE MemoOK(s)'
  <2>1. MemoOK(s)
    BY DEF MemosOK
  <2>2. PICK q \in Roots \cup {None} : q = memo[s].root
    BY AuxFacts
  <2>3. q # None /\ memo[s].gen = gen => Find(q)' = memo[s].doc
    BY <2>1, <2>2 DEF MemoOK
  <2> QED
    BY <1>1, <2>1, <2>2, <2>3 DEF MemoOK
<1>2. ASSUME m # memo[t] PROVE MemoOK(t)'
  <2>1. PICK q \in Roots \cup {None} : q = m.root /\ (q # None => Find(q)' = m.doc)
    BY <1>2
  <2>2. m.gen <= gen /\ \A u \in Threads : call[u].op = "unregister" => q # top[call[u].arg]
    BY <1>2, <2>1
  <2> QED
    BY <1>2, <2>1, <2>2 DEF MemoOK
<1> QED
  BY <1>1, <1>2 DEF MemosOK

LEMMA MemoSame ==
  ASSUME AuxOK, MapOK, MemosOK, UNCHANGED <<map, gen, memo>>,
         \A u \in Threads : call'[u].op = "unregister"
                          => call[u].op = "unregister" /\ top'[call'[u].arg] = top[call[u].arg]
  PROVE  MemosOK'
<1>1. \A q \in Roots : Find(q)' = Find(q)
  BY MapStays
<1>2. ASSUME NEW t \in Threads PROVE MemosOK'
  BY <1>1, MemoKept
<1> QED
  BY <1>2 DEF MemosOK

(* While t is not the thread that unregisters, a root t may touch is not the *)
(* one being unregistered.                                                   *)
LEMMA NotBeingUnregistered ==
  ASSUME CoreOK, NEW t \in Threads, call[t].op # "unregister", NEW r \in Roots,
         pool[r] # None, t \in users[pool[r]]
  PROVE  \A u \in Threads : call[u].op = "unregister" => r # top[call[u].arg]
BY TopIsRoot, CoreFacts

LEMMA MemosWritten ==
  ASSUME AuxOK, MapOK, CoreOK, MemosOK, NEW t \in Threads,
         \/ \E d \in Docs, r \in Roots : MemoPrime(t, d, r)
         \/ GetDocumentWalk(t) \/ DrainThread(t)
  PROVE  MemosOK'
<1>0. /\ \A q \in Roots : Find(q)' = Find(q)
      /\ gen' = gen /\ top' = top /\ gen \in Nat
      /\ \A u \in Threads : call'[u].op = "unregister" => call'[u] = call[u]
  <2>1. UNCHANGED <<map, gen, top>>
    BY DEF MemoPrime, GetDocumentWalk, DrainThread, docs
  <2>2. \A u \in Threads : call'[u].op = "unregister" => call'[u] = call[u]
    BY CoreFacts DEF MemoPrime, GetDocumentWalk, DrainThread, Idle
  <2> QED
    BY <2>1, <2>2, MapStays, AuxFacts
<1>1. ASSUME NEW m, memo' = [memo EXCEPT ![t] = m], m.gen = gen, m.root \in Roots \cup {None},
             \A q \in Roots : m.root = q => Find(q) = m.doc,
             \A u \in Threads : call[u].op = "unregister" => m.root # top[call[u].arg]
      PROVE  MemosOK'
  <2>1. memo'[t] = m /\ \A s \in Threads \ {t} : memo'[s] = memo[s]
    BY <1>1 DEF AuxOK
  <2> QED
    BY <1>0, <1>1, <2>1, MemoKept
<1>2. ASSUME NEW d \in Docs, NEW r \in Roots, MemoPrime(t, d, r) PROVE MemosOK'
  <2>1. /\ call[t].op # "unregister" /\ pool[r] # None /\ t \in users[pool[r]]
        /\ Find(r) = d
    BY <1>2, RootDocAssumption DEF MemoPrime, Holds, Idle
  <2>2. PICK m : m = [root |-> r, doc |-> d, gen |-> gen]
    OBVIOUS
  <2>3. memo' = [memo EXCEPT ![t] = m]
    BY <1>2, <2>2 DEF MemoPrime
  <2>4. m.root = r /\ m.doc = d /\ m.gen = gen
    BY <2>2
  <2>5. \A u \in Threads : call[u].op = "unregister" => r # top[call[u].arg]
    BY <2>1, NotBeingUnregistered
  <2> QED
    BY <1>1, <2>1, <2>3, <2>4, <2>5
<1>3. CASE GetDocumentWalk(t)
  <2>1. PICK r \in Roots : r = call[t].arg /\ pool[r] # None /\ t \in users[pool[r]]
    BY <1>3 DEF GetDocumentWalk, CoreOK, FrameOK
  <2>2. PICK m : m = [root |-> r, doc |-> Find(r), gen |-> gen]
    OBVIOUS
  <2>3. CASE memo' = memo
    BY <1>0, <1>3, <2>3, MemoSame DEF GetDocumentWalk
  <2>4. CASE memo' # memo
    <3>1. memo' = [memo EXCEPT ![t] = m] /\ call[t].op # "unregister"
      BY <1>3, <2>1, <2>2, <2>4 DEF GetDocumentWalk
    <3> QED
      <4>1. m.root = r /\ m.doc = Find(r) /\ m.gen = gen
        BY <2>2
      <4>2. \A u \in Threads : call[u].op = "unregister" => r # top[call[u].arg]
        BY <2>1, <3>1, NotBeingUnregistered
      <4> QED
        BY <1>1, <3>1, <4>1, <4>2
  <2> QED
    BY <2>3, <2>4
<1>4. CASE DrainThread(t)
  <2>1. PICK m : m = [root |-> None, doc |-> None, gen |-> gen]
    OBVIOUS
  <2>2. \A u \in Threads : call[u].op = "unregister" => None # top[call[u].arg]
    BY TopIsRoot, RootDocAssumption
  <2>3. m.root = None /\ m.gen = gen /\ memo' = [memo EXCEPT ![t] = m]
    BY <1>4, <2>1 DEF DrainThread
  <2> QED
    BY <1>1, <2>2, <2>3, RootDocAssumption
<1> QED
  BY <1>2, <1>3, <1>4

LEMMA MemosFreed ==
  ASSUME AuxOK, MapOK, CoreOK, MemosOK, NEW t \in Threads,
         \/ \E d \in Docs : FreeDocument(t, d)
         \/ FreeChild(t) \/ UnregisterProbe(t) \/ Sweep(t)
  PROVE  MemosOK'
<1>1. ASSUME NEW d \in Docs, FreeDocument(t, d) PROVE MemosOK'
  <2>1. UNCHANGED map /\ top' = top /\ MemoInvalidate(t, d)
    BY <1>1 DEF FreeDocument, docs
  <2>2. CASE memo[t].doc = d
    <3>1. \A s \in Threads : memo'[s].gen = memo[s].gen
      BY <2>1, <2>2 DEF MemoInvalidate, AuxOK
    <3> QED
      BY <2>1, <2>2, <3>1, MemoBumped DEF MemoInvalidate, Bumped
  <2>3. CASE memo[t].doc # d
    <3>1. memo' = memo /\ gen' = gen
      BY <2>1, <2>3 DEF MemoInvalidate, Bumped, AuxOK
    <3>2. \A u \in Threads : call'[u].op = "unregister" => call'[u] = call[u]
      BY <1>1, CoreFacts DEF FreeDocument
    <3> QED
      BY <2>1, <3>1, <3>2, MemoSame
  <2> QED
    BY <2>2, <2>3
<1>2. ASSUME NEW R, memo' = [memo EXCEPT ![t] = MemoWithout(t, R)], gen' = gen + 1
      PROVE  MemosOK'
  <2>1. MemoWithout(t, R).gen = memo[t].gen
    BY MemoLess
  <2>2. \A s \in Threads : memo'[s].gen = memo[s].gen
    BY <1>2, <2>1 DEF AuxOK
  <2> QED
    BY <1>2, <2>2, MemoBumped
<1>3. CASE UnregisterProbe(t)
  <2>1. CASE gen' = gen + 1 /\ memo' = [memo EXCEPT ![t] = MemoWithout(t, {top[call[t].arg]})]
    BY <1>2, <2>1
  <2>2. CASE /\ gen' = gen /\ memo' = memo /\ UNCHANGED <<map, top>>
             /\ call' = [call EXCEPT ![t].op = "sweep"]
    <3>1. \A u \in Threads : call'[u].op = "unregister" => call'[u] = call[u]
      BY <2>2, NextOp, CoreFacts DEF GoesOn
    <3> QED
      BY <2>2, <3>1, MemoSame
  <2> QED
    BY <1>3, <2>1, <2>2 DEF UnregisterProbe, Bumped, docs
<1> QED
  BY <1>1, <1>2, <1>3 DEF FreeChild, Sweep, UnregisterDoc, Bumped

LEMMA MemosLocked ==
  ASSUME AuxOK, MapOK, CoreOK, MemosOK, NEW t \in Threads, UnregisterLocked(t)
  PROVE  MemosOK'
<1>1. PICK r \in Roots : r = top[call[t].arg]
  BY TopIsRoot DEF UnregisterLocked
<1>2. /\ gen' = gen /\ memo' = memo /\ top' = top
      /\ \A u \in Threads : call'[u].op = "unregister" => call'[u] = call[u]
  BY NextOp, CoreFacts DEF UnregisterLocked, GoesOn
<1>3. CASE Found(r) = {}
  BY <1>1, <1>2, <1>3, MemoSame DEF UnregisterLocked
<1>4. CASE Found(r) # {}
  <2>1. PICK d, E : d \in Docs /\ E \in SUBSET ToSet(chains[d]) /\ E = Found(r) /\ Dropped(E, d)
    BY <1>1, <1>4, LockedDrop
  <2>2. ASSUME NEW q \in Roots, NEW s \in Threads, memo[s].root = q, memo[s].gen = gen
        PROVE  Find(q)' = Find(q)
    <3>1. q # r
      BY <1>1, <2>2 DEF UnregisterLocked, MemosOK, MemoOK
    <3>2. E \cap EntriesAt(q) = {}
      BY <2>1, <3>1, WalkFinds DEF EntriesAt
    <3> QED
      BY <2>1, <3>2, DroppedMap
  <2> QED
    BY <1>2, <2>2, MemoKept
<1> QED
  BY <1>3, <1>4

LEMMA MemosNext ==
  ASSUME AuxOK, MapOK, CoreOK, MemosOK, NEW t \in Threads, Step(t)
  PROVE  MemosOK'
<1>1. ASSUME NEW d \in Docs, NEW r \in Roots,
             Parse(t, d, r) \/ Create(t, d, r) \/ \E root \in BOOLEAN : Reregister(t, d, r, root)
      PROVE  MemosOK'
  BY <1>1, MemoBumped DEF Parse, Create, Reregister, Register, Bumped
<1>2. ASSUME \/ \E d, c \in Docs : Absorb(t, d, c)
             \/ \E d \in Docs : Leave(t, d) \/ \E u \in Threads : Share(t, u, d)
             \/ \E r \in Roots : GetDocumentMiss(t, r)
      PROVE  MemosOK'
  <2>1. UNCHANGED <<map, gen, memo, top>>
    BY <1>2 DEF Absorb, Leave, Share, GetDocumentMiss, docs
  <2>2. \A u \in Threads : call'[u].op = "unregister" => call'[u] = call[u]
    BY <1>2, CoreFacts DEF Absorb, Leave, Share, GetDocumentMiss
  <2> QED
    BY <2>1, <2>2, MemoSame
<1>3. ASSUME NEW c \in Docs, PoolGone(c), users[c] = {t}, call[t].op # "unregister",
             UNCHANGED <<map, gen, memo>>,
             \A u \in Threads : call'[u].op = "unregister" => call'[u] = call[u]
      PROVE  MemosOK'
  <2>1. \A x \in Docs \ {c} : top'[x] = top[x]
    BY <1>3 DEF PoolGone, CoreOK, CoreType
  <2>2. \A u \in Threads : call[u].op = "unregister" => call[u].arg \in Docs \ {c}
    BY <1>3, CoreFacts DEF Freeing, FreeOps
  <2> QED
    BY <1>3, <2>1, <2>2, MemoSame
<1>4. CASE ReleaseChild(t)
  <2>1. PICK c \in Family(call[t].arg) : PoolGone(c)
    BY <1>4 DEF ReleaseChild
  <2>2. c \in Docs /\ users[c] = {t} /\ call[t].op # "unregister"
    BY <1>4, <2>1, CoreFacts DEF ReleaseChild, Freeing, FreeOps
  <2> QED
    BY <1>3, <1>4, <2>1, <2>2 DEF ReleaseChild
<1>5. CASE Release(t)
  <2>1. PICK d \in Docs : d = call[t].arg /\ PoolGone(d) /\ users[d] = {t} /\ call[t].op # "unregister"
    BY <1>5, CoreFacts DEF Release, Freeing, FreeOps
  <2>2. \A u \in Threads : call'[u].op = "unregister" => call'[u] = call[u]
    BY <1>5, CoreFacts DEF Release, Idle
  <2> QED
    BY <1>3, <1>5, <2>1, <2>2 DEF Release
<1> QED
  BY <1>1, <1>2, <1>4, <1>5, MemosWritten, MemosFreed, MemosLocked DEF Step

-------------------------------------------------------------------------------
(* While no thread frees its document or one that owns it, a root resolves   *)
(* to one of these.                                                          *)
InUse(r) == /\ pool[r] # None
            /\ \A t \in Threads : Freeing(t) => pool[r] \notin Family(call[t].arg)
Resolves(r) == InUse(r) => Find(r) # None /\ pool[r] \in Family(Find(r))
ResolvesOK == \A r \in Roots : Resolves(r)

LEMMA ResolvesKept ==
  ASSUME NEW r \in Roots, Resolves(r), Find(r)' = Find(r), pool'[r] = pool[r],
         absorbed' = absorbed,
         \A t \in Threads : Freeing(t) => Freeing(t)' /\ call'[t].arg = call[t].arg
  PROVE  Resolves(r)'
<1>1. \A d : Family(d)' = Family(d)
  BY DEF Family
<1> QED
  BY <1>1, Zenon DEF Resolves, InUse

LEMMA ResolvesRegister ==
  ASSUME ResolvesOK, MapOK, CoreOK, NEW t \in Threads, NEW d \in Docs, NEW r \in Roots,
         Parse(t, d, r) \/ Create(t, d, r) \/ \E root \in BOOLEAN : Reregister(t, d, r, root)
  PROVE  ResolvesOK'
<1>1. Find(r)' = d /\ \A q \in Roots \ {r} : Find(q)' = Find(q)
  BY RegisterMap DEF Parse, Create, Reregister
<1>2. /\ call' = call /\ absorbed' = absorbed
      /\ \A q \in Roots \ {r} : pool'[q] = pool[q]
      /\ pool'[r] = d \/ pool'[r] \in Family(d)
  BY CoreTypes DEF Parse, Create, Reregister, CoreOK, CoreType
<1>3. Resolves(r)'
  BY <1>1, <1>2, FamilyKin, KinSet, RootDocAssumption DEF Resolves
<1>4. ASSUME NEW q \in Roots \ {r} PROVE Resolves(q)'
  BY <1>1, <1>2, <1>4, ResolvesKept DEF ResolvesOK, Freeing
<1> QED
  BY <1>3, <1>4 DEF ResolvesOK

(* Only entries of other documents are dropped while a root is in use.       *)
LEMMA ResolvesDropped ==
  ASSUME ResolvesOK, MapOK, CoreOK, NEW d \in Docs, NEW E, E \in SUBSET ToSet(chains[d]),
         Dropped(E, d), UNCHANGED <<pool, absorbed>>,
         \A t \in Threads : Freeing(t) => Freeing(t)' /\ call'[t].arg = call[t].arg,
         \A r \in Roots : InUse(r) => pool[r] \notin Family(d)
  PROVE  ResolvesOK'
<1>1. ASSUME NEW r \in Roots, InUse(r) PROVE Resolves(r)'
  <2>1. Find(r) # None /\ Find(r) # d
    BY <1>1, Zenon DEF ResolvesOK, Resolves
  <2>2. PICK e \in Found(r) : e \in Entries \ spare /\ entry[e].doc # d
    BY <2>1, WalkFinds
  <2>3. e \notin E
    BY <2>2, EntriesOf
  <2>4. Find(r)' = Find(r)
    BY <2>2, <2>3, DroppedMap
  <2> QED
    BY <2>4, ResolvesKept DEF ResolvesOK
<1>2. ASSUME NEW r \in Roots, ~ InUse(r) PROVE Resolves(r)'
  <2>1. \A x : Family(x)' = Family(x)
    BY DEF Family
  <2> QED
    BY <1>2, <2>1 DEF Resolves, InUse
<1> QED
  BY <1>1, <1>2 DEF ResolvesOK

LEMMA ResolvesGone ==
  ASSUME ResolvesOK, MapOK, CoreOK, NEW c \in Docs, PoolGone(c), UNCHANGED map,
         \A x \in Docs : absorbed[x] # c,
         \A t \in Threads : Freeing(t) => \/ Freeing(t)' /\ call'[t].arg = call[t].arg
                                       \/ call[t].arg = c
  PROVE  ResolvesOK'
<1>1. /\ \A r \in Roots : pool'[r] = IF pool[r] = c THEN None ELSE pool[r]
      /\ \A x \in Docs \ {c} : absorbed'[x] = absorbed[x]
      /\ \A r \in Roots : Find(r)' = Find(r)
  BY MapStays DEF PoolGone, CoreOK, CoreType
<1>2. ASSUME NEW r \in Roots, pool'[r] # None PROVE Resolves(r)'
  <2>1. PICK p \in Docs \ {c} : p = pool[r] /\ p = pool'[r]
    BY <1>1, <1>2, CoreTypes
  <2>2. \A d \in Docs : p \in Kin(absorbed, d) => p \in Kin(absorbed', d)
    <3>1. \A d \in Docs : Kin(absorbed, d) \subseteq Kin(absorbed', d) \cup {c}
      BY <1>1, KinLess
    <3>2. p # c
      BY <2>1
    <3> QED
      BY <3>1, <3>2
  <2>3. p \notin Kin(absorbed, c)
    BY <2>1, KinAlone
  <2>4. ASSUME InUse(r)', NEW t \in Threads, Freeing(t) PROVE p \notin Kin(absorbed, call[t].arg)
    <3>1. call[t].arg \in Docs
      BY <2>4, CoreFacts
    <3>2. p \notin Kin(absorbed', call[t].arg) \/ call[t].arg = c
      BY <2>1, <2>4 DEF InUse, Family, Kin
    <3> QED
      BY <2>2, <2>3, <3>1, <3>2
  <2>5. InUse(r)' => InUse(r)
    BY <2>1, <2>4, FamilyKin, RootDocAssumption DEF InUse
  <2>6. InUse(r) => Find(r) \in Docs /\ p \in Kin(absorbed, Find(r))
    BY <2>1, FindType, FamilyKin DEF ResolvesOK, Resolves
  <2>7. InUse(r)' => Find(r)' # None /\ pool'[r] \in Kin(absorbed', Find(r)')
    BY <1>1, <2>1, <2>2, <2>5, <2>6, RootDocAssumption
  <2> QED
    BY <2>7 DEF Resolves, Family, Kin
<1>3. ASSUME NEW r \in Roots, pool'[r] = None PROVE Resolves(r)'
  BY <1>3 DEF Resolves, InUse
<1> QED
  BY <1>2, <1>3 DEF ResolvesOK

LEMMA ResolvesNext ==
  ASSUME ResolvesOK, MapOK, CoreOK, NEW t \in Threads, Step(t)
  PROVE  ResolvesOK'
<1>1. ASSUME UNCHANGED <<map, pool, absorbed>>,
             \A u \in Threads : Freeing(u) => Freeing(u)' /\ call'[u].arg = call[u].arg
      PROVE  ResolvesOK'
  BY <1>1, MapStays, ResolvesKept DEF ResolvesOK
<1>2. ASSUME \/ \E d \in Docs, r \in Roots : MemoPrime(t, d, r)
             \/ \E d \in Docs : \/ Leave(t, d) \/ FreeDocument(t, d)
                              \/ \E u \in Threads : Share(t, u, d)
             \/ \E r \in Roots : GetDocumentMiss(t, r)
             \/ GetDocumentWalk(t) \/ DrainThread(t)
      PROVE  ResolvesOK'
  <2>1. UNCHANGED <<map, pool, absorbed>>
    BY <1>2 DEF MemoPrime, Leave, FreeDocument, Share, GetDocumentMiss, GetDocumentWalk,
                DrainThread, docs
  <2>2. call[t] = Idle \/ call[t].op = "walk"
    BY <1>2 DEF MemoPrime, Leave, FreeDocument, Share, GetDocumentMiss, GetDocumentWalk,
                DrainThread, Holds
  <2>3. \A u \in Threads \ {t} : call'[u] = call[u]
    BY <1>2, CoreFacts DEF MemoPrime, Leave, FreeDocument, Share, GetDocumentMiss, GetDocumentWalk,
                           DrainThread, docs
  <2>4. \A u \in Threads : Freeing(u) => call'[u] = call[u]
    BY <2>2, <2>3 DEF Freeing, FreeOps, Idle
  <2> QED
    BY <1>1, <2>1, <2>4 DEF Freeing
<1>3. ASSUME NEW d \in Docs, NEW c \in Docs, Absorb(t, d, c) PROVE ResolvesOK'
  <2>1. /\ absorbed'[c] = d /\ \A x \in Docs \ {c} : absorbed'[x] = absorbed[x]
        /\ absorbed[c] = None /\ UNCHANGED <<call, pool>>
        /\ \A q \in Roots : Find(q)' = Find(q)
    BY <1>3, MapStays DEF Absorb, CoreOK, CoreType
  <2>2. \A x \in Docs : Kin(absorbed, x) \subseteq Kin(absorbed', x)
    <3>1. \A x \in Docs : absorbed[x] \in Docs => absorbed'[x] = absorbed[x]
      BY <2>1, RootDocAssumption
    <3> QED
      BY <3>1, KinMore
  <2>3. ASSUME NEW r \in Roots, InUse(r)' PROVE Resolves(r)'
    <3>1. ASSUME NEW u \in Threads, Freeing(u) PROVE pool[r] \notin Family(call[u].arg)
      <4>1. Freeing(u)' /\ call[u].arg \in Docs /\ call'[u].arg = call[u].arg
        BY <2>1, <3>1, CoreFacts DEF Freeing
      <4>2. pool[r] \notin Kin(absorbed', call[u].arg)
        BY <2>1, <2>3, <4>1 DEF InUse, Family, Kin
      <4> QED
        BY <2>2, <4>1, <4>2, FamilyKin
    <3>2. InUse(r)
      BY <2>1, <2>3, <3>1 DEF InUse
    <3>3. PICK x \in Docs : x = Find(r) /\ pool[r] \in Family(x)
      BY <3>2, FindType DEF ResolvesOK, Resolves
    <3>4. pool'[r] \in Kin(absorbed', x) /\ Find(r)' = x
      BY <2>1, <2>2, <3>3, FamilyKin
    <3> QED
      BY <3>4, RootDocAssumption DEF Resolves, Family, Kin
  <2> QED
    BY <2>3 DEF ResolvesOK, Resolves
<1>4. ASSUME Freeing(t), NEW op \in FreeOps, call' = [call EXCEPT ![t].op = op]
      PROVE  \A u \in Threads : Freeing(u) => Freeing(u)' /\ call'[u].arg = call[u].arg
  BY <1>4, NextOp, CoreFacts DEF GoesOn, Freeing
<1>5. CASE FreeChild(t)
  <2>1. PICK c, E : /\ c \in Family(call[t].arg) \ {call[t].arg}
                    /\ E = ToSet(chains[c]) /\ Dropped(E, c)
    BY <1>5 DEF FreeChild, UnregisterDoc
  <2>2. Freeing(t) /\ c \in Docs /\ call[t].arg \in Docs
    BY <1>5, <2>1, CoreFacts DEF FreeChild, Freeing, FreeOps
  <2>3. \A r \in Roots : InUse(r) => pool[r] \notin Family(c)
    <3>1. Family(c) \subseteq Family(call[t].arg)
      BY <2>1, <2>2, FamilyKin, KinWithin
    <3> QED
      BY <2>2, <3>1 DEF InUse
  <2>4. UNCHANGED <<pool, absorbed, call>>
    BY <1>5 DEF FreeChild
  <2> QED
    BY <2>1, <2>2, <2>3, <2>4, ResolvesDropped DEF Freeing
<1>6. CASE ReleaseChild(t)
  <2>1. PICK c \in Family(call[t].arg) \ {call[t].arg} : PoolGone(c) /\ Childless(c)
    BY <1>6 DEF ReleaseChild
  <2>2. c \in Docs /\ \A x \in Docs : absorbed[x] # c
    BY <1>6, <2>1, CoreFacts DEF ReleaseChild, Freeing, FreeOps, Childless
  <2> QED
    BY <1>6, <2>1, <2>2, ResolvesGone DEF ReleaseChild, Freeing
<1>7. CASE UnregisterProbe(t)
  <2>1. PICK op \in {"unregister", "sweep"} : call' = [call EXCEPT ![t].op = op]
    BY <1>7 DEF UnregisterProbe
  <2> QED
    BY <1>1, <1>4, <1>7, <2>1 DEF UnregisterProbe, docs, Freeing, FreeOps
<1>8. CASE UnregisterLocked(t)
  <2>1. PICK r \in Roots : r = top[call[t].arg] /\ pool[r] = call[t].arg /\ Freeing(t)
    BY <1>8, TopIsRoot DEF UnregisterLocked
  <2>2. /\ UNCHANGED <<pool, absorbed>>
        /\ \A u \in Threads : Freeing(u) => Freeing(u)' /\ call'[u].arg = call[u].arg
    BY <1>4, <1>8, <2>1 DEF UnregisterLocked, FreeOps
  <2>3. CASE Found(r) = {}
    BY <1>1, <1>8, <2>1, <2>2, <2>3 DEF UnregisterLocked
  <2>4. CASE Found(r) # {}
    <3>1. PICK d, E : d \in Docs /\ E \in SUBSET ToSet(chains[d]) /\ E = Found(r) /\ Dropped(E, d)
      BY <1>8, <2>1, <2>4, LockedDrop
    <3>2. ASSUME NEW q \in Roots PROVE Resolves(q)'
      <4>1. CASE q = r
        <5>1. ~ InUse(q)'
          <6>1. call[t].arg \in Docs /\ Freeing(t)' /\ call'[t].arg = call[t].arg
            BY <2>1, <2>2, CoreFacts
          <6>2. pool'[q] \in Kin(absorbed', call'[t].arg)
            BY <2>1, <2>2, <4>1, <6>1, KinSet
          <6> QED
            BY <6>1, <6>2 DEF InUse, Family, Kin
        <5> QED
          BY <5>1 DEF Resolves
      <4>2. CASE q # r
        <5>1. E \cap EntriesAt(q) = {}
          BY <3>1, <4>2, WalkFinds DEF EntriesAt
        <5>2. Find(q)' = Find(q)
          BY <3>1, <5>1, DroppedMap
        <5> QED
          BY <2>2, <5>2, ResolvesKept DEF ResolvesOK
      <4> QED
        BY <4>1, <4>2
    <3> QED
      BY <3>2 DEF ResolvesOK
  <2> QED
    BY <2>3, <2>4
<1>9. CASE Sweep(t)
  <2>1. PICK d, E : d \in Docs /\ d = call[t].arg /\ E = ToSet(chains[d]) /\ Dropped(E, d)
    BY <1>9, CoreFacts DEF Sweep, UnregisterDoc, Freeing, FreeOps
  <2>2. Freeing(t) /\ \A r \in Roots : InUse(r) => pool[r] \notin Family(d)
    BY <1>9, <2>1 DEF Sweep, InUse, Freeing, FreeOps
  <2>3. \A u \in Threads : Freeing(u) => Freeing(u)' /\ call'[u].arg = call[u].arg
    BY <1>4, <1>9, <2>2 DEF Sweep, FreeOps
  <2> QED
    BY <1>9, <2>1, <2>2, <2>3, ResolvesDropped DEF Sweep, docs
<1>10. CASE Release(t)
  <2>1. PICK d \in Docs : d = call[t].arg /\ PoolGone(d)
    BY <1>10, CoreFacts DEF Release, Freeing, FreeOps
  <2>2. \A x \in Docs : absorbed[x] # d
    BY <1>10, <2>1 DEF Release, CoreOK, FrameOK
  <2>3. \A u \in Threads : Freeing(u) => \/ Freeing(u)' /\ call'[u].arg = call[u].arg
                                        \/ call[u].arg = d
    BY <1>10, <2>1, CoreFacts DEF Release, Freeing
  <2> QED
    BY <1>10, <2>1, <2>2, <2>3, ResolvesGone DEF Release
<1> QED
  BY <1>2, <1>3, <1>5, <1>6, <1>7, <1>8, <1>9, <1>10, ResolvesRegister DEF Step

-------------------------------------------------------------------------------
(* The inductive invariant and what follows from it.                         *)
RootInv == CoreOK /\ AuxOK /\ MapOK /\ LiveOK /\ MemosOK /\ ResolvesOK

LEMMA RootInvInit == Init => RootInv
<1> SUFFICES ASSUME Init PROVE RootInv
  OBVIOUS
<1>1. CoreOK
  BY CoreInit
<1>2. AuxOK
  BY DEF Init, AuxOK, NoMemo
<1>3. MapOK
  <2>1. MapType
    BY NoElements DEF Init, MapType, BucketSet, EntryType
  <2>2. \A e \in Entries : e \in spare /\ SpareOK(e)
    BY NoElements DEF Init, SpareOK, BucketSet
  <2>3. \A b \in BucketSet : IsInjective(buckets[b])
    BY NoElements DEF Init, BucketSet
  <2> QED
    BY <2>1, <2>2, <2>3 DEF MapOK
<1>4. LiveOK
  BY DEF Init, LiveOK
<1>5. MemosOK
  BY DEF Init, MemosOK, MemoOK, NoMemo, Idle
<1>6. ResolvesOK
  BY DEF Init, ResolvesOK, Resolves, InUse
<1> QED
  BY <1>1, <1>2, <1>3, <1>4, <1>5, <1>6 DEF RootInv

LEMMA RootInvNext == RootInv /\ [Next]_vars => RootInv'
<1>1. ASSUME RootInv, NEW t \in Threads, Step(t) PROVE RootInv'
  BY <1>1, CoreNext, AuxNext, MapNext, LiveNext, MemosNext, ResolvesNext DEF RootInv
<1>2. ASSUME RootInv, UNCHANGED vars PROVE RootInv'
  <2>1. /\ UNCHANGED <<map, pool, users, top, absorbed, call, gen, memo, marked>>
        /\ entry' = entry /\ spare' = spare
    BY <1>2 DEF vars, map
  <2>2. CoreOK' /\ AuxOK' /\ MapOK'
    BY <1>2, <2>1, CoreStays, MapStays DEF RootInv, AuxOK
  <2>3. LiveOK'
    BY <1>2, <2>1, LiveKept DEF RootInv
  <2>4. MemosOK' /\ ResolvesOK'
    BY <1>2, <2>1, MemoSame, MapStays, ResolvesKept DEF RootInv, ResolvesOK, Freeing
  <2> QED
    BY <2>2, <2>3, <2>4 DEF RootInv
<1> QED
  BY <1>1, <1>2 DEF Next

LEMMA RootInvHolds == Spec => []RootInv
BY RootInvInit, RootInvNext, PTL DEF Spec

(* The pair a thread trusts without the lock is the pair the map holds, for  *)
(* any number of threads, documents and reused addresses                     *)
(* (root_doc_map.c:8-19, 112-149).                                           *)
THEOREM MemoIsTrue == Spec => []MemoTrue
<1>1. RootInv => MemoTrue
  BY DEF RootInv, MemosOK, MemoOK, MemoTrue
<1> QED
  BY <1>1, RootInvHolds, PTL

(* Buckets, document chains and spare entries agree, and an entry in use     *)
(* names a document that exists (root_doc_map.c:57-100, 300-360).            *)
THEOREM ChainsAreExact == Spec => []ChainsAgree
<1>1. ASSUME RootInv PROVE ChainsAgree
  <2>1. DOMAIN buckets = BucketSet /\ \A b \in BucketSet : IsInjective(buckets[b])
    BY <1>1 DEF RootInv, MapOK, MapType
  <2>2. ASSUME NEW e \in spare
        PROVE  /\ {b \in BucketSet : e \in ToSet(buckets[b])} = {}
               /\ {d \in Docs : e \in ToSet(chains[d])} = {}
    BY <1>1 DEF RootInv, MapOK, MapType, SpareOK
  <2>3. ASSUME NEW e \in Entries \ spare
        PROVE  /\ {b \in BucketSet : e \in ToSet(buckets[b])} = {Bucket[entry[e].root]}
               /\ {d \in Docs : e \in ToSet(chains[d])} = {entry[e].doc}
               /\ users[entry[e].doc] # {}
    BY <1>1 DEF RootInv, MapOK, TakenOK, LiveOK, EntryLive, BucketSet
  <2> QED
    BY <2>1, <2>2, <2>3 DEF ChainsAgree
<1> QED
  BY <1>1, RootInvHolds, PTL

(* An element the program may touch resolves to the document that stores it  *)
(* or to one that owns it, through any number of absorptions and whatever    *)
(* stale entry its address had (root_doc_map.c:286-302, leptris.c:875-893).  *)
THEOREM ResolvesHome == Spec => []ResolvesToOwner
<1>1. ASSUME RootInv PROVE ResolvesToOwner
  <2>1. ASSUME NEW r \in Roots, pool[r] # None,
               \A t \in users[pool[r]] : call[t].op \in {"idle", "walk"}
        PROVE  InUse(r)
    <3>1. PICK d \in Docs : d = pool[r]
      BY <1>1, <2>1, CoreTypes DEF RootInv
    <3>2. ASSUME NEW t \in Threads, Freeing(t), d \in Family(call[t].arg) PROVE FALSE
      <4>1. t \in users[d]
        BY <1>1, <3>2, CoreFacts DEF RootInv
      <4> QED
        BY <2>1, <3>1, <3>2, <4>1 DEF Freeing, FreeOps
    <3> QED
      BY <2>1, <3>1, <3>2 DEF InUse
  <2> QED
    BY <1>1, <2>1 DEF RootInv, ResolvesOK, Resolves, ResolvesToOwner
<1> QED
  BY <1>1, RootInvHolds, PTL
===============================================================================
