-------------------------- MODULE DocLifecycleProofs --------------------------
(* Theorems of DocLifecycle, for any number of documents and nodes: every    *)
(* document is freed once, the root map names live documents only, and a     *)
(* tree and the resolution of its nodes stay inside a family: a document     *)
(* nobody owns and all the documents it owns, directly or not.  First the    *)
(* ownership of documents, then the nodes, then the families.                *)
EXTENDS DocLifecycle, FiniteSetTheorems, ChainsProofs

-------------------------------------------------------------------------------
(* Ownership of documents.                                                   *)
DocRec == [absorbed_by : Docs \cup {None}, absorbed_handle : {0, 1},
           absorbed_deferred : BOOLEAN, child_docs : SUBSET Docs, root : Elems \cup {None}]
DocType == doc \in [Docs -> DocRec]
SetsType == live \subseteq Docs /\ held \subseteq live

(* The program will free d itself: nothing owns it, or its owner has gone.   *)
Rooted(d) == d \in held /\ (doc[d].absorbed_by = None \/ doc[d].absorbed_deferred)
IsOwned(d) == \E x \in Docs : d \in doc[x].child_docs

DocOK(d) ==
  /\ d \notin live => /\ doc[d].absorbed_by = None /\ doc[d].absorbed_handle = 0
                      /\ ~ doc[d].absorbed_deferred /\ doc[d].child_docs = {}
  /\ doc[d].child_docs \subseteq live
  /\ d \in live => (IsOwned(d) <=> ~ Rooted(d))
  /\ doc[d].absorbed_handle = 1 => d \in held /\ doc[d].absorbed_by # None
  /\ doc[d].absorbed_deferred => doc[d].absorbed_handle = 1
  /\ doc[d].absorbed_by # None /\ ~ doc[d].absorbed_deferred =>
       doc[d].absorbed_by \in Docs /\ d \in doc[doc[d].absorbed_by].child_docs
ChildOK(x, c) ==
  c \in doc[x].child_docs => /\ doc[c].absorbed_handle = 0 => c \notin held
                            /\ \A y \in Docs : c \in doc[y].child_docs => x = y
OwnOK == /\ DocType /\ SetsType
         /\ \A d \in Docs : DocOK(d)
         /\ \A x, c \in Docs : ChildOK(x, c)

LEMMA OwnTypes ==
  ASSUME OwnOK
  PROVE  /\ live \subseteq Docs /\ held \subseteq live /\ None \notin Docs \cup Elems
         /\ \A d \in Docs : /\ doc[d].absorbed_by \in Docs \cup {None}
                           /\ doc[d].absorbed_handle \in {0, 1}
                           /\ doc[d].absorbed_deferred \in BOOLEAN
                           /\ doc[d].child_docs \subseteq Docs
                           /\ doc[d].root \in Elems \cup {None}
                           /\ DocOK(d) /\ \A c \in Docs : ChildOK(d, c)
BY DocLifecycleAssumption DEF OwnOK, DocType, DocRec, SetsType

(* Records with some fields replaced.                                        *)
WithRoot(r, e) == [r EXCEPT !.root = e]
WithChild(r, c) == [r EXCEPT !.child_docs = @ \cup {c}]
AbsorbedBy(r, d) == [r EXCEPT !.absorbed_by = d, !.absorbed_handle = 1]
NoHandle(r) == [r EXCEPT !.absorbed_handle = 0]
Outlived(r) == [r EXCEPT !.root = None, !.absorbed_deferred = TRUE]

LEMMA RootFields ==
  ASSUME NEW r \in DocRec, NEW e \in Elems \cup {None}, NEW s, s = WithRoot(r, e)
  PROVE  /\ s \in DocRec /\ s.root = e
         /\ s.absorbed_by = r.absorbed_by /\ s.absorbed_handle = r.absorbed_handle
         /\ s.absorbed_deferred = r.absorbed_deferred /\ s.child_docs = r.child_docs
BY DEF DocRec, WithRoot

LEMMA ChildFields ==
  ASSUME NEW r \in DocRec, NEW c \in Docs, NEW s, s = WithChild(r, c)
  PROVE  /\ s \in DocRec /\ s.root = r.root
         /\ s.absorbed_by = r.absorbed_by /\ s.absorbed_handle = r.absorbed_handle
         /\ s.absorbed_deferred = r.absorbed_deferred /\ s.child_docs = r.child_docs \cup {c}
BY DEF DocRec, WithChild

LEMMA AbsorbedFields ==
  ASSUME NEW r \in DocRec, NEW d \in Docs, NEW s, s = AbsorbedBy(r, d)
  PROVE  /\ s \in DocRec /\ s.root = r.root
         /\ s.absorbed_by = d /\ s.absorbed_handle = 1
         /\ s.absorbed_deferred = r.absorbed_deferred /\ s.child_docs = r.child_docs
BY DEF DocRec, AbsorbedBy

LEMMA HandleFields ==
  ASSUME NEW r \in DocRec, NEW s, s = NoHandle(r)
  PROVE  /\ s \in DocRec /\ s.root = r.root
         /\ s.absorbed_by = r.absorbed_by /\ s.absorbed_handle = 0
         /\ s.absorbed_deferred = r.absorbed_deferred /\ s.child_docs = r.child_docs
BY DEF DocRec, NoHandle

LEMMA OutlivedFields ==
  ASSUME NEW r \in DocRec, NEW s, s = Outlived(r)
  PROVE  /\ s \in DocRec /\ s.root = None
         /\ s.absorbed_by = r.absorbed_by /\ s.absorbed_handle = r.absorbed_handle
         /\ s.absorbed_deferred /\ s.child_docs = r.child_docs
BY DEF DocRec, Outlived

LEMMA FreshFields ==
  ASSUME NEW e \in Elems \cup {None}, NEW s, s = NewDoc(e)
  PROVE  /\ s \in DocRec /\ s.root = e
         /\ s.absorbed_by = None /\ s.absorbed_handle = 0
         /\ ~ s.absorbed_deferred /\ s.child_docs = {}
BY DEF DocRec, NewDoc

LEMMA NewFields ==
  ASSUME NEW r \in DocRec, NEW e, r.absorbed_by = None, r.absorbed_handle = 0,
         ~ r.absorbed_deferred, r.child_docs = {}, NEW s, s = NewDoc(e)
  PROVE  /\ s.absorbed_by = r.absorbed_by /\ s.absorbed_handle = r.absorbed_handle
         /\ s.absorbed_deferred = r.absorbed_deferred /\ s.child_docs = r.child_docs
         /\ s.root = e
<1>1. r.absorbed_deferred = FALSE
  BY DEF DocRec
<1> QED
  BY <1>1 DEF NewDoc

LEMMA OwnedFacts ==
  ASSUME DocType, NEW d \in Docs
  PROVE  /\ d \in Owned(d) /\ Owned(d) \subseteq Docs
         /\ \A x \in Owned(d) : doc[x].child_docs \subseteq Owned(d)
         /\ \A c \in Owned(d) : c = d \/ \E x \in Owned(d) : c \in doc[x].child_docs
<1>1. PICK next \in [Docs -> SUBSET Docs] : next = [x \in Docs |-> doc[x].child_docs]
  BY DEF DocType, DocRec
<1>2. Owned(d) = Reached(d, next) /\ \A x \in Docs : next[x] = doc[x].child_docs
  BY <1>1 DEF Owned
<1>3. /\ d \in Reached(d, next) /\ Reached(d, next) \subseteq Docs
      /\ \A x \in Reached(d, next) : next[x] \subseteq Reached(d, next)
  BY ReachedSet, DocLifecycleAssumption
<1>4. \A c \in Reached(d, next) : c = d \/ \E x \in Reached(d, next) : c \in next[x]
  BY ReachedFrom, DocLifecycleAssumption
<1> QED
  BY <1>2, <1>3, <1>4

LEMMA OwnedLeast ==
  ASSUME DocType, NEW d \in Docs, NEW T \in SUBSET Docs, d \in T,
         \A x \in T : doc[x].child_docs \subseteq T
  PROVE  Owned(d) \subseteq T
<1>1. PICK next \in [Docs -> SUBSET Docs] : next = [x \in Docs |-> doc[x].child_docs]
  BY DEF DocType, DocRec
<1>2. Owned(d) = Reached(d, next) /\ \A x \in T : next[x] \subseteq T
  BY <1>1 DEF Owned
<1> QED
  BY <1>2, ReachedLeast, DocLifecycleAssumption

LEMMA ReleasedFacts ==
  ASSUME DocType, NEW d \in Docs
  PROVE  /\ d \in Released(d) /\ Released(d) \subseteq Docs
         /\ \A x \in Released(d) : \A c \in doc[x].child_docs :
              doc[c].absorbed_handle = 0 => c \in Released(d)
         /\ \A c \in Released(d) : c = d \/ (/\ doc[c].absorbed_handle = 0
                                           /\ \E x \in Released(d) : c \in doc[x].child_docs)
<1>1. PICK next \in [Docs -> SUBSET Docs] :
        next = [x \in Docs |-> {c \in doc[x].child_docs : doc[c].absorbed_handle = 0}]
  BY DEF DocType, DocRec
<1>2. /\ Released(d) = Reached(d, next)
      /\ \A x \in Docs : next[x] = {c \in doc[x].child_docs : doc[c].absorbed_handle = 0}
  BY <1>1 DEF Released
<1>3. /\ d \in Reached(d, next) /\ Reached(d, next) \subseteq Docs
      /\ \A x \in Reached(d, next) : next[x] \subseteq Reached(d, next)
  BY ReachedSet, DocLifecycleAssumption
<1>4. \A c \in Reached(d, next) : c = d \/ \E x \in Reached(d, next) : c \in next[x]
  BY ReachedFrom, DocLifecycleAssumption
<1> QED
  BY <1>2, <1>3, <1>4

LEMMA OwnInit == Init => OwnOK
BY DEF Init, OwnOK, DocType, DocRec, SetsType, DocOK, ChildOK, IsOwned, NewDoc

(* Steps that leave the ownership of documents alone.                        *)
LEMMA OwnKept ==
  ASSUME OwnOK, UNCHANGED <<live, held>>, DocType',
         \A x \in Docs : /\ doc'[x].absorbed_by = doc[x].absorbed_by
                        /\ doc'[x].absorbed_handle = doc[x].absorbed_handle
                        /\ doc'[x].absorbed_deferred = doc[x].absorbed_deferred
                        /\ doc'[x].child_docs = doc[x].child_docs
  PROVE  OwnOK'
<1>1. \A d \in Docs : DocOK(d)'
  BY OwnTypes DEF DocOK, IsOwned, Rooted
<1>2. \A x, c \in Docs : ChildOK(x, c)'
  BY OwnTypes DEF ChildOK
<1> QED
  BY <1>1, <1>2 DEF OwnOK, SetsType

LEMMA OwnParse ==
  ASSUME OwnOK, NEW d \in Docs, NEW r \in Elems, NEW k \in Elems \cup {None}, Parse(d, r, k)
  PROVE  OwnOK'
<1>0. /\ live' = live \cup {d} /\ held' = held \cup {d} /\ d \notin live
      /\ doc' = [doc EXCEPT ![d] = NewDoc(r)]
  BY DEF Parse
<1>1. DocType' /\ SetsType'
  <2>1. doc' = [doc EXCEPT ![d] = NewDoc(r)] /\ NewDoc(r) \in DocRec
    BY <1>0, FreshFields
  <2> QED
    BY <1>0, <2>1 DEF OwnOK, DocType, SetsType
<1>2. \A x \in Docs : /\ doc'[x].absorbed_by = doc[x].absorbed_by
                      /\ doc'[x].absorbed_handle = doc[x].absorbed_handle
                      /\ doc'[x].absorbed_deferred = doc[x].absorbed_deferred
                      /\ doc'[x].child_docs = doc[x].child_docs
  <2>1. DocOK(d) /\ doc[d].absorbed_deferred \in BOOLEAN
    BY OwnTypes
  <2>2. \A x \in Docs : doc[x] \in DocRec /\ doc'[x] = IF x = d THEN NewDoc(r) ELSE doc[x]
    BY <1>0 DEF OwnOK, DocType
  <2>3. /\ doc[d].absorbed_by = None /\ doc[d].absorbed_handle = 0
        /\ ~ doc[d].absorbed_deferred /\ doc[d].child_docs = {}
    BY <1>0, <2>1 DEF DocOK
  <2> QED
    BY <2>2, <2>3, NewFields
<1>3. \A x \in Docs : DocOK(x)'
  <2>1. \A x \in Docs : x # d => DocOK(x)'
    BY <1>0, <1>2, OwnTypes DEF DocOK, IsOwned, Rooted
  <2>2. DocOK(d)'
    BY <1>0, <1>2, OwnTypes DEF DocOK, IsOwned, Rooted
  <2> QED
    BY <2>1, <2>2
<1>4. \A x, c \in Docs : ChildOK(x, c)'
  BY <1>0, <1>2, OwnTypes DEF ChildOK, DocOK
<1> QED
  BY <1>1, <1>3, <1>4 DEF OwnOK

(* g is made the root of d, and the documents of D lose theirs.              *)
Rerooted(d, g, D) ==
  [x \in Docs |-> IF x = d THEN WithRoot(doc[x], g)
                  ELSE IF x \in D THEN WithRoot(doc[x], None) ELSE doc[x]]

LEMMA OwnSetRoot ==
  ASSUME OwnOK, heap.kids \in [Elems -> SUBSET Elems], NEW d \in Docs, NEW e \in Elems, SetRoot(d, e)
  PROVE  OwnOK'
<1>0. UNCHANGED <<live, held>> /\ DocType
  BY DEF SetRoot, OwnOK
<1>1. \E g \in Elems, D \in SUBSET Docs : doc' = Rerooted(d, g, D)
  <2>1. CASE doc' = [doc EXCEPT ![d].root = e]
    <3>1. doc' = Rerooted(d, e, {})
      BY <1>0, <2>1 DEF DocType, Rerooted, WithRoot
    <3> QED
      BY <3>1
  <2>2. CASE \E f \in Copies(heap, e) : doc' = [x \in Docs |->
                  IF x = d THEN [doc[d] EXCEPT !.root = f[e]]
                  ELSE IF x = DocOf(heap, e) /\ doc[x].root = e
                       THEN [doc[x] EXCEPT !.root = None]
                  ELSE doc[x]]
    <3>1. PICK f \in Copies(heap, e) : doc' = [x \in Docs |->
                  IF x = d THEN [doc[d] EXCEPT !.root = f[e]]
                  ELSE IF x = DocOf(heap, e) /\ doc[x].root = e
                       THEN [doc[x] EXCEPT !.root = None]
                  ELSE doc[x]]
      BY <2>2
    <3>2. f[e] \in Elems
      BY ReachedSet, DocLifecycleAssumption DEF Copies, Free, Subtree
    <3>3. PICK D \in SUBSET Docs : D = {x \in Docs : x = DocOf(heap, e) /\ doc[x].root = e}
      OBVIOUS
    <3>4. doc' = Rerooted(d, f[e], D)
      BY <3>1, <3>3 DEF Rerooted, WithRoot
    <3> QED
      BY <3>2, <3>4
  <2> QED
    BY <2>1, <2>2 DEF SetRoot
<1>2. PICK g \in Elems, D \in SUBSET Docs : doc' = Rerooted(d, g, D)
  BY <1>1
<1>3. \A x \in Docs : doc[x] \in DocRec
  BY <1>0 DEF DocType
<1>4. DocType'
  BY <1>2, <1>3, RootFields DEF DocType, Rerooted
<1>5. \A x \in Docs : \/ doc'[x] = doc[x] \/ doc'[x] = WithRoot(doc[x], g)
                      \/ doc'[x] = WithRoot(doc[x], None)
  BY <1>2 DEF Rerooted
<1>6. \A x \in Docs : /\ doc'[x].absorbed_by = doc[x].absorbed_by
                      /\ doc'[x].absorbed_handle = doc[x].absorbed_handle
                      /\ doc'[x].absorbed_deferred = doc[x].absorbed_deferred
                      /\ doc'[x].child_docs = doc[x].child_docs
  <2>1. SUFFICES ASSUME NEW x \in Docs
        PROVE  /\ doc'[x].absorbed_by = doc[x].absorbed_by
               /\ doc'[x].absorbed_handle = doc[x].absorbed_handle
               /\ doc'[x].absorbed_deferred = doc[x].absorbed_deferred
               /\ doc'[x].child_docs = doc[x].child_docs
    OBVIOUS
  <2>2. PICK r, s : r \in DocRec /\ r = doc[x] /\ s = doc'[x]
    BY <1>3
  <2>3. s = r \/ s = WithRoot(r, g) \/ s = WithRoot(r, None)
    BY <1>5, <2>2
  <2> QED
    BY <2>2, <2>3, RootFields
<1> QED
  BY <1>0, <1>4, <1>6, OwnKept

LEMMA OwnAbsorb ==
  ASSUME OwnOK, NEW dst \in Docs, NEW src \in Docs, Absorb(dst, src)
  PROVE  OwnOK'
<1>0. /\ live' = live /\ held' = held /\ dst \in held /\ src \in held /\ dst # src
      /\ doc[dst].absorbed_by = None /\ doc[src].absorbed_by = None
  BY DEF Absorb
<1>e. doc' = [doc EXCEPT ![dst].child_docs = @ \cup {src},
                        ![src].absorbed_by = dst, ![src].absorbed_handle = 1]
  BY DEF Absorb
<1>1. DocType
  BY DEF OwnOK
<1>2. doc[dst] \in DocRec /\ doc[src] \in DocRec /\ \A x \in Docs : doc[x] \in DocRec
  BY <1>1 DEF DocType
<1>3. /\ \A x \in Docs : x \notin {dst, src} => doc'[x] = doc[x]
      /\ doc'[dst] = WithChild(doc[dst], src) /\ doc'[src] = AbsorbedBy(doc[src], dst)
  BY <1>0, <1>1, <1>e DEF DocType, WithChild, AbsorbedBy
<1>8. DocType' /\ SetsType'
  <2>1. DOMAIN doc' = Docs /\ doc' = [x \in Docs |-> doc'[x]]
    <3>1. \E a, b : doc' = [doc EXCEPT ![dst] = a, ![src] = b]
      <4>1. \E a, b : [doc EXCEPT ![dst].child_docs = @ \cup {src},
                        ![src].absorbed_by = dst, ![src].absorbed_handle = 1]
              = [doc EXCEPT ![dst] = a, ![src] = b]
        BY <1>0, <1>1 DEF DocType
      <4> QED
        BY <1>e, <4>1
    <3> QED
      BY <1>1, <3>1 DEF DocType
  <2>2. doc'[dst] \in DocRec /\ doc'[src] \in DocRec
    <3>1. doc'[dst] \in DocRec
      BY <1>2, <1>3, ChildFields
    <3>2. doc'[src] \in DocRec
      BY <1>2, <1>3, AbsorbedFields
    <3> QED
      BY <3>1, <3>2
  <2>3. \A x \in Docs : doc'[x] \in DocRec
    BY <1>2, <1>3, <2>2
  <2> QED
    BY <1>0, <2>1, <2>3 DEF OwnOK, DocType, SetsType
<1>4. /\ \A x \in Docs : x # src => /\ doc'[x].absorbed_by = doc[x].absorbed_by
                                   /\ doc'[x].absorbed_handle = doc[x].absorbed_handle
      /\ doc'[src].absorbed_by = dst /\ doc'[src].absorbed_handle = 1
      /\ \A x \in Docs : doc'[x].absorbed_deferred = doc[x].absorbed_deferred
      /\ \A x \in Docs : x # dst => doc'[x].child_docs = doc[x].child_docs
      /\ doc'[dst].child_docs = doc[dst].child_docs \cup {src}
  <2>1. /\ doc'[dst].absorbed_by = doc[dst].absorbed_by
        /\ doc'[dst].absorbed_handle = doc[dst].absorbed_handle
        /\ doc'[dst].absorbed_deferred = doc[dst].absorbed_deferred
        /\ doc'[dst].child_docs = doc[dst].child_docs \cup {src}
    BY <1>2, <1>3, ChildFields
  <2>2. /\ doc'[src].absorbed_by = dst /\ doc'[src].absorbed_handle = 1
        /\ doc'[src].absorbed_deferred = doc[src].absorbed_deferred
        /\ doc'[src].child_docs = doc[src].child_docs
    BY <1>2, <1>3, AbsorbedFields
  <2> QED
    BY <1>0, <1>3, <2>1, <2>2
<1>5. /\ Rooted(src) /\ src \in live /\ dst # None /\ ~ doc[src].absorbed_deferred
      /\ \A x \in Docs : src \notin doc[x].child_docs
  BY <1>0, OwnTypes DEF DocOK, IsOwned, Rooted
<1>9. \A x \in Docs : /\ IsOwned(x)' <=> (IsOwned(x) \/ x = src)
                      /\ Rooted(x)' <=> (Rooted(x) /\ x # src)
  BY <1>0, <1>4, <1>5 DEF IsOwned, Rooted
<1>6. \A x \in Docs : DocOK(x)'
  <2>1. ASSUME NEW x \in Docs, x # src PROVE DocOK(x)'
    BY <1>0, <1>4, <1>5, <1>9, <2>1, OwnTypes DEF DocOK
  <2>2. DocOK(src)'
    BY <1>0, <1>4, <1>5, <1>9, OwnTypes DEF DocOK, IsOwned
  <2> QED
    BY <2>1, <2>2
<1>7. \A x, c \in Docs : ChildOK(x, c)'
  BY <1>0, <1>4, <1>5, OwnTypes DEF ChildOK
<1> QED
  BY <1>8, <1>6, <1>7 DEF OwnOK

LEMMA OwnInclude ==
  ASSUME OwnOK, NEW d \in Docs, NEW x \in Docs, NEW p \in Elems, NEW r \in Elems,
         Include(d, p, x, r)
  PROVE  OwnOK'
<1>0. /\ live' = live \cup {x} /\ held' = held /\ d \in held /\ x \notin live
  BY DEF Include, UsableDoc
<1>e. doc' = [doc EXCEPT ![x] = NewDoc(None), ![d].child_docs = @ \cup {x}]
  BY DEF Include
<1>1. DocType /\ d # x
  BY <1>0, OwnTypes DEF OwnOK
<1>2. \A y \in Docs : doc[y] \in DocRec
  BY <1>1 DEF DocType
<1>3. /\ \A y \in Docs : y \notin {d, x} => doc'[y] = doc[y]
      /\ doc'[d] = WithChild(doc[d], x) /\ doc'[x] = NewDoc(None)
  BY <1>0, <1>1, <1>e DEF DocType, WithChild
<1>8. DocType' /\ SetsType'
  <2>1. DOMAIN doc' = Docs /\ doc' = [y \in Docs |-> doc'[y]]
    BY <1>0, <1>1, <1>e DEF DocType
  <2>2. doc'[d] \in DocRec /\ doc'[x] \in DocRec
    BY <1>2, <1>3, ChildFields, FreshFields
  <2>3. \A y \in Docs : doc'[y] \in DocRec
    BY <1>2, <1>3, <2>2
  <2> QED
    BY <1>0, <2>1, <2>3, DocLifecycleAssumption DEF OwnOK, DocType, SetsType
<1>4. /\ \A y \in Docs : /\ doc'[y].absorbed_by = doc[y].absorbed_by
                         /\ doc'[y].absorbed_handle = doc[y].absorbed_handle
                         /\ doc'[y].absorbed_deferred = doc[y].absorbed_deferred
                         /\ y # d => doc'[y].child_docs = doc[y].child_docs
      /\ doc'[d].child_docs = doc[d].child_docs \cup {x}
  <2>1. /\ doc[x].absorbed_by = None /\ doc[x].absorbed_handle = 0
        /\ ~ doc[x].absorbed_deferred /\ doc[x].child_docs = {}
    BY <1>0, OwnTypes DEF DocOK
  <2>2. /\ doc'[x].absorbed_by = doc[x].absorbed_by
        /\ doc'[x].absorbed_handle = doc[x].absorbed_handle
        /\ doc'[x].absorbed_deferred = doc[x].absorbed_deferred
        /\ doc'[x].child_docs = doc[x].child_docs
    BY <1>2, <1>3, <2>1, NewFields
  <2>3. /\ doc'[d].absorbed_by = doc[d].absorbed_by
        /\ doc'[d].absorbed_handle = doc[d].absorbed_handle
        /\ doc'[d].absorbed_deferred = doc[d].absorbed_deferred
        /\ doc'[d].child_docs = doc[d].child_docs \cup {x}
    BY <1>2, <1>3, ChildFields
  <2> QED
    BY <1>3, <2>2, <2>3
<1>5. x \notin held /\ d \in live /\ \A y \in Docs : x \notin doc[y].child_docs
  BY <1>0, OwnTypes DEF DocOK
<1>9. \A y \in Docs : /\ IsOwned(y)' <=> (IsOwned(y) \/ y = x)
                      /\ Rooted(y)' <=> Rooted(y)
  BY <1>0, <1>4, <1>5 DEF IsOwned, Rooted
<1>6. \A y \in Docs : DocOK(y)'
  <2>1. ASSUME NEW y \in Docs, y # x PROVE DocOK(y)'
    BY <1>0, <1>4, <1>5, <1>9, <2>1, OwnTypes DEF DocOK
  <2>2. DocOK(x)'
    BY <1>0, <1>4, <1>5, <1>9, OwnTypes DEF DocOK, Rooted
  <2> QED
    BY <2>1, <2>2
<1>7. \A y, c \in Docs : ChildOK(y, c)'
  BY <1>0, <1>4, <1>5, OwnTypes DEF ChildOK
<1> QED
  BY <1>8, <1>6, <1>7 DEF OwnOK

LEMMA OwnFreeHandle ==
  ASSUME OwnOK, NEW d \in Docs, FreeHandle(d)
  PROVE  OwnOK'
<1>0. /\ live' = live /\ held' = held \ {d} /\ d \in held
      /\ doc[d].absorbed_by # None /\ ~ doc[d].absorbed_deferred
      /\ doc' = [doc EXCEPT ![d].absorbed_handle = 0]
  BY DEF FreeHandle
<1>1. DocType
  BY DEF OwnOK
<1>2. \A x \in Docs : /\ doc[x] \in DocRec
                      /\ doc'[x] = IF x = d THEN NoHandle(doc[x]) ELSE doc[x]
  BY <1>0, <1>1 DEF DocType, NoHandle
<1>8. DocType' /\ SetsType'
  <2>1. DOMAIN doc' = Docs /\ doc' = [x \in Docs |-> doc'[x]]
    BY <1>0, <1>1 DEF DocType
  <2>2. \A x \in Docs : doc'[x] \in DocRec
    BY <1>2, HandleFields
  <2> QED
    BY <1>0, <2>1, <2>2, OwnTypes DEF OwnOK, DocType, SetsType, DocOK
<1>3. \A x \in Docs :
        /\ doc'[x].absorbed_by = doc[x].absorbed_by
        /\ doc'[x].absorbed_handle = IF x = d THEN 0 ELSE doc[x].absorbed_handle
        /\ doc'[x].absorbed_deferred = doc[x].absorbed_deferred
        /\ doc'[x].child_docs = doc[x].child_docs
  BY <1>2, HandleFields
<1>4. \A x \in Docs : DocOK(x)'
  BY <1>0, <1>3, OwnTypes DEF DocOK, IsOwned, Rooted
<1>5. \A x, c \in Docs : ChildOK(x, c)'
  BY <1>0, <1>3, OwnTypes DEF ChildOK
<1> QED
  BY <1>8, <1>4, <1>5 DEF OwnOK

LEMMA OwnFreeDocument ==
  ASSUME OwnOK, NEW d \in Docs, FreeDocument(d)
  PROVE  OwnOK'
<1> DEFINE R == Released(d)
           D == Deferred(d)
<1>0. /\ live' = live \ R /\ held' = held \ {d} /\ d \in held /\ Rooted(d)
  BY DEF FreeDocument, MayFree, Rooted
<1>e. doc' = [x \in Docs |->
       IF x \in D THEN Outlived(doc[x]) ELSE IF x \in R THEN NewDoc(None) ELSE doc[x]]
  BY DEF FreeDocument, Outlived
<1>1. DocType /\ \A x \in Docs : doc[x] \in DocRec
  BY DEF OwnOK, DocType
<1>2. /\ d \in R /\ R \subseteq Docs
      /\ \A x \in R : \A c \in doc[x].child_docs : doc[c].absorbed_handle = 0 => c \in R
      /\ \A c \in R : c = d \/ (/\ doc[c].absorbed_handle = 0
                               /\ \E x \in R : c \in doc[x].child_docs)
  <2> HIDE DEF R
  <2>1. R = Released(d)
    BY DEF R
  <2> QED
    BY <1>1, <2>1, ReleasedFacts
<1>3. \A x \in Docs : x \in D <=> (x \notin R /\ \E y \in R : x \in doc[y].child_docs)
  BY DEF Deferred
<1>12. D \subseteq Docs
  <2>1. \A x \in R : doc[x].child_docs \subseteq Docs
    BY <1>2, OwnTypes
  <2> QED
    BY <2>1 DEF Deferred
<1> HIDE DEF R, D
<1>4. \A x \in Docs :
        /\ x \in D => doc'[x] = Outlived(doc[x])
        /\ x \in R => doc'[x] = NewDoc(None)
        /\ x \notin D \cup R => doc'[x] = doc[x]
  BY <1>e, <1>3
<1>5. DocType' /\ SetsType'
  <2>1. \A x \in Docs : doc'[x] \in DocRec
    <3>1. ASSUME NEW x \in Docs, x \in D PROVE doc'[x] \in DocRec
      BY <1>1, <1>4, <3>1, OutlivedFields
    <3>2. ASSUME NEW x \in Docs, x \in R PROVE doc'[x] \in DocRec
      BY <1>4, <3>2, FreshFields
    <3> QED
      BY <1>1, <1>4, <3>1, <3>2
  <2>2. doc' = [x \in Docs |-> doc'[x]]
    BY <1>e
  <2>3. \A c \in R : c \notin held'
    <3>1. ASSUME NEW c \in R, c # d PROVE c \notin held
      BY <1>2, <3>1, OwnTypes DEF ChildOK
    <3> QED
      BY <1>0, <3>1
  <2> QED
    BY <1>0, <2>1, <2>2, <2>3, OwnTypes DEF DocType, SetsType
<1>6. \A x \in Docs :
        /\ x \in D => /\ doc'[x].absorbed_deferred
                      /\ doc'[x].absorbed_by = doc[x].absorbed_by
                      /\ doc'[x].absorbed_handle = doc[x].absorbed_handle
                      /\ doc'[x].child_docs = doc[x].child_docs
        /\ x \in R => /\ doc'[x].absorbed_by = None /\ doc'[x].absorbed_handle = 0
                      /\ ~ doc'[x].absorbed_deferred /\ doc'[x].child_docs = {}
        /\ x \notin D \cup R => doc'[x] = doc[x]
  <2>1. ASSUME NEW x \in Docs, x \in D
        PROVE  /\ doc'[x].absorbed_deferred
               /\ doc'[x].absorbed_by = doc[x].absorbed_by
               /\ doc'[x].absorbed_handle = doc[x].absorbed_handle
               /\ doc'[x].child_docs = doc[x].child_docs
    BY <1>1, <1>4, <2>1, OutlivedFields
  <2>2. ASSUME NEW x \in Docs, x \in R
        PROVE  /\ doc'[x].absorbed_by = None /\ doc'[x].absorbed_handle = 0
               /\ ~ doc'[x].absorbed_deferred /\ doc'[x].child_docs = {}
    BY <1>4, <2>2, FreshFields
  <2> QED
    BY <1>4, <2>1, <2>2
(* A child that outlives its owner has its handle out, and no other owner.   *)
<1>7. \A x \in D : /\ x \in Docs /\ x \notin R /\ doc[x].absorbed_handle = 1 /\ x \in held /\ x # d
                  /\ doc[x].absorbed_by # None /\ x \in live
                  /\ \A y \in Docs : x \in doc[y].child_docs => y \in R
  <2> SUFFICES ASSUME NEW x \in D
      PROVE  /\ x \in Docs /\ x \notin R /\ doc[x].absorbed_handle = 1 /\ x \in held /\ x # d
             /\ doc[x].absorbed_by # None /\ x \in live
             /\ \A y \in Docs : x \in doc[y].child_docs => y \in R
    OBVIOUS
  <2>1. x \in Docs
    BY <1>12
  <2>2. PICK y \in R : x \in doc[y].child_docs /\ x \notin R
    BY <1>3, <2>1
  <2>3. doc[x].absorbed_handle = 1
    BY <1>2, <2>1, <2>2, OwnTypes
  <2>4. \A z \in Docs : x \in doc[z].child_docs => z \in R
    BY <1>2, <2>1, <2>2, OwnTypes DEF ChildOK
  <2> QED
    BY <1>2, <2>1, <2>2, <2>3, <2>4, OwnTypes DEF DocOK
<1>8. \A x, y \in Docs : y \notin R /\ x \in doc[y].child_docs => x \notin R /\ x \notin D
  <2> SUFFICES ASSUME NEW x \in Docs, NEW y \in Docs, y \notin R, x \in doc[y].child_docs
      PROVE  x \notin R /\ x \notin D
    OBVIOUS
  <2>1. x # d
    BY <1>0, OwnTypes DEF DocOK, IsOwned
  <2>2. x \notin R
    BY <1>2, <2>1, OwnTypes DEF ChildOK
  <2> QED
    BY <1>7, <2>2
<1>9. \A x \in Docs : x \notin R => (IsOwned(x)' <=> (IsOwned(x) /\ x \notin D))
  <2>1. ASSUME NEW x \in Docs, x \notin R, NEW y \in Docs, x \in doc'[y].child_docs
        PROVE  IsOwned(x) /\ x \notin D
    BY <1>6, <1>8, <2>1 DEF IsOwned
  <2>2. ASSUME NEW x \in Docs, x \notin R, x \notin D, NEW y \in Docs, x \in doc[y].child_docs
        PROVE  x \in doc'[y].child_docs
    BY <1>3, <1>6, <2>2
  <2> QED
    BY <2>1, <2>2 DEF IsOwned
<1>10. \A x \in Docs : DocOK(x)'
  <2>1. ASSUME NEW x \in Docs, x \in R PROVE DocOK(x)'
    BY <1>0, <1>6, <2>1 DEF DocOK
  <2>2. ASSUME NEW x \in Docs, x \in D PROVE DocOK(x)'
    <3>1. doc'[x].child_docs \subseteq live'
      BY <1>0, <1>6, <1>7, <1>8, <2>2, OwnTypes DEF DocOK
    <3>2. Rooted(x)' /\ ~ IsOwned(x)' /\ x \in live'
      BY <1>0, <1>6, <1>7, <1>9, <2>2 DEF Rooted
    <3> QED
      BY <1>0, <1>6, <1>7, <2>2, <3>1, <3>2 DEF DocOK
  <2>3. ASSUME NEW x \in Docs, x \notin R, x \notin D PROVE DocOK(x)'
    <3>1. doc'[x] = doc[x]
      BY <1>6, <2>3
    <3>2. doc'[x].child_docs \subseteq live'
      BY <1>0, <1>8, <2>3, <3>1, OwnTypes DEF DocOK
    <3>3. (x \in held' <=> x \in held) /\ (x \in live' <=> x \in live)
      BY <1>0, <1>2, <2>3
    <3>4. (Rooted(x)' <=> Rooted(x)) /\ (IsOwned(x)' <=> IsOwned(x))
      BY <1>9, <2>3, <3>1, <3>3 DEF Rooted
    <3>5. doc[x].absorbed_by \in Docs /\ x \in doc[doc[x].absorbed_by].child_docs =>
             x \in doc'[doc[x].absorbed_by].child_docs
      BY <1>3, <1>6, <2>3
    <3> QED
      BY <2>3, <3>1, <3>2, <3>3, <3>4, <3>5, OwnTypes DEF DocOK
  <2> QED
    BY <2>1, <2>2, <2>3
<1>11. \A x, c \in Docs : ChildOK(x, c)'
  <2> SUFFICES ASSUME NEW x \in Docs, NEW c \in Docs, c \in doc'[x].child_docs
      PROVE  ChildOK(x, c)'
    BY DEF ChildOK
  <2>1. \A y \in Docs : c \in doc'[y].child_docs => y \notin R /\ c \in doc[y].child_docs
    BY <1>6
  <2>2. c \notin R /\ c \notin D /\ doc'[c] = doc[c]
    BY <1>6, <1>8, <2>1
  <2> QED
    BY <1>0, <2>1, <2>2, OwnTypes DEF ChildOK
<1> QED
  BY <1>5, <1>10, <1>11 DEF OwnOK

-------------------------------------------------------------------------------
(* The type of a heap, and what its operations do to each field.             *)
HeapRec == [pool : [Elems -> Docs \cup {None}], parent : [Elems -> Elems \cup {None}],
            kids : [Elems -> SUBSET Elems], namebp : [Elems -> Docs \cup {None}],
            map : [Elems -> Docs \cup {None}]]

LEMMA HeapFields ==
  ASSUME NEW h \in HeapRec
  PROVE  /\ h.pool \in [Elems -> Docs \cup {None}] /\ h.parent \in [Elems -> Elems \cup {None}]
         /\ h.kids \in [Elems -> SUBSET Elems] /\ h.namebp \in [Elems -> Docs \cup {None}]
         /\ h.map \in [Elems -> Docs \cup {None}]
         /\ h = [pool |-> h.pool, parent |-> h.parent, kids |-> h.kids,
                 namebp |-> h.namebp, map |-> h.map]
BY DEF HeapRec

LEMMA HeapMade ==
  ASSUME NEW P \in [Elems -> Docs \cup {None}], NEW U \in [Elems -> Elems \cup {None}],
         NEW K \in [Elems -> SUBSET Elems], NEW N \in [Elems -> Docs \cup {None}],
         NEW M \in [Elems -> Docs \cup {None}], NEW s,
         s = [pool |-> P, parent |-> U, kids |-> K, namebp |-> N, map |-> M]
  PROVE  s \in HeapRec /\ s.pool = P /\ s.parent = U /\ s.kids = K /\ s.namebp = N /\ s.map = M
BY DEF HeapRec

LEMMA RegisteredFields ==
  ASSUME NEW h \in HeapRec, NEW e \in Elems, NEW d \in Docs \cup {None}, NEW s,
         s = Registered(h, e, d)
  PROVE  /\ s \in HeapRec /\ s.pool = h.pool /\ s.parent = h.parent /\ s.kids = h.kids
         /\ s.namebp = h.namebp
         /\ \A x \in Elems : s.map[x] = IF x = e /\ d # None THEN d ELSE h.map[x]
<1>1. CASE d = None
  BY <1>1 DEF Registered
<1>2. CASE d # None
  <2>1. PICK P, U, K, N, M : h = [pool |-> P, parent |-> U, kids |-> K, namebp |-> N, map |-> M]
    BY HeapFields
  <2>2. s = [pool |-> P, parent |-> U, kids |-> K, namebp |-> N, map |-> [M EXCEPT ![e] = d]]
    BY <1>2, <2>1 DEF Registered
  <2>3. /\ P \in [Elems -> Docs \cup {None}] /\ U \in [Elems -> Elems \cup {None}]
        /\ K \in [Elems -> SUBSET Elems] /\ N \in [Elems -> Docs \cup {None}]
        /\ M \in [Elems -> Docs \cup {None}] /\ h.pool = P /\ h.parent = U /\ h.kids = K
        /\ h.namebp = N /\ h.map = M
    BY <2>1, HeapFields
  <2>4. /\ [M EXCEPT ![e] = d] \in [Elems -> Docs \cup {None}]
        /\ \A x \in Elems : [M EXCEPT ![e] = d][x] = IF x = e THEN d ELSE M[x]
    BY <2>3
  <2> QED
    BY <1>2, <2>2, <2>3, <2>4, HeapMade
<1> QED
  BY <1>1, <1>2

LEMMA TakenFields ==
  ASSUME NEW h \in HeapRec, NEW e \in Elems, NEW s, s = Taken(h, e)
  PROVE  /\ s \in HeapRec /\ s.pool = h.pool /\ s.namebp = h.namebp /\ s.map = h.map
         /\ \A x \in Elems : s.parent[x] = IF x = e THEN None ELSE h.parent[x]
         /\ \A x \in Elems : /\ x = h.parent[e] => s.kids[x] = h.kids[x] \ {e}
                             /\ x # h.parent[e] => s.kids[x] = h.kids[x]
<1>1. CASE h.parent[e] = None
  BY <1>1, DocLifecycleAssumption DEF Taken
<1>2. CASE h.parent[e] # None
  <2>1. PICK P, U, K, N, M : h = [pool |-> P, parent |-> U, kids |-> K, namebp |-> N, map |-> M]
    BY HeapFields
  <2>2. s = [pool |-> P, parent |-> [U EXCEPT ![e] = None],
             kids |-> [K EXCEPT ![U[e]] = @ \ {e}], namebp |-> N, map |-> M]
    BY <1>2, <2>1 DEF Taken
  <2>3. /\ P \in [Elems -> Docs \cup {None}] /\ U \in [Elems -> Elems \cup {None}]
        /\ K \in [Elems -> SUBSET Elems] /\ N \in [Elems -> Docs \cup {None}]
        /\ M \in [Elems -> Docs \cup {None}] /\ h.pool = P /\ h.parent = U /\ h.kids = K
        /\ h.namebp = N /\ h.map = M
    BY <2>1, HeapFields
  <2>4. /\ [U EXCEPT ![e] = None] \in [Elems -> Elems \cup {None}]
        /\ \A x \in Elems : [U EXCEPT ![e] = None][x] = IF x = e THEN None ELSE U[x]
    BY <2>3
  <2>5. U[e] \in Elems
    BY <1>2, <2>3
  <2>6. /\ [K EXCEPT ![U[e]] = @ \ {e}] \in [Elems -> SUBSET Elems]
        /\ \A x \in Elems : [K EXCEPT ![U[e]] = @ \ {e}][x] = IF x = U[e] THEN K[x] \ {e} ELSE K[x]
    BY <2>3, <2>5
  <2>7. s \in HeapRec /\ s.pool = P /\ s.parent = [U EXCEPT ![e] = None]
        /\ s.kids = [K EXCEPT ![U[e]] = @ \ {e}] /\ s.namebp = N /\ s.map = M
    <3>1. PICK V, L : V = [U EXCEPT ![e] = None] /\ L = [K EXCEPT ![U[e]] = @ \ {e}]
      OBVIOUS
    <3>2. V \in [Elems -> Elems \cup {None}] /\ L \in [Elems -> SUBSET Elems]
      BY <2>4, <2>6, <3>1
    <3>3. s = [pool |-> P, parent |-> V, kids |-> L, namebp |-> N, map |-> M]
      BY <2>2, <3>1
    <3>4. s \in HeapRec /\ s.pool = P /\ s.parent = V /\ s.kids = L /\ s.namebp = N /\ s.map = M
      BY <2>3, <3>2, <3>3, HeapMade
    <3> QED
      BY <3>1, <3>4
  <2> QED
    BY <2>3, <2>4, <2>6, <2>7
<1> QED
  BY <1>1, <1>2

(* In s, e hangs below p; the other edges are those of h.                    *)
Hung(h, p, e, s) == \A x \in Elems :
  /\ s.parent[x] = IF x = e THEN p ELSE h.parent[x]
  /\ s.kids[x] = IF x = p THEN h.kids[x] \cup {e} ELSE h.kids[x]

LEMMA AttachedFields ==
  ASSUME NEW h \in HeapRec, NEW p \in Elems, NEW e \in Elems, NEW s, s = Attached(h, p, e)
  PROVE  /\ s \in HeapRec /\ s.pool = h.pool /\ s.namebp = h.namebp /\ s.map = h.map
         /\ Hung(h, p, e, s)
<1>1. PICK P, U, K, N, M : h = [pool |-> P, parent |-> U, kids |-> K, namebp |-> N, map |-> M]
  BY HeapFields
<1>2. s = [pool |-> P, parent |-> [U EXCEPT ![e] = p],
           kids |-> [K EXCEPT ![p] = @ \cup {e}], namebp |-> N, map |-> M]
  BY <1>1 DEF Attached
<1>3. /\ P \in [Elems -> Docs \cup {None}] /\ U \in [Elems -> Elems \cup {None}]
      /\ K \in [Elems -> SUBSET Elems] /\ N \in [Elems -> Docs \cup {None}]
      /\ M \in [Elems -> Docs \cup {None}] /\ h.pool = P /\ h.parent = U /\ h.kids = K
      /\ h.namebp = N /\ h.map = M
  BY <1>1, HeapFields
<1>4. /\ [U EXCEPT ![e] = p] \in [Elems -> Elems \cup {None}]
      /\ \A x \in Elems : [U EXCEPT ![e] = p][x] = IF x = e THEN p ELSE U[x]
  BY <1>3
<1>5. /\ [K EXCEPT ![p] = @ \cup {e}] \in [Elems -> SUBSET Elems]
      /\ \A x \in Elems : [K EXCEPT ![p] = @ \cup {e}][x] = IF x = p THEN K[x] \cup {e} ELSE K[x]
  BY <1>3
<1>6. s \in HeapRec /\ s.pool = P /\ s.parent = [U EXCEPT ![e] = p]
      /\ s.kids = [K EXCEPT ![p] = @ \cup {e}] /\ s.namebp = N /\ s.map = M
  BY <1>2, <1>3, <1>4, <1>5, HeapMade
<1>7. Hung(h, p, e, s)
  BY <1>3, <1>4, <1>5, <1>6 DEF Hung
<1> QED
  BY <1>3, <1>6, <1>7

LEMMA MadeFields ==
  ASSUME NEW h \in HeapRec, NEW e \in Elems, NEW d \in Docs, NEW b \in Docs \cup {None},
         NEW s, s = Made(h, e, d, b)
  PROVE  /\ s \in HeapRec /\ s.parent = h.parent /\ s.kids = h.kids /\ s.map = h.map
         /\ \A x \in Elems : s.pool[x] = IF x = e THEN d ELSE h.pool[x]
         /\ \A x \in Elems : s.namebp[x] = IF x = e THEN b ELSE h.namebp[x]
<1>1. PICK P, U, K, N, M : h = [pool |-> P, parent |-> U, kids |-> K, namebp |-> N, map |-> M]
  BY HeapFields
<1>2. s = [pool |-> [P EXCEPT ![e] = d], parent |-> U, kids |-> K,
           namebp |-> [N EXCEPT ![e] = b], map |-> M]
  BY <1>1 DEF Made
<1>3. /\ P \in [Elems -> Docs \cup {None}] /\ U \in [Elems -> Elems \cup {None}]
      /\ K \in [Elems -> SUBSET Elems] /\ N \in [Elems -> Docs \cup {None}]
      /\ M \in [Elems -> Docs \cup {None}] /\ h.pool = P /\ h.parent = U /\ h.kids = K
      /\ h.namebp = N /\ h.map = M
  BY <1>1, HeapFields
<1>4. /\ [P EXCEPT ![e] = d] \in [Elems -> Docs \cup {None}]
      /\ \A x \in Elems : [P EXCEPT ![e] = d][x] = IF x = e THEN d ELSE P[x]
  BY <1>3
<1>5. /\ [N EXCEPT ![e] = b] \in [Elems -> Docs \cup {None}]
      /\ \A x \in Elems : [N EXCEPT ![e] = b][x] = IF x = e THEN b ELSE N[x]
  BY <1>3
<1>6. s \in HeapRec /\ s.pool = [P EXCEPT ![e] = d] /\ s.parent = U /\ s.kids = K
      /\ s.namebp = [N EXCEPT ![e] = b] /\ s.map = M
  BY <1>2, <1>3, <1>4, <1>5, HeapMade
<1> QED
  BY <1>3, <1>4, <1>5, <1>6

LEMMA FreedFields ==
  ASSUME NEW h \in HeapRec, NEW G, NEW s, s = Freed(h, G)
  PROVE  /\ s \in HeapRec
         /\ \A x \in Elems : /\ h.pool[x] \in G => /\ s.pool[x] = None /\ s.parent[x] = None
                                                 /\ s.kids[x] = {} /\ s.namebp[x] = None
                             /\ h.pool[x] \notin G => /\ s.pool[x] = h.pool[x] /\ s.parent[x] = h.parent[x]
                                                    /\ s.kids[x] = h.kids[x] /\ s.namebp[x] = h.namebp[x]
                             /\ h.map[x] \in G => s.map[x] = None
                             /\ h.map[x] \notin G => s.map[x] = h.map[x]
<1> DEFINE P == [e \in Elems |-> IF h.pool[e] \in G THEN None ELSE h.pool[e]]
           U == [e \in Elems |-> IF h.pool[e] \in G THEN None ELSE h.parent[e]]
           K == [e \in Elems |-> IF h.pool[e] \in G THEN {} ELSE h.kids[e]]
           N == [e \in Elems |-> IF h.pool[e] \in G THEN None ELSE h.namebp[e]]
           M == [e \in Elems |-> IF h.map[e] \in G THEN None ELSE h.map[e]]
<1>1. s = [pool |-> P, parent |-> U, kids |-> K, namebp |-> N, map |-> M]
  BY DEF Freed
<1>2. /\ P \in [Elems -> Docs \cup {None}] /\ U \in [Elems -> Elems \cup {None}]
      /\ K \in [Elems -> SUBSET Elems] /\ N \in [Elems -> Docs \cup {None}]
      /\ M \in [Elems -> Docs \cup {None}]
  BY HeapFields
<1>3. s \in HeapRec /\ s.pool = P /\ s.parent = U /\ s.kids = K /\ s.namebp = N /\ s.map = M
  <2> HIDE DEF P, U, K, N, M
  <2> QED
    BY <1>1, <1>2, HeapMade
<1>4. \A x \in Elems : /\ h.pool[x] \in G => /\ P[x] = None /\ U[x] = None
                                           /\ K[x] = {} /\ N[x] = None
                       /\ h.pool[x] \notin G => /\ P[x] = h.pool[x] /\ U[x] = h.parent[x]
                                              /\ K[x] = h.kids[x] /\ N[x] = h.namebp[x]
                       /\ h.map[x] \in G => M[x] = None
                       /\ h.map[x] \notin G => M[x] = h.map[x]
  OBVIOUS
<1> HIDE DEF P, U, K, N, M
<1>5. \A x \in Elems : /\ s.pool[x] = P[x] /\ s.parent[x] = U[x] /\ s.kids[x] = K[x]
                       /\ s.namebp[x] = N[x] /\ s.map[x] = M[x]
  BY <1>3
<1>6. \A x \in Elems : /\ h.pool[x] \in G => /\ s.pool[x] = None /\ s.parent[x] = None
                                           /\ s.kids[x] = {} /\ s.namebp[x] = None
                       /\ h.pool[x] \notin G => /\ s.pool[x] = h.pool[x] /\ s.parent[x] = h.parent[x]
                                              /\ s.kids[x] = h.kids[x] /\ s.namebp[x] = h.namebp[x]
                       /\ h.map[x] \in G => s.map[x] = None
                       /\ h.map[x] \notin G => s.map[x] = h.map[x]
  BY <1>4, <1>5
<1> QED
  BY <1>3, <1>6

(* What holds of e and of the parent of every node it holds of holds of the  *)
(* top of e's tree.                                                          *)
Ups(w, h, e, n) == w = [k \in 0 .. n |->
  IF k = 0 THEN e
  ELSE IF h.parent[w[k - 1]] = None THEN w[k - 1] ELSE h.parent[w[k - 1]]]

LEMMA UpsNext ==
  ASSUME NEW h, NEW e, NEW n \in Nat, NEW f, Ups(f, h, e, n)
  PROVE  \E g : Ups(g, h, e, n + 1)
<1> DEFINE step(k) == IF k = 0 THEN e
                      ELSE IF h.parent[f[k - 1]] = None THEN f[k - 1] ELSE h.parent[f[k - 1]]
           g == [k \in 0 .. n + 1 |-> step(k)]
<1>1. f = [k \in 0 .. n |-> step(k)]
  BY DEF Ups
<1>2. \A k \in 0 .. n : g[k] = f[k]
  <2> HIDE DEF step
  <2> QED
    BY <1>1
<1>3. \A k \in 0 .. n + 1 : k # 0 => k - 1 \in 0 .. n
  OBVIOUS
<1>4. \A k \in 0 .. n + 1 : step(k) =
         IF k = 0 THEN e
         ELSE IF h.parent[g[k - 1]] = None THEN g[k - 1] ELSE h.parent[g[k - 1]]
  <2> HIDE DEF g
  <2> QED
    BY <1>2, <1>3
<1>5. g = [k \in 0 .. n + 1 |->
            IF k = 0 THEN e
            ELSE IF h.parent[g[k - 1]] = None THEN g[k - 1] ELSE h.parent[g[k - 1]]]
  BY <1>4
<1> HIDE DEF g
<1> QED
  BY <1>5 DEF Ups

LEMMA TopWithin ==
  ASSUME NEW h, NEW e, NEW T, e \in T, \A n \in T : h.parent[n] # None => h.parent[n] \in T
  PROVE  Top(h, e) \in T
<1>0. PICK N \in Nat : N = Cardinality(Elems)
  BY FS_CardinalityType, DocLifecycleAssumption
<1> DEFINE D == {n \in Nat : \E f : Ups(f, h, e, n)}
<1>1. 0 \in D
  <2>1. PICK f : f = [k \in 0 .. 0 |-> e]
    OBVIOUS
  <2>2. f = [k \in 0 .. 0 |-> IF k = 0 THEN e
               ELSE IF h.parent[f[k - 1]] = None THEN f[k - 1] ELSE h.parent[f[k - 1]]]
    <3>1. \A k \in 0 .. 0 : k = 0
      OBVIOUS
    <3> QED
      BY <2>1, <3>1, Zenon
  <2> QED
    BY <2>2 DEF Ups
<1>2. \A n \in 0 .. N - 1 : n \in D => n + 1 \in D
  BY <1>0, UpsNext
<1>3. N \in D
  <2> HIDE DEF D
  <2> QED
    BY <1>0, <1>1, <1>2, UpTo, N \in 0 .. N
<1> DEFINE w == CHOOSE f : Ups(f, h, e, N)
<1>4. Ups(w, h, e, N)
  BY <1>3
<1>5. Top(h, e) = w[N]
  BY <1>0 DEF Top, Ups
<1>6. \A n \in 0 .. N : w[n] = IF n = 0 THEN e ELSE
          IF h.parent[w[n - 1]] = None THEN w[n - 1] ELSE h.parent[w[n - 1]]
  <2> HIDE DEF w
  <2>1. PICK f : f = w /\ Ups(f, h, e, N)
    BY <1>4
  <2>2. \A n \in 0 .. N : f[n] = IF n = 0 THEN e ELSE
            IF h.parent[f[n - 1]] = None THEN f[n - 1] ELSE h.parent[f[n - 1]]
    BY <2>1 DEF Ups
  <2> QED
    BY <2>1, <2>2
<1> HIDE DEF w
<1> DEFINE In == {n \in Nat : w[n] \in T}
<1>7. 0 \in In
  BY <1>0, <1>6, 0 \in 0 .. N
<1>8. ASSUME NEW n \in 0 .. N - 1, n \in In PROVE n + 1 \in In
  <2>1. n + 1 \in 0 .. N /\ (n + 1) - 1 = n /\ n + 1 # 0
    BY <1>0
  <2>2. w[n + 1] = IF h.parent[w[n]] = None THEN w[n] ELSE h.parent[w[n]]
    BY <1>6, <2>1
  <2> QED
    BY <1>8, <2>2
<1>9. N \in In
  <2> HIDE DEF In
  <2> QED
    BY <1>0, <1>7, <1>8, UpTo, N \in 0 .. N
<1> QED
  BY <1>5, <1>9

LEMMA TopTypes ==
  ASSUME NEW h \in HeapRec, NEW e \in Elems
  PROVE  Top(h, e) \in Elems /\ DocOf(h, e) \in Docs \cup {None}
<1>1. \A n \in Elems : h.parent[n] # None => h.parent[n] \in Elems
  BY HeapFields
<1>2. Top(h, e) \in Elems
  BY <1>1, TopWithin
<1> QED
  BY <1>2, HeapFields DEF DocOf

LEMMA UnlinkedFields ==
  ASSUME NEW h \in HeapRec, NEW e \in Elems, NEW s, s = Unlinked(h, e)
  PROVE  /\ s \in HeapRec /\ s.pool = h.pool /\ s.namebp = h.namebp
         /\ \A x \in Elems : s.parent[x] = IF x = e THEN None ELSE h.parent[x]
         /\ \A x \in Elems : /\ x = h.parent[e] => s.kids[x] = h.kids[x] \ {e}
                             /\ x # h.parent[e] => s.kids[x] = h.kids[x]
         /\ \A x \in Elems : s.map[x] = h.map[x] \/ (x = e /\ s.map[x] = DocOf(h, e))
<1>1. CASE h.parent[e] = None
  <2>1. s = h
    BY <1>1 DEF Unlinked
  <2> QED
    BY <1>1, <2>1, DocLifecycleAssumption
<1>2. CASE h.parent[e] # None /\ h.namebp[e] # None
  <2>1. s = Taken(h, e)
    BY <1>2 DEF Unlinked
  <2>2. /\ s \in HeapRec /\ s.pool = h.pool /\ s.namebp = h.namebp /\ s.map = h.map
        /\ \A x \in Elems : s.parent[x] = IF x = e THEN None ELSE h.parent[x]
        /\ \A x \in Elems : /\ x = h.parent[e] => s.kids[x] = h.kids[x] \ {e}
                            /\ x # h.parent[e] => s.kids[x] = h.kids[x]
    BY <2>1, TakenFields
  <2> QED
    BY <2>2
<1>3. CASE h.parent[e] # None /\ h.namebp[e] = None
  <2>1. PICK t : t = Taken(h, e)
    OBVIOUS
  <2>2. s = Registered(t, e, DocOf(h, e))
    BY <1>3, <2>1 DEF Unlinked
  <2>3. DocOf(h, e) \in Docs \cup {None}
    BY TopTypes
  <2>4. /\ t \in HeapRec /\ t.pool = h.pool /\ t.namebp = h.namebp /\ t.map = h.map
        /\ \A x \in Elems : t.parent[x] = IF x = e THEN None ELSE h.parent[x]
        /\ \A x \in Elems : /\ x = h.parent[e] => t.kids[x] = h.kids[x] \ {e}
                            /\ x # h.parent[e] => t.kids[x] = h.kids[x]
    BY <2>1, TakenFields
  <2>5. /\ s \in HeapRec /\ s.pool = t.pool /\ s.parent = t.parent /\ s.kids = t.kids
        /\ s.namebp = t.namebp
        /\ \A x \in Elems : s.map[x] = IF x = e /\ DocOf(h, e) # None THEN DocOf(h, e) ELSE t.map[x]
    BY <2>2, <2>3, <2>4, RegisteredFields
  <2> QED
    BY <2>4, <2>5
<1> QED
  BY <1>1, <1>2, <1>3

LEMMA SetNameFields ==
  ASSUME heap \in HeapRec, NEW e \in Elems, SetName(e), DocOf(heap, e) \in Docs \cup {None}
  PROVE  /\ heap' \in HeapRec /\ heap'.pool = heap.pool /\ heap'.parent = heap.parent
         /\ heap'.kids = heap.kids
         /\ \A x \in Elems : heap'.namebp[x] = IF x = e THEN None ELSE heap.namebp[x]
         /\ \A x \in Elems : heap'.map[x] = IF x = e /\ DocOf(heap, e) # None
                                            THEN DocOf(heap, e) ELSE heap.map[x]
<1>1. PICK s : s = [heap EXCEPT !.namebp[e] = None]
  OBVIOUS
<1>2. heap' = Registered(s, e, DocOf(heap, e))
  BY <1>1 DEF SetName
<1>3. PICK P, U, K, N, M :
        heap = [pool |-> P, parent |-> U, kids |-> K, namebp |-> N, map |-> M]
  BY HeapFields
<1>4. s = [pool |-> P, parent |-> U, kids |-> K, namebp |-> [N EXCEPT ![e] = None], map |-> M]
  BY <1>1, <1>3
<1>5. /\ P \in [Elems -> Docs \cup {None}] /\ U \in [Elems -> Elems \cup {None}]
      /\ K \in [Elems -> SUBSET Elems] /\ N \in [Elems -> Docs \cup {None}]
      /\ M \in [Elems -> Docs \cup {None}] /\ heap.pool = P /\ heap.parent = U
      /\ heap.kids = K /\ heap.namebp = N /\ heap.map = M
  BY <1>3, HeapFields
<1>6. PICK O : O = [N EXCEPT ![e] = None]
  OBVIOUS
<1>7. O \in [Elems -> Docs \cup {None}] /\ \A x \in Elems : O[x] = IF x = e THEN None ELSE N[x]
  BY <1>5, <1>6
<1>8. /\ s \in HeapRec /\ s.pool = P /\ s.parent = U /\ s.kids = K /\ s.namebp = O /\ s.map = M
  BY <1>4, <1>5, <1>6, <1>7, HeapMade
<1>9. /\ heap' \in HeapRec /\ heap'.pool = s.pool /\ heap'.parent = s.parent
      /\ heap'.kids = s.kids /\ heap'.namebp = s.namebp
      /\ \A x \in Elems : heap'.map[x] = IF x = e /\ DocOf(heap, e) # None
                                         THEN DocOf(heap, e) ELSE s.map[x]
  BY <1>2, <1>8, RegisteredFields
<1> QED
  BY <1>5, <1>7, <1>8, <1>9

LEMMA SweptFields ==
  ASSUME NEW h \in HeapRec, NEW r, NEW s,
         s = [h EXCEPT !.map = [e \in Elems |-> IF e = r THEN None ELSE @[e]]]
  PROVE  /\ s \in HeapRec /\ s.pool = h.pool /\ s.parent = h.parent /\ s.kids = h.kids
         /\ s.namebp = h.namebp
         /\ \A x \in Elems : s.map[x] = None \/ s.map[x] = h.map[x]
<1>1. PICK P, U, K, N, M : h = [pool |-> P, parent |-> U, kids |-> K, namebp |-> N, map |-> M]
  BY HeapFields
<1>2. PICK O : O = [e \in Elems |-> IF e = r THEN None ELSE M[e]]
  OBVIOUS
<1>3. s = [pool |-> P, parent |-> U, kids |-> K, namebp |-> N, map |-> O]
  BY <1>1, <1>2
<1>4. /\ P \in [Elems -> Docs \cup {None}] /\ U \in [Elems -> Elems \cup {None}]
      /\ K \in [Elems -> SUBSET Elems] /\ N \in [Elems -> Docs \cup {None}]
      /\ M \in [Elems -> Docs \cup {None}] /\ h.pool = P /\ h.parent = U /\ h.kids = K
      /\ h.namebp = N /\ h.map = M
  BY <1>1, HeapFields
<1>5. O \in [Elems -> Docs \cup {None}] /\ \A x \in Elems : O[x] = None \/ O[x] = M[x]
  BY <1>2, <1>4
<1>6. /\ P \in [Elems -> Docs \cup {None}] /\ U \in [Elems -> Elems \cup {None}]
      /\ K \in [Elems -> SUBSET Elems] /\ N \in [Elems -> Docs \cup {None}]
      /\ O \in [Elems -> Docs \cup {None}]
  BY <1>4, <1>5
<1>7. s \in HeapRec /\ s.pool = P /\ s.parent = U /\ s.kids = K /\ s.namebp = N /\ s.map = O
  BY ONLY <1>3, <1>6 DEF HeapRec
<1>8. h.map = M
  BY <1>4
<1>9. \A x \in Elems : s.map[x] = None \/ s.map[x] = h.map[x]
  BY <1>5, <1>7, <1>8
<1> QED
  BY <1>4, <1>7, <1>9

LEMMA SubtreeFacts ==
  ASSUME NEW h \in HeapRec, NEW e \in Elems
  PROVE  /\ e \in Subtree(h, e) /\ Subtree(h, e) \subseteq Elems
         /\ \A x \in Subtree(h, e) : h.kids[x] \subseteq Subtree(h, e)
         /\ \A x \in Subtree(h, e) : x = e \/ \E y \in Subtree(h, e) : x \in h.kids[y]
<1>1. PICK K \in [Elems -> SUBSET Elems] : K = h.kids /\ Subtree(h, e) = Reached(e, K)
  BY HeapFields DEF Subtree
<1>2. /\ e \in Reached(e, K) /\ Reached(e, K) \subseteq Elems
      /\ \A x \in Reached(e, K) : K[x] \subseteq Reached(e, K)
  BY ReachedSet, DocLifecycleAssumption
<1>3. \A x \in Reached(e, K) : x = e \/ \E y \in Reached(e, K) : x \in K[y]
  BY ReachedFrom, DocLifecycleAssumption
<1> QED
  BY <1>1, <1>2, <1>3

LEMMA SubtreeLeast ==
  ASSUME NEW h \in HeapRec, NEW e \in Elems, NEW T, e \in T, \A n \in T : h.kids[n] \subseteq T
  PROVE  Subtree(h, e) \subseteq T
<1>1. PICK K \in [Elems -> SUBSET Elems] : K = h.kids /\ Subtree(h, e) = Reached(e, K)
  BY HeapFields DEF Subtree
<1> QED
  BY <1>1, ReachedLeast, DocLifecycleAssumption

(* A copy: its nodes New were free, and g takes each to the node it copies.  *)
IsCopy(h, e, f, d, s, g, New) ==
  /\ New = {f[a] : a \in Subtree(h, e)} /\ New \subseteq Free(h) /\ f[e] \in New
  /\ \A n \in New : g[n] \in Subtree(h, e) /\ f[g[n]] = n
  /\ \A a \in Subtree(h, e) : g[f[a]] = a
  /\ s \in HeapRec /\ s.namebp = h.namebp
  /\ \A x \in Elems :
       /\ s.pool[x] = IF x \in New THEN d ELSE h.pool[x]
       /\ s.map[x] = IF x = f[e] THEN d ELSE h.map[x]
       /\ x \notin New => s.parent[x] = h.parent[x] /\ s.kids[x] = h.kids[x]
       /\ x \in New => /\ s.kids[x] = {f[a] : a \in h.kids[g[x]]}
                       /\ x = f[e] => s.parent[x] = None
                       /\ x # f[e] => \E p \in Subtree(h, e) :
                                        g[x] \in h.kids[p] /\ s.parent[x] = f[p]

LEMMA CopiedFields ==
  ASSUME NEW h \in HeapRec, NEW e \in Elems, NEW f \in Copies(h, e), NEW d \in Docs, NEW s,
         s = Copied(h, e, f, d)
  PROVE  \E g, New : IsCopy(h, e, f, d, s, g, New)
<1> DEFINE S == Subtree(h, e)
           old(n) == CHOOSE a \in S : f[a] = n
           from(n) == CHOOSE p \in S : old(n) \in h.kids[p]
           New == {f[a] : a \in S}
           g == [n \in New |-> old(n)]
           P == [n \in Elems |-> IF n \in New THEN d ELSE h.pool[n]]
           U == [n \in Elems |-> IF n \notin New THEN h.parent[n]
                                 ELSE IF old(n) = e THEN None ELSE f[from(n)]]
           K == [n \in Elems |-> IF n \notin New THEN h.kids[n] ELSE {f[a] : a \in h.kids[old(n)]}]
           M == [h.map EXCEPT ![f[e]] = d]
<1>1. /\ e \in S /\ S \subseteq Elems /\ \A x \in S : h.kids[x] \subseteq S
      /\ \A x \in S : x = e \/ \E y \in S : x \in h.kids[y]
  BY SubtreeFacts
<1>2. /\ f \in [S -> Free(h)] /\ \A a, b \in S : a # b => f[a] # f[b]
      /\ Free(h) \subseteq Elems
  BY DEF Copies, Free
<1>3. s = [pool |-> P, parent |-> U, kids |-> K, namebp |-> h.namebp, map |-> M]
  BY DEF Copied
<1> HIDE DEF S
<1>4. New \subseteq Free(h) /\ f[e] \in New
  BY <1>1, <1>2
<1>5. \A n \in New : old(n) \in S /\ f[old(n)] = n
  OBVIOUS
<1>6. \A a \in S : f[a] \in New /\ old(f[a]) = a
  BY <1>2, <1>5
<1>7. \A n \in New : n # f[e] => from(n) \in S /\ old(n) \in h.kids[from(n)] /\ old(n) # e
  <2> SUFFICES ASSUME NEW n \in New, n # f[e]
      PROVE  from(n) \in S /\ old(n) \in h.kids[from(n)] /\ old(n) # e
    OBVIOUS
  <2>1. old(n) \in S /\ old(n) # e
    BY <1>5
  <2> HIDE DEF old
  <2>2. \E p \in S : old(n) \in h.kids[p]
    BY <1>1, <2>1
  <2> QED
    BY <2>1, <2>2
<1>8. old(f[e]) = e
  BY <1>1, <1>6
<1> HIDE DEF old, from
<1>9. /\ P \in [Elems -> Docs \cup {None}] /\ M \in [Elems -> Docs \cup {None}]
      /\ h.namebp \in [Elems -> Docs \cup {None}]
  BY HeapFields
<1>10. U \in [Elems -> Elems \cup {None}]
  <2>1. \A n \in Elems : n \in New /\ old(n) # e => f[from(n)] \in Elems
    BY <1>2, <1>7, <1>8
  <2> HIDE DEF New
  <2> QED
    BY <2>1, HeapFields
<1>11. K \in [Elems -> SUBSET Elems]
  <2>1. \A n \in New : {f[a] : a \in h.kids[old(n)]} \subseteq Elems
    BY <1>1, <1>2, <1>5
  <2> HIDE DEF New
  <2> QED
    BY <2>1, HeapFields
<1>12. /\ s \in HeapRec /\ s.pool = P /\ s.parent = U /\ s.kids = K
       /\ s.namebp = h.namebp /\ s.map = M
  <2> HIDE DEF P, U, K, M
  <2> QED
    BY <1>3, <1>9, <1>10, <1>11, HeapMade
<1>13. \A x \in Elems :
         /\ P[x] = IF x \in New THEN d ELSE h.pool[x]
         /\ M[x] = IF x = f[e] THEN d ELSE h.map[x]
         /\ x \notin New => U[x] = h.parent[x] /\ K[x] = h.kids[x]
         /\ x \in New => K[x] = {f[a] : a \in h.kids[old(x)]}
         /\ x \in New /\ x # f[e] => U[x] = f[from(x)]
         /\ x \in New /\ x = f[e] => U[x] = None
  <2> HIDE DEF New
  <2>1. M \in [Elems -> Docs \cup {None}] /\ \A x \in Elems : M[x] = IF x = f[e] THEN d ELSE h.map[x]
    BY <1>1, <1>2, HeapFields
  <2>2. \A x \in Elems : x \in New /\ x # f[e] => old(x) # e
    BY <1>7
  <2> QED
    BY <1>8, <2>1, <2>2
<1>14. \A n \in New : g[n] = old(n)
  OBVIOUS
<1> HIDE DEF P, U, K, M, g, New
<1> DEFINE CopyOf(n) == {f[a] : a \in h.kids[n]}
<1>15. \A x \in New : K[x] = CopyOf(g[x])
  BY <1>4, <1>2, <1>13, <1>14
<1> HIDE DEF CopyOf
<1>16. \A x \in Elems :
         /\ s.pool[x] = IF x \in New THEN d ELSE h.pool[x]
         /\ s.map[x] = IF x = f[e] THEN d ELSE h.map[x]
         /\ x \notin New => s.parent[x] = h.parent[x] /\ s.kids[x] = h.kids[x]
         /\ x \in New => /\ s.kids[x] = CopyOf(g[x])
                         /\ x = f[e] => s.parent[x] = None
                         /\ x # f[e] => \E p \in S : g[x] \in h.kids[p] /\ s.parent[x] = f[p]
  BY <1>7, <1>12, <1>13, <1>14, <1>15
<1>17. /\ \A n \in New : g[n] \in S /\ f[g[n]] = n
       /\ \A a \in S : g[f[a]] = a
  BY <1>5, <1>6, <1>14
<1>18. New = {f[a] : a \in Subtree(h, e)} /\ S = Subtree(h, e)
  BY DEF S, New
<1>19. \A x \in Elems :
         /\ s.pool[x] = IF x \in New THEN d ELSE h.pool[x]
         /\ s.map[x] = IF x = f[e] THEN d ELSE h.map[x]
         /\ x \notin New => s.parent[x] = h.parent[x] /\ s.kids[x] = h.kids[x]
         /\ x \in New => /\ s.kids[x] = {f[a] : a \in h.kids[g[x]]}
                         /\ x = f[e] => s.parent[x] = None
                         /\ x # f[e] => \E p \in Subtree(h, e) :
                                          g[x] \in h.kids[p] /\ s.parent[x] = f[p]
  BY <1>16, <1>18, Zenon DEF CopyOf
<1>20. IsCopy(h, e, f, d, s, g, New)
  <2>1. \A a \in Subtree(h, e) : g[f[a]] = a
    BY <1>17, <1>18
  <2>2. \A n \in New : g[n] \in Subtree(h, e) /\ f[g[n]] = n
    BY <1>17, <1>18
  <2> QED
    BY <1>4, <1>12, <1>18, <1>19, <2>1, <2>2, Zenon DEF IsCopy
<1> QED
  BY <1>20

-------------------------------------------------------------------------------
(* Nodes live in documents of L, stamps name the node's own document and     *)
(* entries of the map documents of L.                                        *)
NodeOK(h, L, e) ==
  /\ h.pool[e] # None => h.pool[e] \in L
  /\ h.namebp[e] # None => h.namebp[e] = h.pool[e]
  /\ h.map[e] # None => h.map[e] \in L
HeapOK(h, L) == h \in HeapRec /\ \A e \in Elems : NodeOK(h, L, e)

LEMMA DocOfLive ==
  ASSUME NEW L, NEW h, HeapOK(h, L), NEW e \in Elems
  PROVE  DocOf(h, e) \in L \cup {None}
<1>1. PICK t \in Elems : t = Top(h, e)
  BY TopTypes DEF HeapOK
<1>2. NodeOK(h, L, t)
  BY DEF HeapOK
<1> QED
  BY <1>1, <1>2 DEF NodeOK, DocOf

LEMMA WiderOK ==
  ASSUME NEW L, NEW M, L \subseteq M, NEW h, HeapOK(h, L)
  PROVE  HeapOK(h, M)
BY DEF HeapOK, NodeOK

LEMMA RegisteredOK ==
  ASSUME NEW L \in SUBSET Docs, NEW h, HeapOK(h, L), NEW e \in Elems, NEW d \in L \cup {None},
         NEW s, s = Registered(h, e, d)
  PROVE  HeapOK(s, L)
<1>1. /\ s \in HeapRec /\ s.pool = h.pool /\ s.namebp = h.namebp
      /\ \A x \in Elems : s.map[x] = IF x = e /\ d # None THEN d ELSE h.map[x]
  BY RegisteredFields DEF HeapOK
<1> QED
  BY <1>1 DEF HeapOK, NodeOK

LEMMA TakenOK ==
  ASSUME NEW L, NEW h, HeapOK(h, L), NEW e \in Elems, NEW s, s = Taken(h, e)
  PROVE  HeapOK(s, L)
<1>1. s \in HeapRec /\ s.pool = h.pool /\ s.namebp = h.namebp /\ s.map = h.map
  BY TakenFields DEF HeapOK
<1> QED
  BY <1>1 DEF HeapOK, NodeOK

LEMMA AttachedOK ==
  ASSUME NEW L, NEW h, HeapOK(h, L), NEW p \in Elems, NEW e \in Elems,
         NEW s, s = Attached(h, p, e)
  PROVE  HeapOK(s, L)
<1>1. s \in HeapRec /\ s.pool = h.pool /\ s.namebp = h.namebp /\ s.map = h.map
  BY AttachedFields DEF HeapOK
<1> QED
  BY <1>1 DEF HeapOK, NodeOK

LEMMA UnlinkedOK ==
  ASSUME NEW L \in SUBSET Docs, NEW h, HeapOK(h, L), NEW e \in Elems, NEW s, s = Unlinked(h, e)
  PROVE  HeapOK(s, L)
<1>1. /\ s \in HeapRec /\ s.pool = h.pool /\ s.namebp = h.namebp
      /\ \A x \in Elems : s.map[x] = h.map[x] \/ (x = e /\ s.map[x] = DocOf(h, e))
  BY UnlinkedFields DEF HeapOK
<1> QED
  BY <1>1, DocOfLive DEF HeapOK, NodeOK

LEMMA MadeOK ==
  ASSUME NEW L \in SUBSET Docs, NEW h, HeapOK(h, L), NEW e \in Elems, NEW d \in L,
         NEW b \in {None, d}, NEW s, s = Made(h, e, d, b)
  PROVE  HeapOK(s, L)
<1>1. /\ s \in HeapRec /\ s.map = h.map
      /\ \A x \in Elems : s.pool[x] = IF x = e THEN d ELSE h.pool[x]
      /\ \A x \in Elems : s.namebp[x] = IF x = e THEN b ELSE h.namebp[x]
  BY MadeFields DEF HeapOK
<1> QED
  BY <1>1 DEF HeapOK, NodeOK

LEMMA CopiedOK ==
  ASSUME NEW L \in SUBSET Docs, NEW h, HeapOK(h, L), NEW e \in Elems, NEW f \in Copies(h, e),
         NEW d \in L, NEW s, s = Copied(h, e, f, d)
  PROVE  HeapOK(s, L) /\ f[e] \in Elems /\ h.pool[f[e]] = None
<1>1. PICK g, New : IsCopy(h, e, f, d, s, g, New)
  BY CopiedFields DEF HeapOK
<1>2. /\ s \in HeapRec /\ s.namebp = h.namebp /\ New \subseteq Free(h) /\ f[e] \in New
      /\ \A x \in Elems : /\ s.pool[x] = IF x \in New THEN d ELSE h.pool[x]
                          /\ s.map[x] = IF x = f[e] THEN d ELSE h.map[x]
  BY <1>1 DEF IsCopy
<1>3. \A x \in New : x \in Elems /\ h.pool[x] = None
  BY <1>2 DEF Free
<1>4. None \notin Docs
  BY DocLifecycleAssumption
<1> QED
  BY <1>2, <1>3, <1>4 DEF HeapOK, NodeOK

LEMMA FreedOK ==
  ASSUME NEW L, NEW h, HeapOK(h, L), NEW G, NEW s, s = Freed(h, G)
  PROVE  HeapOK(s, L \ G)
<1>1. s \in HeapRec
  BY FreedFields DEF HeapOK
<1>2. ASSUME NEW x \in Elems PROVE NodeOK(s, L \ G, x)
  <2>1. /\ h.pool[x] \in G => s.pool[x] = None /\ s.namebp[x] = None
        /\ h.pool[x] \notin G => s.pool[x] = h.pool[x] /\ s.namebp[x] = h.namebp[x]
        /\ h.map[x] \in G => s.map[x] = None
        /\ h.map[x] \notin G => s.map[x] = h.map[x]
    BY FreedFields DEF HeapOK
  <2> QED
    BY <2>1 DEF HeapOK, NodeOK
<1> QED
  BY <1>1, <1>2 DEF HeapOK

(* The invariant: every step keeps it.                                       *)
LifeInv == OwnOK /\ HeapOK(heap, live)

LEMMA LifeTypes ==
  ASSUME LifeInv
  PROVE  /\ heap \in HeapRec /\ heap.kids \in [Elems -> SUBSET Elems] /\ live \in SUBSET Docs
         /\ held \subseteq live /\ doc \in [Docs -> DocRec] /\ None \notin Docs \cup Elems
         /\ \A e \in Elems : DocOf(heap, e) \in live \cup {None} /\ Free(heap) \subseteq Elems
BY HeapFields, OwnTypes, DocOfLive DEF LifeInv, HeapOK, OwnOK, DocType, Free

LEMMA LifeInit == Init => LifeInv
<1> SUFFICES ASSUME Init PROVE LifeInv
  OBVIOUS
<1>1. OwnOK
  BY OwnInit
<1>2. heap \in HeapRec
  BY DEF Init, HeapRec
<1>3. \A e \in Elems : heap.pool[e] = None /\ heap.namebp[e] = None /\ heap.map[e] = None
  BY DEF Init
<1> QED
  BY <1>1, <1>2, <1>3 DEF Init, LifeInv, HeapOK, NodeOK

LEMMA LifeParse ==
  ASSUME LifeInv, NEW d \in Docs, NEW r \in Elems, NEW k \in Elems \cup {None}, Parse(d, r, k)
  PROVE  LifeInv'
<1>1. /\ live' = live \cup {d} /\ live' \in SUBSET Docs /\ d \in live'
      /\ HeapOK(heap, live')
  BY LifeTypes, WiderOK DEF Parse, LifeInv
<1>2. PICK m, s : m = Made(heap, r, d, None) /\ s = Registered(m, r, d)
  OBVIOUS
<1>3. HeapOK(s, live')
  <2>1. HeapOK(m, live')
    BY <1>1, <1>2, MadeOK
  <2> QED
    BY <1>1, <1>2, <2>1, RegisteredOK
<1>4. HeapOK(heap', live')
  <2>1. CASE k = None
    BY <1>2, <1>3, <2>1 DEF Parse
  <2>2. CASE k # None
    <3>1. PICK q : q = Made(s, k, d, None)
      OBVIOUS
    <3>2. heap' = Attached(q, r, k)
      BY <1>2, <2>2, <3>1 DEF Parse
    <3>3. HeapOK(q, live')
      BY <1>1, <1>3, <2>2, <3>1, MadeOK
    <3> QED
      BY <2>2, <3>2, <3>3, AttachedOK
  <2> QED
    BY <2>1, <2>2
<1> QED
  BY <1>1, <1>4, OwnParse DEF LifeInv

LEMMA LifeCreate ==
  ASSUME LifeInv, NEW d \in Docs, NEW e \in Elems, CreateElement(d, e)
  PROVE  LifeInv'
<1>1. /\ heap' = Made(heap, e, d, d) /\ d \in live
      /\ live' = live /\ held' = held /\ doc' = doc
  BY LifeTypes DEF CreateElement, UsableDoc
<1>2. HeapOK(heap', live)
  BY <1>1, LifeTypes, MadeOK DEF LifeInv
<1>3. OwnOK'
  BY <1>1, OwnKept DEF LifeInv, OwnOK, DocType
<1> QED
  BY <1>1, <1>2, <1>3 DEF LifeInv

LEMMA LifeSetName ==
  ASSUME LifeInv, NEW e \in Elems, SetName(e)
  PROVE  LifeInv'
<1>1. live' = live /\ held' = held /\ doc' = doc
  BY DEF SetName
<1>2. DocOf(heap, e) \in live \cup {None} /\ heap \in HeapRec /\ live \in SUBSET Docs
  BY LifeTypes
<1>3. /\ heap' \in HeapRec /\ heap'.pool = heap.pool
      /\ \A x \in Elems : heap'.namebp[x] = IF x = e THEN None ELSE heap.namebp[x]
      /\ \A x \in Elems : heap'.map[x] = IF x = e /\ DocOf(heap, e) # None
                                         THEN DocOf(heap, e) ELSE heap.map[x]
  BY <1>2, SetNameFields
<1>4. HeapOK(heap', live)
  BY <1>2, <1>3 DEF LifeInv, HeapOK, NodeOK
<1>5. OwnOK'
  BY <1>1, OwnKept DEF LifeInv, OwnOK, DocType
<1> QED
  BY <1>1, <1>4, <1>5 DEF LifeInv

LEMMA LifeAppend ==
  ASSUME LifeInv, NEW p \in Elems, NEW c \in Elems, AppendChild(p, c)
  PROVE  LifeInv'
<1>1. live' = live /\ held' = held /\ doc' = doc
  BY DEF AppendChild
<1>2. PICK t \in live \cup {None} : t = DocOf(heap, p)
  BY LifeTypes
<1>3. HeapOK(heap', live)
  <2>1. CASE heap' = Attached(Unlinked(heap, c), p, c)
    <3>1. PICK s : s = Unlinked(heap, c)
      OBVIOUS
    <3>2. HeapOK(s, live)
      BY <3>1, LifeTypes, UnlinkedOK DEF LifeInv
    <3> QED
      BY <2>1, <3>1, <3>2, AttachedOK
  <2>2. CASE /\ ~ MovesByReference(c, t)
             /\ \E f \in Copies(heap, c) : heap' = Attached(Copied(heap, c, f, t), p, f[c])
    <3>1. PICK f \in Copies(heap, c) : heap' = Attached(Copied(heap, c, f, t), p, f[c])
      BY <2>2
    <3>2. t \in live
      BY <2>2 DEF MovesByReference
    <3>3. PICK s : s = Copied(heap, c, f, t)
      OBVIOUS
    <3>4. HeapOK(s, live) /\ f[c] \in Elems
      BY <3>2, <3>3, LifeTypes, CopiedOK DEF LifeInv
    <3> QED
      BY <3>1, <3>3, <3>4, AttachedOK
  <2> QED
    BY <1>2, <2>1, <2>2 DEF AppendChild
<1>4. OwnOK'
  BY <1>1, OwnKept DEF LifeInv, OwnOK, DocType
<1> QED
  BY <1>1, <1>3, <1>4 DEF LifeInv

LEMMA LifeUnlink ==
  ASSUME LifeInv, NEW e \in Elems, NodeUnlink(e) \/ RemoveChild(e)
  PROVE  LifeInv'
<1>1. live' = live /\ held' = held /\ doc' = doc
  BY DEF NodeUnlink, RemoveChild
<1>2. heap' = Unlinked(heap, e) \/ heap' = Taken(heap, e)
  BY DEF NodeUnlink, RemoveChild
<1>3. HeapOK(heap', live)
  BY <1>2, LifeTypes, UnlinkedOK, TakenOK DEF LifeInv
<1>4. OwnOK'
  BY <1>1, OwnKept DEF LifeInv, OwnOK, DocType
<1> QED
  BY <1>1, <1>3, <1>4 DEF LifeInv

LEMMA LifeSetRoot ==
  ASSUME LifeInv, NEW d \in Docs, NEW e \in Elems, SetRoot(d, e)
  PROVE  LifeInv'
<1>1. live' = live /\ held' = held /\ d \in live
  BY LifeTypes DEF SetRoot, UsableDoc
<1>2. HeapOK(heap', live)
  <2>1. CASE heap' = Registered(heap, e, d)
    BY <1>1, <2>1, LifeTypes, RegisteredOK DEF LifeInv
  <2>2. CASE \E f \in Copies(heap, e) : heap' = Copied(heap, e, f, d)
    BY <1>1, <2>2, LifeTypes, CopiedOK DEF LifeInv
  <2> QED
    BY <2>1, <2>2 DEF SetRoot
<1>3. OwnOK'
  BY LifeTypes, OwnSetRoot DEF LifeInv
<1> QED
  BY <1>1, <1>2, <1>3 DEF LifeInv

LEMMA LifeInclude ==
  ASSUME LifeInv, NEW d \in Docs, NEW x \in Docs, NEW p \in Elems, NEW r \in Elems,
         Include(d, p, x, r)
  PROVE  LifeInv'
<1>1. /\ live' = live \cup {x} /\ live' \in SUBSET Docs
      /\ x \in live' /\ d \in live' /\ HeapOK(heap, live')
  BY LifeTypes, WiderOK DEF Include, UsableDoc, LifeInv
<1>2. PICK m, s : m = Made(heap, r, x, None) /\ s = Registered(m, r, d)
  OBVIOUS
<1>3. HeapOK(m, live')
  BY <1>1, <1>2, MadeOK
<1>4. HeapOK(s, live')
  BY <1>1, <1>2, <1>3, RegisteredOK
<1>5. HeapOK(heap', live')
  BY <1>2, <1>4, AttachedOK DEF Include
<1> QED
  BY <1>1, <1>5, OwnInclude DEF LifeInv

LEMMA LifeFree ==
  ASSUME LifeInv, NEW d \in Docs, FreeDocument(d)
  PROVE  LifeInv'
<1>1. live' = live \ Released(d)
  BY DEF FreeDocument
<1>2. PICK root : heap' = Freed([heap EXCEPT !.map = [e \in Elems |->
                        IF e = root THEN None ELSE @[e]]], Released(d))
  BY DEF FreeDocument
<1>3. PICK s : s = [heap EXCEPT !.map = [e \in Elems |-> IF e = root THEN None ELSE @[e]]]
  OBVIOUS
<1>4. HeapOK(s, live)
  <2>1. /\ s \in HeapRec /\ s.pool = heap.pool /\ s.namebp = heap.namebp
        /\ \A x \in Elems : s.map[x] = None \/ s.map[x] = heap.map[x]
    BY <1>3, LifeTypes, SweptFields
  <2> QED
    BY <2>1 DEF LifeInv, HeapOK, NodeOK
<1>5. heap' = Freed(s, Released(d))
  BY <1>2, <1>3
<1>6. HeapOK(heap', live')
  BY <1>1, <1>4, <1>5, FreedOK
<1> QED
  BY <1>6, OwnFreeDocument DEF LifeInv

LEMMA LifeNext == LifeInv /\ [Next]_vars => LifeInv'
<1> SUFFICES ASSUME LifeInv, [Next]_vars PROVE LifeInv'
  OBVIOUS
<1>1. CASE UNCHANGED vars
  <2>1. live' = live /\ held' = held /\ doc' = doc /\ heap' = heap
    BY <1>1 DEF vars
  <2>2. OwnOK'
    BY <2>1, OwnKept DEF LifeInv, OwnOK, DocType
  <2> QED
    BY <2>1, <2>2 DEF LifeInv
<1>2. ASSUME NEW dst \in Docs, NEW src \in Docs, Absorb(dst, src) PROVE LifeInv'
  BY <1>2, OwnAbsorb DEF LifeInv, Absorb
<1>3. ASSUME NEW d \in Docs, FreeHandle(d) PROVE LifeInv'
  BY <1>3, OwnFreeHandle DEF LifeInv, FreeHandle
<1> QED
  BY <1>1, <1>2, <1>3, LifeParse, LifeCreate, LifeSetName, LifeAppend, LifeUnlink,
     LifeSetRoot, LifeInclude, LifeFree DEF Next

LEMMA LifeHolds == Spec => []LifeInv
<1>1. Init => LifeInv
  BY LifeInit
<1>2. LifeInv /\ [Next]_vars => LifeInv'
  BY LifeNext
<1> QED
  BY <1>1, <1>2, PTL DEF Spec

(* The state of documents and nodes has its type, whatever the program calls *)
(* and in whatever order.                                                    *)
THEOREM TypesHold == Spec => []TypeOK
<1>1. LifeInv => TypeOK
  BY LifeTypes DEF LifeInv, TypeOK, DocRec, HeapRec, SetsType, OwnOK
<1> QED
  BY <1>1, LifeHolds, PTL

(* Every live document is freed by exactly one call, the program's own or    *)
(* that of its owner (leptris.c:875-1060), in any sequence of absorptions,   *)
(* inclusions and frees.                                                     *)
THEOREM FreedByOne == Spec => []ReleasedOnce
<1>1. ASSUME LifeInv PROVE ReleasedOnce
  <2> SUFFICES ASSUME NEW d \in live
      PROVE  Cardinality(Owner(d)) + (IF Rooted(d) THEN 1 ELSE 0) = 1
    BY DEF ReleasedOnce, MayFree, Rooted
  <2>1. d \in Docs /\ (IsOwned(d) <=> ~ Rooted(d))
    BY <1>1, OwnTypes DEF LifeInv, DocOK
  <2>2. \A x \in Docs : d \in doc[x].child_docs => x \in live
    BY <1>1, OwnTypes DEF LifeInv, DocOK
  <2>3. CASE Rooted(d)
    <3>1. Owner(d) = {}
      BY <1>1, <2>1, <2>3, LifeTypes DEF Owner, IsOwned
    <3> QED
      BY <2>3, <3>1, FS_EmptySet
  <2>4. CASE ~ Rooted(d)
    <3>1. PICK x \in Docs : d \in doc[x].child_docs
      BY <2>1, <2>4 DEF IsOwned
    <3>2. \A y \in Docs : d \in doc[y].child_docs => x = y
      BY <1>1, <2>1, <3>1, OwnTypes DEF LifeInv, ChildOK
    <3>3. Owner(d) = {x}
      BY <1>1, <2>2, <3>1, <3>2, LifeTypes DEF Owner
    <3>4. Cardinality(Owner(d)) = 1
      BY <3>3, FS_Singleton
    <3> QED
      BY <2>4, <3>4
  <2> QED
    BY <2>3, <2>4
<1> QED
  BY <1>1, LifeHolds, PTL

(* An entry of the root map names a document that exists: entries are swept  *)
(* with the document they name (root_doc_map.c:303-336, #1038).              *)
THEOREM EntriesNameLive == Spec => []EntriesLive
<1>1. LifeInv => EntriesLive
  BY DEF LifeInv, HeapOK, NodeOK, EntriesLive
<1> QED
  BY <1>1, LifeHolds, PTL

-------------------------------------------------------------------------------
(* No node changes its pool except when a document is freed.                 *)
LEMMA AttachedPool ==
  ASSUME NEW h \in HeapRec, NEW p \in Elems, NEW e \in Elems
  PROVE  Attached(h, p, e) \in HeapRec /\ Attached(h, p, e).pool = h.pool
BY AttachedFields

LEMMA MadePool ==
  ASSUME NEW h \in HeapRec, NEW e \in Elems, NEW d \in Docs, NEW b \in Docs \cup {None}
  PROVE  /\ Registered(h, e, d) \in HeapRec /\ Registered(h, e, d).pool = h.pool
         /\ Made(h, e, d, b) \in HeapRec
         /\ \A x \in Elems : x # e => Made(h, e, d, b).pool[x] = h.pool[x]
BY RegisteredFields, MadeFields

LEMMA MadeKeeps ==
  ASSUME NEW h \in HeapRec, NEW e \in Elems, NEW d \in Docs, NEW b \in Docs \cup {None},
         NEW x \in Elems, x # e
  PROVE  Made(h, e, d, b).pool[x] = h.pool[x]
BY MadePool

LEMMA UnlinkedPool ==
  ASSUME NEW h \in HeapRec, NEW e \in Elems
  PROVE  /\ Unlinked(h, e) \in HeapRec /\ Unlinked(h, e).pool = h.pool
         /\ Taken(h, e) \in HeapRec /\ Taken(h, e).pool = h.pool
BY UnlinkedFields, TakenFields

LEMMA PoolsStay ==
  ASSUME LifeInv, [Next]_vars, \A d \in Docs : ~ FreeDocument(d)
  PROVE  \A x \in Elems : heap.pool[x] # None => heap'.pool[x] = heap.pool[x]
<1> SUFFICES ASSUME NEW x \in Elems, heap.pool[x] # None
    PROVE  heap'.pool[x] = heap.pool[x]
  OBVIOUS
<1>0. x \notin Free(heap)
  BY DEF Free
<1>1. CASE heap' = heap
  BY <1>1
<1>2. ASSUME NEW d \in Docs, NEW r \in Elems, NEW k \in Elems \cup {None}, Parse(d, r, k)
      PROVE  heap'.pool[x] = heap.pool[x]
  <2>1. PICK m, s : m = Made(heap, r, d, None) /\ s = Registered(m, r, d)
    OBVIOUS
  <2>2. x # r /\ m \in HeapRec /\ m.pool[x] = heap.pool[x]
    BY <1>0, <1>2, <2>1, LifeTypes, MadeFields DEF Parse
  <2>3. s \in HeapRec /\ s.pool[x] = heap.pool[x]
    BY <2>1, <2>2, RegisteredFields
  <2>4. CASE k = None
    BY <1>2, <2>1, <2>3, <2>4 DEF Parse
  <2>5. CASE k # None
    <3>1. PICK q : q = Made(s, k, d, None)
      OBVIOUS
    <3>2. x # k /\ k \in Elems
      BY <1>0, <1>2, <2>5 DEF Parse
    <3>3. q \in HeapRec /\ q.pool[x] = heap.pool[x]
      BY <2>3, <3>1, <3>2, MadeFields
    <3>4. heap' = Attached(q, r, k)
      BY <1>2, <2>1, <2>5, <3>1 DEF Parse
    <3>5. heap'.pool = q.pool
      BY <3>2, <3>3, <3>4, AttachedPool
    <3> QED
      BY <3>3, <3>5
  <2> QED
    BY <2>4, <2>5
<1>3. ASSUME NEW d \in Docs, NEW e \in Elems, CreateElement(d, e)
      PROVE  heap'.pool[x] = heap.pool[x]
  BY <1>0, <1>3, LifeTypes, MadeFields DEF CreateElement
<1>4. ASSUME NEW d \in Docs, NEW e \in Elems, SetRoot(d, e)
      PROVE  heap'.pool[x] = heap.pool[x]
  <2>1. CASE heap' = Registered(heap, e, d)
    BY <2>1, LifeTypes, RegisteredFields
  <2>2. CASE \E f \in Copies(heap, e) : heap' = Copied(heap, e, f, d)
    <3>1. PICK f \in Copies(heap, e) : heap' = Copied(heap, e, f, d)
      BY <2>2
    <3>2. PICK g, New : IsCopy(heap, e, f, d, heap', g, New)
      BY <3>1, LifeTypes, CopiedFields
    <3> QED
      BY <1>0, <3>2 DEF IsCopy
  <2> QED
    BY <1>4, <2>1, <2>2 DEF SetRoot
<1>5. ASSUME NEW e \in Elems, SetName(e)
      PROVE  heap'.pool[x] = heap.pool[x]
  BY <1>5, LifeTypes, SetNameFields
<1>6. ASSUME NEW e \in Elems, NodeUnlink(e) \/ RemoveChild(e)
      PROVE  heap'.pool[x] = heap.pool[x]
  <2>1. heap' = Unlinked(heap, e) \/ heap' = Taken(heap, e)
    BY <1>6 DEF NodeUnlink, RemoveChild
  <2>2. heap'.pool = heap.pool
    BY <2>1, LifeTypes, UnlinkedPool
  <2> QED
    BY <2>2
<1>7. ASSUME NEW p \in Elems, NEW c \in Elems, AppendChild(p, c)
      PROVE  heap'.pool[x] = heap.pool[x]
  <2>1. PICK t \in live \cup {None} : t = DocOf(heap, p)
    BY LifeTypes
  <2>2. CASE heap' = Attached(Unlinked(heap, c), p, c)
    <3>1. PICK s : s = Unlinked(heap, c)
      OBVIOUS
    <3>2. s \in HeapRec /\ s.pool = heap.pool
      BY <3>1, LifeTypes, UnlinkedPool
    <3>3. heap'.pool = s.pool
      BY <2>2, <3>1, <3>2, AttachedPool
    <3> QED
      BY <3>2, <3>3
  <2>3. CASE /\ ~ MovesByReference(c, t)
             /\ \E f \in Copies(heap, c) : heap' = Attached(Copied(heap, c, f, t), p, f[c])
    <3>1. PICK f \in Copies(heap, c) : heap' = Attached(Copied(heap, c, f, t), p, f[c])
      BY <2>3
    <3>2. t \in Docs
      BY <2>3, LifeTypes DEF MovesByReference
    <3>3. PICK s : s = Copied(heap, c, f, t)
      OBVIOUS
    <3>4. PICK g, New : IsCopy(heap, c, f, t, s, g, New)
      BY <3>2, <3>3, LifeTypes, CopiedFields
    <3>5. s \in HeapRec /\ f[c] \in Elems /\ s.pool[x] = heap.pool[x]
      BY <1>0, <3>4, LifeTypes DEF IsCopy
    <3>6. heap'.pool = s.pool
      BY <3>1, <3>3, <3>5, AttachedPool
    <3> QED
      BY <3>5, <3>6
  <2> QED
    BY <1>7, <2>1, <2>2, <2>3 DEF AppendChild
<1>8. ASSUME NEW d \in Docs, NEW y \in Docs, NEW p \in Elems, NEW r \in Elems, Include(d, p, y, r)
      PROVE  heap'.pool[x] = heap.pool[x]
  <2>0. heap \in HeapRec /\ None \in Docs \cup {None} /\ r \in Elems /\ y \in Docs /\ d \in Docs
    BY <1>8, LifeTypes
  <2>1. PICK m : m = Made(heap, r, y, None)
    OBVIOUS
  <2>2. x # r /\ heap' = Attached(Registered(m, r, d), p, r)
    BY <1>0, <1>8, <2>1 DEF Include
  <2>6. x # r
    BY <2>2
  <2>7. m \in HeapRec
    BY <2>0, <2>1, MadePool
  <2>3. m \in HeapRec /\ m.pool[x] = heap.pool[x]
    BY <2>0, <2>1, <2>6, <2>7, MadeKeeps
  <2>4. Registered(m, r, d) \in HeapRec /\ Registered(m, r, d).pool = m.pool
    BY <2>0, <2>3, MadePool
  <2>5. heap'.pool = m.pool
    BY <1>8, <2>0, <2>2, <2>4, AttachedPool
  <2> QED
    BY <2>2, <2>3, <2>4, <2>5
<1> QED
  BY <1>1, <1>2, <1>3, <1>4, <1>5, <1>6, <1>7, <1>8
  DEF Next, vars, Absorb, FreeHandle

-------------------------------------------------------------------------------
(* Families: a document nobody owns, and the documents it owns.              *)
LEMMA ReachedAlike ==
  ASSUME NEW N \in [Docs -> SUBSET Docs], NEW M \in [Docs -> SUBSET Docs], NEW t \in Docs,
         \A x \in Reached(t, N) : M[x] = N[x]
  PROVE  Reached(t, M) = Reached(t, N)
<1> DEFINE A == Reached(t, N)
           B == Reached(t, M)
           T == A \cap B
<1>1. t \in A /\ A \subseteq Docs /\ \A x \in A : N[x] \subseteq A
  BY ReachedSet, DocLifecycleAssumption
<1>2. t \in B /\ B \subseteq Docs /\ \A x \in B : M[x] \subseteq B
  BY ReachedSet, DocLifecycleAssumption
<1>3. \A x \in A : M[x] = N[x]
  OBVIOUS
<1>4. B \subseteq A
  <2>1. \A x \in A : M[x] \subseteq A
    BY <1>1, <1>3
  <2> HIDE DEF A
  <2> QED
    BY <1>1, <2>1, ReachedLeast, DocLifecycleAssumption
<1>5. A \subseteq T
  <2>1. t \in T /\ \A x \in T : N[x] \subseteq T
    BY <1>1, <1>2, <1>3
  <2> HIDE DEF T
  <2> QED
    BY <2>1, ReachedLeast, DocLifecycleAssumption
<1> QED
  BY <1>4, <1>5

LEMMA ReachedMore ==
  ASSUME NEW N \in [Docs -> SUBSET Docs], NEW M \in [Docs -> SUBSET Docs], NEW t \in Docs,
         \A x \in Docs : N[x] \subseteq M[x]
  PROVE  Reached(t, N) \subseteq Reached(t, M)
<1> DEFINE B == Reached(t, M)
<1>1. t \in B /\ B \subseteq Docs /\ \A x \in B : M[x] \subseteq B
  BY ReachedSet, DocLifecycleAssumption
<1>2. \A x \in B : N[x] \subseteq B
  BY <1>1
<1> HIDE DEF B
<1>3. Reached(t, N) \subseteq B
  BY <1>1, <1>2, ReachedLeast, DocLifecycleAssumption
<1> QED
  BY <1>3 DEF B

Adds(N, M, t, c) ==
  \A x \in Docs : M[x] = IF x = t THEN N[x] \cup {c} ELSE N[x]

LEMMA ReachedWith ==
  ASSUME NEW N \in [Docs -> SUBSET Docs], NEW M \in [Docs -> SUBSET Docs],
         NEW t \in Docs, NEW c \in Docs, Adds(N, M, t, c)
  PROVE  Reached(t, M) = Reached(t, N) \cup Reached(c, N)
<1> DEFINE A == Reached(t, N)
           B == Reached(c, N)
           C == Reached(t, M)
           S == A \cup B
           T == B \cap C
<1>1. t \in A /\ A \subseteq Docs /\ \A x \in A : N[x] \subseteq A
  BY ReachedSet, DocLifecycleAssumption
<1>2. c \in B /\ B \subseteq Docs /\ \A x \in B : N[x] \subseteq B
  BY ReachedSet, DocLifecycleAssumption
<1>3. t \in C /\ C \subseteq Docs /\ \A x \in C : M[x] \subseteq C
  BY ReachedSet, DocLifecycleAssumption
<1>7. \A x \in Docs : /\ N[x] \subseteq M[x] /\ M[x] \subseteq N[x] \cup {c}
                      /\ x # t => M[x] = N[x]
                      /\ x = t => c \in M[x]
  BY DEF Adds
<1>4. C \subseteq S
  <2>1. t \in S /\ \A x \in S : M[x] \subseteq S
    BY <1>1, <1>2, <1>7
  <2> HIDE DEF S
  <2> QED
    BY <2>1, ReachedLeast, DocLifecycleAssumption
<1>5. A \subseteq C
  BY <1>7, ReachedMore
<1>6. B \subseteq T
  <2>1. c \in C
    BY <1>3, <1>7
  <2>2. c \in T /\ \A x \in T : N[x] \subseteq T
    BY <1>2, <1>3, <1>7, <2>1
  <2> HIDE DEF T
  <2> QED
    BY <2>2, ReachedLeast, DocLifecycleAssumption
<1> QED
  BY <1>4, <1>5, <1>6

(* Who owns whom, before and after a step.                                   *)
Tree(next) == /\ next \in [Docs -> SUBSET Docs]
              /\ \A x \in Docs : next[x] = doc[x].child_docs
              /\ \A d \in Docs : Owned(d) = Reached(d, next)

LEMMA TreeNow ==
  ASSUME DocType
  PROVE  \E next : Tree(next)
<1>1. PICK next : next = [x \in Docs |-> doc[x].child_docs]
  OBVIOUS
<1>2. next \in [Docs -> SUBSET Docs]
  BY <1>1 DEF DocType, DocRec
<1> QED
  BY <1>1, <1>2 DEF Tree, Owned

LEMMA TreeThen ==
  ASSUME DocType'
  PROVE  \E next : Tree(next)'
<1>1. PICK next : next = [x \in Docs |-> doc'[x].child_docs]
  OBVIOUS
<1>2. next \in [Docs -> SUBSET Docs]
  BY <1>1 DEF DocType, DocRec
<1> QED
  BY <1>1, <1>2 DEF Tree, Owned

(* The heads of families: no two have a document in common.                  *)
FamilyHead(t) == t \in live /\ ~ IsOwned(t)

LEMMA HeadsApart ==
  ASSUME OwnOK, NEW s \in Docs, NEW t \in Docs, ~ IsOwned(s), ~ IsOwned(t),
         NEW x, x \in Owned(s), x \in Owned(t)
  PROVE  s = t
<1> SUFFICES ASSUME s # t PROVE FALSE
  OBVIOUS
<1> DEFINE T == Owned(s) \ Owned(t)
<1>0. DocType
  BY DEF OwnOK
<1>1. /\ s \in Owned(s) /\ Owned(s) \subseteq Docs
      /\ \A y \in Owned(s) : doc[y].child_docs \subseteq Owned(s)
  BY <1>0, OwnedFacts
<1>2. /\ t \in Owned(t) /\ Owned(t) \subseteq Docs
      /\ \A c \in Owned(t) : c = t \/ \E y \in Owned(t) : c \in doc[y].child_docs
  BY <1>0, OwnedFacts
<1>3. s \in T
  BY <1>1, <1>2 DEF IsOwned
<1>4. ASSUME NEW y \in T, NEW c \in doc[y].child_docs PROVE c \in T
  <2>1. c \in Owned(s) /\ c # t /\ c \in Docs /\ y \in Docs
    BY <1>1, <1>4 DEF IsOwned
  <2>2. \A z \in Docs : c \in doc[z].child_docs => z = y
    BY <1>4, <2>1, OwnTypes DEF ChildOK
  <2> QED
    BY <1>2, <1>4, <2>1, <2>2
<1>5. T \subseteq Docs /\ \A y \in T : doc[y].child_docs \subseteq T
  BY <1>1, <1>4
<1> HIDE DEF T
<1>6. Owned(s) \subseteq T
  BY <1>0, <1>3, <1>5, OwnedLeast
<1> QED
  BY <1>6 DEF T

(* The anchors are the heads that are not kept for their handle alone, and a *)
(* document is doomed when the head of its family is.                        *)
LEMMA AnchorHeads ==
  ASSUME OwnOK, NEW t \in Docs
  PROVE  /\ t \in Anchors <=> FamilyHead(t) /\ ~ doc[t].absorbed_deferred
         /\ doc[t].absorbed_deferred => FamilyHead(t)
         /\ Rooted(t) => FamilyHead(t)
<1>1. Owner(t) = {} <=> ~ IsOwned(t)
  BY OwnTypes DEF Owner, IsOwned, DocOK
<1>2. doc[t].absorbed_deferred => Rooted(t)
  BY OwnTypes DEF DocOK, Rooted
<1>3. Rooted(t) => t \in live /\ ~ IsOwned(t)
  BY OwnTypes DEF DocOK, Rooted
<1> QED
  BY <1>1, <1>2, <1>3 DEF Anchors, FamilyHead

LEMMA UsableAnchor ==
  ASSUME OwnOK, NEW d \in held, doc[d].absorbed_by = None
  PROVE  d \in Anchors
<1>1. d \in Docs /\ Rooted(d) /\ ~ doc[d].absorbed_deferred
  BY OwnTypes DEF DocOK, Rooted
<1> QED
  BY <1>1, AnchorHeads

LEMMA AnchorSafe ==
  ASSUME OwnOK, NEW t \in Anchors, NEW x \in Owned(t)
  PROVE  ~ Doomed(x) /\ ~ doc[x].absorbed_deferred
<1>1. t \in Docs /\ FamilyHead(t) /\ ~ doc[t].absorbed_deferred /\ DocType
  BY AnchorHeads, OwnTypes DEF Anchors, OwnOK
<1>2. ASSUME NEW d \in live, doc[d].absorbed_deferred, x \in Owned(d) PROVE FALSE
  <2>1. d \in Docs /\ FamilyHead(d)
    BY <1>2, AnchorHeads, OwnTypes
  <2> QED
    BY <1>1, <1>2, <2>1, HeadsApart DEF FamilyHead
<1>3. x \in Docs /\ x \in Owned(x)
  BY <1>1, OwnedFacts
<1>4. doc[x].absorbed_deferred => x \in live
  BY <1>3, AnchorHeads DEF FamilyHead
<1> QED
  BY <1>2, <1>3, <1>4 DEF Doomed

-------------------------------------------------------------------------------
(* Nodes whose pool is in F have their edges and their entry there, and      *)
(* storage that is free carries no edges.                                    *)
Clean(h, e) == h.pool[e] = None => h.kids[e] = {} /\ h.parent[e] = None
Stays(h, F, e) ==
  h.pool[e] \in F => /\ \A k \in h.kids[e] : h.pool[k] \in F
                     /\ h.parent[e] # None => h.pool[h.parent[e]] \in F
                     /\ h.map[e] # None => h.map[e] \in F
Within(h, F) == \A e \in Elems : Clean(h, e) /\ Stays(h, F, e)

LEMMA RegisteredWithin ==
  ASSUME NEW h \in HeapRec, NEW F, Within(h, F), NEW e \in Elems, NEW d \in Docs \cup {None},
         h.pool[e] \in F /\ d # None => d \in F, NEW s, s = Registered(h, e, d)
  PROVE  s \in HeapRec /\ s.pool = h.pool /\ Within(s, F)
<1>1. /\ s \in HeapRec /\ s.pool = h.pool /\ s.parent = h.parent /\ s.kids = h.kids
      /\ \A x \in Elems : s.map[x] = IF x = e /\ d # None THEN d ELSE h.map[x]
  BY RegisteredFields
<1> QED
  BY <1>1 DEF Within, Clean, Stays

LEMMA TakenWithin ==
  ASSUME NEW h \in HeapRec, NEW F, Within(h, F), NEW e \in Elems, NEW s, s = Taken(h, e)
  PROVE  s \in HeapRec /\ s.pool = h.pool /\ Within(s, F)
<1>1. /\ s \in HeapRec /\ s.pool = h.pool /\ s.map = h.map
      /\ \A x \in Elems : s.parent[x] = IF x = e THEN None ELSE h.parent[x]
  BY TakenFields
<1>5. \A x \in Elems : /\ x = h.parent[e] => s.kids[x] = h.kids[x] \ {e}
                       /\ x # h.parent[e] => s.kids[x] = h.kids[x]
  BY TakenFields
<1>2. \A x \in Elems : s.kids[x] \subseteq h.kids[x]
  <2> SUFFICES ASSUME NEW x \in Elems PROVE s.kids[x] \subseteq h.kids[x]
    OBVIOUS
  <2>1. s.kids[x] = h.kids[x] \ {e} \/ s.kids[x] = h.kids[x]
    BY <1>5
  <2> QED
    BY <2>1
<1>3. \A x \in Elems : Clean(s, x)
  BY <1>1, <1>2 DEF Within, Clean
<1>4. \A x \in Elems : Stays(s, F, x)
  BY <1>1, <1>2 DEF Within, Stays
<1> QED
  BY <1>1, <1>3, <1>4 DEF Within

LEMMA AttachedWithin ==
  ASSUME NEW h \in HeapRec, NEW F, Within(h, F), NEW p \in Elems, NEW e \in Elems,
         h.pool[p] # None, h.pool[e] # None,
         h.pool[p] \in F => h.pool[e] \in F, h.pool[e] \in F => h.pool[p] \in F,
         NEW s, s = Attached(h, p, e)
  PROVE  Within(s, F)
<1>0. s.pool = h.pool /\ s.map = h.map /\ Hung(h, p, e, s)
  BY AttachedFields
<1>1. \A x \in Elems : /\ s.parent[x] = h.parent[x] \/ (x = e /\ s.parent[x] = p)
                       /\ s.kids[x] \subseteq h.kids[x] \cup {e}
                       /\ x # p => s.kids[x] = h.kids[x]
  BY <1>0 DEF Hung
<1>2. \A x \in Elems : Clean(s, x)
  BY <1>0, <1>1 DEF Within, Clean
<1>3. \A x \in Elems : h.kids[x] \subseteq Elems /\ h.parent[x] \in Elems \cup {None}
  BY HeapFields
<1>4. \A x \in Elems : Stays(s, F, x)
  BY <1>0, <1>1, <1>3 DEF Within, Stays
<1> QED
  BY <1>2, <1>4 DEF Within

LEMMA MadeWithin ==
  ASSUME NEW h \in HeapRec, NEW F, None \notin F, Within(h, F), NEW e \in Elems,
         h.pool[e] = None, h.map[e] = None, NEW d \in Docs, NEW b \in Docs \cup {None},
         NEW s, s = Made(h, e, d, b)
  PROVE  s \in HeapRec /\ s.pool[e] = d /\ Within(s, F)
<1>1. /\ s \in HeapRec /\ s.parent = h.parent /\ s.kids = h.kids /\ s.map = h.map
      /\ \A x \in Elems : s.pool[x] = IF x = e THEN d ELSE h.pool[x]
  BY MadeFields
<1>2. d # None /\ h.kids[e] = {} /\ h.parent[e] = None
  BY DocLifecycleAssumption DEF Within, Clean
<1>3. \A x \in Elems : Clean(s, x)
  BY <1>1, <1>2 DEF Within, Clean
<1>4. \A x \in Elems : h.kids[x] \subseteq Elems /\ h.parent[x] \in Elems \cup {None}
  BY HeapFields
<1>5. \A x \in Elems : Stays(s, F, x)
  BY <1>1, <1>2, <1>4 DEF Within, Stays
<1> QED
  BY <1>1, <1>3, <1>5 DEF Within

LEMMA CopiedWithin ==
  ASSUME NEW h \in HeapRec, NEW F, None \notin F, Within(h, F), NEW e \in Elems,
         NEW f \in Copies(h, e), NEW d \in Docs, \A x \in Free(h) : h.map[x] = None,
         NEW s, s = Copied(h, e, f, d)
  PROVE  /\ s \in HeapRec /\ Within(s, F) /\ f[e] \in Elems /\ s.pool[f[e]] = d
         /\ \A x \in Elems : h.pool[x] # None => s.pool[x] = h.pool[x]
<1>1. PICK g, New : IsCopy(h, e, f, d, s, g, New)
  BY CopiedFields
<1>2. /\ New = {f[a] : a \in Subtree(h, e)} /\ New \subseteq Free(h) /\ f[e] \in New
      /\ \A n \in New : g[n] \in Subtree(h, e) /\ f[g[n]] = n
      /\ s \in HeapRec
  BY <1>1 DEF IsCopy
<1>3. \A x \in Elems :
        /\ s.pool[x] = IF x \in New THEN d ELSE h.pool[x]
        /\ s.map[x] = IF x = f[e] THEN d ELSE h.map[x]
        /\ x \notin New => s.parent[x] = h.parent[x] /\ s.kids[x] = h.kids[x]
  BY <1>1 DEF IsCopy
<1>4. \A x \in New : /\ x \in Elems /\ h.pool[x] = None /\ h.map[x] = None
  BY <1>2 DEF Free
<1>5. d # None
  BY DocLifecycleAssumption
<1>6. \A x \in New : s.kids[x] \subseteq New /\ s.parent[x] \in New \cup {None}
  <2> SUFFICES ASSUME NEW x \in New PROVE s.kids[x] \subseteq New /\ s.parent[x] \in New \cup {None}
    OBVIOUS
  <2>1. g[x] \in Subtree(h, e) /\ h.kids[g[x]] \subseteq Subtree(h, e)
    BY <1>2, SubtreeFacts
  <2>2. s.kids[x] = {f[a] : a \in h.kids[g[x]]}
    BY <1>1, <1>4 DEF IsCopy
  <2>3. s.parent[x] \in New \cup {None}
    BY <1>1, <1>4 DEF IsCopy
  <2> QED
    BY <1>2, <2>1, <2>2, <2>3
<1>7. \A x \in Elems : Clean(s, x)
  BY <1>3, <1>5 DEF Within, Clean
<1>8. \A x \in Elems : h.kids[x] \subseteq Elems /\ h.parent[x] \in Elems \cup {None}
  BY HeapFields
<1>9. ASSUME NEW x \in Elems PROVE Stays(s, F, x)
  <2>1. CASE x \in New
    <3>1. \A y \in New : s.pool[y] = d
      BY <1>3, <1>4
    <3>2. s.map[x] = None \/ s.map[x] = d
      BY <1>3, <1>4, <2>1
    <3> QED
      BY <1>6, <2>1, <3>1, <3>2 DEF Stays
  <2>2. CASE x \notin New
    <3>1. \A y \in Elems : h.pool[y] \in F => s.pool[y] = h.pool[y]
      BY <1>3, <1>4
    <3>2. s.pool[x] = h.pool[x] /\ s.map[x] = h.map[x] /\ s.parent[x] = h.parent[x]
          /\ s.kids[x] = h.kids[x]
      BY <1>2, <1>3, <2>2
    <3>3. Stays(h, F, x)
      BY DEF Within
    <3> QED
      BY <1>8, <3>1, <3>2, <3>3 DEF Stays
  <2> QED
    BY <2>1, <2>2
<1>10. \A x \in Elems : h.pool[x] # None => s.pool[x] = h.pool[x]
  BY <1>3, <1>4
<1> QED
  BY <1>2, <1>3, <1>4, <1>7, <1>9, <1>10 DEF Within

LEMMA FreedWithin ==
  ASSUME NEW h \in HeapRec, NEW F, None \notin F, Within(h, F), NEW G, F \cap G = {},
         NEW s, s = Freed(h, G)
  PROVE  Within(s, F)
<1>1. \A x \in Elems : /\ h.pool[x] \in G => /\ s.pool[x] = None /\ s.parent[x] = None
                                            /\ s.kids[x] = {}
                       /\ h.pool[x] \notin G => /\ s.pool[x] = h.pool[x] /\ s.parent[x] = h.parent[x]
                                               /\ s.kids[x] = h.kids[x]
                       /\ h.map[x] \in G => s.map[x] = None
                       /\ h.map[x] \notin G => s.map[x] = h.map[x]
  BY FreedFields
<1>2. \A x \in Elems : Clean(s, x)
  BY <1>1 DEF Within, Clean
<1>3. \A x \in Elems : h.kids[x] \subseteq Elems /\ h.parent[x] \in Elems \cup {None}
  BY HeapFields
<1>4. \A x \in Elems : h.pool[x] \in F => h.pool[x] \notin G
  OBVIOUS
<1>5. ASSUME NEW x \in Elems PROVE Stays(s, F, x)
  <2>1. CASE h.pool[x] \in G
    BY <1>1, <2>1 DEF Stays
  <2>2. CASE h.pool[x] \notin G
    <3>1. /\ s.pool[x] = h.pool[x] /\ s.parent[x] = h.parent[x] /\ s.kids[x] = h.kids[x]
          /\ s.map[x] = None \/ s.map[x] = h.map[x]
      BY <1>1, <2>2
    <3>2. \A y \in Elems : h.pool[y] \in F => s.pool[y] = h.pool[y]
      BY <1>1, <1>4
    <3>3. Stays(h, F, x)
      BY DEF Within
    <3> QED
      BY <1>3, <3>1, <3>2, <3>3 DEF Stays
  <2> QED
    BY <2>1, <2>2
<1> QED
  BY <1>2, <1>5 DEF Within

(* What is reached from a node of the family stays in it, and the node       *)
(* resolves to the family or to nothing.                                     *)
LEMMA TreeWithin ==
  ASSUME NEW h \in HeapRec, NEW F, Within(h, F), NEW r \in Elems, h.pool[r] \in F,
         NEW e \in Subtree(h, r)
  PROVE  e \in Elems /\ h.pool[e] \in F
<1> DEFINE T == {x \in Elems : h.pool[x] \in F}
<1>1. \A x \in T : h.kids[x] \subseteq T
  BY HeapFields DEF Within, Stays
<1>2. r \in T
  OBVIOUS
<1> HIDE DEF T
<1>3. Subtree(h, r) \subseteq T
  BY <1>1, <1>2, SubtreeLeast
<1> QED
  BY <1>3 DEF T

LEMMA DocWithin ==
  ASSUME NEW L, NEW h, HeapOK(h, L), NEW F, Within(h, F), NEW e \in Elems, h.pool[e] \in F
  PROVE  DocOf(h, e) = None \/ DocOf(h, e) \in F
<1> DEFINE T == {x \in Elems : h.pool[x] \in F}
<1>0. h \in HeapRec /\ \A x \in Elems : NodeOK(h, L, x)
  BY DEF HeapOK
<1>1. \A x \in T : h.parent[x] # None => h.parent[x] \in T
  BY <1>0, HeapFields DEF Within, Stays
<1>2. e \in T
  OBVIOUS
<1>3. Top(h, e) \in T
  <2> HIDE DEF T
  <2> QED
    BY <1>1, <1>2, TopWithin
<1>4. PICK t \in T : t = Top(h, e)
  BY <1>3
<1>5. DocOf(h, e) = IF h.namebp[t] # None THEN h.namebp[t] ELSE h.map[t]
  BY <1>4 DEF DocOf
<1> QED
  BY <1>0, <1>4, <1>5 DEF NodeOK, Within, Stays

LEMMA UnlinkedWithin ==
  ASSUME NEW L \in SUBSET Docs, NEW h, HeapOK(h, L), NEW F, None \notin F, Within(h, F),
         NEW e \in Elems, NEW s, s = Unlinked(h, e)
  PROVE  s \in HeapRec /\ s.pool = h.pool /\ Within(s, F)
<1>0. h \in HeapRec
  BY DEF HeapOK
<1>1. PICK t : t = Taken(h, e)
  OBVIOUS
<1>2. t \in HeapRec /\ t.pool = h.pool /\ Within(t, F)
  BY <1>0, <1>1, TakenWithin
<1>3. CASE s = h
  BY <1>0, <1>3
<1>4. CASE s = t
  BY <1>2, <1>4
<1>5. CASE s = Registered(t, e, DocOf(h, e))
  <2>1. DocOf(h, e) \in Docs \cup {None}
    BY <1>0, TopTypes
  <2>2. t.pool[e] \in F /\ DocOf(h, e) # None => DocOf(h, e) \in F
    BY <1>2, DocWithin
  <2>3. s \in HeapRec /\ s.pool = t.pool /\ Within(s, F)
    BY <1>2, <1>5, <2>1, <2>2, RegisteredWithin
  <2> QED
    BY <1>2, <2>3
<1> QED
  BY <1>1, <1>3, <1>4, <1>5 DEF Unlinked

LEMMA SetNameWithin ==
  ASSUME LifeInv, NEW F, None \notin F, Within(heap, F), NEW e \in Elems, SetName(e)
  PROVE  heap'.pool = heap.pool /\ Within(heap', F)
<1>1. /\ heap'.pool = heap.pool /\ heap'.parent = heap.parent /\ heap'.kids = heap.kids
      /\ \A x \in Elems : heap'.map[x] = IF x = e /\ DocOf(heap, e) # None
                                         THEN DocOf(heap, e) ELSE heap.map[x]
  BY LifeTypes, SetNameFields
<1>2. heap.pool[e] \in F => DocOf(heap, e) = None \/ DocOf(heap, e) \in F
  BY DocWithin DEF LifeInv
<1>3. \A x \in Elems : Clean(heap', x)
  BY <1>1 DEF Within, Clean
<1>4. \A x \in Elems : Stays(heap', F, x)
  BY <1>1, <1>2 DEF Within, Stays
<1> QED
  BY <1>1, <1>3, <1>4 DEF Within

-------------------------------------------------------------------------------
(* Every document has a head; no node of a family leads out of it.           *)
Families == {{}} \cup {Owned(t) : t \in Anchors}
Headed == \A x \in live : \E t \in live : ~ IsOwned(t) /\ x \in Owned(t)
RootsHome == \A t \in Anchors : doc[t].root # None => heap.pool[doc[t].root] \in Owned(t)
FamOK == Headed /\ RootsHome /\ \A F \in Families : Within(heap, F)

LEMMA FamilyFacts ==
  ASSUME LifeInv, NEW F \in Families
  PROVE  /\ F \subseteq Docs /\ None \notin F
         /\ \A t \in Anchors : \A x \in F : x \in Owned(t) => F = Owned(t)
<1>0. DocType /\ OwnOK /\ Anchors \subseteq Docs /\ None \notin Docs
  BY LifeTypes DEF LifeInv, OwnOK, Anchors
<1>1. CASE F = {}
  BY <1>1
<1>2. ASSUME NEW s \in Anchors, F = Owned(s)
      PROVE  /\ F \subseteq Docs /\ None \notin F
             /\ \A t \in Anchors : \A x \in F : x \in Owned(t) => F = Owned(t)
  <2>1. F \subseteq Docs
    BY <1>0, <1>2, OwnedFacts
  <2>2. ASSUME NEW t \in Anchors, NEW x \in F, x \in Owned(t) PROVE F = Owned(t)
    <3>1. s \in Docs /\ t \in Docs /\ ~ IsOwned(s) /\ ~ IsOwned(t)
      BY <1>0, AnchorHeads DEF FamilyHead
    <3>2. s = t
      BY <1>0, <1>2, <2>2, <3>1, HeadsApart
    <3> QED
      BY <1>2, <3>2
  <2> QED
    BY <1>0, <2>1, <2>2
<1> QED
  BY <1>1, <1>2 DEF Families

(* A usable node belongs to a family.                                        *)
LEMMA FamilyOfNode ==
  ASSUME LifeInv, FamOK, NEW e \in Elems, UsableNode(e)
  PROVE  \E t \in Anchors : heap.pool[e] \in Owned(t)
<1>1. heap.pool[e] \in live /\ ~ Doomed(heap.pool[e]) /\ OwnOK /\ live \subseteq Docs
  BY LifeTypes DEF LifeInv, HeapOK, NodeOK, UsableNode
<1>2. PICK t \in live : ~ IsOwned(t) /\ heap.pool[e] \in Owned(t)
  BY <1>1 DEF FamOK, Headed
<1>3. ~ doc[t].absorbed_deferred
  BY <1>1, <1>2 DEF Doomed
<1> QED
  BY <1>1, <1>2, <1>3, AnchorHeads DEF FamilyHead

(* Nothing of a family resolves out of it.                                   *)
LEMMA ResolvesWithin ==
  ASSUME LifeInv, FamOK, NEW e \in Elems, NEW t \in Anchors, heap.pool[e] \in Owned(t),
         DocOf(heap, e) # None
  PROVE  DocOf(heap, e) \in Owned(t)
<1>1. Within(heap, Owned(t)) /\ HeapOK(heap, live)
  BY DEF FamOK, Families, LifeInv
<1> QED
  BY <1>1, DocWithin

(* The anchors after a step, from the definition of ownership alone.         *)
LEMMA AnchorsThen ==
  ASSUME OwnOK', NEW t \in Docs
  PROVE  t \in Anchors' <=> t \in live' /\ ~ IsOwned(t)' /\ ~ doc'[t].absorbed_deferred
<1>1. \A x \in Docs : x \notin live' => doc'[x].child_docs = {}
  BY DEF OwnOK, DocOK
<1>2. live' \subseteq Docs
  BY DEF OwnOK, SetsType
<1>3. Owner(t)' = {} <=> ~ IsOwned(t)'
  BY <1>1, <1>2 DEF Owner, IsOwned
<1> QED
  BY <1>3 DEF Anchors

(* Steps that change who owns whom not at all.                               *)
LEMMA FamKept ==
  ASSUME LifeInv, FamOK, OwnOK', live' = live,
         \A x \in Docs : /\ doc'[x].child_docs = doc[x].child_docs
                         /\ doc'[x].absorbed_deferred = doc[x].absorbed_deferred,
         \A F \in Families : Within(heap', F),
         \A t \in Anchors : doc'[t].root # None => heap'.pool[doc'[t].root] \in Owned(t)
  PROVE  FamOK'
<1>1. \A d \in Docs : Owned(d)' = Owned(d) /\ (IsOwned(d)' <=> IsOwned(d))
  <2>1. [x \in Docs |-> doc'[x].child_docs] = [x \in Docs |-> doc[x].child_docs]
    OBVIOUS
  <2> QED
    BY <2>1 DEF Owned, IsOwned
<1>2. live \subseteq Docs /\ OwnOK
  BY LifeTypes DEF LifeInv
<1>3. Anchors' = Anchors
  <2>1. \A t \in Docs : t \in Anchors' <=> t \in Anchors
    BY <1>1, <1>2, AnchorsThen, AnchorHeads DEF FamilyHead
  <2> QED
    BY <1>2, <2>1 DEF Anchors
<1>4. \A t \in Anchors : Owned(t)' = Owned(t)
  BY <1>1, <1>2 DEF Anchors
<1>5. Families' = Families
  BY <1>3, <1>4 DEF Families
<1>6. Headed'
  BY <1>1, <1>2 DEF FamOK, Headed
<1>7. RootsHome'
  BY <1>3, <1>4 DEF RootsHome
<1> QED
  BY <1>5, <1>6, <1>7 DEF FamOK

LEMMA FamHeap ==
  ASSUME LifeInv, FamOK, OwnOK', live' = live, doc' = doc,
         \A F \in Families : Within(heap', F),
         \A x \in Elems : heap.pool[x] # None => heap'.pool[x] = heap.pool[x]
  PROVE  FamOK'
<1>1. ASSUME NEW t \in Anchors, doc[t].root # None PROVE heap'.pool[doc[t].root] \in Owned(t)
  <2>1. t \in Docs /\ Owned(t) \in Families
    BY LifeTypes DEF Anchors, Families
  <2>2. doc[t].root \in Elems /\ heap.pool[doc[t].root] \in Owned(t)
    BY <1>1, <2>1, OwnTypes DEF FamOK, RootsHome, LifeInv
  <2>3. heap.pool[doc[t].root] # None
    BY <2>1, <2>2, FamilyFacts
  <2> QED
    BY <2>2, <2>3
<1> QED
  BY <1>1, FamKept

(* One action at a time; no node loses its pool except when a document is    *)
(* freed.                                                                    *)
PoolsKept == \A x \in Elems : heap.pool[x] # None => heap'.pool[x] = heap.pool[x]

LEMMA FamCreate ==
  ASSUME LifeInv, FamOK, OwnOK', PoolsKept, "recycle_entry" \notin Ops,
         NEW d \in Docs, NEW e \in Elems, CreateElement(d, e)
  PROVE  FamOK'
<1>1. /\ live' = live /\ doc' = doc /\ heap' = Made(heap, e, d, d)
      /\ heap.pool[e] = None /\ heap.map[e] = None
  BY DEF CreateElement, Free
<1>2. ASSUME NEW F \in Families PROVE Within(heap', F)
  <2>1. None \notin F /\ Within(heap, F) /\ heap \in HeapRec
    BY FamilyFacts, LifeTypes DEF FamOK
  <2> QED
    BY <1>1, <2>1, MadeWithin
<1> QED
  BY <1>1, <1>2, FamHeap DEF PoolsKept

LEMMA FamSetName ==
  ASSUME LifeInv, FamOK, OwnOK', PoolsKept, NEW e \in Elems, SetName(e)
  PROVE  FamOK'
<1>1. ASSUME NEW F \in Families PROVE Within(heap', F)
  BY FamilyFacts, SetNameWithin DEF FamOK
<1>2. live' = live /\ doc' = doc
  BY DEF SetName
<1> QED
  BY <1>1, <1>2, FamHeap DEF PoolsKept

LEMMA FamUnlink ==
  ASSUME LifeInv, FamOK, OwnOK', PoolsKept, NEW e \in Elems, NodeUnlink(e) \/ RemoveChild(e)
  PROVE  FamOK'
<1>1. /\ live' = live /\ doc' = doc
      /\ heap' = Unlinked(heap, e) \/ heap' = Taken(heap, e)
  BY DEF NodeUnlink, RemoveChild
<1>2. ASSUME NEW F \in Families PROVE Within(heap', F)
  <2>1. /\ None \notin F /\ Within(heap, F) /\ heap \in HeapRec /\ HeapOK(heap, live)
        /\ live \in SUBSET Docs
    BY FamilyFacts, LifeTypes DEF FamOK, LifeInv
  <2> QED
    BY <1>1, <2>1, UnlinkedWithin, TakenWithin
<1> QED
  BY <1>1, <1>2, FamHeap DEF PoolsKept

(* A splice moves a node by reference only inside its family.                *)
LEMMA MovesWithin ==
  ASSUME LifeInv, FamOK, NEW c \in Elems, NEW s \in Anchors, heap.pool[c] \in Owned(s),
         NEW t \in Anchors, NEW target \in Owned(t), DocOf(heap, c) # None,
         MovesByReference(c, target)
  PROVE  Owned(s) = Owned(t)
<1>1. DocType /\ OwnOK /\ s \in Docs /\ t \in Docs /\ live \subseteq Docs
  BY LifeTypes DEF LifeInv, OwnOK, Anchors
<1>2. PICK src : src = DocOf(heap, c)
  OBVIOUS
<1>3. src \in Owned(s) /\ src \in Docs /\ target \in Docs
  BY <1>1, <1>2, ResolvesWithin, OwnedFacts
<1>4. src \in Owned(t)
  <2>1. CASE src = target
    BY <2>1
  <2>2. CASE src # target
    <3>1. doc[src].absorbed_by = target /\ target # None
      BY <1>2, <1>3, <2>2, LifeTypes DEF MovesByReference
    <3>2. ~ doc[src].absorbed_deferred
      BY <1>1, <1>3, AnchorSafe
    <3>3. src \in doc[target].child_docs
      BY <1>1, <1>3, <3>1, <3>2, OwnTypes DEF DocOK
    <3> QED
      BY <1>1, <3>3, OwnedFacts
  <2> QED
    BY <2>1, <2>2
<1> QED
  BY <1>1, <1>3, <1>4, FamilyFacts, Owned(s) \in Families DEF Families

LEMMA FamAppend ==
  ASSUME LifeInv, FamOK, OwnOK', PoolsKept, "append_orphan" \notin Ops,
         "recycle_entry" \notin Ops, NEW p \in Elems, NEW c \in Elems, AppendChild(p, c)
  PROVE  FamOK'
<1>1. /\ live' = live /\ doc' = doc /\ UsableNode(p) /\ UsableNode(c)
      /\ DocOf(heap, c) # None
  BY DEF AppendChild
<1>2. PICK target : target = DocOf(heap, p) /\ target # None
  BY DEF AppendChild
<1>3. PICK t \in Anchors : heap.pool[p] \in Owned(t)
  BY <1>1, FamilyOfNode
<1>4. PICK s \in Anchors : heap.pool[c] \in Owned(s)
  BY <1>1, FamilyOfNode
<1>5. target \in Owned(t) /\ target \in Docs
  BY <1>2, <1>3, ResolvesWithin, LifeTypes
<1>6. heap.pool[p] # None /\ heap.pool[c] # None
  BY <1>1 DEF UsableNode
<1>7. CASE heap' = Attached(Unlinked(heap, c), p, c) /\ MovesByReference(c, target)
  <2>1. Owned(s) = Owned(t)
    BY <1>1, <1>4, <1>5, <1>7, MovesWithin
  <2>2. ASSUME NEW F \in Families PROVE Within(heap', F)
    <3>1. PICK u : u = Unlinked(heap, c)
      OBVIOUS
    <3>2. /\ None \notin F /\ Within(heap, F) /\ HeapOK(heap, live) /\ live \in SUBSET Docs
      BY FamilyFacts, LifeTypes DEF FamOK, LifeInv
    <3>3. u \in HeapRec /\ u.pool = heap.pool /\ Within(u, F)
      BY <3>1, <3>2, UnlinkedWithin
    <3>4. heap.pool[p] \in F => F = Owned(t)
      BY <1>3, FamilyFacts
    <3>5. heap.pool[c] \in F => F = Owned(s)
      BY <1>4, FamilyFacts
    <3>6. (u.pool[p] \in F => u.pool[c] \in F) /\ (u.pool[c] \in F => u.pool[p] \in F)
      BY <1>3, <1>4, <2>1, <3>3, <3>4, <3>5
    <3>7. heap' = Attached(u, p, c) /\ u.pool[p] # None /\ u.pool[c] # None
      BY <1>6, <1>7, <3>1, <3>3
    <3> QED
      BY <3>3, <3>6, <3>7, AttachedWithin
  <2> QED
    BY <1>1, <2>2, FamHeap DEF PoolsKept
<1>8. CASE \E f \in Copies(heap, c) : heap' = Attached(Copied(heap, c, f, target), p, f[c])
  <2>1. PICK f \in Copies(heap, c) : heap' = Attached(Copied(heap, c, f, target), p, f[c])
    BY <1>8
  <2>2. ASSUME NEW F \in Families PROVE Within(heap', F)
    <3>1. PICK u : u = Copied(heap, c, f, target)
      OBVIOUS
    <3>2. /\ None \notin F /\ Within(heap, F) /\ heap \in HeapRec
      BY FamilyFacts, LifeTypes DEF FamOK
    <3>3. \A x \in Free(heap) : heap.map[x] = None
      BY DEF Free
    <3>4. /\ u \in HeapRec /\ Within(u, F) /\ f[c] \in Elems /\ u.pool[f[c]] = target
          /\ \A x \in Elems : heap.pool[x] # None => u.pool[x] = heap.pool[x]
      BY <1>5, <3>1, <3>2, <3>3, CopiedWithin
    <3>5. u.pool[p] = heap.pool[p]
      BY <1>6, <3>4
    <3>6. heap.pool[p] \in F => F = Owned(t)
      BY <1>3, FamilyFacts
    <3>7. target \in F => F = Owned(t)
      BY <1>5, FamilyFacts
    <3>8. /\ u.pool[p] \in F => u.pool[f[c]] \in F
          /\ u.pool[f[c]] \in F => u.pool[p] \in F
      BY <1>3, <1>5, <3>4, <3>5, <3>6, <3>7
    <3>9. heap' = Attached(u, p, f[c]) /\ u.pool[p] # None /\ u.pool[f[c]] # None
      BY <1>2, <1>6, <2>1, <3>1, <3>4, <3>5
    <3> QED
      BY <3>4, <3>8, <3>9, AttachedWithin
  <2> QED
    BY <1>1, <2>2, FamHeap DEF PoolsKept
<1> QED
  BY <1>2, <1>7, <1>8 DEF AppendChild

LEMMA FamSetRoot ==
  ASSUME LifeInv, FamOK, OwnOK', PoolsKept, "recycle_entry" \notin Ops,
         NEW d \in Docs, NEW e \in Elems, SetRoot(d, e)
  PROVE  FamOK'
<1>1. /\ live' = live /\ d \in Anchors /\ UsableNode(e) /\ DocType /\ heap \in HeapRec
      /\ \A x \in Docs : doc[x] \in DocRec
  BY UsableAnchor, LifeTypes DEF SetRoot, UsableDoc, LifeInv, OwnOK
<1>2. d \in Owned(d)
  BY <1>1, OwnedFacts
<1>3. ASSUME NEW g \in Elems, NEW D \in SUBSET Docs, doc' = Rerooted(d, g, D),
             \A F \in Families : Within(heap', F), heap'.pool[g] \in Owned(d)
      PROVE  FamOK'
  <2>1. \A x \in Docs : /\ doc'[x].child_docs = doc[x].child_docs
                        /\ doc'[x].absorbed_deferred = doc[x].absorbed_deferred
                        /\ x = d => doc'[x].root = g
                        /\ x # d => doc'[x].root = None \/ doc'[x].root = doc[x].root
    <3> SUFFICES ASSUME NEW x \in Docs
        PROVE  /\ doc'[x].child_docs = doc[x].child_docs
               /\ doc'[x].absorbed_deferred = doc[x].absorbed_deferred
               /\ x = d => doc'[x].root = g
               /\ x # d => doc'[x].root = None \/ doc'[x].root = doc[x].root
      OBVIOUS
    <3>1. \/ x = d /\ doc'[x] = WithRoot(doc[x], g)
          \/ x # d /\ (doc'[x] = WithRoot(doc[x], None) \/ doc'[x] = doc[x])
      BY <1>3 DEF Rerooted
    <3> QED
      BY <1>1, <3>1, RootFields
  <2>2. ASSUME NEW t \in Anchors, doc'[t].root # None PROVE heap'.pool[doc'[t].root] \in Owned(t)
    <3>1. CASE t = d
      BY <1>3, <2>1, <3>1
    <3>2. CASE t # d
      <4>1. t \in Docs /\ doc[t].root = doc'[t].root /\ Owned(t) \in Families
        BY <2>1, <2>2, <3>2, LifeTypes DEF Anchors, Families
      <4>2. doc[t].root \in Elems /\ heap.pool[doc[t].root] \in Owned(t)
        BY <2>2, <4>1, OwnTypes DEF FamOK, RootsHome, LifeInv
      <4>3. heap.pool[doc[t].root] # None
        BY <4>1, <4>2, FamilyFacts
      <4> QED
        BY <4>1, <4>2, <4>3 DEF PoolsKept
    <3> QED
      BY <3>1, <3>2
  <2> QED
    BY <1>1, <1>3, <2>1, <2>2, FamKept
<1>4. CASE DocOf(heap, e) = d /\ doc' = [doc EXCEPT ![d].root = e] /\ heap' = Registered(heap, e, d)
  <2>1. PICK t \in Anchors : heap.pool[e] \in Owned(t)
    BY <1>1, FamilyOfNode
  <2>2. d # None
    BY LifeTypes
  <2>3. d \in Owned(t)
    BY <1>4, <2>1, <2>2, ResolvesWithin
  <2>4. Owned(d) = Owned(t)
    BY <1>1, <1>2, <2>3, FamilyFacts, Owned(d) \in Families DEF Families
  <2>5. ASSUME NEW F \in Families PROVE Within(heap', F) /\ heap'.pool = heap.pool
    <3>1. Within(heap, F)
      BY DEF FamOK
    <3>2. heap.pool[e] \in F => d \in F
      BY <1>2, <2>1, <2>4, FamilyFacts
    <3> QED
      BY <1>1, <1>4, <3>1, <3>2, RegisteredWithin
  <2>6. heap'.pool[e] \in Owned(d)
    BY <1>1, <2>1, <2>4, <2>5 DEF Families
  <2>7. doc' = Rerooted(d, e, {})
    BY <1>1, <1>4 DEF DocType, Rerooted, WithRoot
  <2> QED
    BY <1>3, <2>5, <2>6, <2>7
<1>5. CASE \E f \in Copies(heap, e) :
             /\ heap' = Copied(heap, e, f, d)
             /\ doc' = [x \in Docs |->
                  IF x = d THEN [doc[d] EXCEPT !.root = f[e]]
                  ELSE IF x = DocOf(heap, e) /\ doc[x].root = e
                       THEN [doc[x] EXCEPT !.root = None]
                  ELSE doc[x]]
  <2>1. PICK f \in Copies(heap, e) :
             /\ heap' = Copied(heap, e, f, d)
             /\ doc' = [x \in Docs |->
                  IF x = d THEN [doc[d] EXCEPT !.root = f[e]]
                  ELSE IF x = DocOf(heap, e) /\ doc[x].root = e
                       THEN [doc[x] EXCEPT !.root = None]
                  ELSE doc[x]]
    BY <1>5
  <2>2. PICK D \in SUBSET Docs : D = {x \in Docs : x = DocOf(heap, e) /\ doc[x].root = e}
    OBVIOUS
  <2>3. doc' = Rerooted(d, f[e], D)
    BY <2>1, <2>2 DEF Rerooted, WithRoot
  <2>4. \A x \in Free(heap) : heap.map[x] = None
    BY DEF Free
  <2>5. ASSUME NEW F \in Families
        PROVE  Within(heap', F) /\ f[e] \in Elems /\ heap'.pool[f[e]] = d
    <3>1. None \notin F /\ Within(heap, F)
      BY FamilyFacts DEF FamOK
    <3> QED
      BY <1>1, <2>1, <2>4, <3>1, CopiedWithin
  <2>6. Owned(d) \in Families
    BY <1>1 DEF Families
  <2> QED
    BY <1>2, <1>3, <2>3, <2>5, <2>6
<1> QED
  BY <1>4, <1>5 DEF SetRoot

LEMMA FamFreeHandle ==
  ASSUME LifeInv, FamOK, OwnOK', PoolsKept, NEW d \in Docs, FreeHandle(d)
  PROVE  FamOK'
<1>1. live' = live /\ heap' = heap /\ doc' = [doc EXCEPT ![d].absorbed_handle = 0]
  BY DEF FreeHandle
<1>2. \A x \in Docs : doc[x] \in DocRec /\ doc'[x] = IF x = d THEN NoHandle(doc[x]) ELSE doc[x]
  BY <1>1, LifeTypes DEF NoHandle
<1>3. \A x \in Docs : /\ doc'[x].child_docs = doc[x].child_docs
                      /\ doc'[x].absorbed_deferred = doc[x].absorbed_deferred
                      /\ doc'[x].root = doc[x].root
  BY <1>2, HandleFields
<1>4. \A t \in Anchors : doc'[t].root # None => heap'.pool[doc'[t].root] \in Owned(t)
  BY <1>1, <1>3, LifeTypes DEF FamOK, RootsHome, Anchors
<1> QED
  BY <1>1, <1>3, <1>4, FamKept DEF FamOK

LEMMA OwnedAlone ==
  ASSUME DocType, NEW d \in Docs, doc[d].child_docs = {}
  PROVE  Owned(d) = {d}
<1>1. PICK T : T = {d}
  OBVIOUS
<1>2. T \in SUBSET Docs /\ d \in T /\ \A x \in T : doc[x].child_docs \subseteq T
  BY <1>1
<1>3. Owned(d) \subseteq T
  BY <1>2, OwnedLeast
<1> QED
  BY <1>1, <1>3, OwnedFacts

LEMMA ParseWithin ==
  ASSUME LifeInv, NEW F, None \notin F, Within(heap, F), "recycle_entry" \notin Ops,
         NEW d \in Docs, NEW r \in Elems, NEW k \in Elems \cup {None}, Parse(d, r, k)
  PROVE  Within(heap', F) /\ heap'.pool[r] = d
<1>1. PICK m, s : m = Made(heap, r, d, None) /\ s = Registered(m, r, d)
  OBVIOUS
<1>2. heap \in HeapRec /\ heap.pool[r] = None /\ heap.map[r] = None /\ d # None /\ None \in Docs \cup {None}
  BY LifeTypes DEF Parse, Free
<1>3. m \in HeapRec /\ m.pool[r] = d /\ Within(m, F)
  BY <1>1, <1>2, MadeWithin
<1>4. m.map = heap.map /\ \A x \in Elems : m.pool[x] = IF x = r THEN d ELSE heap.pool[x]
  BY <1>1, <1>2, MadeFields
<1>5. s \in HeapRec /\ s.pool = m.pool /\ Within(s, F)
  BY <1>1, <1>3, RegisteredWithin
<1>6. \A x \in Elems : s.map[x] = IF x = r /\ d # None THEN d ELSE m.map[x]
  BY <1>1, <1>3, RegisteredFields
<1>7. CASE k = None
  BY <1>1, <1>3, <1>5, <1>7 DEF Parse
<1>8. CASE k # None
  <2>1. k \in Elems /\ k # r /\ heap.pool[k] = None /\ heap.map[k] = None
    BY <1>8 DEF Parse, Free
  <2>2. s.pool[k] = None /\ s.map[k] = None
    BY <1>4, <1>5, <1>6, <2>1
  <2>3. PICK q : q = Made(s, k, d, None)
    OBVIOUS
  <2>4. q \in HeapRec /\ q.pool[k] = d /\ Within(q, F)
    BY <1>2, <1>5, <2>1, <2>2, <2>3, MadeWithin
  <2>5. \A x \in Elems : q.pool[x] = IF x = k THEN d ELSE s.pool[x]
    BY <1>2, <1>5, <2>1, <2>3, MadeFields
  <2>6. q.pool[r] = d
    BY <1>3, <1>5, <2>1, <2>5
  <2>7. heap' = Attached(q, r, k)
    BY <1>1, <1>8, <2>3 DEF Parse
  <2>8. heap'.pool = q.pool
    BY <2>1, <2>4, <2>7, AttachedPool
  <2> QED
    BY <1>2, <2>1, <2>4, <2>6, <2>7, <2>8, AttachedWithin
<1> QED
  BY <1>7, <1>8

LEMMA FamParse ==
  ASSUME LifeInv, FamOK, OwnOK', PoolsKept, "recycle_entry" \notin Ops,
         NEW d \in Docs, NEW r \in Elems, NEW k \in Elems \cup {None}, Parse(d, r, k)
  PROVE  FamOK'
<1>1. /\ live' = live \cup {d} /\ d \notin live /\ live \subseteq Docs /\ d # None
      /\ doc' = [doc EXCEPT ![d] = NewDoc(r)]
  BY LifeTypes DEF Parse
<1>2. DocType /\ OwnOK /\ heap \in HeapRec /\ \A x \in Docs : doc[x] \in DocRec
  BY LifeTypes DEF LifeInv, OwnOK
<1>3. doc[d].child_docs = {} /\ ~ doc[d].absorbed_deferred /\ ~ IsOwned(d)
  BY <1>1, <1>2, OwnTypes DEF DocOK, IsOwned
<1>4. \A x \in Docs : doc'[x] = IF x = d THEN NewDoc(r) ELSE doc[x]
  BY <1>1, <1>2 DEF DocType
<1>5. \A x \in Docs : /\ doc'[x].child_docs = doc[x].child_docs
                      /\ doc'[x].absorbed_deferred <=> doc[x].absorbed_deferred
                      /\ x = d => doc'[x].root = r
  BY <1>3, <1>4, FreshFields
<1>6. \A x \in Docs : Owned(x)' = Owned(x) /\ (IsOwned(x)' <=> IsOwned(x))
  <2>1. [x \in Docs |-> doc'[x].child_docs] = [x \in Docs |-> doc[x].child_docs]
    BY <1>5
  <2> QED
    BY <2>1 DEF Owned, IsOwned
<1>7. Owned(d) = {d}
  BY <1>2, <1>3, OwnedAlone
<1>8. \A t \in Docs : t \in Anchors' <=> t \in Anchors \/ t = d
  BY <1>1, <1>2, <1>3, <1>5, <1>6, AnchorsThen, AnchorHeads DEF FamilyHead
<1>9. Headed'
  <2> SUFFICES ASSUME NEW x \in live' PROVE \E t \in live' : ~ IsOwned(t)' /\ x \in Owned(t)'
    BY DEF Headed
  <2>1. CASE x = d
    BY <1>1, <1>3, <1>6, <1>7, <2>1
  <2>2. CASE x \in live
    <3>1. PICK t \in live : ~ IsOwned(t) /\ x \in Owned(t)
      BY <2>2 DEF FamOK, Headed
    <3> QED
      BY <1>1, <1>6, <3>1
  <2> QED
    BY <1>1, <2>1, <2>2
<1>10. Within(heap, {d})
  <2>1. \A x \in Elems : heap.pool[x] # d
    BY <1>1 DEF LifeInv, HeapOK, NodeOK
  <2>2. \A x \in Elems : Clean(heap, x)
    BY DEF FamOK, Families, Within
  <2> QED
    BY <2>1, <2>2 DEF Within, Stays
<1>11. ASSUME NEW t \in Anchors' PROVE Within(heap', Owned(t)')
  <2>1. t \in Docs
    BY <1>1 DEF Anchors
  <2>2. CASE t = d
    BY <1>1, <1>6, <1>7, <1>10, <2>2, ParseWithin
  <2>3. CASE t \in Anchors
    <3>1. Owned(t) \in Families
      BY <2>3 DEF Families
    <3>2. None \notin Owned(t) /\ Within(heap, Owned(t))
      BY <3>1, FamilyFacts DEF FamOK
    <3> QED
      BY <1>6, <2>1, <3>2, ParseWithin
  <2> QED
    BY <1>8, <2>1, <2>2, <2>3
<1>12. Within(heap', {}) /\ heap'.pool[r] = d
  BY ParseWithin DEF FamOK, Families
<1>13. RootsHome'
  <2> SUFFICES ASSUME NEW t \in Anchors', doc'[t].root # None
      PROVE  heap'.pool[doc'[t].root] \in Owned(t)'
    BY DEF RootsHome
  <2>1. t \in Docs
    BY <1>1 DEF Anchors
  <2>2. CASE t = d
    BY <1>5, <1>6, <1>7, <1>12, <2>1, <2>2
  <2>3. CASE t # d
    <3>1. t \in Anchors /\ doc'[t] = doc[t] /\ Owned(t) \in Families
      BY <1>4, <1>8, <2>1, <2>3 DEF Families
    <3>2. doc[t].root \in Elems /\ heap.pool[doc[t].root] \in Owned(t)
      BY <1>2, <2>1, <3>1, OwnTypes DEF FamOK, RootsHome
    <3>3. heap.pool[doc[t].root] # None
      BY <3>1, <3>2, FamilyFacts
    <3> QED
      BY <1>6, <2>1, <3>1, <3>2, <3>3 DEF PoolsKept
  <2> QED
    BY <2>2, <2>3
<1> QED
  BY <1>9, <1>11, <1>12, <1>13 DEF FamOK, Families

(* d comes to own c, and the documents c owns.                               *)
Adopts(d, c) ==
  \A x \in Docs : doc'[x].child_docs =
    IF x = d THEN doc[x].child_docs \cup {c} ELSE doc[x].child_docs
KeepsDeferred == \A x \in Docs : doc'[x].absorbed_deferred <=> doc[x].absorbed_deferred
KeepsRoots(c) == \A x \in Docs : x # c => doc'[x].root = doc[x].root

LEMMA AdoptTrees ==
  ASSUME DocType, DocType', NEW d \in Docs, NEW c \in Docs, Adopts(d, c)
  PROVE  /\ Owned(d)' = Owned(d) \cup Owned(c)
         /\ \A t \in Docs : /\ Owned(t) \subseteq Owned(t)'
                            /\ d \notin Owned(t) => Owned(t)' = Owned(t)
<1>1. PICK N : Tree(N)
  BY TreeNow
<1>2. PICK M : Tree(M)'
  BY TreeThen
<1>3. /\ N \in [Docs -> SUBSET Docs] /\ \A x \in Docs : N[x] = doc[x].child_docs
      /\ \A t \in Docs : Owned(t) = Reached(t, N)
  BY <1>1 DEF Tree
<1>4. /\ M \in [Docs -> SUBSET Docs] /\ \A x \in Docs : M[x] = doc'[x].child_docs
      /\ \A t \in Docs : Owned(t)' = Reached(t, M)
  BY <1>2 DEF Tree
<1>5. Adds(N, M, d, c)
  BY <1>3, <1>4 DEF Adds, Adopts
<1>9. \A x \in Docs : x # d => M[x] = N[x]
  BY <1>5 DEF Adds
<1>10. \A x \in Docs : N[x] \subseteq M[x]
  BY <1>5 DEF Adds
<1>6. Owned(d)' = Owned(d) \cup Owned(c)
  <2>1. Reached(d, M) = Reached(d, N) \cup Reached(c, N)
    BY <1>3, <1>4, <1>5, ReachedWith
  <2> QED
    BY <1>3, <1>4, <2>1
<1>7. ASSUME NEW t \in Docs PROVE Owned(t) \subseteq Owned(t)'
  <2>1. Reached(t, N) \subseteq Reached(t, M)
    BY <1>3, <1>4, <1>10, ReachedMore
  <2> QED
    BY <1>3, <1>4, <2>1
<1>8. ASSUME NEW t \in Docs, d \notin Owned(t) PROVE Owned(t)' = Owned(t)
  <2>1. Owned(t) \subseteq Docs
    BY OwnedFacts
  <2>2. \A x \in Reached(t, N) : M[x] = N[x]
    BY <1>3, <1>8, <1>9, <2>1
  <2> QED
    BY <1>3, <1>4, <2>2, ReachedAlike
<1> QED
  BY <1>6, <1>7, <1>8

LEMMA FamAdopt ==
  ASSUME LifeInv, FamOK, OwnOK', PoolsKept, NEW d \in Anchors, NEW c \in Docs, c # d,
         c \in live => c \in Anchors, c \notin live => doc[c].child_docs = {},
         live' = live \cup {c}, Adopts(d, c), KeepsDeferred, KeepsRoots(c),
         \A F \in Families : F # Owned(d) => Within(heap', F),
         Within(heap', Owned(d) \cup Owned(c))
  PROVE  FamOK'
<1>1. DocType /\ DocType' /\ OwnOK /\ live \subseteq Docs /\ d \in Docs /\ None \notin Docs
  BY LifeTypes DEF LifeInv, OwnOK, Anchors
<1>2. /\ Owned(d)' = Owned(d) \cup Owned(c)
      /\ \A t \in Docs : /\ Owned(t) \subseteq Owned(t)'
                         /\ d \notin Owned(t) => Owned(t)' = Owned(t)
  BY <1>1, AdoptTrees
<1>3. \A t \in Docs : IsOwned(t)' <=> (IsOwned(t) \/ t = c)
  BY <1>1 DEF IsOwned, Adopts
<1>4. \A t \in Docs : t \in Anchors' <=> (t \in Anchors /\ t # c)
  BY <1>1, <1>3, AnchorsThen, AnchorHeads DEF FamilyHead, KeepsDeferred
<1>5. d \in Owned(d) /\ c \in Owned(c) /\ ~ IsOwned(d) /\ d \in live
  BY <1>1, OwnedFacts, AnchorHeads DEF FamilyHead
<1>6. \A t \in Anchors : t # d => d \notin Owned(t)
  BY <1>1, <1>5, HeadsApart, AnchorHeads DEF FamilyHead, Anchors
<1>7. ASSUME NEW t \in Anchors' PROVE Within(heap', Owned(t)')
  <2>1. t \in Docs /\ t \in Anchors
    BY <1>1, <1>4 DEF Anchors
  <2>2. CASE t = d
    BY <1>2, <2>2
  <2>3. CASE t # d
    <3>1. d \notin Owned(t) /\ Owned(t)' = Owned(t)
      BY <1>2, <1>6, <2>1, <2>3
    <3>2. Owned(t) \in Families /\ Owned(t) # Owned(d)
      BY <1>5, <2>1, <3>1 DEF Families
    <3> QED
      BY <3>1, <3>2
  <2> QED
    BY <2>2, <2>3
<1>8. Within(heap', {})
  <2>1. {} \in Families /\ {} # Owned(d)
    BY <1>5 DEF Families
  <2> QED
    BY <2>1
<1>9. Headed'
  <2> SUFFICES ASSUME NEW x \in live' PROVE \E t \in live' : ~ IsOwned(t)' /\ x \in Owned(t)'
    BY DEF Headed
  <2>1. d \in live' /\ ~ IsOwned(d)'
    BY <1>1, <1>3, <1>5
  <2>2. CASE x \in Owned(c)
    BY <1>2, <2>1, <2>2
  <2>3. CASE x \notin Owned(c)
    <3>1. x \in live
      BY <1>5, <2>3
    <3>2. PICK t \in live : ~ IsOwned(t) /\ x \in Owned(t)
      BY <3>1 DEF FamOK, Headed
    <3>3. t # c /\ t \in Docs
      BY <1>1, <2>3, <3>2
    <3> QED
      BY <1>2, <1>3, <3>2, <3>3
  <2> QED
    BY <2>2, <2>3
<1>10. RootsHome'
  <2> SUFFICES ASSUME NEW t \in Anchors', doc'[t].root # None
      PROVE  heap'.pool[doc'[t].root] \in Owned(t)'
    BY DEF RootsHome
  <2>1. t \in Docs /\ t \in Anchors /\ t # c
    BY <1>1, <1>4 DEF Anchors
  <2>2. doc'[t].root = doc[t].root /\ Owned(t) \in Families
    BY <2>1 DEF Families, KeepsRoots
  <2>3. doc[t].root \in Elems /\ heap.pool[doc[t].root] \in Owned(t)
    BY <1>1, <2>1, <2>2, OwnTypes DEF FamOK, RootsHome
  <2>4. heap.pool[doc[t].root] # None
    BY <2>2, <2>3, FamilyFacts
  <2> QED
    BY <1>2, <2>1, <2>2, <2>3, <2>4 DEF PoolsKept
<1> QED
  BY <1>7, <1>8, <1>9, <1>10 DEF FamOK, Families

LEMMA FamAbsorb ==
  ASSUME LifeInv, FamOK, OwnOK', PoolsKept, NEW dst \in Docs, NEW src \in Docs, Absorb(dst, src)
  PROVE  FamOK'
<1>1. /\ live' = live /\ heap' = heap /\ dst # src /\ dst \in held /\ src \in held
      /\ doc[dst].absorbed_by = None /\ doc[src].absorbed_by = None
      /\ doc' = [doc EXCEPT ![dst].child_docs = @ \cup {src},
                            ![src].absorbed_by = dst, ![src].absorbed_handle = 1]
  BY DEF Absorb
<1>2. dst \in Anchors /\ src \in Anchors /\ src \in live
  BY <1>1, UsableAnchor DEF LifeInv, Anchors
<1>3. \A x \in Docs : doc[x] \in DocRec
  BY LifeTypes
<1>7. /\ doc'[dst] = WithChild(doc[dst], src) /\ doc'[src] = AbsorbedBy(doc[src], dst)
      /\ \A x \in Docs : x # dst /\ x # src => doc'[x] = doc[x]
  BY <1>1, LifeTypes DEF WithChild, AbsorbedBy
<1>8. /\ doc'[dst].child_docs = doc[dst].child_docs \cup {src}
      /\ doc'[dst].absorbed_deferred = doc[dst].absorbed_deferred
      /\ doc'[dst].root = doc[dst].root
  BY <1>3, <1>7, ChildFields
<1>9. /\ doc'[src].child_docs = doc[src].child_docs
      /\ doc'[src].absorbed_deferred = doc[src].absorbed_deferred
      /\ doc'[src].root = doc[src].root
  BY <1>3, <1>7, AbsorbedFields
<1>4. Adopts(dst, src) /\ KeepsDeferred /\ KeepsRoots(src)
  <2>1. Adopts(dst, src)
    <3>1. \A x \in Docs : x # dst => doc'[x].child_docs = doc[x].child_docs
      BY <1>7, <1>9
    <3> QED
      BY <1>8, <3>1 DEF Adopts
  <2>2. KeepsDeferred
    BY <1>7, <1>8, <1>9 DEF KeepsDeferred
  <2>3. KeepsRoots(src)
    BY <1>7, <1>8 DEF KeepsRoots
  <2> QED
    BY <2>1, <2>2, <2>3
<1>5. Within(heap, Owned(dst)) /\ Within(heap, Owned(src)) /\ \A F \in Families : Within(heap, F)
  BY <1>2 DEF FamOK, Families
<1>6. Within(heap, Owned(dst) \cup Owned(src))
  BY <1>5 DEF Within, Stays
<1> QED
  BY <1>1, <1>2, <1>4, <1>5, <1>6, FamAdopt

(* A new node of x, registered to d and hung below p.                        *)
LEMMA HungWithin ==
  ASSUME NEW h \in HeapRec, NEW F, None \notin F, Within(h, F), NEW d \in Docs, NEW x \in Docs,
         NEW p \in Elems, NEW r \in Elems, h.pool[r] = None, h.map[r] = None, h.pool[p] # None,
         x \in F => h.pool[p] \in F /\ d \in F, h.pool[p] \in F => x \in F,
         NEW q, q = Attached(Registered(Made(h, r, x, None), r, d), p, r)
  PROVE  Within(q, F)
<1>1. PICK m, s : m = Made(h, r, x, None) /\ s = Registered(m, r, d)
  OBVIOUS
<1>2. None \in Docs \cup {None} /\ None \notin Docs
  BY DocLifecycleAssumption
<1>3. m \in HeapRec /\ m.pool[r] = x /\ Within(m, F)
  BY <1>1, <1>2, MadeWithin
<1>4. p # r /\ m.pool[p] = h.pool[p]
  <2>1. p # r
    OBVIOUS
  <2> QED
    BY <1>1, <1>2, <2>1, MadeKeeps
<1>5. s \in HeapRec /\ s.pool = m.pool /\ Within(s, F)
  BY <1>1, <1>3, RegisteredWithin
<1>6. s.pool[r] = x /\ s.pool[p] = h.pool[p] /\ p # r
  BY <1>3, <1>4, <1>5
<1>7. q = Attached(s, p, r) /\ s.pool[p] # None /\ s.pool[r] # None
  BY <1>1, <1>2, <1>6
<1> QED
  BY <1>5, <1>6, <1>7, AttachedWithin

LEMMA FamInclude ==
  ASSUME LifeInv, FamOK, OwnOK', PoolsKept, "recycle_entry" \notin Ops,
         NEW d \in Docs, NEW x \in Docs, NEW p \in Elems, NEW r \in Elems, Include(d, p, x, r)
  PROVE  FamOK'
<1>1. /\ live' = live \cup {x} /\ x \notin live /\ d \in Anchors /\ d \in live /\ d # x
      /\ doc' = [doc EXCEPT ![x] = NewDoc(None), ![d].child_docs = @ \cup {x}]
      /\ heap' = Attached(Registered(Made(heap, r, x, None), r, d), p, r)
      /\ doc[d].root # None /\ p \in Subtree(heap, doc[d].root)
      /\ heap.pool[r] = None /\ heap.map[r] = None
  BY UsableAnchor DEF Include, UsableDoc, LifeInv, Anchors, Free
<1>2. /\ DocType /\ OwnOK /\ heap \in HeapRec /\ \A y \in Docs : doc[y] \in DocRec
      /\ None \notin Docs /\ None \in Docs \cup {None}
  BY LifeTypes DEF LifeInv, OwnOK
<1>3. /\ doc[x].child_docs = {} /\ ~ doc[x].absorbed_deferred /\ doc[d].root \in Elems
      /\ \A y \in Docs : doc[y].child_docs \subseteq live
  BY <1>1, <1>2, OwnTypes DEF DocOK
<1>4. \A y \in Docs : /\ y = x => doc'[y] = NewDoc(None)
                      /\ y = d => doc'[y] = WithChild(doc[y], x)
                      /\ y # x /\ y # d => doc'[y] = doc[y]
  BY <1>1, <1>2 DEF DocType, WithChild
<1>11. /\ doc'[d].child_docs = doc[d].child_docs \cup {x}
       /\ doc'[d].absorbed_deferred = doc[d].absorbed_deferred
       /\ doc'[d].root = doc[d].root
  <2>1. d \in Docs /\ doc[d] \in DocRec /\ doc'[d] = WithChild(doc[d], x)
    BY <1>2, <1>4
  <2> QED
    BY <2>1, ChildFields
<1>12. doc'[x].child_docs = {} /\ ~ doc'[x].absorbed_deferred
  BY <1>4, FreshFields
<1>5. Adopts(d, x) /\ KeepsDeferred /\ KeepsRoots(x)
  <2>1. Adopts(d, x)
    <3>1. \A y \in Docs : y # x /\ y # d => doc'[y].child_docs = doc[y].child_docs
      BY <1>4
    <3>2. d # x /\ doc'[x].child_docs = doc[x].child_docs
      BY <1>1, <1>3, <1>12
    <3> QED
      BY <1>11, <3>1, <3>2 DEF Adopts
  <2>2. KeepsDeferred
    BY <1>1, <1>3, <1>4, <1>11, <1>12 DEF KeepsDeferred
  <2>3. KeepsRoots(x)
    BY <1>1, <1>4, <1>11 DEF KeepsRoots
  <2> QED
    BY <2>1, <2>2, <2>3
<1>6. Owned(x) = {x} /\ Owned(d) \in Families /\ d \in Owned(d)
  BY <1>1, <1>2, <1>3, OwnedAlone, OwnedFacts DEF Families
<1>7. p \in Elems /\ heap.pool[p] \in Owned(d) /\ heap.pool[p] # None
  <2>1. heap.pool[doc[d].root] \in Owned(d) /\ Within(heap, Owned(d)) /\ None \notin Owned(d)
    BY <1>1, <1>6, FamilyFacts DEF FamOK, RootsHome
  <2> QED
    BY <1>1, <1>2, <1>3, <2>1, TreeWithin
<1>8. ASSUME NEW F, None \notin F, Within(heap, F),
             x \in F => heap.pool[p] \in F /\ d \in F, heap.pool[p] \in F => x \in F
      PROVE  Within(heap', F)
  BY <1>1, <1>2, <1>7, <1>8, HungWithin
<1>9. ASSUME NEW F \in Families, F # Owned(d) PROVE Within(heap', F)
  <2>1. None \notin F /\ Within(heap, F) /\ heap.pool[p] \notin F
    BY <1>1, <1>7, <1>9, FamilyFacts DEF FamOK
  <2>2. x \notin F
    <3>1. CASE F = {}
      BY <3>1
    <3>2. ASSUME NEW t \in Anchors, F = Owned(t), x \in F PROVE FALSE
      <4>1. t \in live /\ t \in Docs /\ x # t
        BY <1>1, LifeTypes DEF Anchors
      <4>2. \A y \in Docs : x \notin doc[y].child_docs
        BY <1>1, <1>3
      <4> QED
        BY <1>2, <3>2, <4>1, <4>2, OwnedFacts
    <3> QED
      BY <3>1, <3>2 DEF Families
  <2> QED
    BY <1>8, <2>1, <2>2
<1>10. Within(heap', Owned(d) \cup Owned(x))
  <2>1. Within(heap, Owned(d)) /\ None \notin Owned(d)
    BY <1>6, FamilyFacts DEF FamOK
  <2>2. \A y \in Elems : heap.pool[y] # x
    BY <1>1, <1>2 DEF LifeInv, HeapOK, NodeOK
  <2>3. Within(heap, Owned(d) \cup {x})
    BY <2>1, <2>2 DEF Within, Stays
  <2>4. None \notin Owned(d) \cup {x}
    BY <1>2, <2>1
  <2> QED
    BY <1>6, <1>7, <1>8, <2>3, <2>4
<1> QED
  BY <1>1, <1>3, <1>5, <1>9, <1>10, FamAdopt

-------------------------------------------------------------------------------
(* Freeing a document: what it releases is its own family's, and what it     *)
(* leaves behind hangs below the documents whose handles are still out.      *)
LEMMA ReleasedOwned ==
  ASSUME DocType, NEW d \in Docs
  PROVE  Released(d) \subseteq Owned(d)
<1> DEFINE T == Released(d) \cap Owned(d)
<1>1. PICK next \in [Docs -> SUBSET Docs] :
        next = [x \in Docs |-> {c \in doc[x].child_docs : doc[c].absorbed_handle = 0}]
  BY DEF DocType, DocRec
<1>2. PICK all : Tree(all)
  BY TreeNow
<1>3. /\ all \in [Docs -> SUBSET Docs] /\ \A x \in Docs : all[x] = doc[x].child_docs
      /\ Owned(d) = Reached(d, all) /\ Released(d) = Reached(d, next)
  BY <1>1, <1>2 DEF Tree, Released
<1>4. \A x \in Docs : next[x] \subseteq all[x]
  BY <1>1, <1>3
<1>5. Reached(d, next) \subseteq Reached(d, all)
  BY <1>3, <1>4, ReachedMore
<1> QED
  BY <1>3, <1>5

FreedDocs(d) == \A x \in Docs :
  /\ x \in Deferred(d) => x \notin Released(d)
  /\ x \in Released(d) => doc'[x].child_docs = {}
  /\ x \notin Released(d) => doc'[x].child_docs = doc[x].child_docs
  /\ x \notin Released(d) /\ x \notin Deferred(d) => doc'[x] = doc[x]
  /\ x \in Deferred(d) => doc'[x].absorbed_deferred

LEMMA FreeDocs ==
  ASSUME OwnOK, NEW d \in Docs, FreeDocument(d)
  PROVE  FreedDocs(d)
<1>1. doc' = [x \in Docs |->
       IF x \in Deferred(d) THEN Outlived(doc[x])
       ELSE IF x \in Released(d) THEN NewDoc(None) ELSE doc[x]]
  BY DEF FreeDocument, Outlived
<1>2. \A x \in Deferred(d) : x \notin Released(d)
  BY DEF Deferred
<1>3. \A x \in Docs : doc[x] \in DocRec
  BY DEF OwnOK, DocType
<1>4. ASSUME NEW x \in Docs, x \in Deferred(d)
      PROVE  doc'[x].child_docs = doc[x].child_docs /\ doc'[x].absorbed_deferred
  <2>1. doc'[x] = Outlived(doc[x]) /\ doc[x] \in DocRec
    BY <1>1, <1>3, <1>4
  <2> QED
    BY <2>1, OutlivedFields
<1>5. ASSUME NEW x \in Docs, x \in Released(d) PROVE doc'[x].child_docs = {}
  <2>1. doc'[x] = NewDoc(None)
    BY <1>1, <1>2, <1>5
  <2> QED
    BY <2>1 DEF NewDoc
<1>6. ASSUME NEW x \in Docs, x \notin Released(d), x \notin Deferred(d) PROVE doc'[x] = doc[x]
  BY <1>1, <1>6
<1> QED
  BY <1>2, <1>4, <1>5, <1>6 DEF FreedDocs

LEMMA FreeOwned ==
  ASSUME OwnOK, OwnOK', NEW d \in Docs, Rooted(d), FreedDocs(d), NEW t \in Docs, ~ IsOwned(t), t # d
  PROVE  Owned(t)' = Owned(t) /\ Owned(t) \cap Released(d) = {}
<1>1. DocType /\ DocType' /\ ~ IsOwned(d)
  BY AnchorHeads DEF OwnOK, FamilyHead
<1>2. Owned(t) \cap Released(d) = {} /\ Owned(t) \subseteq Docs
  BY <1>1, HeadsApart, ReleasedOwned, OwnedFacts
<1>3. PICK N : Tree(N)
  BY <1>1, TreeNow
<1>4. PICK M : Tree(M)'
  BY <1>1, TreeThen
<1>5. /\ N \in [Docs -> SUBSET Docs] /\ \A x \in Docs : N[x] = doc[x].child_docs
      /\ Owned(t) = Reached(t, N)
  BY <1>3 DEF Tree
<1>6. /\ M \in [Docs -> SUBSET Docs] /\ \A x \in Docs : M[x] = doc'[x].child_docs
      /\ Owned(t)' = Reached(t, M)
  BY <1>4 DEF Tree
<1>7. \A x \in Reached(t, N) : M[x] = N[x]
  BY <1>2, <1>5, <1>6 DEF FreedDocs
<1> QED
  BY <1>2, <1>5, <1>6, <1>7, ReachedAlike

LEMMA FreeLeaves ==
  ASSUME OwnOK, OwnOK', NEW d \in Docs, FreedDocs(d), NEW x \in Owned(d), x \notin Released(d)
  PROVE  \E y \in Deferred(d) : y \in Docs /\ x \in Owned(y)'
<1> DEFINE Left == {z \in Docs : \E y \in Deferred(d) : y \in Docs /\ z \in Owned(y)'}
           T == Released(d) \cup Left
<1>1. DocType /\ DocType' /\ \A z \in Docs : doc[z].child_docs \subseteq Docs
  BY OwnTypes DEF OwnOK
<1>2. d \in Released(d) /\ Released(d) \subseteq Docs
  BY <1>1, ReleasedFacts
<1>3. PICK M : Tree(M)'
  BY <1>1, TreeThen
<1>4. /\ M \in [Docs -> SUBSET Docs] /\ \A z \in Docs : M[z] = doc'[z].child_docs
      /\ \A y \in Docs : Owned(y)' = Reached(y, M)
  BY <1>3 DEF Tree
<1>5. ASSUME NEW y \in Docs
      PROVE  /\ y \in Owned(y)' /\ Owned(y)' \subseteq Docs
             /\ \A z \in Owned(y)' : doc'[z].child_docs \subseteq Owned(y)'
  <2>1. y \in Reached(y, M) /\ Reached(y, M) \subseteq Docs
        /\ \A z \in Reached(y, M) : M[z] \subseteq Reached(y, M)
    BY <1>4, ReachedSet, DocLifecycleAssumption
  <2> QED
    BY <1>4, <2>1
<1>6. ASSUME NEW z \in Released(d), NEW c \in doc[z].child_docs PROVE c \in T
  <2>1. c \in Docs /\ (c \in Released(d) \/ c \in Deferred(d))
    BY <1>1, <1>2, <1>6 DEF Deferred
  <2> QED
    BY <1>5, <2>1
<1>7. ASSUME NEW z \in Left, z \notin Released(d), NEW c \in doc[z].child_docs PROVE c \in T
  <2>1. PICK y \in Deferred(d) : y \in Docs /\ z \in Owned(y)'
    BY <1>7
  <2>2. doc'[z].child_docs = doc[z].child_docs
    BY <1>7 DEF FreedDocs
  <2>3. c \in Docs /\ c \in Owned(y)'
    BY <1>1, <1>5, <1>7, <2>1, <2>2
  <2> QED
    BY <2>1, <2>3
<1>8. T \in SUBSET Docs /\ d \in T /\ \A z \in T : doc[z].child_docs \subseteq T
  BY <1>2, <1>6, <1>7
<1>9. Owned(d) \subseteq T
  <2> HIDE DEF T
  <2> QED
    BY <1>1, <1>8, OwnedLeast
<1> QED
  BY <1>9

LEMMA FamFree ==
  ASSUME LifeInv, FamOK, OwnOK', NEW d \in Docs, FreeDocument(d)
  PROVE  FamOK'
<1>0. /\ live' = live \ Released(d) /\ d \in held /\ Rooted(d)
      /\ FreedDocs(d) /\ OwnOK /\ DocType /\ live \subseteq Docs
  BY FreeDocs, LifeTypes DEF FreeDocument, MayFree, Rooted, LifeInv, OwnOK
<1>1. d \in Released(d) /\ Released(d) \subseteq Docs
  BY <1>0, ReleasedFacts
<1>2. \A y \in Docs : y \in Deferred(d) <=> (y \notin Released(d) /\ \E z \in Released(d) : y \in doc[z].child_docs)
  BY DEF Deferred
<1>3. ASSUME NEW t \in Docs, t \notin Released(d), t \notin Deferred(d)
      PROVE  IsOwned(t)' <=> IsOwned(t)
  BY <1>0, <1>1, <1>2, <1>3 DEF IsOwned, FreedDocs
<1>4. ASSUME NEW y \in Docs, y \in Deferred(d) PROVE y \in live' /\ ~ IsOwned(y)'
  <2>1. PICK z \in Released(d) : y \in doc[z].child_docs /\ y \notin Released(d)
    BY <1>2, <1>4
  <2>2. y \in live'
    BY <1>0, <1>1, <2>1, OwnTypes DEF DocOK
  <2>3. \A x \in Docs : y \in doc[x].child_docs => x = z
    BY <1>0, <1>1, <2>1, OwnTypes DEF ChildOK
  <2> QED
    BY <1>0, <2>1, <2>2, <2>3 DEF IsOwned, FreedDocs
<1>5. ASSUME NEW t \in Anchors'
      PROVE  /\ t \in Anchors /\ t \in Docs /\ t # d /\ doc'[t] = doc[t]
             /\ Owned(t)' = Owned(t) /\ Owned(t) \cap Released(d) = {}
  <2>1. t \in Docs /\ t \in live' /\ ~ IsOwned(t)' /\ ~ doc'[t].absorbed_deferred
    <3>1. t \in live' /\ t \in Docs
      BY <1>0 DEF Anchors
    <3> QED
      BY <3>1, AnchorsThen
  <2>2. t \notin Released(d) /\ t \notin Deferred(d) /\ t # d /\ t \in live
    BY <1>0, <1>1, <2>1 DEF FreedDocs
  <2>3. doc'[t] = doc[t] /\ ~ IsOwned(t)
    BY <1>0, <1>3, <2>1, <2>2 DEF FreedDocs
  <2>4. t \in Anchors
    BY <1>0, <2>1, <2>2, <2>3, AnchorHeads DEF FamilyHead
  <2> QED
    BY <1>0, <2>1, <2>2, <2>3, <2>4, FreeOwned
<1>13. PICK root : heap' = Freed([heap EXCEPT !.map = [e \in Elems |->
                        IF e = root THEN None ELSE @[e]]], Released(d))
  BY DEF FreeDocument
<1>6. PICK s : s = [heap EXCEPT !.map = [e \in Elems |-> IF e = root THEN None ELSE @[e]]]
  OBVIOUS
<1>7. /\ s \in HeapRec /\ s.pool = heap.pool /\ s.parent = heap.parent /\ s.kids = heap.kids
      /\ \A e \in Elems : s.map[e] = None \/ s.map[e] = heap.map[e]
  BY <1>6, LifeTypes, SweptFields
<1>8. heap' = Freed(s, Released(d))
  BY <1>6, <1>13
<1>9. ASSUME NEW F \in Families, F \cap Released(d) = {} PROVE Within(heap', F)
  <2>1. None \notin F /\ Within(heap, F)
    BY FamilyFacts DEF FamOK
  <2>2. Within(s, F)
    BY <1>7, <2>1 DEF Within, Clean, Stays
  <2> QED
    BY <1>7, <1>8, <1>9, <2>1, <2>2, FreedWithin
<1>10. ASSUME NEW F \in Families' PROVE Within(heap', F)
  <2>1. CASE F = {}
    BY <1>9, <2>1 DEF Families
  <2>2. ASSUME NEW t \in Anchors', F = Owned(t)' PROVE Within(heap', F)
    <3>1. F \in Families /\ F \cap Released(d) = {}
      BY <1>5, <2>2 DEF Families
    <3> QED
      BY <1>9, <3>1
  <2> QED
    BY <2>1, <2>2 DEF Families
<1>11. Headed'
  <2> SUFFICES ASSUME NEW x \in live' PROVE \E t \in live' : ~ IsOwned(t)' /\ x \in Owned(t)'
    BY DEF Headed
  <2>1. x \in live /\ x \notin Released(d)
    BY <1>0
  <2>2. PICK t \in live : ~ IsOwned(t) /\ x \in Owned(t)
    BY <2>1 DEF FamOK, Headed
  <2>3. CASE t = d
    <3>1. PICK y \in Deferred(d) : y \in Docs /\ x \in Owned(y)'
      BY <1>0, <2>1, <2>2, <2>3, FreeLeaves
    <3> QED
      BY <1>4, <3>1
  <2>4. CASE t # d
    <3>1. t \in Docs /\ Owned(t)' = Owned(t) /\ Owned(t) \cap Released(d) = {}
      BY <1>0, <2>2, <2>4, FreeOwned
    <3>2. t \in Owned(t) /\ t \in live'
      BY <1>0, <3>1, OwnedFacts
    <3>3. ~ IsOwned(t)'
      BY <1>0, <2>2, <3>1 DEF IsOwned, FreedDocs
    <3> QED
      BY <2>2, <3>1, <3>2, <3>3
  <2> QED
    BY <2>3, <2>4
<1>12. RootsHome'
  <2> SUFFICES ASSUME NEW t \in Anchors', doc'[t].root # None
      PROVE  heap'.pool[doc'[t].root] \in Owned(t)'
    BY DEF RootsHome
  <2>1. /\ t \in Anchors /\ t \in Docs /\ doc'[t] = doc[t]
        /\ Owned(t)' = Owned(t) /\ Owned(t) \cap Released(d) = {}
    BY <1>5
  <2>2. doc[t].root \in Elems /\ heap.pool[doc[t].root] \in Owned(t)
    BY <1>0, <2>1, OwnTypes DEF FamOK, RootsHome
  <2>3. heap'.pool[doc[t].root] = heap.pool[doc[t].root]
    BY <1>7, <1>8, <2>1, <2>2, FreedFields
  <2> QED
    BY <2>1, <2>2, <2>3
<1> QED
  BY <1>10, <1>11, <1>12 DEF FamOK

LEMMA FamNext ==
  ASSUME LifeInv, FamOK, [Next]_vars, "append_orphan" \notin Ops, "recycle_entry" \notin Ops
  PROVE  FamOK'
<1>1. OwnOK'
  BY LifeNext DEF LifeInv
<1>2. CASE UNCHANGED vars
  <2>1. live' = live /\ doc' = doc /\ heap' = heap
    BY <1>2 DEF vars
  <2> QED
    BY <1>1, <2>1, FamHeap DEF FamOK
<1>3. CASE \E d \in Docs : FreeDocument(d)
  BY <1>1, <1>3, FamFree
<1>4. CASE Next /\ \A d \in Docs : ~ FreeDocument(d)
  <2>1. PoolsKept
    BY <1>4, PoolsStay DEF PoolsKept
  <2>2. ASSUME NEW d \in Docs, NEW r \in Elems, NEW k \in Elems \cup {None}, Parse(d, r, k)
        PROVE  FamOK'
    BY <1>1, <2>1, <2>2, FamParse
  <2>3. ASSUME NEW d \in Docs, NEW e \in Elems, CreateElement(d, e) \/ SetRoot(d, e)
        PROVE  FamOK'
    BY <1>1, <2>1, <2>3, FamCreate, FamSetRoot
  <2>4. ASSUME NEW e \in Elems, SetName(e) \/ NodeUnlink(e) \/ RemoveChild(e) PROVE FamOK'
    BY <1>1, <2>1, <2>4, FamSetName, FamUnlink
  <2>5. ASSUME NEW p \in Elems, NEW c \in Elems, AppendChild(p, c) PROVE FamOK'
    BY <1>1, <2>1, <2>5, FamAppend
  <2>6. ASSUME NEW dst \in Docs, NEW src \in Docs, Absorb(dst, src) PROVE FamOK'
    BY <1>1, <2>1, <2>6, FamAbsorb
  <2>7. ASSUME NEW d \in Docs, NEW x \in Docs, NEW p \in Elems, NEW r \in Elems, Include(d, p, x, r)
        PROVE  FamOK'
    BY <1>1, <2>1, <2>7, FamInclude
  <2>8. ASSUME NEW d \in Docs, FreeHandle(d) PROVE FamOK'
    BY <1>1, <2>1, <2>8, FamFreeHandle
  <2> QED
    BY <1>4, <2>2, <2>3, <2>4, <2>5, <2>6, <2>7, <2>8 DEF Next
<1> QED
  BY <1>2, <1>3, <1>4

(* The hypothesis of the two theorems: the program appends no node that      *)
(* resolves to no document, and the allocator does not hand out the address  *)
(* of a freed node while the map still has an entry for it.                  *)
KnownNodes == "append_orphan" \notin Ops /\ "recycle_entry" \notin Ops

LEMMA FamHolds == KnownNodes => (Spec => [](LifeInv /\ FamOK))
<1> SUFFICES ASSUME KnownNodes PROVE Spec => [](LifeInv /\ FamOK)
  OBVIOUS
<1>1. Init => LifeInv /\ FamOK
  <2> SUFFICES ASSUME Init PROVE LifeInv /\ FamOK
    OBVIOUS
  <2>1. live = {} /\ Anchors = {} /\ Families = {{}}
    BY DEF Init, Anchors, Families
  <2>2. Headed /\ RootsHome
    BY <2>1 DEF Headed, RootsHome
  <2>3. \A e \in Elems : heap.kids[e] = {} /\ heap.parent[e] = None
    BY DEF Init
  <2>4. Within(heap, {})
    BY <2>3 DEF Within, Clean, Stays
  <2> QED
    BY <2>1, <2>2, <2>4, LifeInit DEF FamOK
<1>2. LifeInv /\ FamOK /\ [Next]_vars => (LifeInv /\ FamOK)'
  BY LifeNext, FamNext DEF KnownNodes
<1> QED
  BY <1>1, <1>2, PTL DEF Spec

(* No tree of a document that will be freed by the program reaches a node    *)
(* whose pool the freeing of another document takes away: every move by      *)
(* reference (adopt_for_splice, node_public.c:500-560), copy, absorption and *)
(* inclusion keeps trees inside the family.                                  *)
THEOREM TreesStayHome == KnownNodes => (Spec => []TreeSafe)
<1>1. LifeInv /\ FamOK => TreeSafe
  <2> SUFFICES ASSUME LifeInv, FamOK, NEW d \in Anchors, doc[d].root # None,
                      NEW e \in Subtree(heap, doc[d].root)
      PROVE  heap.pool[e] \in Owned(d)
    BY DEF TreeSafe
  <2>1. d \in Docs /\ heap \in HeapRec
    BY LifeTypes DEF Anchors
  <2>2. doc[d].root \in Elems /\ heap.pool[doc[d].root] \in Owned(d) /\ Within(heap, Owned(d))
    BY <2>1, OwnTypes DEF LifeInv, FamOK, RootsHome, Families
  <2> QED
    BY <2>1, <2>2, TreeWithin
<1> QED
  BY <1>1, FamHolds, PTL

(* A usable node resolves (leptris_element_get_document) to a document that  *)
(* is freed together with the pool the node lives in, or to none.            *)
THEOREM ResolvesToFamily == KnownNodes => (Spec => []ResolvesInFamily)
<1>1. LifeInv /\ FamOK => ResolvesInFamily
  <2> SUFFICES ASSUME LifeInv, FamOK, NEW e \in Elems, UsableNode(e), DocOf(heap, e) # None
      PROVE  \E d \in Anchors : {heap.pool[e], DocOf(heap, e)} \subseteq Owned(d)
    BY DEF ResolvesInFamily
  <2>1. PICK t \in Anchors : heap.pool[e] \in Owned(t)
    BY FamilyOfNode
  <2>2. DocOf(heap, e) \in Owned(t)
    BY <2>1, ResolvesWithin
  <2> QED
    BY <2>1, <2>2
<1> QED
  BY <1>1, FamHolds, PTL
================================================================================
