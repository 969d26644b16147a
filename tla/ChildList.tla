------------------------------- MODULE ChildList -------------------------------
(***************************************************************************)
(* The child list of an element as the DOM stores it: a first-child edge,  *)
(* next-sibling edges, parent edges and a counter (dom/element.h), changed *)
(* by the public mutation functions (dom/element.c, dom/element_modify.c,  *)
(* dom/node_public.c), and the document's mutation tail cache, which       *)
(* replaces the last-child edge elements no longer have.                   *)
(*                                                                         *)
(* All nodes belong to one document, which every parent resolves to; the   *)
(* elements were carved from its current mutation block.                   *)
(***************************************************************************)
EXTENDS Integers, FiniteSets

CONSTANTS
  Elems,      \* element nodes
  Texts,      \* text nodes
  Comments,   \* comment and CDATA nodes
  Refs,       \* entity-reference nodes
  None,       \* NULL
  NSlots,     \* entries of the tail cache
  SlotOf,     \* SlotOf[p] = (p >> 4) & 63, the entry of element p
  CountMod,   \* child_count is a uint16_t
  WalkCap,    \* ancestors append_child looks at, 8192
  Programs    \* which functions a program calls: a set of such sets;
              \* "detached" lets insert_before and insert_after take a
              \* detached sibling

Nodes == Elems \cup Texts \cup Comments \cup Refs
Slots == 0 .. NSlots - 1

ASSUME ChildListAssumption ==
  /\ IsFiniteSet(Nodes) /\ None \notin Nodes
  /\ Elems \cap (Texts \cup Comments \cup Refs) = {}
  /\ Texts \cap (Comments \cup Refs) = {} /\ Comments \cap Refs = {}
  /\ NSlots \in Nat \ {0} /\ SlotOf \in [Elems -> Slots]
  /\ CountMod \in Nat \ {0, 1} /\ WalkCap \in Nat
  /\ Programs \subseteq SUBSET {"append", "prepend", "before", "after",
                    "detached", "unlink", "remove", "remove_all"}

VARIABLES
  dom,       \* the edges: [parent, next, first, count]
  mut_tail,  \* slot -> [parent, child], the last append it saw
  calls      \* the functions this program calls

vars == <<dom, mut_tail, calls>>

-----------------------------------------------------------------------------
(* Walks.  At(d, p)[k] is the k-th child met from first_child on.           *)
N == Cardinality(Nodes)
At(d, p) == LET at[k \in 0 .. N] ==
                  IF k = 0 THEN d.first[p]
                  ELSE LET n == at[k - 1] IN IF n = None THEN None ELSE d.next[n]
            IN  at
Children(d, p) == LET at == At(d, p) IN {at[k] : k \in 0 .. N} \ {None}
Ends(d, p) == At(d, p)[N] = None
Last(d, p) == CHOOSE n \in Children(d, p) : d.next[n] = None
Up(d, p) == LET up[k \in 0 .. N] ==
                  IF k = 0 THEN d.parent[p]
                  ELSE LET q == up[k - 1] IN IF q = None THEN None ELSE d.parent[q]
            IN  up
Ancestors(d, p) == LET up == Up(d, p) IN {up[k] : k \in 0 .. N} \ {None}
Nearest(d, p) ==
  LET up == Up(d, p) IN {up[k] : k \in {k \in 0 .. N : k < WalkCap}} \ {None}

(* An edge is an offset from the node that holds it, so an edge to oneself *)
(* is 0, which reads back as NULL (leptris_compact_int32_encode_inline).   *)
SetNext(d, n, m) == [d EXCEPT !.next[n] = IF m = n THEN None ELSE m]
Counted(d, p, c) ==
  IF c \in Elems THEN [d EXCEPT !.count[p] = (@ + 1) % CountMod] ELSE d

(* The splice of leptris_node_unlink and leptris_element_remove_child.     *)
SpliceOutSlip(d, p, c) == [d EXCEPT !.first[p] = d.next[c]]
SpliceOut(d, p, c) ==
  IF d.first[p] = c THEN [d EXCEPT !.first[p] = d.next[c]]
  ELSE SetNext(d, CHOOSE n \in Children(d, p) : d.next[n] = c, d.next[c])

(* leptris_node_unlink: a node missing from its parent's list is left as   *)
(* it is; an entity reference keeps its parent edge.                       *)
UnlinkedSlip(d, c) ==
  LET p == d.parent[c] IN
  IF c \notin Children(d, p) THEN d
  ELSE [SpliceOut(d, p, c) EXCEPT
          !.parent[c] = IF c \in Refs THEN @ ELSE None,
          !.count[p] = IF c \in Elems /\ @ > 0 THEN @ - 1 ELSE @]
UnlinkedCountSlip(d, c) ==
  LET p == d.parent[c] IN
  IF c \notin Children(d, p) THEN d
  ELSE [SpliceOut(d, p, c) EXCEPT
          !.next[c] = None,
          !.parent[c] = IF c \in Refs THEN @ ELSE None]
UnlinkedMinusSlip(d, c) ==
  LET p == d.parent[c] IN
  IF c \notin Children(d, p) THEN d
  ELSE [SpliceOut(d, p, c) EXCEPT
          !.next[c] = None, !.parent[c] = None, !.count[p] = @ - 1]
Unlinked(d, c) ==
  LET p == d.parent[c] IN
  IF c \notin Children(d, p) THEN d
  ELSE [SpliceOut(d, p, c) EXCEPT
          !.next[c] = None,
          !.parent[c] = IF c \in Refs THEN @ ELSE None,
          !.count[p] = IF c \in Elems /\ @ > 0 THEN @ - 1 ELSE @]
DetachedSlip(d, c) == d
Detached(d, c) == IF d.parent[c] = None THEN d ELSE Unlinked(d, c)

(* A child carved from the current block and still without children is     *)
(* taken not to be an ancestor; for any other the parent chain is walked,  *)
(* up to WalkCap elements of it.  prepend_child walks all of the chain.    *)
MayAdoptSlip(p, c) == p # c
MayAdopt(p, c) ==
  /\ p # c
  /\ (c \in Elems /\ dom.first[c] = None) \/ c \notin Nearest(dom, p)
-----------------------------------------------------------------------------
(* The cached tail counts if it is still a child of p.                     *)
CachedTailSlip(d, p) == LET s == mut_tail[SlotOf[p]]
                        IN  IF s.parent = p THEN s.child ELSE None
CachedTail(d, p) == LET s == mut_tail[SlotOf[p]]
                    IN  IF s.parent = p /\ s.child # None /\ d.parent[s.child] = p
                        THEN s.child ELSE None

AppendChildSlip(p, c) ==
  LET d == Detached(dom, c)
      placed == [d EXCEPT !.parent[c] = p, !.first[p] = c]
  IN
  /\ "append" \in calls /\ MayAdopt(p, c)
  /\ dom' = Counted(IF d.first[p] = None THEN placed
                    ELSE SetNext(placed, c, d.first[p]), p, c)
  /\ UNCHANGED <<mut_tail, calls>>
(* leptris_element_append_child: the new child goes behind the cached tail *)
(* if there is one, behind the end of a walk if not.                       *)
AppendChild(p, c) ==
  LET d == Detached(dom, c)
      placed == [d EXCEPT !.parent[c] = p]
      tail == IF CachedTail(d, p) # None THEN CachedTail(d, p) ELSE Last(d, p)
  IN
  /\ "append" \in calls /\ MayAdopt(p, c)
  /\ CachedTail(d, p) # None \/ Ends(d, p)
  /\ dom' = Counted(IF d.first[p] = None THEN [placed EXCEPT !.first[p] = c]
                    ELSE SetNext(placed, tail, c), p, c)
  /\ mut_tail' = [mut_tail EXCEPT ![SlotOf[p]] = [parent |-> p, child |-> c]]
  /\ UNCHANGED calls

(* leptris_element_prepend_child, which leaves the tail cache alone.       *)
PrependChild(p, c) ==
  LET d == Detached(dom, c)
      placed == [d EXCEPT !.parent[c] = p, !.first[p] = c]
  IN
  /\ "prepend" \in calls /\ p # c /\ (c \in Elems => c \notin Ancestors(dom, p))
  /\ dom' = Counted(IF d.first[p] = None THEN placed
                    ELSE SetNext(placed, c, d.first[p]), p, c)
  /\ UNCHANGED <<mut_tail, calls>>

(* leptris_element_insert_before and insert_after check an element against  *)
(* moving below itself by walking up from the sibling as if that were an    *)
(* element too.  A text node keeps its parent edge where an element does;   *)
(* a comment, CDATA section or entity reference has its next edge there.    *)
ReadAsElement(n) == IF n \in Comments \cup Refs THEN dom.next[n] ELSE dom.parent[n]
StandsUnder(s) == LET up[k \in 0 .. N] ==
                        IF k = 0 THEN ReadAsElement(s)
                        ELSE LET q == up[k - 1] IN IF q = None THEN None ELSE ReadAsElement(q)
                  IN  {up[k] : k \in 0 .. N} \ {None}
MayStandBySlip(s, c) == c \in Elems => c # dom.parent[s]
MayStandBy(s, c) == c \in Elems => c \notin StandsUnder(s)

InsertBeforeDetached(s, c) ==
  /\ {"before", "detached"} \subseteq calls
  /\ MayStandBy(s, c) /\ dom.parent[s] = None
  /\ dom' = SetNext(Detached(dom, c), c, s)
  /\ UNCHANGED <<mut_tail, calls>>

InsertBefore(s, c) ==
  LET p == dom.parent[s]
      d == Detached(dom, c)
      placed == SetNext([d EXCEPT !.parent[c] = p], c, s)
  IN
  /\ "before" \in calls /\ MayStandBy(s, c) /\ p # None
  /\ dom' = IF s \notin Children(d, p) THEN d
            ELSE Counted(IF d.first[p] = s THEN [placed EXCEPT !.first[p] = c]
                         ELSE SetNext(placed, CHOOSE n \in Children(d, p) :
                                                 d.next[n] = s, c), p, c)
  /\ UNCHANGED <<mut_tail, calls>>

InsertAfterDetached(s, c) ==
  LET d == Detached(dom, c) IN
  /\ {"after", "detached"} \subseteq calls
  /\ MayStandBy(s, c) /\ dom.parent[s] = None
  /\ dom' = SetNext(SetNext(d, s, c), c, d.next[s])
  /\ UNCHANGED <<mut_tail, calls>>

InsertAfter(s, c) ==
  LET p == dom.parent[s]
      d == Detached(dom, c)
  IN
  /\ "after" \in calls /\ MayStandBy(s, c) /\ p # None
  /\ dom' = Counted(SetNext(SetNext([d EXCEPT !.parent[c] = p], s, c),
                            c, d.next[s]), p, c)
  /\ UNCHANGED <<mut_tail, calls>>

NodeUnlink(c) ==
  /\ "unlink" \in calls /\ dom.parent[c] # None
  /\ dom' = Unlinked(dom, c)
  /\ UNCHANGED <<mut_tail, calls>>

RemoveChild(p, c) ==
  /\ "remove" \in calls /\ c \in Children(dom, p)
  /\ dom' = [SpliceOut(dom, p, c) EXCEPT
               !.next[c] = None, !.parent[c] = None,
               !.count[p] = IF c \in Elems THEN (@ + CountMod - 1) % CountMod
                            ELSE @]
  /\ UNCHANGED <<mut_tail, calls>>

RemoveAllChildrenSlip(p) ==
  /\ "remove_all" \in calls /\ Ends(dom, p)
  /\ dom' = [dom EXCEPT !.first[p] = None, !.count[p] = 0,
       !.parent = [n \in Nodes |-> IF n \in Children(dom, p) \cap Elems
                                   THEN None ELSE @[n]],
       !.next = [n \in Nodes |-> IF n \in Children(dom, p) THEN None ELSE @[n]]]
  /\ UNCHANGED <<mut_tail, calls>>
RemoveAllChildren(p) ==
  /\ "remove_all" \in calls /\ Ends(dom, p)
  /\ dom' = [dom EXCEPT !.first[p] = None, !.count[p] = 0,
       !.parent = [n \in Nodes |-> IF n \in Children(dom, p) THEN None ELSE @[n]],
       !.next = [n \in Nodes |-> IF n \in Children(dom, p) THEN None ELSE @[n]]]
  /\ UNCHANGED <<mut_tail, calls>>
-----------------------------------------------------------------------------
Init ==
  /\ dom = [parent |-> [n \in Nodes |-> None], next |-> [n \in Nodes |-> None],
            first |-> [p \in Elems |-> None], count |-> [p \in Elems |-> 0]]
  /\ mut_tail = [s \in Slots |-> [parent |-> None, child |-> None]]
  /\ calls \in Programs

Next ==
  \/ \E p \in Elems, c \in Nodes :
       AppendChild(p, c) \/ PrependChild(p, c) \/ RemoveChild(p, c)
  \/ \E s \in Nodes : \E c \in Nodes \ {s} :
       \/ InsertBefore(s, c) \/ InsertBeforeDetached(s, c)
       \/ InsertAfter(s, c) \/ InsertAfterDetached(s, c)
  \/ \E c \in Nodes : NodeUnlink(c)
  \/ \E p \in Elems : RemoveAllChildren(p)

Spec == Init /\ [][Next]_vars
-----------------------------------------------------------------------------
TypeOK ==
  /\ dom \in [parent : [Nodes -> Elems \cup {None}],
              next : [Nodes -> Nodes \cup {None}],
              first : [Elems -> Nodes \cup {None}],
              count : [Elems -> 0 .. CountMod - 1]]
  /\ mut_tail \in [Slots -> [parent : Elems \cup {None}, child : Nodes \cup {None}]]
  /\ calls \in Programs

(* A chain of detached nodes keeps its next edges when its head is          *)
(* appended, and its nodes no parent; what follows is about programs that   *)
(* do not build one.                                                        *)
Chains == "detached" \in calls

(* The parent edges and the child lists tell the same tree: a node has a    *)
(* parent exactly when it is in that parent's list, so that no call loses   *)
(* a node and a detached node has no parent (leptris.h, leptris_node_parent *)
(* and leptris_node_unlink).                                                *)
ParentsAgree ==
  ~Chains => \A p \in Elems, n \in Nodes :
               dom.parent[n] = p <=> n \in Children(dom, p)

(* No walk runs for ever: along the siblings the nodes run out, and no      *)
(* element is its own ancestor (#1636), chains or not.  append_child sees   *)
(* to that for elements with at most WalkCap ancestors only.                *)
WalksEnd ==
  /\ ~Chains => \A n \in Nodes :
       LET at[k \in 0 .. N] == IF k = 0 THEN n
                               ELSE LET m == at[k - 1] IN IF m = None THEN None ELSE dom.next[m]
       IN  at[N] = None
  /\ \A p \in Elems : p \notin Ancestors(dom, p)

(* child_count is the number of element children.                           *)
CountExact ==
  ~Chains => \A p \in Elems :
    dom.count[p] = Cardinality(Children(dom, p) \cap Elems)

(* A cached tail that passes its check is the last child (#1220).           *)
TailIsLast ==
  "append" \in calls => \A p \in Elems :
    CachedTail(dom, p) # None /\ dom.first[p] # None
      => CachedTail(dom, p) = Last(dom, p)

(* The edges implement sequences of children, and each call is the step of  *)
(* its own name: append_child puts the node last, prepend_child first,      *)
(* insert_before and insert_after next to the sibling it was given, the     *)
(* removals take out that node or all; no call moves another (leptris.h).   *)
KidsOf(d, p) == LET at == At(d, p)
                IN  [k \in 1 .. Cardinality(Children(d, p)) |-> at[k - 1]]
Seqs == INSTANCE ChildSeq WITH
  kids <- [p \in Elems |-> IF Chains THEN <<>> ELSE KidsOf(dom, p)]
AsNamed ==
  ~Chains =>
    /\ \A p \in Elems, c \in Nodes :
         /\ AppendChild(p, c) => Seqs!AppendChild(p, c)
         /\ PrependChild(p, c) => Seqs!PrependChild(p, c)
         /\ RemoveChild(p, c) => Seqs!TakeOut(c)
    /\ \A s \in Nodes : \A c \in Nodes \ {s} :
         /\ InsertBefore(s, c) => Seqs!InsertBefore(dom.parent[s], s, c)
         /\ InsertAfter(s, c) => Seqs!InsertAfter(dom.parent[s], s, c)
    /\ \A c \in Nodes : NodeUnlink(c) => Seqs!TakeOut(c)
    /\ \A p \in Elems : RemoveAllChildren(p) => Seqs!Clear(p)
IsChildSeq == Seqs!Spec /\ [][AsNamed]_vars
================================================================================
