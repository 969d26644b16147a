----------------------------- MODULE DocLifecycle ------------------------------
(***************************************************************************)
(* Documents, the pools their nodes live in, and who frees what.  A node   *)
(* lives in the pool of the document it was made in; the document it       *)
(* belongs to is found through its tree (leptris_element_get_document).    *)
(* The two differ once a node has been moved out of an absorbed document   *)
(* (leptris_document_absorb) or an included one (XInclude), which the      *)
(* receiving document then owns.  Moves between other documents copy.      *)
(*                                                                         *)
(* Freed addresses are used again, for documents as for nodes.             *)
(***************************************************************************)
EXTENDS Integers, FiniteSets, Chains

CONSTANTS
  Docs,    \* addresses of documents
  Elems,   \* addresses of element nodes
  None,    \* NULL
  Ops      \* the functions the program calls; "append_orphan" lets it append
           \* nodes that resolve to no document, or append to them,
           \* "recycle_entry" lets the allocator hand out the address
           \* of a freed node that is still in the map

ASSUME DocLifecycleAssumption ==
  /\ IsFiniteSet(Docs) /\ IsFiniteSet(Elems) /\ None \notin Docs \cup Elems
  /\ Ops \subseteq {"parse", "create", "append", "append_orphan", "unlink",
                    "remove", "set_root", "set_name", "absorb",
                    "include", "free", "recycle_entry"}

VARIABLES
  live,        \* documents that exist
  doc,         \* document -> [absorbed_by, absorbed_handle,
               \*   absorbed_deferred, child_docs, root]
  heap,        \* [pool, parent, kids, namebp, map], functions of nodes: the
               \*   document whose pool holds the node, its edges, the
               \*   document stamped on its name, its entry in the root map
  held         \* documents the program has yet to free

vars == <<live, doc, heap, held>>

NewDoc(root) == [absorbed_by |-> None, absorbed_handle |-> 0,
                 absorbed_deferred |-> FALSE, child_docs |-> {}, root |-> root]
-----------------------------------------------------------------------------
(* Trees.                                                                   *)
Subtree(h, e) == Reached(e, h.kids)
Top(h, e) ==
  LET up[k \in 0 .. Cardinality(Elems)] ==
        IF k = 0 THEN e
        ELSE LET n == up[k - 1] IN IF h.parent[n] = None THEN n ELSE h.parent[n]
  IN  up[Cardinality(Elems)]

(* leptris_element_get_document: the stamp of an unattached element is      *)
(* asked before the map.                                                    *)
DocOf(h, e) == LET t == Top(h, e)
               IN  IF h.namebp[t] # None THEN h.namebp[t] ELSE h.map[t]

Registered(h, e, d) == IF d = None THEN h ELSE [h EXCEPT !.map[e] = d]
Taken(h, e) ==
  IF h.parent[e] = None THEN h
  ELSE [h EXCEPT !.kids[h.parent[e]] = @ \ {e}, !.parent[e] = None]
Attached(h, p, e) == [h EXCEPT !.parent[e] = p, !.kids[p] = @ \cup {e}]

(* leptris_node_unlink registers an orphan that has no stamp.               *)
Unlinked(h, e) ==
  IF h.parent[e] = None THEN h
  ELSE IF h.namebp[e] # None THEN Taken(h, e)
  ELSE Registered(Taken(h, e), e, DocOf(h, e))

(* leptris_element_copy: f takes the nodes of the subtree to the new ones,  *)
(* and a copy's parent is the copy of the node whose child list is walked.  *)
Free(h) == {e \in Elems : h.pool[e] = None /\
                           (h.map[e] # None => "recycle_entry" \in Ops)}
Copies(h, e) ==
  {f \in [Subtree(h, e) -> Free(h)] :
     \A a, b \in Subtree(h, e) : a # b => f[a] # f[b]}
Copied(h, e, f, d) ==
  LET old(n) == CHOOSE a \in Subtree(h, e) : f[a] = n
      New == {f[a] : a \in Subtree(h, e)}
  IN  [pool   |-> [n \in Elems |-> IF n \in New THEN d ELSE h.pool[n]],
       parent |-> [n \in Elems |-> IF n \notin New THEN h.parent[n]
                                   ELSE IF old(n) = e THEN None
                                   ELSE f[CHOOSE p \in Subtree(h, e) :
                                            old(n) \in h.kids[p]]],
       kids   |-> [n \in Elems |-> IF n \notin New THEN h.kids[n]
                                   ELSE {f[a] : a \in h.kids[old(n)]}],
       namebp |-> h.namebp,
       map    |-> [h.map EXCEPT ![f[e]] = d]]
Made(h, e, d, stamp) ==
  [h EXCEPT !.pool[e] = d, !.namebp[e] = stamp]
-----------------------------------------------------------------------------
(* Ownership.  A document dies with the one that owns it; once the owner    *)
(* has gone the program may free its handle and do nothing else.            *)
Owner(x) == {d \in live : x \in doc[d].child_docs}
Owned(d) == Reached(d, [x \in Docs |-> doc[x].child_docs])
Doomed(x) == \E d \in live : doc[d].absorbed_deferred /\ x \in Owned(d)
Anchors == {d \in live : Owner(d) = {} /\ ~doc[d].absorbed_deferred}

UsableNode(e) == heap.pool[e] # None /\ ~Doomed(heap.pool[e])
UsableDoc(d) == d \in held /\ doc[d].absorbed_by = None
-----------------------------------------------------------------------------
(* A parsed document: its root is in the map; a child, if it has one, not.  *)
Parse(d, r, k) ==
  LET rooted == Registered(Made(heap, r, d, None), r, d) IN
  /\ "parse" \in Ops /\ d \in Docs \ live /\ r \in Free(heap)
  /\ k \in (Free(heap) \ {r}) \cup {None}
  /\ live' = live \cup {d} /\ held' = held \cup {d}
  /\ doc' = [doc EXCEPT ![d] = NewDoc(r)]
  /\ heap' = IF k = None THEN rooted ELSE Attached(Made(rooted, k, d, None), r, k)

(* leptris_element_create carves the element with its document's stamp.     *)
CreateElement(d, e) ==
  /\ "create" \in Ops /\ UsableDoc(d) /\ e \in Free(heap)
  /\ heap' = Made(heap, e, d, d)
  /\ UNCHANGED <<live, doc, held>>

(* leptris_element_set_name gives up the stamp for an entry in the map.     *)
SetName(e) ==
  /\ "set_name" \in Ops /\ UsableNode(e)
  /\ heap' = Registered([heap EXCEPT !.namebp[e] = None], e, DocOf(heap, e))
  /\ UNCHANGED <<live, doc, held>>

(* adopt_for_splice: a node of the target, of a document the target has     *)
(* absorbed, or of no known document moves as it is.                        *)
MovesByReferenceSlip(e, target) ==
  LET src == DocOf(heap, e) IN
  target # None /\ src \notin {None, target} => doc[src].absorbed_by # None
MovesByReference(e, target) ==
  LET src == DocOf(heap, e) IN
  target # None /\ src \notin {None, target} => doc[src].absorbed_by = target

AppendChild(p, c) ==
  LET target == DocOf(heap, p) IN
  /\ "append" \in Ops /\ UsableNode(p) /\ UsableNode(c) /\ p \notin Subtree(heap, c)
  /\ None \in {target, DocOf(heap, c)} => "append_orphan" \in Ops
  /\ \/ /\ MovesByReference(c, target)
        /\ heap' = Attached(Unlinked(heap, c), p, c)
     \/ /\ ~MovesByReference(c, target)
        /\ \E f \in Copies(heap, c) :
             heap' = Attached(Copied(heap, c, f, target), p, f[c])
  /\ UNCHANGED <<live, doc, held>>

NodeUnlink(e) ==
  /\ "unlink" \in Ops /\ UsableNode(e) /\ heap.parent[e] # None
  /\ heap' = Unlinked(heap, e)
  /\ UNCHANGED <<live, doc, held>>

(* leptris_element_remove_child leaves the map alone.                       *)
RemoveChild(e) ==
  /\ "remove" \in Ops /\ UsableNode(e) /\ heap.parent[e] # None
  /\ heap' = Taken(heap, e)
  /\ UNCHANGED <<live, doc, held>>

(* leptris_document_set_root: a node of the document becomes the root, of   *)
(* any other a copy of it, and the source loses it as root.                 *)
SetRoot(d, e) ==
  /\ "set_root" \in Ops /\ UsableDoc(d) /\ UsableNode(e) /\ heap.parent[e] = None
  /\ \/ /\ DocOf(heap, e) = d
        /\ doc' = [doc EXCEPT ![d].root = e]
        /\ heap' = Registered(heap, e, d)
     \/ /\ DocOf(heap, e) # d
        /\ \E f \in Copies(heap, e) :
             /\ heap' = Copied(heap, e, f, d)
             /\ doc' = [x \in Docs |->
                  IF x = d THEN [doc[d] EXCEPT !.root = f[e]]
                  ELSE IF x = DocOf(heap, e) /\ doc[x].root = e
                       THEN [doc[x] EXCEPT !.root = None]
                  ELSE doc[x]]
  /\ UNCHANGED <<live, held>>

AbsorbSlip(dst, src) ==
  /\ "absorb" \in Ops /\ {dst, src} \subseteq held /\ dst # src
  /\ doc[dst].absorbed_by = None
  /\ doc' = [doc EXCEPT ![dst].child_docs = @ \cup {src},
                        ![src].absorbed_by = dst, ![src].absorbed_handle = 1]
  /\ UNCHANGED <<live, heap, held>>
Absorb(dst, src) ==
  /\ "absorb" \in Ops /\ {dst, src} \subseteq held /\ dst # src
  /\ doc[dst].absorbed_by = None /\ doc[src].absorbed_by = None
  /\ doc' = [doc EXCEPT ![dst].child_docs = @ \cup {src},
                        ![src].absorbed_by = dst, ![src].absorbed_handle = 1]
  /\ UNCHANGED <<live, heap, held>>

(* xinc_frame_splice: x is parsed, its root moves below p, and the document *)
(* of p adopts x, whose handle the program never sees.                      *)
Include(d, p, x, r) ==
  /\ "include" \in Ops /\ UsableDoc(d) /\ doc[d].root # None
  /\ p \in Subtree(heap, doc[d].root) /\ x \in Docs \ live /\ r \in Free(heap)
  /\ live' = live \cup {x}
  /\ doc' = [doc EXCEPT ![x] = NewDoc(None), ![d].child_docs = @ \cup {x}]
  /\ heap' = Attached(Registered(Made(heap, r, x, None), r, d), p, r)
  /\ UNCHANGED held

(* leptris_document_free of an absorbed document gives back the handle.     *)
FreeHandle(d) ==
  /\ "free" \in Ops /\ d \in held
  /\ doc[d].absorbed_by # None /\ ~doc[d].absorbed_deferred
  /\ held' = held \ {d}
  /\ doc' = [doc EXCEPT ![d].absorbed_handle = 0]
  /\ UNCHANGED <<live, heap>>

(* The documents freed with d: a child whose handle is still out is kept    *)
(* for the holder to free.                                                  *)
ReleasedSlip(d) == Owned(d)
Released(d) ==
  Reached(d, [x \in Docs |-> {c \in doc[x].child_docs : doc[c].absorbed_handle = 0}])
Deferred(d) == (UNION {doc[x].child_docs : x \in Released(d)}) \ Released(d)

(* The pools in G are freed; entries are swept by the document they name.   *)
FreedSlip(h, G) ==
  [pool   |-> [e \in Elems |-> IF h.pool[e] \in G THEN None ELSE h.pool[e]],
   parent |-> [e \in Elems |-> IF h.pool[e] \in G THEN None ELSE h.parent[e]],
   kids   |-> [e \in Elems |-> IF h.pool[e] \in G THEN {} ELSE h.kids[e]],
   namebp |-> [e \in Elems |-> IF h.pool[e] \in G THEN None ELSE h.namebp[e]],
   map    |-> [e \in Elems |-> IF h.pool[e] \in G THEN None ELSE h.map[e]]]
Freed(h, G) ==
  [pool   |-> [e \in Elems |-> IF h.pool[e] \in G THEN None ELSE h.pool[e]],
   parent |-> [e \in Elems |-> IF h.pool[e] \in G THEN None ELSE h.parent[e]],
   kids   |-> [e \in Elems |-> IF h.pool[e] \in G THEN {} ELSE h.kids[e]],
   namebp |-> [e \in Elems |-> IF h.pool[e] \in G THEN None ELSE h.namebp[e]],
   map    |-> [e \in Elems |-> IF h.map[e] \in G THEN None ELSE h.map[e]]]

(* The children go first, then the root is read to take it off the map,     *)
(* then the document's own pool goes.  A root that was moved here out of a  *)
(* child is storage given back by then: the flag read from it can say       *)
(* either, and its entry is taken off or not.                               *)
ReadsFreedRoot(d) ==
  doc[d].root # None /\ heap.pool[doc[d].root] \notin (live \ Released(d)) \cup {d}
MayFree(d) == d \in held /\ (doc[d].absorbed_by = None \/ doc[d].absorbed_deferred)
FreeDocument(d) ==
  /\ "free" \in Ops /\ MayFree(d)
  /\ live' = live \ Released(d) /\ held' = held \ {d}
  /\ doc' = [x \in Docs |->
       IF x \in Deferred(d)
       THEN [doc[x] EXCEPT !.root = None, !.absorbed_deferred = TRUE]
       ELSE IF x \in Released(d) THEN NewDoc(None) ELSE doc[x]]
  /\ \E root \in {doc[d].root} \cup (IF ReadsFreedRoot(d) THEN {None} ELSE {}) :
       heap' = Freed([heap EXCEPT !.map = [e \in Elems |->
                        IF e = root THEN None ELSE @[e]]], Released(d))
-----------------------------------------------------------------------------
Init ==
  /\ live = {} /\ held = {}
  /\ doc = [d \in Docs |-> NewDoc(None)]
  /\ heap = [pool |-> [e \in Elems |-> None], parent |-> [e \in Elems |-> None],
             kids |-> [e \in Elems |-> {}], namebp |-> [e \in Elems |-> None],
             map |-> [e \in Elems |-> None]]

Next ==
  \/ \E d \in Docs, r \in Elems, k \in Elems \cup {None} : Parse(d, r, k)
  \/ \E d \in Docs, e \in Elems : CreateElement(d, e) \/ SetRoot(d, e)
  \/ \E e \in Elems : SetName(e) \/ NodeUnlink(e) \/ RemoveChild(e)
  \/ \E p, c \in Elems : AppendChild(p, c)
  \/ \E dst, src \in Docs : Absorb(dst, src)
  \/ \E d, x \in Docs, p, r \in Elems : Include(d, p, x, r)
  \/ \E d \in Docs : FreeHandle(d) \/ FreeDocument(d)

Spec == Init /\ [][Next]_vars
-----------------------------------------------------------------------------
TypeOK ==
  /\ live \subseteq Docs /\ held \subseteq live
  /\ doc \in [Docs -> [absorbed_by : Docs \cup {None}, absorbed_handle : {0, 1},
                       absorbed_deferred : BOOLEAN, child_docs : SUBSET Docs,
                       root : Elems \cup {None}]]
  /\ heap \in [pool : [Elems -> Docs \cup {None}], parent : [Elems -> Elems \cup {None}],
               kids : [Elems -> SUBSET Elems], namebp : [Elems -> Docs \cup {None}],
               map : [Elems -> Docs \cup {None}]]

(* Every node of a document's tree lives in the pool of that document or of *)
(* one it owns, so that nothing it can reach is freed before it (#1528,     *)
(* #1548).                                                                  *)
TreeSafe ==
  \A d \in Anchors : doc[d].root # None =>
    \A e \in Subtree(heap, doc[d].root) : heap.pool[e] \in Owned(d)

(* Every live document will be freed by exactly one call: the program's own *)
(* free or that of the document that owns it (#1548, #1557).                *)
ReleasedOnce ==
  \A d \in live :
    Cardinality(Owner(d)) + (IF MayFree(d) THEN 1 ELSE 0) = 1

(* The entries of the root map die with their document (#1038): otherwise a *)
(* recycled address resolves to a freed document.                           *)
EntriesLive == \A e \in Elems : heap.map[e] # None => heap.map[e] \in live

(* A node resolves to a document that is freed together with its pool, or   *)
(* to none: resolution decides whether a splice moves or copies (#1528).    *)
ResolvesInFamily ==
  \A e \in Elems : UsableNode(e) /\ DocOf(heap, e) # None =>
    \E d \in Anchors : {heap.pool[e], DocOf(heap, e)} \subseteq Owned(d)

================================================================================
