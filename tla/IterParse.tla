------------------------------ MODULE IterParse ------------------------------
(* leptris_iterparse (sax/iterparse.c) over the pull parser: it builds the    *)
(* tree of one top-level child at a time, or of the whole document, and hands *)
(* out elements as they are completed.  A node is named by the event it was   *)
(* made from.  Not modelled: what comes behind the report of a duplicate      *)
(* attribute, the arena that subtrees share, allocation failures, and depths  *)
(* above IT_MAX_DEPTH (the streaming parser stops far below it).              *)
EXTENDS PullParser

CONSTANT Modes      \* subset of {"top", "full"}

\* How many elements are open after event j of document d.
DepthIn(d, j) == Cardinality({k \in 1..j : d[k].type = "start"}) - Cardinality({k \in 1..j : d[k].type = "end"})

\* What the streaming parser sends of a document up to its end or the first error
\* (sax/streaming.c): one root, elements nested, the prefix events of an element right
\* before its START and right after its END, and one for each prefix.  It reports a
\* duplicate attribute and goes on (944-965); the iterator stops at that report, so
\* nothing behind it is in these documents.
WellFormed(d) ==
  /\ \A j \in DOMAIN d : DepthIn(d, j) >= 0
  /\ \A j, k \in DOMAIN d : j < k /\ d[j].type = "start" /\ d[k].type = "start" => DepthIn(d, k) > 1
  /\ \A j \in DOMAIN d :
       /\ d[j].type = "startPrefix" => j < Len(d) /\ d[j + 1].type \in {"startPrefix", "start"}
       /\ d[j].type = "endPrefix" => j > 1 /\ d[j - 1].type \in {"end", "endPrefix"}
       /\ d[j].type \in {"endDocument", "error"} => j = Len(d)
       /\ d[j].type = "endDocument" => DepthIn(d, j) = 0
  /\ \A j, k \in DOMAIN d :
       j < k /\ (\A i \in j..k : d[i].type = "startPrefix") => d[j].strings[1] # d[k].strings[1]

ASSUME IterAssumption == Modes \subseteq {"top", "full"} /\ \A d \in Documents : WellFormed(d)

VARIABLES
  it,         \* the iterator
  nodes       \* the elements that are alive

vars == <<pullVars, it, nodes>>

Init ==
  /\ PullInit
  /\ it \in [mode : Modes, depth : {0}, stack : {<<>>}, text : {<<>>}, ns : {<<>>}, snap : {{}},
             done : {0}, doneDepth : {0}, rootDoc : {FALSE}, subDoc : {FALSE},
             running : {FALSE}, exhausted : {FALSE}, error : {FALSE}, yields : {<<>>}]
  /\ nodes = <<>>

Full == it.mode = "full"

-----------------------------------------------------------------------------
(* One operator per helper; each takes and returns the iterator and the nodes. *)

Kid(e, text) == [elem |-> e, text |-> text]

\* Slip: text below the first level is made in the subtree's document, in both modes.
FlushTextSlip(w) ==
  LET i == w.it
      lost == i.text = <<>> \/ i.depth < 1 \/ ~(IF i.depth = 1 THEN i.rootDoc ELSE i.subDoc)
      top == i.stack[i.depth]
  IN [it |-> [i EXCEPT !.text = <<>>],
      nodes |-> IF lost THEN w.nodes ELSE [w.nodes EXCEPT ![top].kids = Append(@, Kid(0, i.text))]]

\* it_flush_text: the root of the document exists in full mode only, and its text with it.
FlushText(w) ==
  LET i == w.it
      full == i.mode = "full"
      lost == \/ i.text = <<>> \/ i.depth < 1
              \/ full /\ ~i.rootDoc
              \/ ~full /\ i.depth = 1 /\ ~i.rootDoc
      top == i.stack[i.depth]
  IN [it |-> [i EXCEPT !.text = <<>>],
      nodes |-> IF lost THEN w.nodes ELSE [w.nodes EXCEPT ![top].kids = Append(@, Kid(0, i.text))]]

Lookup(ns, p) == LET at == {k \in DOMAIN ns : ns[k].prefix = p}
                 IN IF at = {} THEN {} ELSE {<<p, ns[Max(at)].uri>>}

\* attach_namespaces: the binding of the element's own prefix, and its declarations.
Attached(i, prefix) ==
  Lookup(i.ns, prefix) \cup {<<i.ns[k].prefix, i.ns[k].uri>> : k \in {k \in DOMAIN i.ns : i.ns[k].depth = i.depth + 1}}

\* handle_start: in top-level mode the root is only counted, and its children have no parent.
Started(w0, e) ==
  LET w == FlushText(w0)
      i == w.it
      top == i.mode = "top"
      node == [attrs |-> doc[e].attrs, decls |-> Attached(i, doc[e].prefix), kids |-> <<>>]
      made == [k \in DOMAIN w.nodes \cup {e} |-> IF k = e THEN node ELSE w.nodes[k]]
      parent == i.stack[i.depth]
  IN IF top /\ i.depth = 0 THEN [w EXCEPT !.it.depth = 1, !.it.stack = <<0>>]
     ELSE [it |-> [i EXCEPT !.depth = @ + 1, !.stack = Append(SubSeq(@, 1, i.depth), e),
                            !.rootDoc = @ \/ ~top, !.subDoc = @ \/ top],
           nodes |-> IF i.depth = 0 \/ (top /\ i.depth = 1) THEN made
                     ELSE [made EXCEPT ![parent].kids = Append(@, Kid(e, <<>>))]]

\* pop_ns_depth: the bindings at the end are dropped as long as they are that deep.
Dropped(ns, depth) == SubSeq(ns, 1, Max({0} \cup {k \in DOMAIN ns : ns[k].depth < depth}))

\* Slip: the scope is recorded after the bindings of the element are gone.
EndedSlip(w0) ==
  LET w == FlushText(w0)
      i == w.it
      left == Dropped(i.ns, i.depth)
      j == [i EXCEPT !.snap = UNION {Lookup(left, b.prefix) : b \in ToSet(i.ns)}, !.depth = @ - 1, !.ns = left]
  IN IF i.depth <= 0 THEN w
     ELSE IF i.depth = 1 /\ ~i.rootDoc THEN [w EXCEPT !.it.depth = 0]
     ELSE IF i.mode = "full" \/ i.depth = 2
          THEN [w EXCEPT !.it = [j EXCEPT !.done = i.stack[i.depth], !.doneDepth = i.depth, !.running = FALSE,
                                          !.yields = Append(@, i.stack[i.depth])]]
     ELSE [w EXCEPT !.it = j]

\* The END of an element: the scope is recorded before its bindings are popped, and
\* the element is handed out in full mode or at the second level.
Ended(w0) ==
  LET w == FlushText(w0)
      i == w.it
      j == [i EXCEPT !.snap = UNION {Lookup(i.ns, b.prefix) : b \in ToSet(i.ns)},
                     !.depth = @ - 1, !.ns = Dropped(@, i.depth)]
  IN IF i.depth <= 0 THEN w
     ELSE IF i.depth = 1 /\ ~i.rootDoc THEN [w EXCEPT !.it.depth = 0]
     ELSE IF i.mode = "full" \/ i.depth = 2
          THEN [w EXCEPT !.it = [j EXCEPT !.done = i.stack[i.depth], !.doneDepth = i.depth, !.running = FALSE,
                                          !.yields = Append(@, i.stack[i.depth])]]
     ELSE [w EXCEPT !.it = j]

Stop(w, error) == [w EXCEPT !.it.exhausted = TRUE, !.it.running = FALSE, !.it.error = error]

Handled(w, e) ==
  LET t == doc[e].type
  IN CASE t = "startPrefix" ->
            [w EXCEPT !.it.ns = Append(@, [prefix |-> doc[e].strings[1], uri |-> doc[e].strings[2],
                                           depth |-> w.it.depth + 1])]
       [] t = "endPrefix" -> w
       [] t = "start" -> Started(w, e)
       [] t \in {"text", "cdata"} -> [w EXCEPT !.it.text = Append(@, doc[e].strings[1])]
       [] t = "end" -> Ended(w)
       [] t = "error" -> Stop(w, TRUE)
       [] t = "endDocument" -> Stop(w, w.it.depth # 0)
       [] t \in {"comment", "pi"} -> FlushText(w)

\* Slip: the step past an element of the first two levels returns below the root in both modes.
ReleasedSlip(w) ==
  LET i == [w.it EXCEPT !.done = 0]
  IN IF w.it.done = 0 \/ w.it.doneDepth > 2 THEN [w EXCEPT !.it = i]
     ELSE [it |-> [i EXCEPT !.depth = 1, !.subDoc = FALSE], nodes |-> IF i.subDoc THEN <<>> ELSE w.nodes]

\* release_done: past a top-level child its document is freed.
Released(w) ==
  LET i == [w.it EXCEPT !.done = 0]
  IN IF w.it.done = 0 \/ i.mode = "full" \/ w.it.doneDepth > 2 THEN [w EXCEPT !.it = i]
     ELSE [it |-> [i EXCEPT !.depth = 1, !.subDoc = FALSE], nodes |-> IF i.subDoc THEN <<>> ELSE w.nodes]

-----------------------------------------------------------------------------
(* leptris_iterparse_next, one event of its loop at a time.                 *)

IterNext ==
  /\ user = "iter" /\ ~it.running /\ ~it.exhausted
  /\ LET w == Released([it |-> it, nodes |-> nodes])
     IN it' = [w.it EXCEPT !.running = TRUE] /\ nodes' = w.nodes
  /\ UNCHANGED pullVars

IterEvent ==
  /\ it.running
  /\ Advance
  /\ LET w == [it |-> it, nodes |-> nodes]
         v == IF taken' = taken THEN Stop(w, it.error \/ it.depth # 0) ELSE Handled(w, current'.ev)
     IN it' = v.it /\ nodes' = v.nodes
  /\ UNCHANGED <<doc, source, user, stage, mirror, batch>>

IterFree ==
  /\ user = "iter" /\ ~it.running
  /\ Freed
  /\ it' = [it EXCEPT !.done = 0, !.subDoc = FALSE, !.rootDoc = FALSE]
  /\ nodes' = <<>>

Next == (PullAction /\ UNCHANGED <<it, nodes>>) \/ IterNext \/ IterEvent \/ IterFree

Spec == Init /\ [][Next]_vars

-----------------------------------------------------------------------------
(* What the events of a document d stand for.                                *)

IsStart(d, j) == d[j].type = "start"
IsText(d, j) == d[j].type \in {"text", "cdata"}

EndOf(d, e) == Min({j \in e..Len(d) : DepthIn(d, j) < DepthIn(d, e)} \cup {Len(d) + 1})

\* The child elements of e and its runs of text, where they begin.
IsKid(d, e, j) ==
  \/ IsStart(d, j) /\ DepthIn(d, j) = DepthIn(d, e) + 1
  \/ IsText(d, j) /\ DepthIn(d, j) = DepthIn(d, e) /\ ~IsText(d, j - 1)
RunEnd(d, j) == Min({k \in j..Len(d) : ~IsText(d, k)})
KidAt(d, j) == IF IsStart(d, j) THEN Kid(j, <<>>)
               ELSE Kid(0, [k \in 1..(RunEnd(d, j) - j) |-> d[j + k - 1].strings[1]])

\* The n-th number of a set, and the children of element e in order.
Nth(S, n) == CHOOSE j \in S : Cardinality({i \in S : i < j}) = n - 1
KidsAt(d, S) == [n \in 1..Cardinality(S) |-> KidAt(d, Nth(S, n))]
KidsOf(d, e) == KidsAt(d, {j \in (e + 1)..(EndOf(d, e) - 1) : IsKid(d, e, j)})

\* The declarations of e are the prefix events just before it.
DeclAt(d, e) == {k \in 1..(e - 1) : \A j \in k..(e - 1) : d[j].type = "startPrefix"}
DeclsOf(d, e) == {<<d[k].strings[1], d[k].strings[2]>> : k \in DeclAt(d, e)}

\* The bindings in scope in e: of each prefix the one declared innermost.
ScopeOf(d, e) ==
  LET open == {s \in 1..e : IsStart(d, s) /\ EndOf(d, s) >= EndOf(d, e)}
      decl(p) == {s \in open : \E u \in DeclsOf(d, s) : u[1] = p}
  IN {u \in UNION {DeclsOf(d, s) : s \in open} : u \in DeclsOf(d, Max(decl(u[1])))}

-----------------------------------------------------------------------------
(* Properties.                                                              *)

\* An element that has been handed out is alive until the next call, and it and all
\* below it are complete: children and text in order, attributes, own declarations.
YieldsTrees ==
  it.done # 0 =>
    \A e \in {j \in it.done..EndOf(doc, it.done) : j <= Len(doc) /\ IsStart(doc, j)} :
      /\ e \in DOMAIN nodes
      /\ nodes[e].kids = KidsOf(doc, e)
      /\ nodes[e].attrs = doc[e].attrs
      /\ DeclsOf(doc, e) \subseteq nodes[e].decls /\ nodes[e].decls \subseteq ScopeOf(doc, e)

\* The namespaces reported for an element that has been handed out are those in scope
\* in it, although its END has already closed them.
ScopeTrue == it.done # 0 => it.snap = ScopeOf(doc, it.done)

\* The elements to be handed out: those of the mode's levels that are complete.
Complete == {e \in DOMAIN doc : IsStart(doc, e) /\ EndOf(doc, e) <= Len(doc) /\ (Full \/ DepthIn(doc, e) = 2)}

\* Every complete element of the mode's levels is handed out once, in the order of the
\* ENDs, and an error is reported exactly when the input has one.
YieldsAll ==
  it.exhausted =>
    /\ it.error = (Last(doc).type = "error")
    /\ ToSet(it.yields) = Complete
    /\ \A j, k \in DOMAIN it.yields : j < k => EndOf(doc, it.yields[j]) < EndOf(doc, it.yields[k])
=============================================================================
