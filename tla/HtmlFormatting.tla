--------------------------- MODULE HtmlFormatting ---------------------------
(***************************************************************************)
(* The HTML tree builder of html_parse.c on body content: the stack of     *)
(* open elements, the list of active formatting elements and the adoption  *)
(* agency.  Nodes are numbered in the order they are created; node 0 is    *)
(* the chain of top level nodes.  One step of the specification is one     *)
(* token.  Tables, templates, foreign content, select, lists, headings and *)
(* attributes are left out.                                                *)
(***************************************************************************)
EXTENDS Integers, SequencesExt, Chains

CONSTANTS Tags,       \* the element names a document uses
          DepthCap,   \* open[256]
          AfeCap,     \* afe[64]
          ArkCap,     \* same >= 3
          OuterCap,   \* outer < 8
          InnerCap,   \* inner > 3
          MaxNodes    \* bound: a document is over once it has this many nodes

ASSUME HtmlCaps == /\ {DepthCap, AfeCap, ArkCap, OuterCap, InnerCap, MaxNodes} \subseteq Nat \ {0}
                   /\ Tags \subseteq {"a", "b", "i", "p", "div", "span", "object"}

Top == 0          \* the top level chain, as a parent
Marker == 0       \* a scope marker of the formatting list
Unknown == "?"    \* H_ID_UNKNOWN

\* The columns of h_tag_infos, and the sets of names the walks test.
Formatting == {"a", "b", "i"}
Special == {"p", "div", "object"}
ClosesP == {"p", "div"}
Reconstructs == Tags \ {"p", "div"}
ScopeEnds == {"object"}
TagId(n) == IF n = "span" THEN Unknown ELSE n

VARIABLE b   \* HBuilder

Init == b = [open |-> <<>>, ids |-> <<>>, afe |-> <<>>, kids |-> [x \in {Top} |-> <<>>],
             name |-> <<>>, body_seen |-> FALSE]

-----------------------------------------------------------------------------
(* The tree.                                                               *)

Last0(s) == IF s = <<>> THEN 0 ELSE Last(s)
New(s) == Len(s.name) + 1
Created(s, n) == [s EXCEPT !.name = Append(@, n),
                           !.kids = [x \in 0..New(s) |-> IF x = New(s) THEN <<>> ELSE @[x]]]
Moved(s, x, parent) ==
  [s EXCEPT !.kids = [p \in DOMAIN @ |-> LET rest == Without(@[p], {x})
                                         IN IF p = parent THEN Append(rest, x) ELSE rest]]
h_append(s, x) == [s EXCEPT !.kids[Last0(s.open)] = Append(@, x)]

-----------------------------------------------------------------------------
(* The stack of open elements.  ids[i] is the id that was pushed with      *)
(* open[i]; the walks read one array or the other, as the code does.       *)

Depth(s) == Len(s.open)
PopTo(s, d) == [s EXCEPT !.open = SubSeq(@, 1, d), !.ids = SubSeq(@, 1, d)]
h_stack_find(s, e) == IF \E i \in 1..Depth(s) : s.open[i] = e THEN CHOOSE i \in 1..Depth(s) : s.open[i] = e ELSE 0
h_open_element(s, n) ==
  LET t == h_append(Created(s, n), New(s))
  IN IF Depth(s) < DepthCap THEN [t EXCEPT !.open = Append(@, New(s)), !.ids = Append(@, TagId(n))] ELSE t
\* open and open_ns close up over e; open_id does not, it loses its last cell.
DropOpen(s, e) ==
  LET i == h_stack_find(s, e)
  IN IF i = 0 THEN s ELSE [s EXCEPT !.open = RemoveAt(@, i), !.ids = Front(@)]
\* The position of the innermost p in button scope, 0 if there is none.
PInScope(s) ==
  LET c == {i \in 1..Depth(s) : s.ids[i] \in {"p"} \cup ScopeEnds}
  IN IF c # {} /\ s.ids[Max(c)] = "p" THEN Max(c) ELSE 0
\* A scope terminator above stack position i.
OutOfScope(s, kinds, i) == \E k \in (i + 1)..Depth(s) : kinds[k] \in ScopeEnds
NameOf(s) == [k \in 1..Depth(s) |-> s.name[s.open[k]]]

-----------------------------------------------------------------------------
(* The list of active formatting elements.                                 *)

AfterMarker(s) == {i \in DOMAIN s.afe : \A k \in i..Len(s.afe) : s.afe[k] # Marker}
Named(s, n) == {i \in AfterMarker(s) : s.name[s.afe[i]] = n}
h_afe_find(s, n) == Max({0} \cup Named(s, n))
h_afe_index_of(s, e) == Max({0} \cup {i \in DOMAIN s.afe : s.afe[i] = e})
h_afe_remove_idx(s, i) == IF i \in DOMAIN s.afe THEN [s EXCEPT !.afe = RemoveAt(@, i)] ELSE s
h_afe_clear_to_marker(s) ==
  [s EXCEPT !.afe = SubSeq(@, 1, Max({1} \cup {i \in DOMAIN @ : @[i] = Marker}) - 1)]
AfePut(s, i, e) == IF Len(s.afe) < AfeCap THEN [s EXCEPT !.afe = InsertAt(@, i, e)] ELSE s
h_afe_marker_push(s) == AfePut(s, Len(s.afe) + 1, Marker)
\* Noah's ark: one more entry of the same identity drops the earliest.
h_afe_push(s, e) ==
  LET same == Named(s, s.name[e])
      t == IF Cardinality(same) >= ArkCap THEN h_afe_remove_idx(s, Min(same)) ELSE s
  IN AfePut(t, Len(t.afe) + 1, e)

Dangling(s, i) == s.afe[i] # Marker /\ h_stack_find(s, s.afe[i]) = 0
Reopen(s, i) == [h_open_element(s, s.name[s.afe[i]]) EXCEPT !.afe[i] = New(s)]
h_reconstruct(s) ==
  LET from == {i \in DOMAIN s.afe : \A k \in i..Len(s.afe) : Dangling(s, k)}
      after[i \in 0..Len(s.afe)] ==
        IF i = 0 THEN s ELSE IF i \in from THEN Reopen(after[i - 1], i) ELSE after[i - 1]
  IN after[Len(s.afe)]

-----------------------------------------------------------------------------
(* The adoption agency.  A step of the inner loop handles the element      *)
(* `above`, the j-th one from the furthest block fb towards the formatting *)
(* element fe; r holds the builder, the last node and the bookmark.        *)

\* Slip: the clone takes the element's list entry and not its place on the stack.
ClonedSlip(s, above, ai) == [Created(s, s.name[above]) EXCEPT !.afe[ai] = New(s)]
Cloned(s, above, ai) ==
  [Created(s, s.name[above]) EXCEPT !.afe[ai] = New(s), !.open[h_stack_find(s, above)] = New(s)]
\* Slip: the bookmark stays where the formatting element was.
BookmarkSlip(r, fb, ai) == r.bookmark
Bookmark(r, fb, ai) == IF r.last = fb THEN ai + 1 ELSE r.bookmark
Adopt(r, above, fb, j) ==
  LET ai == h_afe_index_of(r.s, above)
      cut == j > InnerCap /\ ai # 0
      s == IF cut THEN h_afe_remove_idx(r.s, ai) ELSE r.s
      cl == New(s)
  IN IF ai = 0 \/ cut
     THEN [r EXCEPT !.s = DropOpen(s, above), !.bookmark = IF cut /\ @ > ai THEN @ - 1 ELSE @]
     ELSE [s |-> Moved(Cloned(s, above, ai), r.last, cl), last |-> cl, bookmark |-> Bookmark(r, fb, ai)]
InnerLoop(s, si, fbi, fi) ==
  LET fb == s.open[fbi]
      after[j \in 0..fbi - si - 1] ==
        IF j = 0 THEN [s |-> s, last |-> fb, bookmark |-> fi]
        ELSE Adopt(after[j - 1], s.open[fbi - j], fb, j)
  IN after[fbi - si - 1]

\* A copy of fe takes over the children of the block and becomes its only child.
\* Slip: the children stay where they are.
CopyInsideSlip(s, fe, fb) == [Created(s, s.name[fe]) EXCEPT !.kids[fb] = Append(@, New(s))]
CopyInside(s, fe, fb) == [Created(s, s.name[fe]) EXCEPT !.kids[fb] = <<New(s)>>, !.kids[New(s)] = s.kids[fb]]
InsertOpen(s, fb, e, id) ==
  LET at == h_stack_find(s, fb) + 1
  IN IF at = 1 \/ Depth(s) >= DepthCap THEN s
     ELSE [s EXCEPT !.open = InsertAt(@, at, e), !.ids = InsertAt(@, at, id)]
\* fe leaves the stack and ne enters it above the block, ids and all.
\* Slip: fe stays.
SwapOpenSlip(s, fe, fb, ne) == InsertOpen(s, fb, ne, s.ids[h_stack_find(s, fe)])
SwapOpen(s, fe, fb, ne) ==
  LET ri == h_stack_find(s, fe)
  IN InsertOpen([s EXCEPT !.open = RemoveAt(@, ri), !.ids = RemoveAt(@, ri)], fb, ne, s.ids[ri])
\* Steps 17 to 19: the copy, its list entry at the bookmark, its stack position.
Replace(s, fe, fb, fi, bookmark) ==
  LET t == h_afe_remove_idx(CopyInside(s, fe, fb), fi)
      mark == IF bookmark > fi THEN bookmark - 1 ELSE bookmark
  IN SwapOpen(AfePut(t, Min({mark, Len(t.afe) + 1}), New(s)), fe, fb, New(s))

\* One round of the outer loop; `over` when it returns.
Round(s, subject) ==
  LET fi == h_afe_find(s, subject)
      fe == s.afe[fi]
      si == h_stack_find(s, fe)
      blocks == {k \in (si + 1)..Depth(s) : NameOf(s)[k] \in Special}
      fbi == Min(blocks)
      r == InnerLoop(s, si, fbi, fi)
      ancestor == Last0(SubSeq(s.open, 1, si - 1))
  IN IF fi = 0 THEN [s |-> s, over |-> TRUE, consumed |-> FALSE]
     ELSE IF si = 0 \/ OutOfScope(s, s.ids, si)
          THEN [s |-> h_afe_remove_idx(s, fi), over |-> TRUE, consumed |-> TRUE]
     ELSE IF blocks = {}
          THEN [s |-> h_afe_remove_idx(PopTo(s, si - 1), fi), over |-> TRUE, consumed |-> TRUE]
     ELSE [s |-> Replace(Moved(r.s, r.last, ancestor), fe, s.open[fbi], fi, r.bookmark),
           over |-> FALSE, consumed |-> TRUE]
Agency(s, subject) ==
  LET after[k \in 0..OuterCap] ==
        IF k = 0 THEN [s |-> s, over |-> FALSE, consumed |-> TRUE]
        ELSE LET a == after[k - 1] IN IF a.over THEN a ELSE Round(a.s, subject)
  IN after[OuterCap]
h_afe_end(s, subject) ==
  IF Depth(s) > 0 /\ s.name[Last(s.open)] = subject /\ h_afe_index_of(s, Last(s.open)) = 0
  THEN [s |-> PopTo(s, Depth(s) - 1), consumed |-> TRUE]
  ELSE Agency(s, subject)

-----------------------------------------------------------------------------
(* Tokens.                                                                 *)

Text == b' = h_append(Created(h_reconstruct(b), "#text"), New(h_reconstruct(b)))

CloseP(s) == LET t == IF PInScope(s) # 0 THEN PopTo(s, PInScope(s) - 1) ELSE s
             IN PopTo(t, Max({0} \cup {i \in 1..Depth(t) : t.ids[i] # "p"}))
CloseOldA(s) ==
  LET ai == h_afe_find(s, "a")
      si == h_stack_find(s, s.afe[ai])
      t == h_afe_end(s, "a").s
      left == h_afe_find(t, "a")
  IN IF ai = 0 \/ (si # 0 /\ OutOfScope(s, NameOf(s), si)) THEN s
     ELSE IF left = 0 THEN t ELSE DropOpen(h_afe_remove_idx(t, left), t.afe[left])
Listed(s, n, e) == IF n \in Formatting THEN h_afe_push(s, e)
                   ELSE IF n \in ScopeEnds THEN h_afe_marker_push(s) ELSE s
StartTag(n) ==
  LET s == [b EXCEPT !.body_seen = TRUE]
      t == IF n \in ClosesP THEN CloseP(s) ELSE s
      u == IF n = "a" THEN CloseOldA(t) ELSE t
      v == IF n \in Reconstructs THEN h_reconstruct(u) ELSE u
  IN b' = Listed(h_open_element(v, n), n, New(v))

\* The elements an end tag does not cross on its way to its target.
Fences(target) == IF target \in Formatting THEN Special \ {"div", "p"}
                  ELSE IF target \notin Special THEN Special ELSE ScopeEnds
AnyOtherEnd(s, n) ==
  LET stops == {k \in 1..Depth(s) : NameOf(s)[k] = n \/ NameOf(s)[k] \in Fences(n)}
      d == Max(stops)
      t == PopTo(s, d - 1)
  IN IF stops = {} \/ NameOf(s)[d] # n THEN s
     ELSE IF n \in ScopeEnds THEN h_afe_clear_to_marker(t) ELSE t
\* </p> with no p in scope leaves an empty one; the pop takes whatever is on top.
EmptyP(s) == LET t == h_open_element(s, "p") IN PopTo(t, Depth(t) - 1)
EndTag(n) ==
  /\ Depth(b) > 0 \/ (n = "p" /\ b.body_seen)
  /\ b' = IF n = "p" /\ b.body_seen /\ PInScope(b) = 0 THEN EmptyP(b)
          ELSE IF n \in Formatting /\ h_afe_end(b, n).consumed THEN h_afe_end(b, n).s
          ELSE AnyOtherEnd(IF n \in Formatting THEN h_afe_end(b, n).s ELSE b, n)

Next == /\ Len(b.name) < MaxNodes
        /\ \/ Text
           \/ \E n \in Tags : StartTag(n)
           \/ \E n \in Tags : EndTag(n)
Spec == Init /\ [][Next]_b

-----------------------------------------------------------------------------
(* Properties.                                                             *)

Parents(s, x) == {p \in DOMAIN s.kids : x \in ToSet(s.kids[p])}
\* The texts below x in document order; the elements above x.
TextsUnder(s, x) ==
  LET texts[n \in 0..Len(s.name)] ==
        [y \in DOMAIN s.kids |->
           IF y # Top /\ s.name[y] = "#text" THEN <<y>>
           ELSE IF n = 0 THEN <<>>
           ELSE FlattenSeq([k \in DOMAIN s.kids[y] |-> texts[n - 1][s.kids[y][k]]])]
  IN texts[Len(s.name)][x]
Above(s, x) ==
  (UNION {Reached(p, [y \in DOMAIN s.kids |-> Parents(s, y)]) : p \in Parents(s, x)}) \ {Top}
Wrap(s, x) == {s.name[y] : y \in Above(s, x)} \cap Formatting
TextNodes(s) == {x \in DOMAIN s.name : s.name[x] = "#text"}

\* Markup may move a text to another parent, never past another text, and it
\* loses and repeats none: the document reads as it was written.
TextInOrder == TextsUnder(b, Top) = SetToSortSeq(TextNodes(b), <)

\* Each open element lies under the one below it on the stack, in one place
\* only: what is appended at the top of the stack lands under every open
\* element, as h_append and the agency (which takes the block's new parent from
\* the stack) assume.
StackIsBranch ==
  \A k \in 1..Depth(b) :
    /\ Cardinality(Parents(b, b.open[k])) = 1
    /\ k > 1 => b.open[k - 1] \in Above(b, b.open[k])

\* The formatting list follows the stack: its markers are the open objects, and
\* after the last marker the entries still open come first, in stack order, so
\* that one reconstruction from the first closed entry restores the nesting.
ListFollowsStack ==
  /\ Cardinality({i \in DOMAIN b.afe : b.afe[i] = Marker})
       = Cardinality({k \in 1..Depth(b) : NameOf(b)[k] \in ScopeEnds})
  /\ \A i, k \in AfterMarker(b) :
       i < k /\ ~Dangling(b, k) => ~Dangling(b, i) /\ h_stack_find(b, b.afe[i]) < h_stack_find(b, b.afe[k])

\* No token changes the formatting of the text before it, however the agency
\* splits the elements around it, and a new text has all the formatting that
\* was opened and not closed since the innermost object.
FormattingKept ==
  [][/\ \A x \in TextNodes(b) : Wrap(b', x) = Wrap(b, x)
     /\ \A x \in TextNodes(b') \ TextNodes(b) : {b'.name[b'.afe[i]] : i \in AfterMarker(b')} \subseteq Wrap(b', x)]_b

\* "The open stack's PARALLEL arrays must move together" (html_parse.c:4904):
\* the ids of the open elements are those of their names.
IdsAgree == b.ids = [k \in 1..Depth(b) |-> TagId(NameOf(b)[k])]
=============================================================================
