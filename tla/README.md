# leptris: a verification development

leptris is a C99 XML library: parsers, a DOM on arena memory, XPath, XSLT,
schema languages, serialisers.  This directory models the parts whose
correctness depends on the order of events - shared caches, borrowed pointers,
object lifetimes, lazily built indexes, resumable parsers - in TLA+, checks
small instances with TLC and proves the central invariants for every instance
with TLAPS.  Source paths below are relative to `src/leptris/` of the
repository.

## 1. The system and its parts

| Part | Source | State it keeps | Operations | Talks to |
|---|---|---|---|---|
| XPath AST/bytecode cache | `xpath/xpath_ast_cache.c`, `xpath_compiled.c`, `xpath_public.c` | 16 slots with pins, a graveyard, one process mutex, a per-thread owner flag | get, insert, release, get_bc, store_bc; compiled handles | XPath parser, compiler, VM; XSLT |
| Root-to-document map | `dom/root_doc_map.c` | hash buckets, entry chunks, per-document chains, a global generation, a per-thread memo | register, unregister, unregister_doc, lookup, get_document, drain | document lifecycle, every DOM accessor |
| XSLT executor | `xslt/` | per-transform state hung on the source document, function registry, cache ownership | transform, nested transform, free | XPath, DOM, serialiser |
| Arena and page pools | `memory/arena.c`, `memory/pool.c`, `memory/doc_block.c` | retained blocks in tiers, recycled pools, pages, strings | alloc, extend, retain, take, recycle, contains | DOM, parsers |
| DOM tree and mutation | `dom/element*.c`, `dom/node*.c`, `dom/mut_recycle.c` | compact-pointer tree, tail pointers, attribute lists, mutation version | append, insert, remove, replace, copy, rename | element index, namespace maps |
| Element index and position journal | `dom/element_index.c`, `dom/elem_pos.c` | preorder array, subtree intervals, name buckets; append-only journal | build, query, invalidate | DOM mutation, XPath VM |
| Compact pointers | `dom/compact.c` | relative offsets, overflow table | encode, decode | DOM |
| Documents and errors | `leptris.c`, `core.c`, `error.c`, `leptris_memory.c` | document handle, thread-local error, allocation hooks | parse, free, last_error, thread cleanup | all |
| Direct parser | `flat/direct_parse.c` | cursor, element stack, entity environment memo | parse in one pass to the DOM | pools, entities |
| SAX | `sax/` | push parser buffer and state, pull cursor, iterparse stack, recorder | feed, next, skip, close | encoding, entities |
| HTML parser | `html/html_parse.c` | insertion modes, open-element stack, formatting list | tokenise, tree construction | DOM |
| Encodings and Unicode | `encoding/`, `unicode/` | incremental decoder state | detect, decode, encode | parsers, serialiser |
| DTD | `dtd/` | element models, attribute declarations, entities | parse, validate, content check | parsers |
| XSD, RELAX NG, Schematron | `xsd/`, `rng/`, `sch/` | compiled automata, derivative state | compile, validate | DOM, XPath |
| XInclude | `xinclude/xinclude.c` | inclusion stack | process, include, fallback | parsers, DOM |
| XPath language | `xpath/` (rest) | expression trees, bytecode, function registry, variables | parse, compile, evaluate | DOM, cache |
| XQuery | `xquery/xquery.c` | FLWOR tuples, scopes | parse, evaluate | XPath |
| Serialiser and C14N | `serialize/` | output buffer, namespace stack | serialise, canonicalise | DOM |
| Diff | `diff/diff.c` | edit lists | compare, patch | DOM |
| Descriptors | `descriptor/plan.c` | compiled extraction plans | compile, run | DOM, SAX |
| Common | `common/` | SIMD dispatch, string views, entities | search, copy | all |
| Command line, bindings, benchmarks | `cli/`, `bindings/`, `benchmarks/` at the repository's root | none of their own | call the library | library |

How they meet.  A thread parses bytes into a document (direct parser, SAX,
HTML); the document owns a pool, and its nodes refer to each other by compact
offsets.  Every accessor that needs the document walks to the top of the tree
and asks the top element's stamp or the process-wide root map.  XPath borrows
parsed expressions from a process-wide cache under a mutex and fills caches on
the document it reads, without a lock.  XSLT hangs its execution state on the
source document and takes the XPath cache for its thread.  `README.adoc`
(697-702) allows documents owned by different threads and read-only sharing of
one document, and forbids concurrent mutation: those two rules fix what the
environment of each module may do.

The hard behaviours are: borrowed pointers against eviction; ownership passing
between documents and freed addresses used again; a tree kept in four
redundant edges and a cache of a fifth; state built lazily by readers; parsers
stopped and resumed anywhere; retained blocks at their limits.  What makes each
part correct:

* cache: a borrowed AST lives until its last release; pins count borrowers;
  nothing leaks; every cached expression is found;
* root map: a lookup never answers with a document that has been freed or with
  one that no longer owns the node;
* DOM tree: the edges describe one forest, the cached tail is the last child,
  the counts are exact, and no call loses a node;
* document lifecycle: a tree never reaches storage that can be freed before it,
  and every document is freed once;
* lazily built indexes: used only at the version they were built for, built
  once;
* XSLT: the source document never points at an execution state that is gone,
  cache ownership is given back;
* pull and streaming parsers: the same events whatever the chunks, attributes
  of the event they are asked about, storage bounded by the batch;
* arena and pools: a block is in one place, limits hold, memory is not handed
  out twice.

## 2. Modules, in the order they are written

| | Modules | State | Composes | What is stated |
|---|---|---|---|---|
| 1 | `XPathAstCache`, `AstLease`, `MCXPathAstCache`, `XPathAstCacheProofs` | done | the cache implements `AstLease` | borrow safety, exact pins, single ownership, findability, draining; all but the last proved |
| 2 | `ChildList`, `ChildSeq`, `MCChildList`, `ChildListProofs` | done | the edges implement `ChildSeq`, each call the step of its name | parent/child agreement, tail cache, acyclicity, counts and the refinement, all proved for trees as deep as `append_child` checks |
| 3 | `DocLifecycle`, `MCDocLifecycle`, `DocLifecycleProofs` | done | root map's contents with ownership and trees | storage safety, single release, entries live, resolution; all proved |
| 4 | `RootDocMap`, `MCRootDocMap`, `Chains`, `ChainsProofs`, `RootDocMapProofs` | done | threads over one map, memo and generation | a trusted memo agrees with the map; chains and buckets agree; elements resolve to their owner; all proved |
| 5 | `SaxStreaming`, `MCSaxStreaming` | done | the resumable parser and its dispatch loop | chunk independence, promptness |
| 6 | `PullParser`, `IterParse`, `MCPull`, `PullParserProofs`, `IterParseProofs` | done | event ring and batches; `IterParse` extends `PullParser` | events accounted for, batches readable, attributes served; whole trees and scopes handed out, each element once; all proved |
| 7 | `ContentLanguage`, `DtdContent`, `XsdContent`, `RngContent`, `ContentCheck`, `MCContentCheck` | done | three matchers against one reference language | soundness or exactness of each, and where |
| 8 | `HtmlFormatting`, `MCHtmlFormatting`, `HtmlFormattingProofs` | done | stack, formatting list and tree | the stack is a branch of the tree, proved; order of text, stack and list agree, formatting kept |
| 9 | `OverflowTable`, `SharedReaders` | planned | `SharedReaders` uses the mutations of 2 as its version counter | edges read by any thread decode to their target; an index is never used after a mutation; one build |
| 10 | `XsltState` | planned | owner mode of 1, nested transforms | state restored on every path, ownership given back |
| 11 | `ArenaRetain`, `XIncludeStack` | planned | bounded algorithms | limits, termination |

Abstract specifications: `AstLease` (objects and leases), `ChildSeq` (sequences
of children) and, as a pure definition, `ContentLanguage` (which lists of
children a content model allows).  The proof modules stand beside the module
they are about; `ChainsProofs` holds the lemmas that several proofs use, on lists, on
what is reached along links and on the ends of a set of numbers.  That the detailed modules implement `AstLease`
and `ChildSeq` is proved; section 11 lists what no theorem states.

Modules that may be proved about keep to forms the proof system can use:
parameters with named assumptions, one action per function or per stretch
between two locks, walks as recursive functions and not as recursive operators.
Operators whose names end in `Slip` are not the code: each is a plausible slip
in the definition below it, kept to show what the properties would catch
(`PROJECT.json`, "mutants").

## 3. XPath AST cache

`XPathAstCache.tla` models `xpath/xpath_ast_cache.c` and its callers.

**State.** `g_cache` is the slot array; an entry is `[expr, ast, bc, pins]`, and
`expr = None` stands for hash 0.  `g_graveyard` is the list of evicted entries
still borrowed.  `astHeap` and `bcHeap` tell, for each address, which
expression the live object there was built from, so that a freed and reused
address is a different object.  `th` has one frame per thread (the local
variables of the call in progress); `compiled` the compiled handles.

**Actions.** The `*_locked` functions run under `g_cache_mutex`, so each is one
atomic operator (`CacheGet`, `CacheInsert` with `InsertTwin`, `Evict`, `Fill`,
`CacheRelease`, `CacheBc`, `CacheStoreBc`).  The callers are split where they
hold no lock: `EvalHit`/`EvalMiss`, `EvalInsert`, `CompileBc`, `RunCached` or
`RunFreshAndStore`, `EvalRelease` for `leptris_xpath_eval`; `CompileParse`,
`CompileInsert`, `CompiledFree` for the handles; `EvalIn` and `CtxGet` to
`CtxRunAndRelease` for their evaluation.  The program does not free a handle
that an evaluation is using.

**Runs.**

* `CacheCalls`: two threads and one handle, three expressions, two slots, two of
  the expressions with one home slot: probing past a collision, eviction when
  full, racing twins, compile, both kinds of evaluation and free while the slots
  are fought over.  Four invariants besides the type, and `KeepsLeases`: the
  cache implements `AstLease`, where a borrowed object is simply never reclaimed.
* `CacheDrains`: the graveyard node may fail to be allocated (the entry is then
  leaked on purpose, xpath_ast_cache.c:170-184), and every graveyard entry is
  freed in the end; `BcRunSafe` holds here, where no handle is used.  Fairness: a thread that is inside a call goes on
  (`WF_vars(Step(t))`); nothing says that anybody makes a call, frees a handle
  or gets the lock more often than that.
* `CacheHandleBytecode` (violation): bytecode has no pins.  A handle whose
  entry is in the graveyard runs the bytecode of an entry inserted later by
  another thread, which a third expression may evict.

There are as many AST addresses as slots, threads and handles together, so an
insert always finds one; there are two to five bytecode addresses, and an expression that
cannot be compiled is interpreted, as when the allocation fails.  With 16 slots
nothing new happens: full, colliding and empty probes all occur with two.

**Proof.** `XPathAstCacheProofs.tla` proves for every number of threads,
handles, expressions and slots, and any hash: `TypeCorrect` (`[]TypeOK`),
`BorrowsAreSafe` (`[]AstBorrowSafe`) and `PinsAreExact` (`[]PinsExact`).  Pins alone are not
inductive: that a release finds the right entry needs every AST to be in one
place.  The invariant is `IType` (types, and which pointers a frame holds at
each point of its call), `EntriesOK` (an entry's AST is live, is the parse of
the entry's expression, is in no second slot or grave, and has exactly `pins`
borrowers), `PrivateOK` (an AST just parsed is known to its thread only) and
`AstBorrowSafe`.  One lemma says what each cache function keeps, one what each
caller does to the set of borrowers (one joins, one leaves, or nothing
changes), and the last steps put them together.  Assumptions:
`CacheAssumption`, and that duplicating the expression in an insert does not
fail (`"copy" \notin MayFail`).  The second is needed because the code is
wrong there: `cache_insert_locked` evicts the victim first, and when the copy
fails (xpath_ast_cache.c:187) returns with the slot still holding the freed
AST; TLC with `"copy"` in `MayFail` violates `AstBorrowSafe` in a few steps.

`CacheImplementsLease` (`KeepsLeases`) is a step-by-step refinement from the
same invariant and under the same assumption.  A lease is a frame's or a
handle's borrowed pointer; an insert, a hit or a compiled handle adds one, a
release takes one away, and where the cache frees an AST - an eviction of an
entry without pins, the last release of a grave - `EntriesOK` says that nobody
leases it.  Every other step changes nothing `AstLease` can see.

The second half of the module has three more.  `ProbesFind` (`[]Findable`) needs
no assumption: `PInv` says that from an expression's home slot to its entry no
slot is empty and that no second entry has the expression.  It is kept because
slots, once filled, are only overwritten, and an insert looks through the whole
probe sequence before it takes a slot.  `OneOwner` (`[]OwnedOnce`) adds to the
invariant that every live AST is cached, in a grave or private to a thread, and
every live bytecode in exactly one slot, grave or frame.  It assumes that no
allocation in the cache fails (`MayFail = {}`): without a graveyard node a
borrowed entry is leaked on purpose, and a failed copy leaves a freed entry in its
slot.  `RunsAreSafe` (`[]BcRunSafe`) rests on `OneOwner`'s invariant: a thread that
runs bytecode holds a pin on the AST beside it, in the same entry.  It assumes
`Ops \subseteq {"eval", "compile"}`, because evaluation of a handle drops that
argument, and `CacheHandleBytecode` shows what then happens.

`GraveyardDrains` is liveness and stays with TLC.

**Not modelled**: owner mode (a transform skips the mutex; see the hazards),
evaluation nested in a custom function, results, and an evaluation whose parse
fails, which returns without touching the cache.  `leptris_xpath_compiled_eval_context`
(`CtxGet` to `CtxRunAndRelease`) also runs bytecode it has handed to the cache when the re-read
misses (xpath_compiled.c:171-176); `BcRunSafe` is therefore not among the properties of
`CacheCalls`.

## 4. Child lists

`ChildList.tla` models what `dom/element.c`, `dom/element_modify.c` and
`dom/node_public.c` do to `first_child`, `next_sibling`, `parent` and
`child_count`, and to the document's 64-entry tail cache (`NSlots` entries
here).  `dom` holds the edges, `mut_tail` the cache.  There is one action per
public function; `insert_before` and `insert_after` have a second one for a
detached sibling, where the code only links the chain.  Text nodes, comments
with CDATA, and entity references are told apart because the code reads their
fields at different offsets.  An edge from a node to itself encodes as 0, that
is as NULL.

`ChildSeq.tla` is the promise: every element has a sequence, every node is in
at most one, each call moves one node to its place.  `IsChildSeq` maps a state
to what walking from each first child meets (`KidsOf`) and says two things: the behaviour
is one of `ChildSeq`, and each call is the abstract step of its own name (`AsNamed`:
`AppendChild` puts the node last, `PrependChild` first, `InsertBefore` and
`InsertAfter` next to the sibling they were given), so an append that prepends
does not pass.  A program that builds chains of detached nodes is mapped to
empty sequences, which promises nothing of it.

`append_child` looks for the child among the ancestors of the parent and gives up after
8,192 of them (element_modify.c:510, the constant `WalkCap`); the inserts and
`prepend_child` walk to the top.  Below that depth an append that closes a cycle
is let through.

The code does not keep the promise under all of its own operations together.
The constant `Programs` lists sets of functions; a behaviour picks one of them
(`calls`) and uses only those:

* `ChildLists` has three such programs on three elements and a text, the
  elements on two tail-cache entries so that one is shared: `Appends` (append,
  unlink, remove, remove_all), `Inserts` (prepend, before and after attached
  siblings, unlink, remove, remove_all) and `ChainInserts` (the same inserts
  next to detached nodes too).  The first two keep everything: `ParentsAgree`,
  `CountExact`, `TailIsLast`, `WalksEnd` and `IsChildSeq`.  In the third the
  statements about lists do not hold and do not apply: `insert_after(a, b)` and
  `insert_before(a, b)` of two detached nodes build a cycle
  (element_modify.c:634-642), and a chain head appended to a parent carries
  siblings whose parent edges stay NULL (612-618, as intended).  What is
  checked there is that no element becomes its own ancestor; the constraint
  `ElementChains` keeps chains to elements, whose ancestors are the question.
* `ChildTailStale` (violation): an `insert_after` behind the last child leaves
  the tail cache on its predecessor; the next append drops the inserted node.

Three elements and a leaf reach every shape the code distinguishes (first,
middle, last child; sibling of another parent; ancestor at distance one and
two).  `WalkCap` is the code's 8,192, which the runs' trees never reach.
With 1 in its place TLC appends an element below its own descendant and violates `WalksEnd`; in the library it takes
a chain of more than 8,192.
`CountMod` is 8 rather than 65,536: the runs' trees never reach that either.  The
wrap itself is real: `child_count` is a `uint16_t` (dom/element.h:409), so an
element with 65,536 element children reports none.

Left out: processing instructions as siblings (the code reads half a pointer
and crashes), `insert_after(t, t)` of a leaf with itself (which loses it),
elements from an older mutation block, and, in every run, entity references:
the actions cover them, but `leptris_node_unlink` leaves their parent edge
(node_public.c:563-579, its switch has no case for them), which breaks the tree.  Attributes, names
and copying are not in this module.

**Proof.** `ChildListProofs.tla` proves the five invariants and the refinement for any number of nodes
and any sharing of tail-cache entries.  `EdgesTyped` (`[]TypeOK`) needs no
hypothesis.  The other five assume `KnownUse`, what the code needs and the sets of
`ChildLists` obey: no entity references; a program that appends calls no other function that inserts; and
with `insert_before` or `insert_after` no comments (section 10).  The second of these keeps out,
with the lost node of `ChildTailStale`, the parent cycle a stale tail can make.  They also assume
`[]Shallow`: in a program that appends no element ever has more than `WalkCap`
ancestors.  They are `ParentsAndLists`
(`[]ParentsAgree`), `CachedTailIsLast` (`[]TailIsLast`), `EveryWalkEnds`
(`[]WalksEnd`), `ListsAreSequences` (`IsChildSeq`) and `CountsAreExact` (`[]CountExact`), the last also for no
more elements than sixteen bits count.  What the properties say of walks is not inductive; the
invariant `LInv` speaks of single edges.  `Linked`: an edge to a
child or sibling leads below the same parent, no two edges lead to one node, and a
node with a parent has an edge to it.  Loops are excluded by numbers: there is a
numbering of the nodes that grows along the sibling edges (`Ordered`), and one that
grows along the parent edges (`Rising`); each change is given the new
numbering (`FrontSound`, `FollowSound`, `LeaveSound`, `EmptySound`, `MoveOrdered`).
From there to the walks: by the pigeonhole principle a walk that climbs ends within
as many steps as there are nodes (`Climbs`), so the walk from the first child meets
exactly the nodes whose parent edge names the parent (`Reaches`).  A node may move below an
element that is outside a set closed upwards (`Free`), which is what each function's
check establishes, the short cut of `append_child` for a childless element included (`AdoptFree`).
`Tails` says that a cached tail that would pass its check has no next sibling.

For the refinement, a sequence `Spells` a list when its members follow each other
along the sibling edges; `KidsOf` does (`KidsSpell`: the walk up to its first NULL is
as long as there are children), and nothing else does (`SpellUnique`).  So it is enough that
the sequence the abstract call produces spells the new list: for taking out, putting
first and putting behind a node these are `SpellLeft`, `SpellFront` and `SpellBehind`,
about edges alone.  Each function then has a lemma that says where it puts the child
(`AppendPlaces` to `AfterPlaces`, which the invariant's proof uses too) and one that it
is the abstract step of its name (`AppendSeq` to `RemoveAllSeq`).  The abstract
guard, that the new parent is `Outside` what hangs below the child, is the complement of
the upward closed set of `Free` (`OutsideIs`).

## 5. Documents and ownership

`DocLifecycle.tla` models who owns whose storage.  `live` and `held` are the
documents that exist and those the program must still free; `doc` has the
fields of `struct leptris_document` that `absorb` and `free` use; `heap` has for each
node the document whose pool it is in, its edges, the document stamped on it
(`namebp`) and its entry in the root map.  Actions are the public functions:
parse, create, set_name, append (which moves or copies by
`adopt_for_splice`), unlink, remove_child, set_root, absorb, XInclude's splice,
free of a handle and free of a document (with its recursion over owned
documents and the deferred ones).

The program follows `leptris.h`: a document given to `absorb` is consumed, so
only its handle is used afterwards (`UsableDoc`); nodes of documents waiting
for their handle to be freed are not touched (`UsableNode`).  Two more
assumptions are options of `Ops`, off in the passing run because the code breaks without them:

* `append_orphan`: splicing a node that resolves to no document
  (`remove_child` does not register the orphan; with the option on TLC violates
  `TreeSafe`);
* `recycle_entry`: the allocator handing out an address that is still in the
  map (a deferred document keeps entries of nodes of another pool).

What is reached along edges, below a node or from a document to those it owns,
is one operator, `Reached` of `Chains.tla`, a recursive function that the proofs can unfold.  A
copy's edges are those of the copied subtree: its nodes are made while the child
list of the node above is walked, and get that node's copy as parent.

`DocMoves` checks five invariants over three documents and four nodes;
documents and nodes that exist at one time are bounded by `MaxSize = 6`, which
still has three documents with three nodes, and two documents with four.  Three
documents are the least for a chain of absorptions and an include in the same
family.  Addresses are reused at once.

What the comment in `leptris_document_free` calls critical, that registrations
are dropped before any element's storage is freed (leptris.c:1030-1036), is not a
property, because the code fails it: a node of an absorbed document
becomes the root of the one that absorbed it, the free releases the absorbed
pool first and then reads the root (1046).  The library does read freed
memory there.  In the run and the proofs such a root may be set; what the read returns is a
choice of `FreeDocument`, and the invariants above hold either way.

**Proof.** All five hold for any number of documents and nodes.
`ChainsProofs.tla` proves what `Reached` computes, the least set closed under the
links; `DocLifecycleProofs.tla` first proves what `Top` does: the end of the parent chain or a node on it if the
chain is too long; each operation on the heap then has a lemma that gives its
fields.  The invariant has two parts.  `OwnOK` is about documents: a live document is
owned by exactly one other or is the program's to free, never both; a document
whose owner died first (`absorbed_deferred`) still has its handle out; dead
documents own nothing.  `HeapOK` is about nodes: a node's pool and its map entry
are live documents, and a stamp names the node's own pool.  `TypesHold`,
`FreedByOne` (`[]ReleasedOnce`) and `EntriesNameLive` (`[]EntriesLive`) follow under every
set of `Ops`; the hard step is the free of a document, which takes everything
reached over owned documents except those with a handle out.

The second half of the module proves `TreesStayHome` (`[]TreeSafe`) and
`ResolvesToFamily` (`[]ResolvesInFamily`).  Neither is inductive, and no statement
about single documents is: a node may be in the pool of one document, hang below a
node of another and have a map entry for a third, as long as all three go
together.  The invariant `FamOK` is therefore about families, a document nobody owns
with all it owns: every live document is in one; the root of its head is stored in
one of its pools; and no edge and no map entry of a node stored in the family leads out of it.  An
append moves a node only if it resolves to the document of its new parent or to one
absorbed by that, and copies it otherwise; absorbing unites two families; freeing removes one, except for documents whose
handles are still out: those head families of their own, whose nodes the program
may not use and about which nothing is claimed.
The hypothesis `KnownNodes` is that `append_orphan` and `recycle_entry` are off, the
two options under which TLC refutes the statements.

Left out: anchored documents, xpointer includes, out-of-memory paths, and the caches and buffers hung on a
document.

## 6. The root-to-document map

`RootDocMap.tla` takes the map that section 5 only sees the contents of, and
puts threads on it.  `buckets` and `chains` are the two lists every entry is
in, `entry` and `spare` the storage, `gen` the generation that each change
bumps, `memo` the pair a thread remembers and trusts without the lock while its
generation is current.  `pool`, `marked`, `top`, `absorbed` and `users` say what
the threads' documents look like; `call` is the function a thread is in.  What
runs under the lock is one step; `leptris_root_doc_unregister` is two
(`UnregisterProbe` reads the flag and bumps the generation before it takes the
lock, `UnregisterLocked`), and a free is the sequence of section 5 cut at each
lock.  The environment is the contract of `README.adoc:697-702`: `users[d]` is
one thread for a change, several for readers.

`RootMap` has two threads, three documents, two element addresses in one
bucket and four entries: every address is used again while other threads hold
memos of it.  A lookup's result depends on three things, the memo, the bucket
and the owner, and each gets one property: `MemoTrue`, `ChainsAgree`,
`ResolvesToOwner`.  The generation grows for ever; only whether a memo is of the current
generation can matter, and the view `Fresh` identifies states by that, so the run is
finite without a bound.  Documents that have absorbed others are absorbed in their turn:
`Family` is what is reached over `absorbed`, and a lookup in a family goes on
answering for the element's own document or one that took it over.  Every document has a root of its own, so a
chain of absorptions takes three addresses; the third, in a bucket of its own, is used while one
thread has all the documents (`OneForThird`).  The view also leaves out what a spare
entry still holds, which is overwritten before it is read.  The wrap of the 64-bit counter is not modelled, nor a
failed allocation of an entry, nor a root that was moved out of an absorbed document
(section 5).

**Proof.** All three are proved for any number of threads, documents, addresses,
entries and buckets, with no assumption but `RootDocAssumption`
(`MemoIsTrue`, `ChainsAreExact`, `ResolvesHome`).  `Chains.tla` has the
list operators of the map, written with the folds and recursive functions that
can be unfolded; `ChainsProofs.tla` says what they keep (the elements, their
being distinct, the first that satisfies a test).  The inductive invariant `RootInv`
has six parts: `CoreOK`, who may touch what (a document that is being freed has one
user, and a family is used together; the lemmas `KinSet` to `FamilyKin` say what a family is
once a document joins or leaves it); `AuxOK`, types; `MapOK`, an entry is spare
or once in its bucket and once in its chain; `LiveOK`, an entry in use names a
document no sweep has left; `MemosOK`; `ResolvesOK`.  `MemoTrue` alone is not inductive:
`UnregisterLocked` drops an entry without a bump of its own, after
the bump in `UnregisterProbe`.  What closes the gap is the last conjunct of `MemoOK`:
between the two steps no memo of that root is of the current generation.  That
is so because a thread that could refresh it would have to be a user of the document, and
the only one is the thread that frees it.

## 7. The streaming parser

`SaxStreaming.tla` models `sax/streaming.c` byte by byte: `sax` is the parser
(state, unread bytes, carry of a token cut in two, element stack, events
reported), there is one operator per state of the dispatch switch, and `Feed` is
`leptris_sax_parser_feed` with any number of the next bytes.  `input` is a
sequence of pieces, each with the bytes it stands for and the events they mean,
so that the reference (`Meaning`) is not a second parser.

`Streaming` feeds some 690 documents in every way of cutting them: an XML
declaration, a comment, a document type or an instruction whose target begins
like the declaration; names of one and two letters, so that they are cut too; attributes with
references, with the other quote and without spaces; namespace declarations;
two of seven kinds of content, among them a CDATA section and a comment with
half an end mark inside; end tags with and without white space; an instruction behind the
root.  `Faithful`: the events are those of the document.  `Prompt`: each is out
when its last byte is in (except text, which may wait for what follows).  The
openers are shortened, keeping their order of length, because the parser's
decisions depend on how many of their bytes have come and not on which letters
they have.  Adjacent text events count as one, as the interface allows.

One cut is left out of both: `endCut` remembers that a feed ended behind the white space
of an end tag, and the two claim nothing after it.  There the parser fails, against its
interface (section 10).  The documents are well formed.  Positions,
the depth limit, memory failures, the report of a duplicate attribute, reset, and the
in-place scans of one-shot mode are left out.

## 8. The pull parser and the iterator

`PullParser.tla` models `sax/pull.c`.  `ring` is the event queue with its
wrap and its doubling, `current` the event handed out last, `stage` the blocks a
batch's strings are copied to, `mirror` the attributes of the batch's last START
that has any, `releases` how often each event's strings were freed.  An event is
its number in the document, so a lost, repeated or reordered event is a wrong
number.  `Advance` is the loop of `leptris_pull_next`: a memory source is fed
whole, a file in slices until an event is there.  `BatchStart`, `BatchStep` and
`BatchEnd` are `leptris_pull_next_batch`; they are steps of one call, and the
invariants hold between them too.  `IterParse.tla` extends it with
`sax/iterparse.c`: `it` is the iterator with its stack of open elements, its
pending text and its namespace bindings, `nodes` the elements that are alive,
each named by its START.  `IterNext` is the call, `IterEvent` one round of its loop.

`Pull` has four documents (nested with text between everything; namespaces
declared, hidden and undeclared; one cut off by an error; one empty), read by a
program that mixes single calls, batches and free, or by the iterator in either
mode.  Bounds: `RingCap` 2 (the ring of 32 is then doubled several times and
wraps), `BlockStrings` 3 (a block of 256 bytes fills up and a second is
taken), `MaxBatch` 3, `SliceEvents` 5.  Six properties: events are in one place
and freed once (`Accounted`), a batch's pointers stay readable until the next
one (`BatchReadable`), the attributes served after a batch are those of its last
START if it has any, and never stale ones of an earlier batch or an overwritten START (`AttrsServed`), and the iterator's elements are complete, carry the namespaces
in scope and are all handed out (`YieldsTrees`, `ScopeTrue`, `YieldsAll`).
Deadlock is not checked: the input ends and the parser is freed.  Left out:
allocation failures, `SKIP_DUP_DETECTION`, the arena that subtrees share.

The comment at `pull.c:439-441` and the header promise the attributes of the most recent
START also when it has none.  Then the code serves those of an earlier one of the batch
(section 10); `AttrsServed` leaves that case open, so it holds for the code and for a
corrected one.

**Proof of the queue.** `PullParserProofs.tla` proves the first three for `IterParse`'s `Spec`, which
contains the program's calls and the iterator's, with no assumption but
`PullAssumption` (sizes, and that a document is a sequence of events closed by its
end or an error): `EventsAccounted`, `BatchesReadable` and `AttributesServed`.  The invariant is
`IInv`.  `QueueOK` says that the ring, read from its head and round its end,
holds exactly the numbers from `taken + 1` to `fed`, and that each event's count of
releases is the one its place asks for.  It rests on `PushHolds`, whose two cases are a
push that fits and one that doubles a ring wrapped round, and `PopHolds`.
`BatchOK` follows the stage: `Widens` says that what a pointer reads stays where it is
while more strings are put (`StagedPlaces`); the mirror points at the attributes of
the last START that has any; and while that START is not current, after the batch,
neither is the batch's last event, which closes the case of a single call that
found nothing.  `RunOK` keeps the iterator's
turn apart from the program's.  The recursive functions that push several events and stage several strings
are unfolded level by level.

**Proof of the iterator.** `IterParseProofs.tla` proves the other three: `EveryYield`, `SnapshotInScope` and
`TreesComplete`, in either mode, for any documents, slices and ring.  They add one
assumption, `IterAssumption`: the modes are the two of the header, and each document is well
formed as far as it is read (`WellFormed`: depths below zero and a second root do
not occur, the prefix events of an element stand before its START and after its END, one
for each prefix, and only the last event is an end of document or an error).  That is
what `sax/streaming.c` sends: it matches closing tags against its own stack and
gives up at an error of syntax.  A duplicate attribute, also a repeated `xmlns`, it only
reports, unless `SKIP_DUP_DETECTION` is on, and goes on (`streaming.c:944-965`); but the
iterator stops for good at the first ERROR event it takes, so the documents end there.  The proof is three
invariants, each inductive with the ones before it and stated as what the
iterator knows after the first `taken` events:

* `WalkInv`: the stack holds the open elements, the k-th at depth k (in top-level
  mode with nothing in the root's place, since it is never made), the yields are
  the elements of the mode's levels that have ended, in the order of their ENDs, and an
  element waiting to be looked at is the one whose END was the last event.
  `StackStart` and `StackEnd` are its steps.  That the iterator stops only at the
  end needs the queue's invariant too: while events are left `Advance` finds one (`AdvanceTakes`).
* `ScopeInv`: the bindings are, in order, the declarations of the open elements
  and of the START to come, each tagged with its element's depth (`Bound`).
  So the newest binding of a prefix is the innermost declaration (`LookupIs`, `SnapIs`),
  and an END pops just its own (`BoundLess`).  After the END of the root in
  top-level mode they are left on the list, which is why `Bound` is only claimed
  while elements can still come (`Needs`).
* `TreeInv`: each element the program can see, now or when it is handed out, has exactly the
  children that began before the pending run of text did, and the pending text is the
  run since (`Pend`).  A flush then adds one run to the innermost open element and
  nothing elsewhere (`KidsFlush`, `TopIs`); a START adds itself to its parent.  In
  top-level mode no element is visible between two children of the root, so that
  freeing the subtree there takes nothing away (`TreesNext`).

`KidsOf` numbers its set with `Nth`, and `NthAdd` says that a larger number goes
to the end: with that the children of an element are built one at a time and no
induction over the tree is needed.

## 9. Content models, and HTML formatting

**Content models.**  DTD, XSD and RELAX NG each decide whether an element's
children fit a declaration, by three quite different matchers.
`ContentLanguage.tla` states once what a declaration means: a tree of
particles, sequences, choices, interleavings and references with bounds, and
`In(model, word)` by definition.  `DtdContent.tla` is the cursor that lexes and
matches the model's text at the same time (`dtd/content_check.c`);
`XsdContent.tla` builds the automaton with its limit and the estimate made
before it, and moves the set of live states (`xsd/content_model.c`);
`RngContent.tla` is the greedy matcher and the walk by derivatives that
explains a rejection (`rng/validate.c`).  `ContentCheck.tla` gives the children one after
the other and states where each agrees with the language:

* `DtdSound`: nothing is accepted that the model does not allow, for the models of the
  run, among them nested groups that are repeated or optional;
  `DtdPlainExact`: the verdict is right as long as no inner group is repeated
  or optional and the model is deterministic, as XML 1.0 asks.
* `XsdExact`: the verdict is right for all models and lists of the run, and "too big" is
  said exactly when the automaton crosses its limit.
* `RngContiguous`: nothing is accepted that a deterministic pattern does not allow, and
  every list is in which the children of one branch of an interleave stand together.
  Whether any other allowed list is accepted, as `validate.c:444-451` promises
  ("branches take turns while ANY of them advances"), is left open: in the code no
  branch gets a second turn (section 10); `RngExplained`: an element that is
  rejected gets a row in the error list, if nothing but single children is
  repeated or chosen.

`ContentModels` runs all lists of up to four children over three names under
about 680 declarations.  Four children are one more than any group has parts, so that
groups are left early, repeated and overrun.  `NfaMax` is 16 instead of a million:
models with bounds lie on both sides of it.  `KidCap` keeps its 64.  What lies
outside these classes is in section 10.  Left out: mixed models, attributes,
text, recursive references, the memo of results, namespaces (a wildcard is
the set of names it `admits`).

**HTML formatting.**  `HtmlFormatting.tla` models the part of
`html/html_parse.c` where three structures must agree: the tree, the stack of
open elements (`open`, with `ids` in parallel, as in the code), and the list of
active formatting elements (`afe`).  `b` is the builder.  A token is text, a
start tag or an end tag; `InnerLoop`, `Replace` and `Agency` are the adoption
agency step by step, including its caps, its bookmark and the walks that read
`ids` where the code does; `h_reconstruct`, Noah's ark, the implied end of `p`,
the second link inside a link and the empty `p` of a stray end tag are there.

`HtmlFormatting` explores every document over `a b i p div span object` until
five nodes exist, clones included.  Three of the caps are scaled down so that
they are met: one copy of an element in the list fewer than three, two rounds
of the agency for eight, one step of its inner loop for three.  `TextInOrder`: no text is
lost, repeated or overtaken; `StackIsBranch`: the stack is a branch of the
tree; `ListFollowsStack`: markers are the open objects and the list's entries
come in stack order; `FormattingKept`: no later token changes the formatting of a
text, and a new text has all the formatting that is open.  With more nodes the
inner cap may take away a wrapper, as the standard itself does; five nodes leave
no room for that.  A run with six nodes, six names and the code's own caps was
made once and passes.  `DepthCap` and `AfeCap` keep their values and are not
met: scaled down, `ListFollowsStack` fails (section 10).  Deadlock is not
checked, the document ends.  `HtmlIds` (violation): an element taken off the
middle of the stack leaves its id behind, and every id above it is another
element's.  Left out: the tokenizer, tables and foster parenting, templates,
foreign content, select, lists, headings, forms, attributes, the synthesised
head and body.

**Proof.** `HtmlFormattingProofs.tla` proves `StackBranch` (`[]StackIsBranch`) and
`ArraysHold` for every document, all caps and any of the names, with no assumption
but `HtmlCaps`.  The second says that stack, ids and list stay
within their arrays, the stack and its ids at one depth, and on the way that the agency's
copy always finds room: it asks (`InsertOpen`, html_parse.c:4922), and an element has
just been taken out (`SwapIs`), so the formatting element never leaves the stack without
its copy entering.  The invariant is `Sound`: `Sized`, the
types and lengths, and `Upright`, that there are `up`, each node's
one parent, and `D`, what lies below it, of which the child lists are a
`Forest`, and each open element is in `D` of those under it
(`Nested`).  What a step does to the tree is one of three things: a new node
is added, a node is unlinked and hung under another (`HungUnder`), or a new node
takes over a block's children (`WrappedUnder`); the first condition of a move is always that the
new parent is not below the node.

The agency breaks the invariant while it runs.  In its inner loop the branch is in two halves
(`HalfNested`): below the place the loop has come to it is as it was, from there on it
hangs below the last node, which may hang nowhere itself.  A step moves the
place down by one, whether it drops the element or puts a clone in its place (`Going`).
When the last node is hung under the element below the formatting element the halves are one again
(`Rejoined`), because that element is in the lower half and so not below the last
node; then the formatting element is taken out of the stack and its copy enters it above the block,
whose children it has taken over, so that it is above all that was open above the block
(`ReplaceSound`).  The steps of the loop and the rounds around it are recursive functions,
unfolded level by level (`RoundSound`, `AgencySound`); the walks that read
the wrong ids (section 10) decide how far a pop goes, which cannot
harm a branch.

## 10. Divergences

Met while modelling and confirmed by running the library, besides those that the
violation runs show (`CacheHandleBytecode`, `ChildTailStale`, `HtmlIds`).  The
models take these paths where they can and the properties say where they stop;
the inputs of some runs leave them out.

* **Child lists**: an element appended to a descendant more than 8,192 levels below it, a cycle
  (element_modify.c:510, against the comment at 482-488);
  the detached two-cycle; a comment as sibling, whose
  ancestor walk reads the wrong field, so that an element can be moved below
  itself; the parent edge left on an unlinked entity reference; the wrap of
  `child_count`; the crash on a processing-instruction sibling; the leaf
  inserted after itself.  A stale tail can also make a parent cycle, by the same
  path as `ChildTailStale`; `KnownUse` keeps both out.
* **Cache**: the bytecode run after it was handed over; the AST lent after a
  failed copy.
* **Documents**: the orphan and the reused address of section 5, and the moved root, read
  after its pool was freed (leptris.c:1046-1047).
* **Streaming**: `<a></a >` cut before its last byte fails with "Expected
  closing tag name" (sax/streaming.c:1218), although sax.h:284-294 allows any
  cut.
* **Pull**: when the last START of a batch has no attributes, the attribute
  calls serve those of an earlier one (pull.c:465-466; sax.h:438-439 says the last
  START event).  Stage blocks before the last are emptied and not used again
  (pull.c:397, 429).
* **DTD**: an inner group with `*` or `?` must be present (`((a)*,c?)`
  rejects a lone `c`), and the second instance of a repeated inner group leaves
  the lexer on the mark (`((a|b)*,c)` rejects `a b c`; content_check.c:176,
  190).  The validator does not call the matcher for an element without
  children, so `(a)` accepts one.
* **XSD**: open content in interleave mode is taken only between the parts of
  the root sequence, and not at all when the root is a choice, empty or a group
  reference; `xs:all` through a group reference is read in the written order
  (content_model.c:91); the "upper bound" on an automaton's size is a lower
  one.
* **RELAX NG**: an interleave gives each branch one turn, so `a* & c` rejects
  `a c a` (validate.c:444-451 says they take turns); an element can be rejected with no row in the error list
  (leptris.h:1016-1017); only the first 64 children are looked at
  (validate.c:169); of a wrapper with several children only the first counts.
* **HTML**: with the ids out of step, `<b><span><p>x</b>1<p>y` nests a `p` in a
  `p` and `<b><span><div><p>x</b></p>y` makes a stray empty one.  At 256 open
  elements a `<br>` or a stray `</p>` pops the element around it, and the text
  behind goes to the wrong parent.  At 64 formatting entries the marker of an
  object is dropped, and its end tag then clears the whole list.

## 11. What stays with the model checker

Proved for every value of the constants are the invariants of sections 3 to 6
that the passing runs check, `KeepsLeases` and `IsChildSeq` (under the hypotheses sections 3 to
5 name), the six of section 8 and `StackIsBranch`.  Checked on small instances only:

* liveness and whatever needs fairness or enabledness (`GraveyardDrains`): out of the proof system's reach;
* `SaxStreaming` and the content models: their algorithms
  recurse on trees and on their own result, and what they compute for every input
  is an induction over data;
* the other three of `HtmlFormatting`: `TextInOrder` is about the texts in tree
  order, a recursion over the tree; `ListFollowsStack` fails once the stack or the list is
  full, and `FormattingKept` may lose a wrapper at the inner cap, so neither
  holds for every value of the constants.

## 12. Not modelled

Each part with its reason is in `PROJECT.json` under "components"; the hazards
that no property covers yet name the planned module.  Most of the source is
language evaluation and lexing - XPath, XQuery and XSLT functions, collation
and entity tables, datatypes, serialisation layout - functions of their input
with no protocol, where a model would repeat the program.
