----------------------------- MODULE XPathAstCache -----------------------------
(***************************************************************************)
(* The process-wide XPath AST / bytecode cache (xpath/xpath_ast_cache.c)    *)
(* and every caller that borrows from it: leptris_xpath_eval               *)
(* (xpath/xpath_public.c) and the compiled handles                         *)
(* (xpath/xpath_compiled.c).                                               *)
(*                                                                         *)
(* The cache functions run under g_cache_mutex, so each is one action;     *)
(* between two of them a caller parses, compiles or runs bytecode with no  *)
(* lock held, holding raw pointers into the cache.  Memory is modelled by  *)
(* two heaps that say which expression a live object was built from;       *)
(* addresses are reused, as malloc does.                                   *)
(***************************************************************************)
EXTENDS Integers, FiniteSets

CONSTANTS
  Threads,    \* threads that evaluate
  Handles,    \* compiled handles (struct leptris_xpath_compiled)
  Exprs,      \* expression strings
  Asts,       \* addresses ASTs may have
  Bcs,        \* addresses bytecode may have
  NSlots,     \* XPATH_AST_CACHE_SLOTS
  Home,       \* Home[e] = xpath_hash(e) % XPATH_AST_CACHE_SLOTS
  None,       \* NULL
  Ops,        \* the entry points the environment calls
  MayFail     \* the allocations that may return NULL: "graveyard", "copy"

ASSUME CacheAssumption ==
  /\ IsFiniteSet(Threads) /\ IsFiniteSet(Handles) /\ Threads \cap Handles = {}
  /\ NSlots \in Nat \ {0}
  /\ Home \in [Exprs -> 0 .. NSlots - 1]
  /\ None \notin Exprs \cup Asts \cup Bcs \cup Handles
  /\ Ops \subseteq {"eval", "compile", "eval_in", "eval_ctx"}
  /\ MayFail \subseteq {"graveyard", "copy"}

VARIABLES
  g_cache,      \* slot -> [expr, ast, bc, pins]; expr = None is hash == 0
  g_graveyard,  \* evicted entries somebody still borrows
  astHeap,      \* address -> the expression of the live AST there, or None
  bcHeap,       \* address -> the expression of the live bytecode there, or None
  th,           \* thread -> its frame: where it is and the pointers it holds
  compiled      \* handle -> [expr, ast]; ast = None is a handle not in use

cacheVars == <<g_cache, g_graveyard>>
heaps == <<astHeap, bcHeap>>
vars == <<g_cache, g_graveyard, astHeap, bcHeap, th, compiled>>

Slots == 0 .. NSlots - 1
EmptySlot == [expr |-> None, ast |-> None, bc |-> None, pins |-> 0]
NoHandle == [expr |-> None, ast |-> None]
Idle == [pc |-> "idle", op |-> "none", expr |-> None, ast |-> None,
         bc |-> None, h |-> None]

PCs == {"idle", "insert", "compile_bc", "run", "run_fresh", "store", "reread",
        "interp"}

(* Operators named ...Slip are not the code: each is a plausible slip in    *)
(* the definition that follows it, kept to show what the properties catch. *)

(***************************************************************************)
(* The probe shared by every *_locked function: from the home slot, one    *)
(* slot at a time, until a slot that is empty or holds the expression.     *)
(***************************************************************************)
Probe(e, k) == (Home[e] + k) % NSlots
Hits(e) ==
  {i \in Slots : \E k \in Slots :
     /\ Probe(e, k) = i
     /\ g_cache[i].expr = e
     /\ \A j \in 0 .. k - 1 : g_cache[Probe(e, j)].expr \notin {None, e}}
FirstEmptySlip(e) == {i \in Slots : g_cache[i].expr = None}
FirstEmpty(e) ==
  {i \in Slots : \E k \in Slots :
     /\ Probe(e, k) = i
     /\ g_cache[i].expr = None
     /\ \A j \in 0 .. k - 1 : g_cache[Probe(e, j)].expr # None}
Target(e) == IF FirstEmpty(e) = {} THEN {Home[e]} ELSE FirstEmpty(e)

Freed(heap, S) == [x \in DOMAIN heap |-> IF x \in S THEN None ELSE heap[x]]
Alloc(heap, x, e) == heap[x] = None /\ heap' = [heap EXCEPT ![x] = e]

-----------------------------------------------------------------------------
(* cache_get_locked, a hit on slot i: the entry is pinned for the caller.   *)
CacheGetSlip(i) == UNCHANGED cacheVars
CacheGetSignSlip(i) ==
  g_cache' = [g_cache EXCEPT ![i].pins = @ - 1] /\ UNCHANGED g_graveyard
CacheGet(i) ==
  /\ g_cache' = [g_cache EXCEPT ![i].pins = @ + 1]
  /\ UNCHANGED g_graveyard

(* cache_insert_locked, the racing twin: slot i already holds e, so the    *)
(* caller's AST a is freed and the cached one is returned, pinned.         *)
InsertTwinSlip(i, a) ==
  /\ g_cache' = [g_cache EXCEPT ![i].pins = @ + 1]
  /\ UNCHANGED <<g_graveyard, astHeap, bcHeap>>
InsertTwinFreeSlip(i, a) ==
  /\ g_cache' = [g_cache EXCEPT ![i].pins = @ + 1]
  /\ astHeap' = Freed(astHeap, {g_cache[i].ast})
  /\ UNCHANGED <<g_graveyard, bcHeap>>
InsertTwin(i, a) ==
  /\ g_cache' = [g_cache EXCEPT ![i].pins = @ + 1]
  /\ astHeap' = Freed(astHeap, {a})
  /\ UNCHANGED <<g_graveyard, bcHeap>>

(* What cache_insert_locked does to the entry that is in its way: a pinned *)
(* one moves to the graveyard, an unpinned one is freed with its bytecode. *)
(* If the graveyard node cannot be allocated, a pinned entry is dropped.   *)
Bury(old) == g_graveyard' = g_graveyard \cup
                              {[ast |-> old.ast, bc |-> old.bc, pins |-> old.pins]}
EvictSlip(old) ==
  /\ astHeap' = Freed(astHeap, {old.ast})
  /\ bcHeap' = Freed(bcHeap, {old.bc})
  /\ UNCHANGED g_graveyard
EvictBcSlip(old) ==
  /\ IF old.pins > 0 THEN Bury(old) ELSE UNCHANGED g_graveyard
  /\ astHeap' = IF old.pins > 0 THEN astHeap ELSE Freed(astHeap, {old.ast})
  /\ bcHeap' = Freed(bcHeap, {old.bc})
Evict(old) ==
  \/ /\ old.expr = None
     /\ UNCHANGED <<g_graveyard, astHeap, bcHeap>>
  \/ /\ old.expr # None /\ old.pins > 0
     /\ Bury(old)
     /\ UNCHANGED heaps
  \/ /\ old.expr # None /\ old.pins > 0 /\ "graveyard" \in MayFail
     /\ UNCHANGED <<g_graveyard, astHeap, bcHeap>>
  \/ /\ old.expr # None /\ old.pins = 0
     /\ astHeap' = Freed(astHeap, {old.ast})
     /\ bcHeap' = Freed(bcHeap, {old.bc})
     /\ UNCHANGED g_graveyard

(* The slot is filled, pinned for the inserting caller, who gets result.   *)
(* When the copy of the expression cannot be allocated the slot keeps what *)
(* it held, freed or not, and the caller gets NULL.                        *)
FillSlip(i, e, a, result) ==
  \/ /\ result = a
     /\ g_cache' = [g_cache EXCEPT
                      ![i] = [expr |-> e, ast |-> a, bc |-> None, pins |-> 1]]
  \/ /\ result = None /\ "copy" \in MayFail
     /\ g_cache' = [g_cache EXCEPT ![i].expr = e]
Fill(i, e, a, result) ==
  \/ /\ result = a
     /\ g_cache' = [g_cache EXCEPT
                      ![i] = [expr |-> e, ast |-> a, bc |-> None, pins |-> 1]]
  \/ /\ result = None /\ "copy" \in MayFail
     /\ UNCHANGED g_cache

CacheInsert(e, a, result) ==
  \/ \E i \in Hits(e) : result = g_cache[i].ast /\ InsertTwin(i, a)
  \/ /\ Hits(e) = {}
     /\ \E i \in Target(e) : Evict(g_cache[i]) /\ Fill(i, e, a, result)

(* cache_release_locked: the first slot holding the AST, else the          *)
(* graveyard, where the last borrower frees the entry.                     *)
SlotsOf(a) == {i \in Slots : g_cache[i].ast = a
                             /\ \A j \in 0 .. i - 1 : g_cache[j].ast # a}
GravesOf(a) == {g \in g_graveyard : g.ast = a}
ReleaseInSlot(i) ==
  /\ g_cache' = IF g_cache[i].pins > 0
                THEN [g_cache EXCEPT ![i].pins = @ - 1] ELSE g_cache
  /\ UNCHANGED <<g_graveyard, astHeap, bcHeap>>
ReleaseInGraveSlip(g) ==
  /\ UNCHANGED <<g_cache, astHeap, bcHeap>>
  /\ g_graveyard' = (g_graveyard \ {g}) \cup
                      {[g EXCEPT !.pins = IF @ > 0 THEN @ - 1 ELSE 0]}
ReleaseInGraveBcSlip(g) ==
  /\ UNCHANGED <<g_cache, bcHeap>>
  /\ g_graveyard' = (g_graveyard \ {g}) \cup
        (IF g.pins <= 1 THEN {} ELSE {[g EXCEPT !.pins = @ - 1]})
  /\ astHeap' = IF g.pins <= 1 THEN Freed(astHeap, {g.ast}) ELSE astHeap
ReleaseInGrave(g) ==
  /\ UNCHANGED g_cache
  /\ IF g.pins <= 1
     THEN /\ g_graveyard' = g_graveyard \ {g}
          /\ astHeap' = Freed(astHeap, {g.ast})
          /\ bcHeap' = Freed(bcHeap, {g.bc})
     ELSE /\ g_graveyard' = (g_graveyard \ {g}) \cup {[g EXCEPT !.pins = @ - 1]}
          /\ UNCHANGED heaps
CacheRelease(a) ==
  \/ /\ a = None \/ (SlotsOf(a) = {} /\ GravesOf(a) = {})
     /\ UNCHANGED <<g_cache, g_graveyard, astHeap, bcHeap>>
  \/ /\ a # None
     /\ \E i \in SlotsOf(a) : ReleaseInSlot(i)
  \/ /\ a # None /\ SlotsOf(a) = {}
     /\ \E g \in GravesOf(a) : ReleaseInGrave(g)

(* cache_store_bc_locked: the first writer's bytecode stays, a loser's or   *)
(* that of an expression no longer cached is freed.                        *)
CacheStoreBcSlip(e, b) ==
  /\ UNCHANGED <<g_graveyard, astHeap, bcHeap>>
  /\ \/ Hits(e) = {} /\ UNCHANGED g_cache
     \/ \E i \in Hits(e) : g_cache' = [g_cache EXCEPT ![i].bc = b]
CacheStoreBc(e, b) ==
  /\ UNCHANGED <<g_graveyard, astHeap>>
  /\ \/ /\ \A i \in Hits(e) : g_cache[i].bc # None
        /\ bcHeap' = Freed(bcHeap, {b})
        /\ UNCHANGED g_cache
     \/ \E i \in Hits(e) :
          /\ g_cache[i].bc = None
          /\ g_cache' = [g_cache EXCEPT ![i].bc = b]
          /\ UNCHANGED bcHeap

(* cache_get_bc_locked: the bytecode comes back without a pin.             *)
CacheBc(e) == LET i == CHOOSE i \in Hits(e) : TRUE
              IN  IF Hits(e) = {} THEN None ELSE g_cache[i].bc
-----------------------------------------------------------------------------
Goto(t, pc) == th' = [th EXCEPT ![t].pc = pc]
Return(t) == th' = [th EXCEPT ![t] = Idle]
InUse(h) == \E t \in Threads : th[t].h = h

Start(t, op) == th[t].pc = "idle" /\ op \in Ops

(* leptris_xpath_eval: get, or parse a private AST on a miss.              *)
EvalHit(t, e) ==
  /\ Start(t, "eval")
  /\ \E i \in Hits(e) :
       /\ CacheGet(i)
       /\ th' = [th EXCEPT ![t] =
            [pc |-> IF g_cache[i].bc = None THEN "compile_bc" ELSE "run",
             op |-> "eval", expr |-> e, ast |-> g_cache[i].ast,
             bc |-> g_cache[i].bc, h |-> None]]
  /\ UNCHANGED <<astHeap, bcHeap, compiled>>

Parse(t, op, e, h) ==
  \E a \in Asts :
    /\ Alloc(astHeap, a, e)
    /\ th' = [th EXCEPT ![t] = [pc |-> "insert", op |-> op, expr |-> e,
                               ast |-> a, bc |-> None, h |-> h]]
EvalMiss(t, e) ==
  /\ Start(t, "eval") /\ Hits(e) = {}
  /\ Parse(t, "eval", e, None)
  /\ UNCHANGED <<g_cache, g_graveyard, bcHeap, compiled>>

EvalInsert(t) ==
  /\ th[t].pc = "insert" /\ th[t].op = "eval"
  /\ \E r \in Asts \cup {None} :
       /\ CacheInsert(th[t].expr, th[t].ast, r)
       /\ th' = [th EXCEPT ![t].ast = r,
                          ![t].pc = IF r = None THEN "interp" ELSE "compile_bc"]
  /\ UNCHANGED compiled

(* leptris_xpath_compile_ast, outside the lock; NULL when the AST cannot   *)
(* be compiled.  eval and eval_in run their own bytecode before they store *)
(* it, compiled_eval_context stores it first.                              *)
CompileBc(t) ==
  /\ th[t].pc = "compile_bc"
  /\ \/ \E b \in Bcs :
          /\ Alloc(bcHeap, b, th[t].expr)
          /\ th' = [th EXCEPT ![t].bc = b,
               ![t].pc = IF th[t].op = "eval_ctx" THEN "store" ELSE "run_fresh"]
     \/ /\ Goto(t, IF th[t].op = "eval_ctx" THEN "run" ELSE "interp")
        /\ UNCHANGED bcHeap
  /\ UNCHANGED <<g_cache, g_graveyard, astHeap, compiled>>

(* The run of fresh bytecode ends and the cache takes it over.             *)
RunFreshAndStore(t) ==
  /\ th[t].pc = "run_fresh"
  /\ CacheStoreBc(th[t].expr, th[t].bc)
  /\ th' = [th EXCEPT ![t].pc = "interp", ![t].bc = None]
  /\ UNCHANGED compiled

RunCached(t) ==
  /\ th[t].pc = "run" /\ th[t].op \in {"eval", "eval_in"}
  /\ th' = [th EXCEPT ![t].pc = "interp", ![t].bc = None]
  /\ UNCHANGED <<g_cache, g_graveyard, astHeap, bcHeap, compiled>>

(* The interpreter fallback, when the VM gave no result, then the release. *)
EvalRelease(t) ==
  /\ th[t].pc = "interp" /\ th[t].op = "eval"
  /\ CacheRelease(th[t].ast)
  /\ Return(t)
  /\ UNCHANGED compiled
-----------------------------------------------------------------------------
(* leptris_xpath_compile: parse and insert without a lookup; the pin is    *)
(* kept until leptris_xpath_compiled_free.                                 *)
CompileParse(t, e, h) ==
  /\ Start(t, "compile")
  /\ compiled[h] = NoHandle /\ ~InUse(h)
  /\ Parse(t, "compile", e, h)
  /\ UNCHANGED <<g_cache, g_graveyard, bcHeap, compiled>>

CompileInsertSlip(t) ==
  /\ th[t].pc = "insert" /\ th[t].op = "compile"
  /\ \E r \in Asts : CacheInsert(th[t].expr, th[t].ast, r)
  /\ compiled' = [compiled EXCEPT ![th[t].h] =
                   [expr |-> th[t].expr, ast |-> th[t].ast]]
  /\ Return(t)
CompileInsert(t) ==
  /\ th[t].pc = "insert" /\ th[t].op = "compile"
  /\ \E r \in Asts \cup {None} :
       /\ CacheInsert(th[t].expr, th[t].ast, r)
       /\ compiled' = IF r = None THEN compiled
                      ELSE [compiled EXCEPT ![th[t].h] =
                              [expr |-> th[t].expr, ast |-> r]]
  /\ Return(t)

(* leptris_xpath_compiled_free, once the last evaluation returned.         *)
CompiledFree(h) ==
  /\ compiled[h] # NoHandle /\ ~InUse(h)
  /\ CacheRelease(compiled[h].ast)
  /\ compiled' = [compiled EXCEPT ![h] = NoHandle]
  /\ UNCHANGED th

(* leptris_xpath_compiled_eval_in: the bytecode is fetched unpinned.       *)
EvalIn(t, h) ==
  /\ Start(t, "eval_in") /\ compiled[h] # NoHandle
  /\ LET b == CacheBc(compiled[h].expr)
     IN  th' = [th EXCEPT ![t] =
           [pc |-> IF b = None THEN "compile_bc" ELSE "run", op |-> "eval_in",
            expr |-> compiled[h].expr, ast |-> None, bc |-> b, h |-> h]]
  /\ UNCHANGED <<g_cache, g_graveyard, astHeap, bcHeap, compiled>>

(* compiled_eval_context: get pins whatever entry now has the expression.  *)
CtxGet(t, h) ==
  LET e == compiled[h].expr
      Frame(pc, a, b) == [pc |-> pc, op |-> "eval_ctx", expr |-> e,
                          ast |-> a, bc |-> b, h |-> h]
  IN
  /\ Start(t, "eval_ctx") /\ compiled[h] # NoHandle
  /\ \/ \E i \in Hits(e) :
          /\ CacheGet(i)
          /\ th' = [th EXCEPT ![t] =
               Frame(IF g_cache[i].bc = None THEN "compile_bc" ELSE "run",
                     g_cache[i].ast, g_cache[i].bc)]
     \/ /\ Hits(e) = {}
        /\ th' = [th EXCEPT ![t] = Frame("interp", None, None)]
        /\ UNCHANGED cacheVars
  /\ UNCHANGED <<astHeap, bcHeap, compiled>>

CtxStore(t) ==
  /\ th[t].pc = "store"
  /\ CacheStoreBc(th[t].expr, th[t].bc)
  /\ Goto(t, "reread")
  /\ UNCHANGED compiled

(* #1079: the canonical bytecode is re-read; NULL keeps the thread's own.  *)
CtxReread(t) ==
  /\ th[t].pc = "reread"
  /\ LET b == CacheBc(th[t].expr)
     IN  th' = [th EXCEPT ![t].pc = "run", ![t].bc = IF b = None THEN @ ELSE b]
  /\ UNCHANGED <<g_cache, g_graveyard, astHeap, bcHeap, compiled>>

CtxRunAndReleaseSlip(t) ==
  /\ th[t].pc = "run" /\ th[t].op = "eval_ctx"
  /\ th' = [th EXCEPT ![t].pc = "interp", ![t].bc = None, ![t].ast = None]
  /\ UNCHANGED <<g_cache, g_graveyard, astHeap, bcHeap, compiled>>
CtxRunAndRelease(t) ==
  /\ th[t].pc = "run" /\ th[t].op = "eval_ctx"
  /\ CacheRelease(th[t].ast)
  /\ th' = [th EXCEPT ![t].pc = "interp", ![t].bc = None, ![t].ast = None]
  /\ UNCHANGED compiled

(* The interpreter fallback of the compiled variants, on the handle's AST. *)
CompiledReturn(t) ==
  /\ th[t].pc = "interp" /\ th[t].op \in {"eval_in", "eval_ctx"}
  /\ Return(t)
  /\ UNCHANGED <<g_cache, g_graveyard, astHeap, bcHeap, compiled>>
-----------------------------------------------------------------------------
Init ==
  /\ g_cache = [i \in Slots |-> EmptySlot]
  /\ g_graveyard = {}
  /\ astHeap = [a \in Asts |-> None]
  /\ bcHeap = [b \in Bcs |-> None]
  /\ th = [t \in Threads |-> Idle]
  /\ compiled = [h \in Handles |-> NoHandle]

(* A call in progress, which its thread carries on without the caller.     *)
Step(t) ==
  \/ EvalInsert(t) \/ CompileBc(t) \/ RunFreshAndStore(t) \/ RunCached(t)
  \/ EvalRelease(t) \/ CompileInsert(t)
  \/ CtxStore(t) \/ CtxReread(t) \/ CtxRunAndRelease(t) \/ CompiledReturn(t)

(* A new call.                                                             *)
Call(t) ==
  \/ \E e \in Exprs : EvalHit(t, e) \/ EvalMiss(t, e)
  \/ \E e \in Exprs, h \in Handles : CompileParse(t, e, h)
  \/ \E h \in Handles : EvalIn(t, h) \/ CtxGet(t, h)

Next ==
  \/ \E t \in Threads : Call(t) \/ Step(t)
  \/ \E h \in Handles : CompiledFree(h)

Spec == Init /\ [][Next]_vars

(* A thread inside a call keeps running; nobody has to make a call.        *)
Fairness == \A t \in Threads : WF_vars(Step(t))
FairSpec == Spec /\ Fairness
-----------------------------------------------------------------------------
(* The AST a thread or a handle borrows: a call does between get/insert    *)
(* and release, a handle from compile to free.  A private parse            *)
(* (pc = "insert") is not borrowed.                                        *)
Holders == Threads \cup Handles
Borrowing(t) == th[t].pc \notin {"idle", "insert"}
LeaseOf(x) == IF x \in Handles THEN compiled[x].ast
              ELSE IF Borrowing(x) THEN th[x].ast ELSE None
ExprOf(x) == IF x \in Handles THEN compiled[x].expr ELSE th[x].expr
Borrowers(a) == {x \in Holders : LeaseOf(x) = a}
Private(a) == {t \in Threads : th[t].pc = "insert" /\ th[t].ast = a}
Filled == {i \in Slots : g_cache[i].expr # None}

FrameType ==
  [pc : PCs, op : Ops \cup {"none"}, expr : Exprs \cup {None},
   ast : Asts \cup {None}, bc : Bcs \cup {None}, h : Handles \cup {None}]
TypeOK ==
  /\ g_cache \in [Slots -> [expr : Exprs \cup {None}, ast : Asts \cup {None},
                           bc : Bcs \cup {None}, pins : Nat]]
  /\ g_graveyard \subseteq [ast : Asts \cup {None}, bc : Bcs \cup {None}, pins : Nat]
  /\ astHeap \in [Asts -> Exprs \cup {None}]
  /\ bcHeap \in [Bcs -> Exprs \cup {None}]
  /\ th \in [Threads -> FrameType]
  /\ compiled \in [Handles -> [expr : Exprs \cup {None}, ast : Asts \cup {None}]]

(* An AST somebody borrowed stays live, and stays the parse of the         *)
(* borrower's expression, whatever is inserted and evicted meanwhile       *)
(* (xpath_ast_cache.c:45-48).                                              *)
AstBorrowSafe ==
  \A x \in Holders : LeaseOf(x) # None => astHeap[LeaseOf(x)] = ExprOf(x)

(* pins counts the borrowers exactly, in a slot and in the graveyard, and  *)
(* an entry stays in the graveyard no longer than somebody borrows it.     *)
PinsExact ==
  /\ \A i \in Filled : g_cache[i].pins = Cardinality(Borrowers(g_cache[i].ast))
  /\ \A g \in g_graveyard :
       g.pins > 0 /\ g.pins = Cardinality(Borrowers(g.ast))

(* Every live AST has exactly one owner - a slot, a graveyard node or the  *)
(* call that parsed it - and so has every live bytecode, whose third owner *)
(* is the call that compiled it and has not stored it yet: none leaks and  *)
(* none is freed twice.                                                    *)
OwnedOnce ==
  /\ \A a \in Asts :
       Cardinality({i \in Filled : g_cache[i].ast = a}) + Cardinality(GravesOf(a))
         + Cardinality(Private(a)) = IF astHeap[a] = None THEN 0 ELSE 1
  /\ \A b \in Bcs :
       Cardinality({i \in Filled : g_cache[i].bc = b})
         + Cardinality({g \in g_graveyard : g.bc = b})
         + Cardinality({t \in Threads : th[t].pc \in {"run_fresh", "store"}
                                       /\ th[t].bc = b})
       = IF bcHeap[b] = None THEN 0 ELSE 1

(* The linear probe reaches every cached expression, in one slot only,     *)
(* although slots fill out of order and evictions overwrite home slots.    *)
Findable == \A i \in Filled : Hits(g_cache[i].expr) = {i}

(* Bytecode being run is live and is that of the expression evaluated.     *)
BcRunSafe ==
  \A t \in Threads : th[t].pc \in {"run", "run_fresh", "store"} /\ th[t].bc # None
                      => bcHeap[th[t].bc] = th[t].expr

(* An evicted entry is freed in the end: the calls that borrow it return   *)
(* and no new one can find it.                                             *)
GraveyardDrains ==
  \A a \in Asts : GravesOf(a) # {} ~> GravesOf(a) = {}

(* The cache keeps the promise of AstLease.  A thread is one borrower and  *)
(* each compiled handle another.                                           *)
Lease == INSTANCE AstLease WITH
  obj <- astHeap, lease <- [x \in Holders |-> LeaseOf(x)]
KeepsLeases == Lease!Spec
================================================================================
