-------------------------- MODULE XPathAstCacheProofs --------------------------
(***************************************************************************)
(* Theorems of XPathAstCache, for any number of threads, handles,          *)
(* expressions and slots: the types, that no borrowed AST is freed, that   *)
(* every entry is found, and that whatever is live has one owner.          *)
(***************************************************************************)
EXTENDS XPathAstCache, FiniteSetTheorems, TLAPS

(* What a thread's frame and a handle hold, by where the thread is.        *)
FramesOK ==
  /\ \A t \in Threads :
       /\ th[t].pc = "idle" => th[t] = Idle
       /\ th[t].pc # "idle" => th[t].expr \in Exprs
       /\ th[t].pc = "insert" => th[t].ast \in Asts
       /\ th[t].op = "eval_in" => th[t].ast = None
       /\ th[t].op = "eval_ctx" /\ th[t].pc = "interp" => th[t].ast = None
       /\ th[t].op = "eval_ctx" => th[t].pc # "run_fresh"
       /\ th[t].pc \in {"store", "reread"} => th[t].op = "eval_ctx"
       /\ th[t].op = "compile" => /\ th[t].pc = "insert"
                                  /\ th[t].h \in Handles
                                  /\ compiled[th[t].h] = NoHandle
                                  /\ \A u \in Threads : th[u].h = th[t].h => u = t
  /\ \A h \in Handles : \/ compiled[h] = NoHandle
                        \/ compiled[h].expr \in Exprs /\ compiled[h].ast \in Asts

IType == TypeOK /\ FramesOK

CacheType == [expr : Exprs \cup {None}, ast : Asts \cup {None},
              bc : Bcs \cup {None}, pins : Nat]
GraveType == [ast : Asts \cup {None}, bc : Bcs \cup {None}, pins : Nat]

StoreType ==
  /\ g_cache \in [Slots -> CacheType]
  /\ g_graveyard \subseteq GraveType
  /\ astHeap \in [Asts -> Exprs \cup {None}]
  /\ bcHeap \in [Bcs -> Exprs \cup {None}]

LEMMA ProbeRange ==
  ASSUME NEW e \in Exprs
  PROVE  /\ Hits(e) \subseteq {i \in Slots : g_cache[i].expr = e}
         /\ Target(e) \subseteq Slots
<1>1. Home[e] \in Slots
  BY CacheAssumption DEF Slots
<1> QED
  BY <1>1 DEF Hits, Target, FirstEmpty

LEMMA FreedType ==
  ASSUME NEW X, NEW heap \in [X -> Exprs \cup {None}], NEW S
  PROVE  Freed(heap, S) \in [X -> Exprs \cup {None}]
BY DEF Freed

LEMMA GetType ==
  ASSUME StoreType, NEW i \in Slots, CacheGet(i), UNCHANGED heaps
  PROVE  StoreType'
BY DEF StoreType, CacheGet, CacheType, heaps

LEMMA InsertType ==
  ASSUME StoreType, NEW e \in Exprs, NEW a \in Asts, NEW r, CacheInsert(e, a, r)
  PROVE  StoreType'
<1>1. CASE \E i \in Hits(e) : r = g_cache[i].ast /\ InsertTwin(i, a)
  BY <1>1, ProbeRange DEF StoreType, CacheType, InsertTwin, Freed
<1>2. CASE /\ Hits(e) = {}
           /\ \E i \in Target(e) : Evict(g_cache[i]) /\ Fill(i, e, a, r)
  <2>1. PICK i \in Slots : Evict(g_cache[i]) /\ Fill(i, e, a, r)
    BY <1>2, ProbeRange
  <2>2. g_cache' \in [Slots -> CacheType]
    BY <2>1 DEF StoreType, CacheType, Fill
  <2>3. g_cache[i] \in CacheType
    BY DEF StoreType
  <2>4. g_graveyard' \subseteq GraveType
    BY <2>1, <2>3 DEF StoreType, CacheType, GraveType, Evict, Bury, heaps
  <2>5. astHeap' \in [Asts -> Exprs \cup {None}] /\ bcHeap' \in [Bcs -> Exprs \cup {None}]
    BY <2>1, FreedType DEF StoreType, Evict, heaps
  <2> QED
    BY <2>2, <2>4, <2>5 DEF StoreType
<1> QED
  BY <1>1, <1>2 DEF CacheInsert

LEMMA ReleaseType ==
  ASSUME StoreType, NEW a, CacheRelease(a)
  PROVE  StoreType'
<1>1. CASE UNCHANGED <<g_cache, g_graveyard, astHeap, bcHeap>>
  BY <1>1 DEF StoreType
<1>2. CASE \E i \in SlotsOf(a) : ReleaseInSlot(i)
  <2>1. PICK i \in Slots : ReleaseInSlot(i)
    BY <1>2 DEF SlotsOf
  <2> QED
    BY <2>1 DEF StoreType, CacheType, ReleaseInSlot
<1>3. CASE \E g \in GravesOf(a) : ReleaseInGrave(g)
  <2>1. PICK g \in g_graveyard : ReleaseInGrave(g)
    BY <1>3 DEF GravesOf
  <2>2. g \in GraveType
    BY DEF StoreType
  <2>3. g_graveyard' \subseteq GraveType
    BY <2>1, <2>2 DEF StoreType, GraveType, ReleaseInGrave
  <2>4. astHeap' \in [Asts -> Exprs \cup {None}] /\ bcHeap' \in [Bcs -> Exprs \cup {None}]
    BY <2>1, FreedType DEF StoreType, ReleaseInGrave, heaps
  <2> QED
    BY <2>1, <2>3, <2>4 DEF StoreType, ReleaseInGrave
<1> QED
  BY <1>1, <1>2, <1>3 DEF CacheRelease

LEMMA StoreBcType ==
  ASSUME StoreType, NEW e \in Exprs, NEW b \in Bcs \cup {None}, CacheStoreBc(e, b)
  PROVE  StoreType'
BY ProbeRange, FreedType DEF StoreType, CacheType, CacheStoreBc

LEMMA BcType ==
  ASSUME StoreType, NEW e \in Exprs
  PROVE  CacheBc(e) \in Bcs \cup {None}
BY ProbeRange DEF StoreType, CacheType, CacheBc

-----------------------------------------------------------------------------
LEMMA StoreTypeUnchanged ==
  ASSUME StoreType, UNCHANGED <<g_cache, g_graveyard, astHeap, bcHeap>>
  PROVE  StoreType'
BY DEF StoreType

LEMMA ParseType ==
  ASSUME StoreType, NEW t \in Threads, NEW op, NEW e \in Exprs, NEW h,
         Parse(t, op, e, h), UNCHANGED <<g_cache, g_graveyard, bcHeap>>
  PROVE  StoreType'
BY DEF StoreType, Parse, Alloc

LEMMA FramesType == IType <=> /\ StoreType
                             /\ th \in [Threads -> FrameType]
                             /\ compiled \in [Handles -> [expr : Exprs \cup {None},
                                                         ast : Asts \cup {None}]]
                             /\ FramesOK
BY DEF IType, TypeOK, StoreType, CacheType, GraveType

(* A frame that stays inside its call, past the insert.                    *)
LEMMA FrameStep ==
  ASSUME th \in [Threads -> FrameType], FramesOK, NEW t \in Threads, NEW f \in FrameType,
         compiled \in [Handles -> [expr : Exprs \cup {None}, ast : Asts \cup {None}]],
         th' = [th EXCEPT ![t] = f], UNCHANGED compiled,
         th[t].pc \notin {"idle", "insert"}, f.pc \notin {"idle", "insert"},
         f.op = th[t].op, f.expr = th[t].expr, f.h = th[t].h,
         f.ast \in {th[t].ast, None},
         f.op = "eval_ctx" => f.pc # "run_fresh" /\ (f.pc = "interp" => f.ast = None),
         f.pc \in {"store", "reread"} => f.op = "eval_ctx"
  PROVE  /\ th' \in [Threads -> FrameType]
         /\ compiled' \in [Handles -> [expr : Exprs \cup {None}, ast : Asts \cup {None}]]
         /\ FramesOK'
<1>1. th' \in [Threads -> FrameType]
  OBVIOUS
<1>2. FramesOK'
  BY DEF FramesOK
<1> QED
  BY <1>1, <1>2

(* Types: initial states.                                                  *)
LEMMA TypeInit == Init => IType
<1> SUFFICES ASSUME Init PROVE IType
  OBVIOUS
<1>1. StoreType
  BY DEF Init, StoreType, CacheType, EmptySlot
<1>2. th \in [Threads -> FrameType]
  BY DEF Init, Idle, FrameType, PCs
<1> QED
  BY <1>1, <1>2, FramesType DEF Init, FramesOK, NoHandle, Idle

(* Types: every step.                                                      *)
LEMMA TypeNext == IType /\ [Next]_vars => IType'
<1> SUFFICES ASSUME IType, [Next]_vars PROVE IType'
  OBVIOUS
<1>0. /\ StoreType
      /\ th \in [Threads -> FrameType]
      /\ compiled \in [Handles -> [expr : Exprs \cup {None}, ast : Asts \cup {None}]]
      /\ FramesOK
  BY FramesType
<1> DEFINE Goal == /\ th' \in [Threads -> FrameType]
                   /\ compiled' \in [Handles -> [expr : Exprs \cup {None},
                                                 ast : Asts \cup {None}]]
                   /\ FramesOK'
<1>1. ASSUME NEW t \in Threads, NEW e \in Exprs, EvalHit(t, e)
      PROVE  StoreType' /\ Goal
  <2>1. PICK i \in Slots : CacheGet(i) /\ th' = [th EXCEPT ![t] =
            [pc |-> IF g_cache[i].bc = None THEN "compile_bc" ELSE "run",
             op |-> "eval", expr |-> e, ast |-> g_cache[i].ast,
             bc |-> g_cache[i].bc, h |-> None]]
    BY <1>1, ProbeRange DEF EvalHit
  <2>2. StoreType'
    BY <1>0, <1>1, <2>1, GetType DEF EvalHit, heaps
  <2>3. g_cache[i] \in CacheType
    BY <1>0 DEF StoreType
  <2>4. Goal
    BY <1>0, <1>1, <2>1, <2>3, CacheAssumption
       DEF EvalHit, Start, FrameType, PCs, FramesOK, CacheType, NoHandle, Idle
  <2> QED
    BY <2>2, <2>4
<1>2. ASSUME NEW t \in Threads, NEW e \in Exprs, EvalMiss(t, e)
      PROVE  StoreType' /\ Goal
  <2>1. StoreType'
    BY <1>0, <1>2, ParseType DEF EvalMiss
  <2>2. Goal
    BY <1>0, <1>2, CacheAssumption
       DEF EvalMiss, Parse, Start, FrameType, PCs, FramesOK, NoHandle, Idle
  <2> QED
    BY <2>1, <2>2
<1>3. ASSUME NEW t \in Threads, EvalInsert(t)
      PROVE  StoreType' /\ Goal
  <2>1. th[t].expr \in Exprs /\ th[t].ast \in Asts
    BY <1>0, <1>3 DEF EvalInsert, FramesOK
  <2>2. StoreType'
    BY <1>0, <1>3, <2>1, InsertType DEF EvalInsert
  <2>3. Goal
    BY <1>0, <1>3, <2>1 DEF EvalInsert, FrameType, PCs, FramesOK, NoHandle, Idle
  <2> QED
    BY <2>2, <2>3
<1>4. ASSUME NEW t \in Threads, CompileBc(t)
      PROVE  StoreType' /\ Goal
  <2>1. StoreType'
    BY <1>0, <1>4 DEF CompileBc, StoreType, Alloc, FrameType
  <2>2. PICK f : /\ f \in FrameType /\ f.pc \in {"store", "run_fresh", "run", "interp"}
                 /\ f.op = th[t].op /\ f.expr = th[t].expr
                 /\ f.h = th[t].h /\ f.ast = th[t].ast
                 /\ th' = [th EXCEPT ![t] = f]
                 /\ f.pc \in {"store", "run"} <=> f.op = "eval_ctx"
    <3>1. ASSUME NEW b \in Bcs, NEW pc \in {"store", "run_fresh"},
                 pc = "store" <=> th[t].op = "eval_ctx",
                 th' = [th EXCEPT ![t].bc = b, ![t].pc = pc]
          PROVE  \E f : /\ f \in FrameType /\ f.pc \in {"store", "run_fresh", "run", "interp"}
                        /\ f.op = th[t].op /\ f.expr = th[t].expr
                        /\ f.h = th[t].h /\ f.ast = th[t].ast
                        /\ th' = [th EXCEPT ![t] = f]
                        /\ f.pc \in {"store", "run"} <=> f.op = "eval_ctx"
      <4> DEFINE f == [th[t] EXCEPT !.bc = b, !.pc = pc]
      <4>1. /\ f \in FrameType /\ f.pc = pc /\ f.op = th[t].op
            /\ f.expr = th[t].expr /\ f.h = th[t].h /\ f.ast = th[t].ast
        BY <1>0 DEF FrameType, PCs
      <4>2. th' = [th EXCEPT ![t] = f]
        BY <1>0, <3>1 DEF FrameType
      <4> QED
        BY <3>1, <4>1, <4>2
    <3>2. ASSUME NEW pc \in {"run", "interp"}, pc = "run" <=> th[t].op = "eval_ctx",
                 th' = [th EXCEPT ![t].pc = pc]
          PROVE  \E f : /\ f \in FrameType /\ f.pc \in {"store", "run_fresh", "run", "interp"}
                        /\ f.op = th[t].op /\ f.expr = th[t].expr
                        /\ f.h = th[t].h /\ f.ast = th[t].ast
                        /\ th' = [th EXCEPT ![t] = f]
                        /\ f.pc \in {"store", "run"} <=> f.op = "eval_ctx"
      <4> DEFINE f == [th[t] EXCEPT !.pc = pc]
      <4>1. /\ f \in FrameType /\ f.pc = pc /\ f.op = th[t].op
            /\ f.expr = th[t].expr /\ f.h = th[t].h /\ f.ast = th[t].ast
        BY <1>0 DEF FrameType, PCs
      <4>2. th' = [th EXCEPT ![t] = f]
        BY <1>0, <3>2 DEF FrameType
      <4> QED
        BY <3>2, <4>1, <4>2
    <3> QED
      BY <1>4, <3>1, <3>2 DEF CompileBc, Goto
  <2>3. Goal
    BY <1>0, <1>4, <2>2, FrameStep DEF CompileBc
  <2> QED
    BY <2>1, <2>3
<1>5. ASSUME NEW t \in Threads, RunFreshAndStore(t)
      PROVE  StoreType' /\ Goal
  <2>1. th[t].expr \in Exprs /\ th[t].bc \in Bcs \cup {None}
    BY <1>0, <1>5 DEF RunFreshAndStore, FramesOK, FrameType
  <2>2. StoreType'
    BY <1>0, <1>5, <2>1, StoreBcType DEF RunFreshAndStore
  <2> DEFINE f == [th[t] EXCEPT !.pc = "interp", !.bc = None]
  <2>3. /\ f \in FrameType /\ f.pc = "interp" /\ f.op = th[t].op
        /\ f.expr = th[t].expr /\ f.h = th[t].h /\ f.ast = th[t].ast
    BY <1>0 DEF FrameType, PCs
  <2>4. th' = [th EXCEPT ![t] = f]
    BY <1>0, <1>5 DEF RunFreshAndStore, FrameType
  <2>5. Goal
    BY <1>0, <1>5, <2>3, <2>4, FrameStep DEF RunFreshAndStore, FramesOK
  <2> QED
    BY <2>2, <2>5
<1>6. ASSUME NEW t \in Threads, RunCached(t)
      PROVE  StoreType' /\ Goal
  <2> DEFINE f == [th[t] EXCEPT !.pc = "interp", !.bc = None]
  <2>1. /\ f \in FrameType /\ f.pc = "interp" /\ f.op = th[t].op
        /\ f.expr = th[t].expr /\ f.h = th[t].h /\ f.ast = th[t].ast
    BY <1>0 DEF FrameType, PCs
  <2>2. th' = [th EXCEPT ![t] = f]
    BY <1>0, <1>6 DEF RunCached, FrameType
  <2>3. Goal
    BY <1>0, <1>6, <2>1, <2>2, FrameStep DEF RunCached, FramesOK
  <2> QED
    BY <1>0, <1>6, <2>3, StoreTypeUnchanged DEF RunCached
<1>7. ASSUME NEW t \in Threads, EvalRelease(t)
      PROVE  StoreType' /\ Goal
  <2>1. StoreType'
    BY <1>0, <1>7, ReleaseType DEF EvalRelease
  <2>2. Goal
    BY <1>0, <1>7, CacheAssumption
       DEF EvalRelease, Return, FrameType, PCs, FramesOK, NoHandle, Idle
  <2> QED
    BY <2>1, <2>2
<1>8. ASSUME NEW t \in Threads, NEW e \in Exprs, NEW h \in Handles, CompileParse(t, e, h)
      PROVE  StoreType' /\ Goal
  <2>1. StoreType'
    BY <1>0, <1>8, ParseType DEF CompileParse
  <2>2. Goal
    BY <1>0, <1>8, CacheAssumption
       DEF CompileParse, Parse, Start, InUse, FrameType, PCs, FramesOK, NoHandle, Idle
  <2> QED
    BY <2>1, <2>2
<1>9. ASSUME NEW t \in Threads, CompileInsert(t)
      PROVE  StoreType' /\ Goal
  <2>1. /\ th[t].expr \in Exprs /\ th[t].ast \in Asts /\ th[t].h \in Handles
        /\ compiled[th[t].h] = NoHandle
        /\ \A u \in Threads : th[u].h = th[t].h => u = t
    BY <1>0, <1>9 DEF CompileInsert, FramesOK
  <2>2. StoreType'
    BY <1>0, <1>9, <2>1, InsertType DEF CompileInsert
  <2>3. PICK r \in Asts \cup {None} :
          compiled' = IF r = None THEN compiled
                      ELSE [compiled EXCEPT ![th[t].h] = [expr |-> th[t].expr, ast |-> r]]
    BY <1>9 DEF CompileInsert
  <2>4. th' = [th EXCEPT ![t] = Idle] /\ Idle \in FrameType
    BY <1>9 DEF CompileInsert, Return, Idle, FrameType, PCs
  <2>5. Goal
    BY <1>0, <2>1, <2>3, <2>4, CacheAssumption DEF FramesOK, NoHandle, Idle
  <2> QED
    BY <2>2, <2>5
<1>10. ASSUME NEW t \in Threads, NEW h \in Handles, EvalIn(t, h)
       PROVE  StoreType' /\ Goal
  <2>1. compiled[h].expr \in Exprs
    BY <1>0, <1>10 DEF EvalIn, FramesOK
  <2>2. CacheBc(compiled[h].expr) \in Bcs \cup {None}
    BY <1>0, <2>1, BcType
  <2>3. Goal
    BY <1>0, <1>10, <2>1, <2>2
       DEF EvalIn, Start, FrameType, PCs, FramesOK, NoHandle, Idle
  <2> QED
    BY <1>0, <1>10, <2>3, StoreTypeUnchanged DEF EvalIn
<1>11. ASSUME NEW t \in Threads, NEW h \in Handles, CtxGet(t, h)
       PROVE  StoreType' /\ Goal
  <2>1. compiled[h].expr \in Exprs /\ th[t].pc = "idle" /\ "eval_ctx" \in Ops
    BY <1>0, <1>11 DEF CtxGet, Start, FramesOK
  <2>2. \E pc \in {"compile_bc", "run", "interp"}, a \in Asts \cup {None}, b \in Bcs \cup {None} :
          /\ th' = [th EXCEPT ![t] = [pc |-> pc, op |-> "eval_ctx", expr |-> compiled[h].expr,
                                      ast |-> a, bc |-> b, h |-> h]]
          /\ (pc = "interp" => a = None)
    BY <1>0, <1>11, <2>1, ProbeRange DEF CtxGet, StoreType, CacheType
  <2>3. Goal
    BY <1>0, <1>11, <2>1, <2>2 DEF CtxGet, FrameType, PCs, FramesOK, NoHandle, Idle
  <2>4. StoreType'
    BY <1>0, <1>11, <2>1, ProbeRange, GetType, StoreTypeUnchanged DEF CtxGet, cacheVars, heaps
  <2> QED
    BY <2>3, <2>4
<1>12. ASSUME NEW t \in Threads, CtxStore(t)
       PROVE  StoreType' /\ Goal
  <2>1. th[t].expr \in Exprs /\ th[t].bc \in Bcs \cup {None}
    BY <1>0, <1>12 DEF CtxStore, FramesOK, FrameType
  <2>2. StoreType'
    BY <1>0, <1>12, <2>1, StoreBcType DEF CtxStore
  <2>3. Goal
    BY <1>0, <1>12 DEF CtxStore, Goto, FrameType, PCs, FramesOK, NoHandle, Idle
  <2> QED
    BY <2>2, <2>3
<1>13. ASSUME NEW t \in Threads, CtxReread(t)
       PROVE  StoreType' /\ Goal
  <2>1. CacheBc(th[t].expr) \in Bcs \cup {None}
    BY <1>0, <1>13, BcType DEF CtxReread, FramesOK
  <2>2. PICK b \in Bcs \cup {None} : th' = [th EXCEPT ![t] = [@ EXCEPT !.pc = "run", !.bc = b]]
    BY <1>0, <1>13, <2>1 DEF CtxReread, FrameType
  <2> DEFINE f == [th[t] EXCEPT !.pc = "run", !.bc = b]
  <2>3. /\ f \in FrameType /\ f.pc = "run" /\ f.op = th[t].op
        /\ f.expr = th[t].expr /\ f.h = th[t].h /\ f.ast = th[t].ast
    BY <1>0 DEF FrameType, PCs
  <2>4. th' = [th EXCEPT ![t] = f] /\ th[t].pc = "reread" /\ UNCHANGED compiled
    BY <1>0, <1>13, <2>2 DEF CtxReread, FrameType
  <2> HIDE DEF f
  <2>5. th[t].op = "eval_ctx" => f.pc # "run_fresh" /\ (f.pc = "interp" => f.ast = None)
    BY <2>3
  <2>6. Goal
    BY <1>0, <2>3, <2>4, <2>5, FrameStep
  <2> QED
    BY <1>0, <1>13, <2>6, StoreTypeUnchanged DEF CtxReread
<1>14. ASSUME NEW t \in Threads, CtxRunAndRelease(t)
       PROVE  StoreType' /\ Goal
  <2>1. StoreType'
    BY <1>0, <1>14, ReleaseType DEF CtxRunAndRelease
  <2> DEFINE f == [th[t] EXCEPT !.pc = "interp", !.bc = None, !.ast = None]
  <2>2. /\ f \in FrameType /\ f.pc = "interp" /\ f.op = th[t].op
        /\ f.expr = th[t].expr /\ f.h = th[t].h /\ f.ast = None
    BY <1>0 DEF FrameType, PCs
  <2>3. th' = [th EXCEPT ![t] = f] /\ th[t].pc = "run" /\ UNCHANGED compiled
    BY <1>0, <1>14 DEF CtxRunAndRelease, FrameType
  <2> HIDE DEF f
  <2>4. Goal
    BY <1>0, <2>2, <2>3, FrameStep
  <2> QED
    BY <2>1, <2>4
<1>15. ASSUME NEW t \in Threads, CompiledReturn(t)
       PROVE  StoreType' /\ Goal
  BY <1>0, <1>15, StoreTypeUnchanged, CacheAssumption
     DEF CompiledReturn, Return, FrameType, PCs, FramesOK, NoHandle, Idle
<1>16. ASSUME NEW h \in Handles, CompiledFree(h)
       PROVE  StoreType' /\ Goal
  <2>1. StoreType'
    BY <1>0, <1>16, ReleaseType DEF CompiledFree
  <2>2. Goal
    BY <1>0, <1>16 DEF CompiledFree, FrameType, FramesOK, NoHandle, Idle
  <2> QED
    BY <2>1, <2>2
<1>17. CASE UNCHANGED vars
  BY <1>0, <1>17, FramesType, StoreTypeUnchanged DEF vars, FramesOK, IType, TypeOK
<1>18. CASE Next
  <2>1. StoreType' /\ Goal
    BY <1>1, <1>2, <1>3, <1>4, <1>5, <1>6, <1>7, <1>8, <1>9, <1>10, <1>11, <1>12,
       <1>13, <1>14, <1>15, <1>16, <1>18 DEF Next, Call, Step
  <2> QED
    BY <2>1 DEF IType, TypeOK, StoreType, CacheType, GraveType
<1> QED
  BY <1>17, <1>18

(* Every variable keeps its type, whatever calls the threads make and      *)
(* whichever allocations fail.                                             *)
THEOREM TypeCorrect == Spec => []TypeOK
<1>1. Init => IType
  BY TypeInit
<1>2. IType /\ [Next]_vars => IType'
  BY TypeNext
<1>3. IType => TypeOK
  BY DEF IType
<1> QED
  BY <1>1, <1>2, <1>3, PTL DEF Spec

-----------------------------------------------------------------------------
(* The inductive invariant.  An entry's pins are its borrowers, so that an *)
(* entry without pins may be freed; entries and private parses never share *)
(* an AST, so that freeing one frees no other.                             *)
EntryOK(ast, pins) == /\ ast \in Asts /\ astHeap[ast] \in Exprs
                      /\ \A a \in Asts : a = ast => pins = Cardinality(Borrowers(a))
SlotsOK ==
  /\ \A i \in Slots :
       \/ g_cache[i].expr = None /\ g_cache[i].ast = None
       \/ /\ g_cache[i].expr \in Exprs
          /\ EntryOK(g_cache[i].ast, g_cache[i].pins)
          /\ astHeap[g_cache[i].ast] = g_cache[i].expr
  /\ \A i, j \in Slots : g_cache[i].ast = g_cache[j].ast => g_cache[i].ast = None \/ i = j
GravesOK ==
  /\ \A g \in g_graveyard : EntryOK(g.ast, g.pins) /\ g.pins > 0
  /\ \A g, k \in g_graveyard : g.ast = k.ast => g = k
  /\ \A g \in g_graveyard, i \in Slots : g_cache[i].ast # g.ast
EntriesOK == SlotsOK /\ GravesOK

Cached(a) == \/ \E i \in Slots : g_cache[i].ast = a
             \/ \E g \in g_graveyard : g.ast = a
PrivateOK ==
  \A t \in Threads : th[t].pc = "insert" =>
    /\ astHeap[th[t].ast] = th[t].expr
    /\ Borrowers(th[t].ast) = {}
    /\ ~Cached(th[t].ast)
    /\ \A u \in Threads : th[u].pc = "insert" /\ th[u].ast = th[t].ast => u = t

IInv == IType /\ EntriesOK /\ PrivateOK /\ AstBorrowSafe

(* Only x takes or drops a lease in this step.                             *)
OthersKeepLeases(x) == \A y \in Holders \ {x} : LeaseOf(y)' = LeaseOf(y)
Joins(x, a) == OthersKeepLeases(x) /\ LeaseOf(x) = None /\ LeaseOf(x)' = a
Leaves(x, a) == OthersKeepLeases(x) /\ LeaseOf(x) = a /\ LeaseOf(x)' = None
Stay == \A y \in Holders : LeaseOf(y)' = LeaseOf(y)

(* What every cache operation leaves alone: an AST still borrowed after    *)
(* the step, and one that is in no entry and is not handed in as a.        *)
Spares(a) == \A b \in Asts :
  /\ Borrowers(b)' # {} => astHeap'[b] = astHeap[b]
  /\ ~Cached(b) /\ b # a => astHeap'[b] = astHeap[b] /\ ~Cached(b)'

LEMMA HoldersFinite == IsFiniteSet(Holders)
BY CacheAssumption, FS_Union DEF Holders

LEMMA BorrowersFinite ==
  ASSUME NEW a \in Asts
  PROVE  IsFiniteSet(Borrowers(a)) /\ Cardinality(Borrowers(a)) \in Nat
BY HoldersFinite, FS_Subset, FS_CardinalityType, Borrowers(a) \subseteq Holders DEF Borrowers

LEMMA JoinBorrowers ==
  ASSUME NEW x \in Holders, NEW a \in Asts, Joins(x, a)
  PROVE  /\ Borrowers(a)' = Borrowers(a) \cup {x}
         /\ \A b \in Asts : b # a => Borrowers(b)' = Borrowers(b)
         /\ Cardinality(Borrowers(a)') = Cardinality(Borrowers(a)) + 1
<1>1. None \notin Asts
  BY CacheAssumption
<1>2. x \notin Borrowers(a)
  BY <1>1 DEF Joins, Borrowers
<1>3. Borrowers(a)' = Borrowers(a) \cup {x}
  BY DEF Joins, OthersKeepLeases, Borrowers, Holders
<1>4. ASSUME NEW b \in Asts, b # a PROVE Borrowers(b)' = Borrowers(b)
  BY <1>1, <1>4 DEF Joins, OthersKeepLeases, Borrowers, Holders
<1>5. Cardinality(Borrowers(a) \cup {x}) = Cardinality(Borrowers(a)) + 1
  BY <1>2, BorrowersFinite, FS_AddElement
<1> QED
  BY <1>3, <1>4, <1>5

LEMMA LeaveBorrowers ==
  ASSUME NEW x \in Holders, NEW a \in Asts, Leaves(x, a)
  PROVE  /\ Borrowers(a)' = Borrowers(a) \ {x}
         /\ \A b \in Asts : b # a => Borrowers(b)' = Borrowers(b)
         /\ Cardinality(Borrowers(a)') = Cardinality(Borrowers(a)) - 1
         /\ Cardinality(Borrowers(a)) > 0
         /\ Cardinality(Borrowers(a)) = 1 => Borrowers(a)' = {}
<1>1. None \notin Asts
  BY CacheAssumption
<1>2. x \in Borrowers(a)
  BY <1>1 DEF Leaves, Borrowers
<1>3. Borrowers(a)' = Borrowers(a) \ {x}
  BY <1>1 DEF Leaves, OthersKeepLeases, Borrowers, Holders
<1>4. ASSUME NEW b \in Asts, b # a PROVE Borrowers(b)' = Borrowers(b)
  BY <1>1, <1>4 DEF Leaves, OthersKeepLeases, Borrowers, Holders
<1>5. Cardinality(Borrowers(a) \ {x}) = Cardinality(Borrowers(a)) - 1
  BY <1>2, BorrowersFinite, FS_RemoveElement
<1>6. Cardinality(Borrowers(a)) # 0
  BY <1>2, BorrowersFinite, FS_EmptySet
<1>7. IsFiniteSet(Borrowers(a) \ {x})
  BY BorrowersFinite, FS_Subset
<1>8. Cardinality(Borrowers(a)) = 1 => Borrowers(a) \ {x} = {}
  BY <1>5, <1>7, FS_EmptySet
<1> QED
  BY <1>3, <1>4, <1>5, <1>6, <1>8, BorrowersFinite

LEMMA StayBorrowers ==
  ASSUME Stay PROVE \A b \in Asts : Borrowers(b)' = Borrowers(b)
BY DEF Stay, Borrowers, Holders

LEMMA NoPinsNoBorrowers ==
  ASSUME NEW a \in Asts, Cardinality(Borrowers(a)) = 0
  PROVE  Borrowers(a) = {}
BY BorrowersFinite, FS_EmptySet

-----------------------------------------------------------------------------
(* get: a hit pins the entry for the caller.                               *)
LEMMA GetKeeps ==
  ASSUME StoreType, EntriesOK, NEW i \in Slots, g_cache[i].expr \in Exprs,
         CacheGet(i), UNCHANGED heaps,
         NEW a, a = g_cache[i].ast, NEW x \in Holders, Joins(x, a)
  PROVE  /\ a \in Asts /\ astHeap[a] = g_cache[i].expr
         /\ EntriesOK' /\ \A c : Spares(c)
<1>1. a \in Asts /\ astHeap[a] = g_cache[i].expr /\ g_cache[i].pins = Cardinality(Borrowers(a))
  BY CacheAssumption DEF EntriesOK, SlotsOK, EntryOK
<1>2. /\ \A b \in Asts : b # a => Borrowers(b)' = Borrowers(b)
      /\ Cardinality(Borrowers(a)') = Cardinality(Borrowers(a)) + 1
  BY <1>1, JoinBorrowers
<1>3. /\ \A j \in Slots : /\ g_cache'[j].ast = g_cache[j].ast
                          /\ g_cache'[j].expr = g_cache[j].expr
                          /\ j # i => g_cache'[j] = g_cache[j]
      /\ g_cache'[i].pins = g_cache[i].pins + 1
      /\ g_graveyard' = g_graveyard /\ astHeap' = astHeap
  BY DEF StoreType, CacheType, CacheGet, heaps
<1>4. SlotsOK'
  <2>1. ASSUME NEW j \in Slots, g_cache[j].expr # None
        PROVE  /\ g_cache'[j].expr \in Exprs /\ EntryOK(g_cache[j].ast, g_cache[j].pins)'
               /\ astHeap'[g_cache'[j].ast] = g_cache'[j].expr
    <3>1. /\ g_cache[j].expr \in Exprs /\ EntryOK(g_cache[j].ast, g_cache[j].pins)
          /\ astHeap[g_cache[j].ast] = g_cache[j].expr /\ (j # i => g_cache[j].ast # a)
      BY <1>1, <2>1, CacheAssumption DEF EntriesOK, SlotsOK
    <3>2. CASE j = i
      BY <1>1, <1>2, <1>3, <3>1, <3>2 DEF EntryOK
    <3>3. CASE j # i
      BY <1>1, <1>2, <1>3, <3>1, <3>3, <2>1 DEF EntryOK
    <3> QED
      BY <3>2, <3>3
  <2>2. \A j, k \in Slots : g_cache'[j].ast = g_cache'[k].ast => g_cache'[j].ast = None \/ j = k
    BY <1>3 DEF EntriesOK, SlotsOK
  <2>3. \A j \in Slots : g_cache[j].expr = None => g_cache'[j].expr = None /\ g_cache'[j].ast = None
    BY <1>3, CacheAssumption DEF EntriesOK, SlotsOK
  <2> QED
    BY <2>1, <2>2, <2>3 DEF SlotsOK, Slots
<1>5. GravesOK'
  BY <1>1, <1>2, <1>3 DEF EntriesOK, GravesOK, EntryOK, Slots
<1>6. \A c : Spares(c)
  BY <1>3 DEF Spares, Cached, Slots
<1> QED
  BY <1>1, <1>4, <1>5, <1>6 DEF EntriesOK

(* insert, the racing twin: the caller's own parse is freed, and shared by *)
(* nobody.                                                                 *)
LEMMA TwinKeeps ==
  ASSUME StoreType, EntriesOK, NEW i \in Slots, g_cache[i].expr \in Exprs,
         NEW a \in Asts, ~Cached(a), Borrowers(a) = {},
         InsertTwin(i, a), NEW c, c = g_cache[i].ast, NEW x \in Holders, Joins(x, c)
  PROVE  /\ c \in Asts /\ astHeap'[c] = g_cache[i].expr
         /\ EntriesOK' /\ Spares(a)
<1>1. c \in Asts /\ astHeap[c] = g_cache[i].expr /\ g_cache[i].pins = Cardinality(Borrowers(c))
      /\ c # a
  BY CacheAssumption DEF EntriesOK, SlotsOK, EntryOK, Cached
<1>2. /\ \A b \in Asts : b # c => Borrowers(b)' = Borrowers(b)
      /\ Cardinality(Borrowers(c)') = Cardinality(Borrowers(c)) + 1
  BY <1>1, JoinBorrowers
<1>3. /\ \A j \in Slots : /\ g_cache'[j].ast = g_cache[j].ast
                          /\ g_cache'[j].expr = g_cache[j].expr
                          /\ j # i => g_cache'[j] = g_cache[j]
      /\ g_cache'[i].pins = g_cache[i].pins + 1
      /\ g_graveyard' = g_graveyard
      /\ \A b \in Asts : b # a => astHeap'[b] = astHeap[b]
  BY DEF StoreType, CacheType, InsertTwin, Freed
<1>4. SlotsOK'
  <2>0. \A m \in Slots : g_cache[m].ast # a
    BY DEF Cached
  <2>1. ASSUME NEW j \in Slots, g_cache[j].expr # None
        PROVE  /\ g_cache'[j].expr \in Exprs /\ EntryOK(g_cache[j].ast, g_cache[j].pins)'
               /\ astHeap'[g_cache'[j].ast] = g_cache'[j].expr
    <3>1. /\ g_cache[j].expr \in Exprs /\ EntryOK(g_cache[j].ast, g_cache[j].pins)
          /\ astHeap[g_cache[j].ast] = g_cache[j].expr /\ (j # i => g_cache[j].ast # c)
      BY <1>1, <2>1, CacheAssumption DEF EntriesOK, SlotsOK
    <3>2. CASE j = i
      BY <1>1, <1>2, <1>3, <3>1, <3>2 DEF EntryOK
    <3>3. CASE j # i
      BY <1>1, <1>2, <1>3, <3>1, <3>3, <2>1, <2>0 DEF EntryOK
    <3> QED
      BY <3>2, <3>3
  <2>2. \A j, k \in Slots : g_cache'[j].ast = g_cache'[k].ast => g_cache'[j].ast = None \/ j = k
    BY <1>3 DEF EntriesOK, SlotsOK
  <2>3. \A j \in Slots : g_cache[j].expr = None => g_cache'[j].expr = None /\ g_cache'[j].ast = None
    BY <1>3, CacheAssumption DEF EntriesOK, SlotsOK
  <2> QED
    BY <2>1, <2>2, <2>3 DEF SlotsOK, Slots
<1>5. GravesOK'
  BY <1>1, <1>2, <1>3 DEF EntriesOK, GravesOK, EntryOK, Slots, Cached
<1>6. Spares(a)
  BY <1>1, <1>2, <1>3 DEF Spares, Cached, Slots
<1> QED
  BY <1>1, <1>3, <1>4, <1>5, <1>6 DEF EntriesOK

(* insert, a new entry: what was in the slot is buried if it is borrowed,  *)
(* dropped if burying fails, and freed if nobody borrows it.               *)
LEMMA NewEntryKeeps ==
  ASSUME StoreType, EntriesOK, NEW i \in Slots, NEW e \in Exprs,
         NEW a \in Asts, astHeap[a] = e, ~Cached(a), Borrowers(a) = {},
         Evict(g_cache[i]), g_cache' = [g_cache EXCEPT
              ![i] = [expr |-> e, ast |-> a, bc |-> None, pins |-> 1]],
         NEW x \in Holders, Joins(x, a)
  PROVE  astHeap'[a] = e /\ EntriesOK' /\ Spares(a)
<1> DEFINE old == g_cache[i]
<1>0. None \notin Asts /\ None \notin Exprs
  BY CacheAssumption
<1>1. /\ \A b \in Asts : b # a => Borrowers(b)' = Borrowers(b)
      /\ Cardinality(Borrowers(a)') = 1
  <2>1. Cardinality(Borrowers(a)) = 0
    BY FS_EmptySet
  <2> QED
    BY <2>1, JoinBorrowers
<1>2. /\ \A j \in Slots : j # i => g_cache'[j] = g_cache[j]
      /\ g_cache'[i] = [expr |-> e, ast |-> a, bc |-> None, pins |-> 1]
  BY DEF StoreType
<1>3. \A j \in Slots : g_cache[j].ast # a
  BY DEF Cached
<1>4. \A g \in g_graveyard : g.ast # a
  BY DEF Cached
<1>5. old.expr # None => EntryOK(old.ast, old.pins) /\ old.ast # a
  BY <1>3 DEF EntriesOK, SlotsOK
<1>6. CASE /\ g_graveyard' = g_graveyard \/ (old.expr # None /\ old.pins > 0 /\ Bury(old))
           /\ astHeap' = astHeap
  <2>1. SlotsOK'
    BY <1>0, <1>1, <1>2, <1>3, <1>6 DEF EntriesOK, SlotsOK, EntryOK, Slots
  <2>2. GravesOK'
    BY <1>0, <1>1, <1>2, <1>3, <1>4, <1>5, <1>6
       DEF EntriesOK, SlotsOK, GravesOK, EntryOK, Bury, Slots
  <2>3. Spares(a)
    BY <1>2, <1>5, <1>6 DEF Spares, Cached, Bury, Slots
  <2> QED
    BY <1>6, <2>1, <2>2, <2>3 DEF EntriesOK
<1>7. CASE /\ old.expr # None /\ old.pins = 0
           /\ astHeap' = Freed(astHeap, {old.ast}) /\ g_graveyard' = g_graveyard
  <2>0. PICK c : c = old.ast
    OBVIOUS
  <2>1. c \in Asts /\ c # a /\ Borrowers(c) = {}
    BY <1>5, <1>7, <2>0, NoPinsNoBorrowers DEF EntryOK
  <2>2. \A b \in Asts : b # c => astHeap'[b] = astHeap[b]
    BY <1>7, <2>0 DEF StoreType, Freed
  <2>3. SlotsOK'
    BY <1>0, <1>1, <1>2, <1>3, <2>0, <2>1, <2>2 DEF EntriesOK, SlotsOK, EntryOK, Slots
  <2>4. GravesOK'
    <3>1. ASSUME NEW g \in g_graveyard
          PROVE  EntryOK(g.ast, g.pins)' /\ g.pins > 0
      <4>1. EntryOK(g.ast, g.pins) /\ g.pins > 0 /\ g.ast # c /\ g.ast # a
        BY <1>4, <2>0 DEF EntriesOK, GravesOK
      <4> QED
        BY <1>1, <2>2, <4>1 DEF EntryOK
    <3>2. \A g \in g_graveyard, j \in Slots : g_cache'[j].ast # g.ast
      BY <1>2, <1>4 DEF EntriesOK, GravesOK
    <3> QED
      BY <1>7, <3>1, <3>2 DEF EntriesOK, GravesOK, Slots
  <2>5. ASSUME NEW b \in Asts
        PROVE  /\ Borrowers(b)' # {} => astHeap'[b] = astHeap[b]
               /\ ~Cached(b) /\ b # a => astHeap'[b] = astHeap[b]
    BY <1>1, <2>0, <2>1, <2>2 DEF Cached
  <2>6. ASSUME NEW b \in Asts, ~Cached(b), b # a PROVE ~Cached(b)'
    BY <1>2, <1>7, <2>6 DEF Cached, Slots
  <2> QED
    BY <1>7, <2>1, <2>2, <2>3, <2>4, <2>5, <2>6 DEF EntriesOK, Spares
<1> QED
  BY <1>6, <1>7 DEF Evict, heaps

(* release: the last borrower of a buried entry frees it.                  *)
LEMMA ReleaseKeeps ==
  ASSUME StoreType, EntriesOK, NEW a \in Asts, CacheRelease(a),
         NEW x \in Holders, Leaves(x, a)
  PROVE  EntriesOK' /\ \A c : Spares(c)
<1>0. None \notin Asts /\ a # None
  BY CacheAssumption
<1>1. /\ \A b \in Asts : b # a => Borrowers(b)' = Borrowers(b)
      /\ Cardinality(Borrowers(a)') = Cardinality(Borrowers(a)) - 1
      /\ Cardinality(Borrowers(a)) > 0
      /\ Cardinality(Borrowers(a)) = 1 => Borrowers(a)' = {}
      /\ Cardinality(Borrowers(a)) \in Nat
  BY LeaveBorrowers, BorrowersFinite
<1>2. CASE /\ SlotsOf(a) = {} /\ GravesOf(a) = {}
           /\ UNCHANGED <<g_cache, g_graveyard, astHeap, bcHeap>>
  <2>1. ~Cached(a)
    <3>1. \A g \in g_graveyard : g.ast # a
      BY <1>2 DEF GravesOf
    <3>2. ASSUME NEW i \in Slots, g_cache[i].ast = a PROVE FALSE
      <4>1. \A j \in Slots : g_cache[j].ast = a => j = i
        BY <1>0, <3>2 DEF EntriesOK, SlotsOK
      <4>2. i \in SlotsOf(a)
        BY <3>2, <4>1, CacheAssumption DEF SlotsOf, Slots
      <4> QED
        BY <1>2, <4>2
    <3> QED
      BY <3>1, <3>2 DEF Cached
  <2> QED
    BY <1>1, <1>2, <2>1
       DEF EntriesOK, SlotsOK, GravesOK, EntryOK, Cached, Spares, Slots
<1>3. CASE \E i \in SlotsOf(a) : ReleaseInSlot(i)
  <2>1. PICK i \in Slots : g_cache[i].ast = a /\ ReleaseInSlot(i)
    BY <1>3 DEF SlotsOf
  <2>2. g_cache[i].pins = Cardinality(Borrowers(a)) /\ g_cache[i].pins > 0
    BY <1>0, <1>1, <2>1 DEF EntriesOK, SlotsOK, EntryOK
  <2>3. /\ \A j \in Slots : /\ g_cache'[j].ast = g_cache[j].ast
                            /\ g_cache'[j].expr = g_cache[j].expr
                            /\ j # i => g_cache'[j] = g_cache[j]
        /\ g_cache'[i].pins = g_cache[i].pins - 1
        /\ g_graveyard' = g_graveyard /\ astHeap' = astHeap
    BY <2>1, <2>2 DEF StoreType, CacheType, ReleaseInSlot
  <2>4. SlotsOK'
    BY <1>0, <1>1, <2>1, <2>2, <2>3 DEF EntriesOK, SlotsOK, EntryOK, Slots
  <2>5. GravesOK'
    BY <1>1, <2>1, <2>3 DEF EntriesOK, GravesOK, EntryOK, Slots
  <2>6. \A c : Spares(c)
    BY <2>3 DEF Spares, Cached, Slots
  <2> QED
    BY <2>4, <2>5, <2>6 DEF EntriesOK
<1>4. CASE \E g \in GravesOf(a) : ReleaseInGrave(g)
  <2>1. PICK g \in g_graveyard : g.ast = a /\ ReleaseInGrave(g)
    BY <1>4 DEF GravesOf
  <2>2. g \in GraveType /\ g.pins = Cardinality(Borrowers(a)) /\ g.pins > 0
    BY <2>1 DEF EntriesOK, GravesOK, EntryOK, StoreType
  <2>3. g_cache' = g_cache /\ \A k \in g_graveyard : k.ast = a => k = g
    BY <2>1 DEF ReleaseInGrave, EntriesOK, GravesOK
  <2>4. \A i \in Slots : g_cache[i].ast # a
    BY <2>1 DEF EntriesOK, GravesOK
  <2>5. CASE g.pins <= 1
    <3>1. g_graveyard' = g_graveyard \ {g} /\ Borrowers(a)' = {}
      BY <1>1, <2>1, <2>2, <2>5 DEF ReleaseInGrave, GraveType
    <3>2. \A b \in Asts : b # a => astHeap'[b] = astHeap[b]
      BY <2>1, <2>5 DEF ReleaseInGrave, Freed, StoreType
    <3>3. SlotsOK'
      BY <1>0, <1>1, <2>3, <2>4, <3>2 DEF EntriesOK, SlotsOK, EntryOK, Slots
    <3>4. GravesOK'
      BY <1>1, <2>3, <3>1, <3>2 DEF EntriesOK, GravesOK, EntryOK, Slots
    <3>5. \A c : Spares(c)
      BY <2>1, <2>3, <3>1, <3>2 DEF Spares, Cached, Slots
    <3> QED
      BY <3>3, <3>4, <3>5 DEF EntriesOK
  <2>6. CASE ~(g.pins <= 1)
    <3> DEFINE k == [g EXCEPT !.pins = @ - 1]
    <3>1. g_graveyard' = (g_graveyard \ {g}) \cup {k} /\ astHeap' = astHeap
      BY <2>1, <2>6 DEF ReleaseInGrave, heaps
    <3>2. k.ast = a /\ k.pins = g.pins - 1 /\ k.pins > 0
      BY <2>1, <2>2, <2>6 DEF GraveType
    <3> HIDE DEF k
    <3>3. SlotsOK'
      BY <1>0, <1>1, <2>3, <2>4, <3>1 DEF EntriesOK, SlotsOK, EntryOK, Slots
    <3>4. GravesOK'
      BY <1>1, <2>1, <2>2, <2>3, <2>4, <3>1, <3>2 DEF EntriesOK, GravesOK, EntryOK, Slots
    <3>5. \A c : Spares(c)
      BY <2>1, <2>3, <3>1, <3>2 DEF Spares, Cached, Slots
    <3> QED
      BY <3>3, <3>4, <3>5 DEF EntriesOK
  <2> QED
    BY <2>5, <2>6
<1> QED
  BY <1>0, <1>2, <1>3, <1>4 DEF CacheRelease

-----------------------------------------------------------------------------
(* insert as a whole, when the copy of the expression can be allocated.    *)
LEMMA InsertReturns ==
  ASSUME "copy" \notin MayFail, EntriesOK, NEW e \in Exprs, NEW a \in Asts, NEW r,
         CacheInsert(e, a, r)
  PROVE  r \in Asts
<1>1. \A i \in Hits(e) : g_cache[i].ast \in Asts
  BY ProbeRange, CacheAssumption DEF EntriesOK, SlotsOK, EntryOK
<1> QED
  BY <1>1 DEF CacheInsert, Fill

LEMMA InsertKeeps ==
  ASSUME "copy" \notin MayFail, StoreType, EntriesOK, NEW e \in Exprs, NEW a \in Asts,
         astHeap[a] = e, ~Cached(a), Borrowers(a) = {}, NEW r, CacheInsert(e, a, r),
         NEW x \in Holders, Joins(x, r)
  PROVE  /\ astHeap'[r] = e /\ EntriesOK' /\ Spares(a)
         /\ r = a \/ Cached(r)
<1>1. CASE \E i \in Hits(e) : r = g_cache[i].ast /\ InsertTwin(i, a)
  <2>1. PICK i \in Slots : g_cache[i].expr = e /\ r = g_cache[i].ast /\ InsertTwin(i, a)
    BY <1>1, ProbeRange
  <2> QED
    BY <2>1, TwinKeeps DEF Cached
<1>2. CASE /\ Hits(e) = {}
           /\ \E i \in Target(e) : Evict(g_cache[i]) /\ Fill(i, e, a, r)
  <2>1. PICK i \in Slots : Evict(g_cache[i]) /\ Fill(i, e, a, r)
    BY <1>2, ProbeRange
  <2>2. r = a /\ g_cache' = [g_cache EXCEPT
                    ![i] = [expr |-> e, ast |-> a, bc |-> None, pins |-> 1]]
    BY <2>1 DEF Fill
  <2> QED
    BY <2>1, <2>2, NewEntryKeeps
<1> QED
  BY <1>1, <1>2 DEF CacheInsert

(* What leases become when one thread moves, or one handle.                *)
LEMMA ThreadMoves ==
  ASSUME NEW t \in Threads, \A u \in Threads \ {t} : th'[u] = th[u], UNCHANGED compiled
  PROVE  /\ OthersKeepLeases(t) /\ t \in Holders
         /\ LeaseOf(t) = IF th[t].pc \in {"idle", "insert"} THEN None ELSE th[t].ast
         /\ LeaseOf(t)' = IF th'[t].pc \in {"idle", "insert"} THEN None ELSE th'[t].ast
         /\ ExprOf(t) = th[t].expr /\ ExprOf(t)' = th'[t].expr
         /\ \A y \in Holders \ {t} : ExprOf(y)' = ExprOf(y)
BY CacheAssumption DEF OthersKeepLeases, LeaseOf, ExprOf, Borrowing, Holders

LEMMA LeaseType ==
  ASSUME IType, NEW x \in Holders PROVE LeaseOf(x) \in Asts \cup {None}
BY DEF IType, TypeOK, FrameType, LeaseOf, Holders

(* The borrowers other than x keep what they borrow.                       *)
LEMMA BorrowKept ==
  ASSUME IType, AstBorrowSafe, NEW x \in Holders, OthersKeepLeases(x), NEW a, Spares(a),
         \A y \in Holders \ {x} : LeaseOf(y) # None => ExprOf(y)' = ExprOf(y),
         NEW r, r = LeaseOf(x)', r # None => astHeap'[r] = ExprOf(x)'
  PROVE  AstBorrowSafe'
<1>1. ASSUME NEW y \in Holders, y # x, NEW b, b = LeaseOf(y), b # None
      PROVE  astHeap'[b] = ExprOf(y)' /\ LeaseOf(y)' = b
  <2>1. LeaseOf(y)' = b
    BY <1>1 DEF OthersKeepLeases
  <2>2. b \in Asts
    BY <1>1, LeaseType
  <2>3. Borrowers(b)' # {}
    BY <1>1, <2>1 DEF Borrowers, Holders
  <2> QED
    BY <1>1, <2>1, <2>2, <2>3 DEF Spares, AstBorrowSafe
<1>2. ASSUME NEW y \in Holders, LeaseOf(y)' # None
      PROVE  astHeap'[LeaseOf(y)'] = ExprOf(y)'
  <2>1. CASE y = x
    BY <1>2, <2>1
  <2>2. CASE y # x
    BY <1>1, <1>2, <2>2 DEF OthersKeepLeases
  <2> QED
    BY <2>1, <2>2
<1> QED
  BY <1>2 DEF AstBorrowSafe, Holders

(* The private parses of the threads other than t stay private.            *)
LEMMA PrivateKept ==
  ASSUME IType, PrivateOK, NEW t \in Threads, \A u \in Threads \ {t} : th'[u] = th[u],
         NEW a, Spares(a), \A u \in Threads \ {t} : th[u].pc = "insert" => th[u].ast # a,
         \A b \in Asts : ~Cached(b) /\ b # a => Borrowers(b)' \subseteq Borrowers(b),
         th'[t].pc # "insert"
  PROVE  PrivateOK'
<1>1. ASSUME NEW u \in Threads, th'[u].pc = "insert"
      PROVE  /\ u # t /\ th'[u] = th[u]
             /\ astHeap'[th[u].ast] = th[u].expr
             /\ ~Cached(th[u].ast)'
             /\ Borrowers(th[u].ast)' = {}
  <2>1. u # t /\ th'[u] = th[u] /\ th[u].pc = "insert"
    BY <1>1
  <2>2. PICK p \in Asts : p = th[u].ast
    BY <2>1 DEF IType, FramesOK
  <2>3. /\ p # a /\ astHeap[p] = th[u].expr /\ Borrowers(p) = {} /\ ~Cached(p)
    BY <2>1, <2>2 DEF PrivateOK
  <2>4. astHeap'[p] = astHeap[p] /\ ~Cached(p)' /\ Borrowers(p)' = {}
    BY <2>3 DEF Spares
  <2>5. p = th'[u].ast
    BY <2>1, <2>2
  <2> QED
    BY <2>1, <2>2, <2>3, <2>4, <2>5 DEF Cached, Borrowers
<1> QED
  BY <1>1 DEF PrivateOK

-----------------------------------------------------------------------------
(* Steps that touch no lease, no pin and no AST.                           *)
SameEntries == /\ g_graveyard' = g_graveyard
               /\ \A i \in Slots : /\ g_cache'[i].expr = g_cache[i].expr
                                   /\ g_cache'[i].ast = g_cache[i].ast
                                   /\ g_cache'[i].pins = g_cache[i].pins

LEMMA SameEntriesOK ==
  ASSUME EntriesOK, SameEntries, Stay,
         \A b \in Asts : astHeap[b] # None => astHeap'[b] = astHeap[b]
  PROVE  EntriesOK' /\ \A b \in Asts : Cached(b)' <=> Cached(b)
<1>1. \A b \in Asts : Borrowers(b)' = Borrowers(b)
  BY StayBorrowers
<1>2. SlotsOK'
  <2>1. ASSUME NEW j \in Slots, g_cache[j].expr # None
        PROVE  /\ g_cache'[j].expr \in Exprs /\ EntryOK(g_cache[j].ast, g_cache[j].pins)'
               /\ astHeap'[g_cache'[j].ast] = g_cache'[j].expr
    BY <1>1, <2>1, CacheAssumption DEF EntriesOK, SlotsOK, SameEntries, EntryOK
  <2>2. \A j, k \in Slots : g_cache'[j].ast = g_cache'[k].ast => g_cache'[j].ast = None \/ j = k
    BY DEF EntriesOK, SlotsOK, SameEntries
  <2>3. \A j \in Slots : g_cache[j].expr = None => g_cache'[j].expr = None /\ g_cache'[j].ast = None
    BY CacheAssumption DEF EntriesOK, SlotsOK, SameEntries
  <2> QED
    BY <2>1, <2>2, <2>3 DEF SlotsOK, Slots
<1>3. GravesOK'
  <2>1. ASSUME NEW g \in g_graveyard PROVE EntryOK(g.ast, g.pins)'
    BY <1>1, CacheAssumption DEF EntriesOK, GravesOK, EntryOK
  <2> QED
    BY <2>1 DEF EntriesOK, GravesOK, SameEntries, Slots
<1>4. \A b \in Asts : Cached(b)' <=> Cached(b)
  BY DEF Cached, SameEntries, Slots
<1> QED
  BY <1>2, <1>3, <1>4 DEF EntriesOK

LEMMA QuietStep ==
  ASSUME IInv, IType', NEW t \in Threads, \A u \in Threads \ {t} : th'[u] = th[u],
         UNCHANGED compiled, SameEntries, astHeap' = astHeap, LeaseOf(t)' = LeaseOf(t),
         LeaseOf(t) # None => th'[t].expr = th[t].expr, th'[t].pc # "insert"
  PROVE  IInv'
<1>1. Stay /\ OthersKeepLeases(t) /\ t \in Holders
  BY ThreadMoves DEF Stay, OthersKeepLeases
<1>2. EntriesOK' /\ \A b \in Asts : Cached(b)' <=> Cached(b)
  BY <1>1, SameEntriesOK DEF IInv
<1>3. Spares(None)
  BY <1>2 DEF Spares
<1>4. \A b \in Asts : Borrowers(b)' = Borrowers(b)
  BY <1>1, StayBorrowers
<1>5. PrivateOK'
  BY <1>3, <1>4, PrivateKept, CacheAssumption DEF IInv, IType, FramesOK
<1>6. PICK r : r = LeaseOf(t)'
  OBVIOUS
<1>7. r # None => astHeap'[r] = ExprOf(t)'
  BY <1>1, <1>6, ThreadMoves DEF IInv, AstBorrowSafe
<1>8. AstBorrowSafe'
  BY <1>1, <1>3, <1>6, <1>7, BorrowKept, ThreadMoves DEF IInv
<1> QED
  BY <1>2, <1>5, <1>8 DEF IInv

LEMMA ParseStep ==
  ASSUME IInv, IType', NEW t \in Threads, NEW op, NEW e \in Exprs, NEW h,
         th[t].pc = "idle", Parse(t, op, e, h),
         UNCHANGED <<g_cache, g_graveyard, bcHeap, compiled>>
  PROVE  IInv'
<1>1. PICK a \in Asts :
        /\ astHeap[a] = None /\ astHeap' = [astHeap EXCEPT ![a] = e]
        /\ th' = [th EXCEPT ![t] = [pc |-> "insert", op |-> op, expr |-> e,
                                   ast |-> a, bc |-> None, h |-> h]]
  BY DEF Parse, Alloc
<1>2. th \in [Threads -> FrameType] /\ astHeap \in [Asts -> Exprs \cup {None}]
  BY DEF IInv, IType, TypeOK
<1>3. /\ \A u \in Threads \ {t} : th'[u] = th[u]
      /\ th'[t].pc = "insert" /\ th'[t].ast = a /\ th'[t].expr = e
  BY <1>1, <1>2
<1>4. Stay /\ OthersKeepLeases(t) /\ t \in Holders
  BY <1>3, ThreadMoves DEF Stay, OthersKeepLeases
<1>5. \A b \in Asts : astHeap[b] # None => astHeap'[b] = astHeap[b]
  BY <1>1, <1>2
<1>6. EntriesOK' /\ \A b \in Asts : Cached(b)' <=> Cached(b)
  BY <1>4, <1>5, SameEntriesOK DEF IInv, SameEntries
<1>7. \A b \in Asts : Borrowers(b)' = Borrowers(b)
  BY <1>4, StayBorrowers
<1>8. ~Cached(a) /\ Borrowers(a) = {}
  <2>1. ~Cached(a)
    BY <1>1, CacheAssumption DEF IInv, EntriesOK, SlotsOK, GravesOK, EntryOK, Cached
  <2>2. \A x \in Holders : LeaseOf(x) = a => FALSE
    <3>1. \A x \in Holders : ExprOf(x) = None => LeaseOf(x) = None
      BY CacheAssumption
         DEF IInv, IType, TypeOK, FramesOK, ExprOf, LeaseOf, Holders, NoHandle, Idle, Borrowing
    <3> QED
      BY <1>1, <3>1, CacheAssumption DEF IInv, AstBorrowSafe
  <2> QED
    BY <2>1, <2>2 DEF Borrowers
<1>9. PrivateOK'
  <2>1. ASSUME NEW u \in Threads, u # t, th[u].pc = "insert"
        PROVE  /\ astHeap'[th[u].ast] = th[u].expr /\ th[u].ast # a
               /\ Borrowers(th[u].ast)' = {} /\ ~Cached(th[u].ast)'
    <3>1. PICK p \in Asts : p = th[u].ast
      BY <2>1 DEF IInv, IType, FramesOK
    <3>2. /\ astHeap[p] = th[u].expr /\ th[u].expr \in Exprs
          /\ Borrowers(p) = {} /\ ~Cached(p)
      BY <2>1, <3>1 DEF IInv, PrivateOK, IType, FramesOK
    <3>3. astHeap'[p] = th[u].expr /\ p # a /\ Borrowers(p)' = {} /\ ~Cached(p)'
      BY <1>1, <1>5, <1>6, <1>7, <3>2, CacheAssumption
    <3>4. th'[u].ast = p
      BY <1>3, <2>1, <3>1
    <3> QED
      BY <1>3, <2>1, <3>1, <3>3, <3>4 DEF Borrowers, Cached
  <2>2. astHeap'[a] = e /\ Borrowers(a)' = {} /\ ~Cached(a)'
    BY <1>1, <1>2, <1>6, <1>7, <1>8
  <2>3. ASSUME NEW u \in Threads, th'[u].pc = "insert"
        PROVE  /\ astHeap'[th'[u].ast] = th'[u].expr
               /\ Borrowers(th[u].ast)' = {} /\ ~Cached(th[u].ast)'
               /\ \A v \in Threads : th'[v].pc = "insert" /\ th'[v].ast = th'[u].ast => v = u
    <3>1. CASE u = t
      BY <1>3, <2>1, <2>2, <3>1 DEF Borrowers, Cached
    <3>2. CASE u # t
      BY <1>3, <2>1, <2>3, <3>2 DEF Borrowers, Cached, IInv, PrivateOK
    <3> QED
      BY <3>1, <3>2
  <2> QED
    BY <2>3 DEF PrivateOK
<1>10. AstBorrowSafe'
  <2>2. ASSUME NEW y \in Holders, NEW b, b = LeaseOf(y)', b # None
        PROVE  astHeap'[b] = ExprOf(y)'
    <3>1. b = LeaseOf(y) /\ b \in Asts /\ y # t
      BY <1>3, <1>4, <2>2, LeaseType, ThreadMoves DEF Stay, IInv
    <3>2. astHeap[b] = ExprOf(y) /\ ExprOf(y)' = ExprOf(y)
      BY <1>3, <2>2, <3>1, ThreadMoves DEF IInv, AstBorrowSafe
    <3>3. b # a
      BY <1>8, <2>2, <3>1 DEF Borrowers
    <3> QED
      BY <1>1, <1>2, <3>1, <3>2, <3>3
  <2> QED
    BY <2>2 DEF AstBorrowSafe, Holders
<1> QED
  BY <1>6, <1>9, <1>10 DEF IInv

(* Steps in which thread t takes a lease on a cached entry.                *)
LEMMA LeaseStep ==
  ASSUME IInv, IType', NEW t \in Threads, \A u \in Threads \ {t} : th'[u] = th[u],
         UNCHANGED compiled, NEW i \in Slots, CacheGet(i), UNCHANGED heaps,
         g_cache[i].expr \in Exprs, th[t].pc = "idle", th'[t].pc \notin {"idle", "insert"},
         th'[t].ast = g_cache[i].ast, th'[t].expr = g_cache[i].expr
  PROVE  IInv'
<1>1. PICK a : a = g_cache[i].ast
  OBVIOUS
<1>2. Joins(t, a) /\ t \in Holders
  BY <1>1, ThreadMoves DEF Joins
<1>3. StoreType /\ EntriesOK
  BY DEF IInv, IType, TypeOK, StoreType, CacheType, GraveType
<1>4. a \in Asts /\ astHeap[a] = g_cache[i].expr /\ EntriesOK' /\ \A c : Spares(c)
  BY <1>1, <1>2, <1>3, GetKeeps
<1>5. astHeap' = astHeap
  BY DEF heaps
<1>6. \A b \in Asts : ~Cached(b) => Borrowers(b)' = Borrowers(b)
  BY <1>1, <1>2, <1>4, JoinBorrowers DEF Cached
<1>7. PrivateOK'
  <2>1. Spares(None) /\ \A u \in Threads : th[u].pc = "insert" => th[u].ast # None
    BY <1>4, CacheAssumption DEF IInv, IType, FramesOK
  <2> QED
    BY <1>6, <2>1, PrivateKept DEF IInv
<1>8. AstBorrowSafe'
  BY <1>1, <1>2, <1>4, <1>5, BorrowKept, ThreadMoves DEF IInv, Joins
<1> QED
  BY <1>4, <1>7, <1>8 DEF IInv

(* Steps in which thread t gives its lease back.                           *)
LEMMA ReleaseStep ==
  ASSUME IInv, IType', NEW t \in Threads, \A u \in Threads \ {t} : th'[u] = th[u],
         UNCHANGED compiled, CacheRelease(th[t].ast), th[t].pc \notin {"idle", "insert"},
         th'[t].pc # "insert", th'[t].pc = "idle" \/ th'[t].ast = None
  PROVE  IInv'
<1>1. PICK a : a = th[t].ast
  OBVIOUS
<1>2. a \in Asts \cup {None} /\ CacheRelease(a)
  BY <1>1 DEF IInv, IType, TypeOK, FrameType
<1>3. OthersKeepLeases(t) /\ LeaseOf(t) = a /\ LeaseOf(t)' = None /\ t \in Holders
  BY <1>1, ThreadMoves
<1>4. CASE a = None
  <2>1. UNCHANGED <<g_cache, g_graveyard, astHeap, bcHeap>>
    BY <1>2, <1>4 DEF CacheRelease
  <2> QED
    BY <1>3, <1>4, <2>1, QuietStep DEF SameEntries
<1>5. CASE a \in Asts
  <2>1. StoreType /\ EntriesOK
    BY DEF IInv, IType, TypeOK, StoreType, CacheType, GraveType
  <2>2. Leaves(t, a)
    BY <1>3 DEF Leaves
  <2>3. EntriesOK' /\ \A c : Spares(c)
    BY <1>2, <1>3, <1>5, <2>1, <2>2, ReleaseKeeps
  <2>4. \A b \in Asts : Borrowers(b)' \subseteq Borrowers(b)
    BY <1>3, <1>5, <2>2, LeaveBorrowers
  <2>5. PrivateOK'
    <3>1. Spares(None) /\ \A u \in Threads : th[u].pc = "insert" => th[u].ast # None
      BY <2>3, CacheAssumption DEF IInv, IType, FramesOK
    <3> QED
      BY <2>4, <3>1, PrivateKept DEF IInv
  <2>6. AstBorrowSafe'
    BY <1>3, <2>3, BorrowKept, ThreadMoves DEF IInv
  <2> QED
    BY <2>3, <2>5, <2>6 DEF IInv
<1> QED
  BY <1>2, <1>4, <1>5

(* Steps in which thread t inserts its parse; x, the thread or the handle  *)
(* it compiles, gets the lease.                                            *)
LEMMA InsertStep ==
  ASSUME "copy" \notin MayFail, IInv, IType', NEW t \in Threads,
         \A u \in Threads \ {t} : th'[u] = th[u], th[t].pc = "insert", th'[t].pc # "insert",
         NEW r, CacheInsert(th[t].expr, th[t].ast, r), NEW x \in Holders, Joins(x, r),
         ExprOf(x)' = th[t].expr,
         \A y \in Holders \ {x} : LeaseOf(y) # None => ExprOf(y)' = ExprOf(y)
  PROVE  IInv'
<1>1. PICK a \in Asts, e \in Exprs : a = th[t].ast /\ e = th[t].expr
  BY DEF IInv, IType, FramesOK
<1>2. /\ astHeap[a] = e /\ Borrowers(a) = {} /\ ~Cached(a)
      /\ \A u \in Threads \ {t} : th[u].pc = "insert" => th[u].ast # a
  BY <1>1 DEF IInv, PrivateOK
<1>3. StoreType /\ EntriesOK
  BY DEF IInv, IType, TypeOK, StoreType, CacheType, GraveType
<1>4. CacheInsert(e, a, r)
  BY <1>1
<1>5. r \in Asts
  BY <1>3, <1>4, InsertReturns
<1>6. astHeap'[r] = e /\ EntriesOK' /\ Spares(a) /\ (r = a \/ Cached(r))
  BY <1>2, <1>3, <1>4, InsertKeeps
<1>7. \A b \in Asts : ~Cached(b) /\ b # a => Borrowers(b)' \subseteq Borrowers(b)
  BY <1>5, <1>6, JoinBorrowers
<1>8. PrivateOK'
  BY <1>2, <1>6, <1>7, PrivateKept DEF IInv
<1>9. AstBorrowSafe'
  BY <1>1, <1>6, BorrowKept DEF IInv, Joins
<1> QED
  BY <1>6, <1>8, <1>9 DEF IInv

LEMMA StoreBcQuiet ==
  ASSUME StoreType, NEW e \in Exprs, NEW b, CacheStoreBc(e, b)
  PROVE  SameEntries /\ astHeap' = astHeap
BY ProbeRange DEF SameEntries, CacheStoreBc, StoreType, CacheType

LEMMA SafetyInit == Init => IInv
<1> SUFFICES ASSUME Init PROVE IInv
  OBVIOUS
<1>1. EntriesOK
  BY DEF Init, EntriesOK, SlotsOK, GravesOK, EmptySlot
<1>2. PrivateOK /\ AstBorrowSafe
  BY DEF Init, PrivateOK, AstBorrowSafe, Idle, NoHandle, Holders, LeaseOf, Borrowing
<1> QED
  BY <1>1, <1>2, TypeInit DEF IInv

LEMMA SafetyNext == "copy" \notin MayFail /\ IInv /\ [Next]_vars => IInv'
<1> SUFFICES ASSUME "copy" \notin MayFail, IInv, [Next]_vars PROVE IInv'
  OBVIOUS
<1>0. IType' /\ IType /\ StoreType /\ th \in [Threads -> FrameType]
  BY TypeNext DEF IInv, IType, TypeOK, StoreType, CacheType, GraveType
<1>1. ASSUME NEW t \in Threads, NEW e \in Exprs, EvalHit(t, e) PROVE IInv'
  <2>1. PICK i \in Slots : g_cache[i].expr = e /\ CacheGet(i) /\ th' = [th EXCEPT ![t] =
            [pc |-> IF g_cache[i].bc = None THEN "compile_bc" ELSE "run",
             op |-> "eval", expr |-> e, ast |-> g_cache[i].ast,
             bc |-> g_cache[i].bc, h |-> None]]
    BY <1>1, ProbeRange DEF EvalHit
  <2> QED
    BY <1>0, <1>1, <2>1, LeaseStep DEF EvalHit, Start, heaps
<1>2. ASSUME NEW t \in Threads, NEW e \in Exprs, EvalMiss(t, e) PROVE IInv'
  BY <1>0, <1>2, ParseStep DEF EvalMiss, Start
<1>3. ASSUME NEW t \in Threads, EvalInsert(t) PROVE IInv'
  <2>1. PICK r : /\ CacheInsert(th[t].expr, th[t].ast, r)
                 /\ th' = [th EXCEPT ![t].ast = r,
                       ![t].pc = IF r = None THEN "interp" ELSE "compile_bc"]
    BY <1>3 DEF EvalInsert
  <2>2. r # None
    BY <1>0, <1>3, <2>1, InsertReturns, CacheAssumption DEF EvalInsert, IInv, IType, FramesOK
  <2>3. /\ \A u \in Threads \ {t} : th'[u] = th[u]
        /\ th'[t].pc = "compile_bc" /\ th'[t].ast = r /\ th'[t].expr = th[t].expr
    BY <1>0, <2>1, <2>2 DEF FrameType
  <2>4. Joins(t, r) /\ t \in Holders /\ ExprOf(t)' = th[t].expr
        /\ \A y \in Holders \ {t} : ExprOf(y)' = ExprOf(y)
    BY <1>3, <2>3, ThreadMoves DEF Joins, EvalInsert
  <2> QED
    BY <1>0, <1>3, <2>1, <2>3, <2>4, InsertStep DEF EvalInsert
<1>4. ASSUME NEW t \in Threads, CompileBc(t) PROVE IInv'
  <2>1. /\ \A u \in Threads \ {t} : th'[u] = th[u]
        /\ th'[t].pc \notin {"idle", "insert"} /\ th'[t].ast = th[t].ast
        /\ th'[t].expr = th[t].expr /\ th[t].pc = "compile_bc"
    <3>0. th[t].pc = "compile_bc"
      BY <1>4 DEF CompileBc
    <3>1. CASE \E b \in Bcs, pc \in {"store", "run_fresh"} :
                 th' = [th EXCEPT ![t].bc = b, ![t].pc = pc]
      <4>1. PICK b \in Bcs, pc \in {"store", "run_fresh"} :
                 th' = [th EXCEPT ![t].bc = b, ![t].pc = pc]
        BY <3>1
      <4> QED
        BY <1>0, <3>0, <4>1 DEF FrameType
    <3>2. CASE \E pc \in {"run", "interp"} : th' = [th EXCEPT ![t].pc = pc]
      <4>1. PICK pc \in {"run", "interp"} : th' = [th EXCEPT ![t].pc = pc]
        BY <3>2
      <4> QED
        BY <1>0, <3>0, <4>1 DEF FrameType
    <3> QED
      BY <1>4, <3>1, <3>2 DEF CompileBc, Goto
  <2>2. LeaseOf(t)' = LeaseOf(t)
    BY <1>4, <2>1, ThreadMoves DEF CompileBc
  <2> QED
    BY <1>0, <1>4, <2>1, <2>2, QuietStep DEF CompileBc, SameEntries
<1>5. ASSUME NEW t \in Threads, RunFreshAndStore(t) \/ CtxStore(t) PROVE IInv'
  <2>1. /\ \A u \in Threads \ {t} : th'[u] = th[u]
        /\ th'[t].pc \notin {"idle", "insert"} /\ th'[t].ast = th[t].ast
        /\ th'[t].expr = th[t].expr /\ th[t].pc \in {"run_fresh", "store"}
    BY <1>0, <1>5 DEF RunFreshAndStore, CtxStore, Goto, FrameType
  <2>2. UNCHANGED compiled /\ CacheStoreBc(th[t].expr, th[t].bc) /\ th[t].expr \in Exprs
    BY <1>0, <1>5, <2>1 DEF RunFreshAndStore, CtxStore, IType, FramesOK
  <2>3. SameEntries /\ astHeap' = astHeap
    BY <1>0, <2>2, StoreBcQuiet
  <2>4. LeaseOf(t)' = LeaseOf(t)
    BY <2>1, <2>2, ThreadMoves
  <2> QED
    BY <1>0, <2>1, <2>2, <2>3, <2>4, QuietStep
<1>6. ASSUME NEW t \in Threads, RunCached(t) \/ CtxReread(t) PROVE IInv'
  <2>1. /\ \A u \in Threads \ {t} : th'[u] = th[u]
        /\ th'[t].pc \notin {"idle", "insert"} /\ th'[t].ast = th[t].ast
        /\ th'[t].expr = th[t].expr /\ th[t].pc \in {"run", "reread"}
    BY <1>0, <1>6 DEF RunCached, CtxReread, FrameType
  <2>2. UNCHANGED <<compiled, g_cache, g_graveyard, astHeap>>
    BY <1>6 DEF RunCached, CtxReread
  <2>3. LeaseOf(t)' = LeaseOf(t)
    BY <2>1, <2>2, ThreadMoves
  <2> QED
    BY <1>0, <2>1, <2>2, <2>3, QuietStep DEF SameEntries
<1>7. ASSUME NEW t \in Threads, EvalRelease(t) \/ CtxRunAndRelease(t) PROVE IInv'
  <2>1. /\ \A u \in Threads \ {t} : th'[u] = th[u]
        /\ th[t].pc \notin {"idle", "insert"} /\ th'[t].pc # "insert"
        /\ th'[t].pc = "idle" \/ th'[t].ast = None
    BY <1>0, <1>7 DEF EvalRelease, CtxRunAndRelease, Return, Idle, FrameType
  <2> QED
    BY <1>0, <1>7, <2>1, ReleaseStep DEF EvalRelease, CtxRunAndRelease
<1>8. ASSUME NEW t \in Threads, NEW e \in Exprs, NEW h \in Handles, CompileParse(t, e, h)
      PROVE  IInv'
  BY <1>0, <1>8, ParseStep DEF CompileParse, Start
<1>9. ASSUME NEW t \in Threads, CompileInsert(t) PROVE IInv'
  <2>1. PICK r : /\ CacheInsert(th[t].expr, th[t].ast, r)
                 /\ compiled' = IF r = None THEN compiled
                       ELSE [compiled EXCEPT ![th[t].h] = [expr |-> th[t].expr, ast |-> r]]
    BY <1>9 DEF CompileInsert
  <2>2. r # None
    BY <1>0, <1>9, <2>1, InsertReturns, CacheAssumption DEF CompileInsert, IInv, IType, FramesOK
  <2>3. PICK h \in Handles : h = th[t].h /\ compiled[h] = NoHandle /\ th[t].pc = "insert"
    BY <1>0, <1>9 DEF CompileInsert, IType, FramesOK
  <2>4. compiled' = [compiled EXCEPT ![h] = [expr |-> th[t].expr, ast |-> r]]
    BY <2>1, <2>2, <2>3
  <2>5. th' = [th EXCEPT ![t] = Idle] /\ compiled \in [Handles -> [expr : Exprs \cup {None}, ast : Asts \cup {None}]]
    BY <1>0, <1>9 DEF CompileInsert, Return, IType, TypeOK
  <2>6. LeaseOf(h) = None /\ LeaseOf(h)' = r /\ ExprOf(h)' = th[t].expr /\ h \in Holders
    BY <2>3, <2>4, <2>5 DEF LeaseOf, ExprOf, NoHandle, Holders
  <2>7. \A y \in Holders \ {h} :
          LeaseOf(y)' = LeaseOf(y) /\ (LeaseOf(y) # None => ExprOf(y)' = ExprOf(y))
    BY <1>0, <2>3, <2>4, <2>5, CacheAssumption DEF LeaseOf, ExprOf, Borrowing, Holders, Idle
  <2>8. Joins(h, r)
    BY <2>6, <2>7 DEF Joins, OthersKeepLeases
  <2>9. /\ \A u \in Threads \ {t} : th'[u] = th[u]
        /\ th'[t].pc # "insert"
    BY <1>0, <2>5 DEF Idle
  <2> QED
    BY <1>0, <2>1, <2>3, <2>6, <2>7, <2>8, <2>9, InsertStep
<1>10. ASSUME NEW t \in Threads, NEW h \in Handles, EvalIn(t, h) PROVE IInv'
  <2>1. /\ \A u \in Threads \ {t} : th'[u] = th[u]
        /\ th'[t].pc \notin {"idle", "insert"} /\ th'[t].ast = None /\ th[t].pc = "idle"
    BY <1>0, <1>10 DEF EvalIn, Start
  <2>2. LeaseOf(t) = None /\ LeaseOf(t)' = None
    BY <1>10, <2>1, ThreadMoves DEF EvalIn
  <2> QED
    BY <1>0, <1>10, <2>1, <2>2, QuietStep DEF EvalIn, SameEntries
<1>11. ASSUME NEW t \in Threads, NEW h \in Handles, CtxGet(t, h) PROVE IInv'
  <2>1. th[t].pc = "idle" /\ compiled[h].expr \in Exprs
        /\ UNCHANGED <<astHeap, bcHeap, compiled>>
    BY <1>0, <1>11 DEF CtxGet, Start, IType, FramesOK
  <2>2. CASE \E i \in Hits(compiled[h].expr) :
               /\ CacheGet(i)
               /\ th' = [th EXCEPT ![t] =
                    [pc |-> IF g_cache[i].bc = None THEN "compile_bc" ELSE "run",
                     op |-> "eval_ctx", expr |-> compiled[h].expr,
                     ast |-> g_cache[i].ast, bc |-> g_cache[i].bc, h |-> h]]
    <3>1. PICK i \in Slots :
               /\ g_cache[i].expr = compiled[h].expr /\ CacheGet(i)
               /\ th' = [th EXCEPT ![t] =
                    [pc |-> IF g_cache[i].bc = None THEN "compile_bc" ELSE "run",
                     op |-> "eval_ctx", expr |-> compiled[h].expr,
                     ast |-> g_cache[i].ast, bc |-> g_cache[i].bc, h |-> h]]
      BY <2>1, <2>2, ProbeRange
    <3> QED
      BY <1>0, <2>1, <3>1, LeaseStep DEF heaps
  <2>3. CASE /\ UNCHANGED cacheVars
             /\ th' = [th EXCEPT ![t] =
                  [pc |-> "interp", op |-> "eval_ctx", expr |-> compiled[h].expr,
                   ast |-> None, bc |-> None, h |-> h]]
    <3>1. /\ \A u \in Threads \ {t} : th'[u] = th[u]
          /\ th'[t].pc = "interp" /\ th'[t].ast = None
      BY <1>0, <2>3
    <3>2. LeaseOf(t) = None /\ LeaseOf(t)' = None
      BY <2>1, <3>1, ThreadMoves
    <3> QED
      BY <1>0, <2>1, <2>3, <3>1, <3>2, QuietStep DEF cacheVars, SameEntries
  <2> QED
    BY <1>11, <2>2, <2>3 DEF CtxGet
<1>12. ASSUME NEW t \in Threads, CompiledReturn(t) PROVE IInv'
  <2>1. th[t].pc = "interp" /\ th[t].ast = None /\ th' = [th EXCEPT ![t] = Idle]
        /\ UNCHANGED <<g_cache, g_graveyard, astHeap, bcHeap, compiled>>
    BY <1>0, <1>12 DEF CompiledReturn, Return, IType, FramesOK
  <2>2. /\ \A u \in Threads \ {t} : th'[u] = th[u]
        /\ th'[t].pc = "idle"
    BY <1>0, <2>1 DEF Idle
  <2>3. LeaseOf(t) = None /\ LeaseOf(t)' = None
    BY <2>1, <2>2, ThreadMoves
  <2> QED
    BY <1>0, <2>1, <2>2, <2>3, QuietStep DEF SameEntries
<1>13. ASSUME NEW h \in Handles, CompiledFree(h) PROVE IInv'
  <2>1. PICK a \in Asts : a = compiled[h].ast /\ CacheRelease(a)
    BY <1>0, <1>13 DEF CompiledFree, IType, FramesOK
  <2>2. /\ compiled' = [compiled EXCEPT ![h] = NoHandle] /\ th' = th
        /\ compiled \in [Handles -> [expr : Exprs \cup {None}, ast : Asts \cup {None}]]
    BY <1>0, <1>13 DEF CompiledFree, IType, TypeOK
  <2>3. h \in Holders /\ LeaseOf(h) = a /\ LeaseOf(h)' = None
    BY <2>1, <2>2 DEF LeaseOf, NoHandle, Holders
  <2>4. \A y \in Holders \ {h} : LeaseOf(y)' = LeaseOf(y) /\ ExprOf(y)' = ExprOf(y)
    BY <2>2 DEF LeaseOf, ExprOf, Borrowing, Holders
  <2>5. Leaves(h, a) /\ OthersKeepLeases(h)
    BY <2>3, <2>4 DEF Leaves, OthersKeepLeases
  <2>6. EntriesOK' /\ \A c : Spares(c)
    BY <1>0, <2>1, <2>3, <2>5, ReleaseKeeps DEF IInv
  <2>7. \A b \in Asts : Borrowers(b)' \subseteq Borrowers(b)
    BY <2>3, <2>5, LeaveBorrowers
  <2>8. AstBorrowSafe'
    BY <1>0, <2>3, <2>4, <2>5, <2>6, BorrowKept DEF IInv
  <2>9. PrivateOK'
    <3>1. ASSUME NEW u \in Threads, th[u].pc = "insert"
          PROVE  /\ astHeap'[th[u].ast] = th[u].expr
                 /\ Borrowers(th[u].ast)' = {} /\ ~Cached(th[u].ast)'
      <4>1. PICK p \in Asts : p = th[u].ast
        BY <1>0, <3>1 DEF IType, FramesOK
      <4>2. astHeap[p] = th[u].expr /\ Borrowers(p) = {} /\ ~Cached(p)
        BY <3>1, <4>1 DEF IInv, PrivateOK
      <4>3. PICK c : c \notin Asts
        BY CacheAssumption
      <4>4. astHeap'[p] = th[u].expr /\ Borrowers(p)' = {} /\ ~Cached(p)'
        BY <2>6, <2>7, <4>2, <4>3 DEF Spares
      <4>5. p = th'[u].ast
        BY <2>2, <4>1
      <4> QED
        BY <4>1, <4>4, <4>5 DEF Borrowers, Cached
    <3> QED
      BY <2>2, <3>1 DEF IInv, PrivateOK
  <2> QED
    BY <1>0, <2>6, <2>8, <2>9 DEF IInv
<1>14. CASE UNCHANGED vars
  BY <1>0, <1>14 DEF vars, IInv, EntriesOK, SlotsOK, GravesOK, EntryOK, PrivateOK, Cached,
       AstBorrowSafe, Borrowers, LeaseOf, ExprOf, Borrowing, Holders, Slots
<1>15. CASE Next
  BY <1>1, <1>2, <1>3, <1>4, <1>5, <1>6, <1>7, <1>8, <1>9, <1>10, <1>11, <1>12, <1>13, <1>15
     DEF Next, Call, Step
<1> QED
  BY <1>14, <1>15

(* No AST is freed, or replaced by another expression's, while a call or a *)
(* compiled handle borrows it - for any number of threads, expressions and *)
(* slots, and even when graveyard nodes cannot be allocated.               *)
THEOREM BorrowsAreSafe == "copy" \notin MayFail => (Spec => []AstBorrowSafe)
<1> SUFFICES ASSUME "copy" \notin MayFail PROVE Spec => []AstBorrowSafe
  OBVIOUS
<1>1. Init => IInv
  BY SafetyInit
<1>2. IInv /\ [Next]_vars => IInv'
  BY SafetyNext
<1>3. IInv => AstBorrowSafe
  BY DEF IInv
<1> QED
  BY <1>1, <1>2, <1>3, PTL DEF Spec

(* The pin counters count the borrowers exactly, in every slot and in the  *)
(* graveyard, where every entry is still borrowed by somebody.             *)
THEOREM PinsAreExact == "copy" \notin MayFail => (Spec => []PinsExact)
<1> SUFFICES ASSUME "copy" \notin MayFail PROVE Spec => []PinsExact
  OBVIOUS
<1>1. Init => IInv
  BY SafetyInit
<1>2. IInv /\ [Next]_vars => IInv'
  BY SafetyNext
<1>3. IInv => PinsExact
  BY DEF IInv, EntriesOK, SlotsOK, GravesOK, EntryOK, PinsExact, Filled
<1> QED
  BY <1>1, <1>2, <1>3, PTL DEF Spec

-------------------------------------------------------------------------------
(* The refinement: the cache, with its slots, counters and evictions, keeps  *)
(* the promise AstLease makes, for any number of threads, handles,           *)
(* expressions and slots.                                                    *)

(* What the cache operations do to the parses, seen from outside: each     *)
(* stays where it is or is freed.                                          *)
OnlyFreed == \A a \in Asts : astHeap'[a] \in {astHeap[a], None}

LEMMA HeapTyped ==
  ASSUME IInv' PROVE astHeap' \in [Asts -> Exprs \cup {None}]
BY DEF IInv, IType, TypeOK

(* What is freed is not borrowed afterwards: a borrower would hold a parse *)
(* of its expression, and a freed address holds none.                      *)
LEMMA FreedIsUnleased ==
  ASSUME IInv', OnlyFreed PROVE Lease!Reclaim
<1>1. ASSUME NEW x \in Holders, NEW a, a = LeaseOf(x)', a # None
      PROVE  astHeap'[a] # None
  <2>1. astHeap'[a] = ExprOf(x)'
    BY <1>1 DEF IInv, AstBorrowSafe, Holders
  <2>2. ExprOf(x)' \in Exprs
    <3>1. CASE x \in Handles
      BY <1>1, <3>1 DEF IInv, IType, FramesOK, LeaseOf, ExprOf, NoHandle
    <3>2. CASE x \notin Handles
      BY <1>1, <3>2 DEF IInv, IType, FramesOK, LeaseOf, ExprOf, Borrowing, Holders
    <3> QED
      BY <3>1, <3>2
  <2> QED
    BY <2>1, <2>2, CacheAssumption
<1>2. ASSUME NEW a \in Asts, astHeap'[a] # astHeap[a]
      PROVE  /\ astHeap'[a] = None
             /\ \A x \in Holders : LeaseOf(x)' # a
  BY <1>1, <1>2, CacheAssumption DEF OnlyFreed
<1> QED
  BY <1>2 DEF Lease!Reclaim, Lease!Leased, Holders

(* A lease taken is a Borrow, a lease dropped a Return.                    *)
LEMMA TakesLease ==
  ASSUME IInv', NEW x \in Holders, NEW a \in Asts, Joins(x, a), astHeap[a] # None, OnlyFreed
  PROVE  Lease!Next
<1>1. [y \in Holders |-> LeaseOf(y)'] = [[y \in Holders |-> LeaseOf(y)] EXCEPT ![x] = a]
  BY DEF Joins, OthersKeepLeases
<1>2. Lease!Borrow(x, a)
  BY <1>1, FreedIsUnleased, HeapTyped DEF Lease!Borrow, Joins, Holders
<1> QED
  BY <1>2 DEF Lease!Next

LEMMA DropsLease ==
  ASSUME IInv', NEW x \in Holders, NEW a, Leaves(x, a), a # None, OnlyFreed
  PROVE  Lease!Next
<1>1. \A y \in Holders : LeaseOf(y)' = IF y = x THEN None ELSE LeaseOf(y)
  BY DEF Leaves, OthersKeepLeases
<1>2. [y \in Holders |-> LeaseOf(y)'] = [[y \in Holders |-> LeaseOf(y)] EXCEPT ![x] = None]
  BY <1>1
<1>3. Lease!Return(x)
  BY <1>2, FreedIsUnleased, HeapTyped DEF Lease!Return, Leaves, Holders
<1> QED
  BY <1>3 DEF Lease!Next

(* A step that moves no lease and no parse is a stutter.                   *)
LEMMA KeepsLeaseStill ==
  ASSUME Stay, astHeap' = astHeap PROVE UNCHANGED Lease!vars
BY DEF Stay, Lease!vars, Holders

(* One borrower moves: it keeps its lease, takes one or drops one.         *)
LEMMA MoveRefines ==
  ASSUME IInv', NEW x \in Holders, OthersKeepLeases(x), OnlyFreed,
         NEW a, a = LeaseOf(x), NEW b, b = LeaseOf(x)',
         \/ a = b /\ astHeap' = astHeap
         \/ a # None /\ b = None
         \/ a = None /\ b \in Asts /\ astHeap[b] # None
  PROVE  [Lease!Next]_(Lease!vars)
<1>1. CASE a = b /\ astHeap' = astHeap
  <2>1. Stay
    BY <1>1 DEF Stay, OthersKeepLeases
  <2> QED
    BY <1>1, <2>1, KeepsLeaseStill
<1>2. CASE a # None /\ b = None
  <2>1. Leaves(x, a)
    BY <1>2 DEF Leaves
  <2> QED
    BY <1>2, <2>1, DropsLease
<1>3. CASE a = None /\ b \in Asts /\ astHeap[b] # None
  BY <1>3, TakesLease DEF Joins
<1> QED
  BY <1>1, <1>2, <1>3

LEMMA HeapOnlyFreed ==
  ASSUME StoreType, NEW S, astHeap' = Freed(astHeap, S) \/ astHeap' = astHeap
  PROVE  OnlyFreed
BY DEF OnlyFreed, Freed, StoreType

LEMMA InsertOnlyFreed ==
  ASSUME StoreType, NEW e, NEW a, NEW r, CacheInsert(e, a, r)
  PROVE  OnlyFreed
BY HeapOnlyFreed DEF CacheInsert, InsertTwin, Evict, heaps

LEMMA ReleaseOnlyFreed ==
  ASSUME StoreType, NEW a, CacheRelease(a)
  PROVE  OnlyFreed
BY HeapOnlyFreed DEF CacheRelease, ReleaseInSlot, ReleaseInGrave, heaps

(* What an insert returns was parsed before it: the caller's own parse or  *)
(* the one cached by a racing twin.                                        *)
LEMMA InsertReturnsLive ==
  ASSUME "copy" \notin MayFail, IInv, NEW t \in Threads, th[t].pc = "insert",
         NEW r, CacheInsert(th[t].expr, th[t].ast, r)
  PROVE  r \in Asts /\ astHeap[r] # None
<1>1. th[t].expr \in Exprs /\ th[t].ast \in Asts /\ astHeap[th[t].ast] = th[t].expr
  BY DEF IInv, IType, FramesOK, PrivateOK
<1>2. r \in Asts
  BY <1>1, InsertReturns DEF IInv
<1>3. \A i \in Hits(th[t].expr) : astHeap[g_cache[i].ast] = th[t].expr
  BY <1>1, ProbeRange, CacheAssumption DEF IInv, EntriesOK, SlotsOK
<1>4. r = th[t].ast \/ \E i \in Hits(th[t].expr) : r = g_cache[i].ast
  BY <1>2, CacheAssumption DEF CacheInsert, Fill
<1> QED
  BY <1>1, <1>2, <1>3, <1>4, CacheAssumption

-----------------------------------------------------------------------------
(* The initial states map to initial states.                               *)
LEMMA LeaseInit == Init => Lease!Init
BY DEF Init, Lease!Init, Holders, LeaseOf, Borrowing, Idle, NoHandle

(* Steps of thread t with the handles as they are, by what its frame says. *)
LEMMA ThreadRefines ==
  ASSUME IInv', NEW t \in Threads, \A u \in Threads \ {t} : th'[u] = th[u],
         UNCHANGED compiled, OnlyFreed,
         NEW a, a = IF th[t].pc \in {"idle", "insert"} THEN None ELSE th[t].ast,
         NEW b, b = IF th'[t].pc \in {"idle", "insert"} THEN None ELSE th'[t].ast,
         \/ a = b /\ astHeap' = astHeap
         \/ a # None /\ b = None
         \/ a = None /\ b \in Asts /\ astHeap[b] # None
  PROVE  [Lease!Next]_(Lease!vars)
<1>1. /\ OthersKeepLeases(t) /\ t \in Holders
      /\ a = LeaseOf(t) /\ b = LeaseOf(t)'
  BY ThreadMoves
<1> QED
  BY <1>1, MoveRefines

(* Every step maps to a step of the promise, or to none.                   *)
LEMMA LeaseNext ==
  ASSUME "copy" \notin MayFail, IInv, IInv', [Next]_vars
  PROVE  [Lease!Next]_(Lease!vars)
<1>0. /\ IType /\ StoreType /\ th \in [Threads -> FrameType] /\ EntriesOK
      /\ compiled \in [Handles -> [expr : Exprs \cup {None}, ast : Asts \cup {None}]]
      /\ None \notin Asts \cup Exprs
  BY CacheAssumption DEF IInv, IType, TypeOK, StoreType, CacheType, GraveType
<1>1. \A i \in Slots : g_cache[i].expr # None =>
        g_cache[i].ast \in Asts /\ astHeap[g_cache[i].ast] # None
  BY <1>0 DEF EntriesOK, SlotsOK, EntryOK
<1>2. astHeap' = astHeap => OnlyFreed
  BY <1>0, HeapOnlyFreed
<1>3. ASSUME NEW t \in Threads, NEW e \in Exprs, EvalHit(t, e)
      PROVE  [Lease!Next]_(Lease!vars)
  <2>1. PICK i \in Slots :
          /\ g_cache[i].expr = e
          /\ th' = [th EXCEPT ![t] =
               [pc |-> IF g_cache[i].bc = None THEN "compile_bc" ELSE "run",
                op |-> "eval", expr |-> e, ast |-> g_cache[i].ast,
                bc |-> g_cache[i].bc, h |-> None]]
    BY <1>3, ProbeRange DEF EvalHit
  <2>2. /\ \A u \in Threads \ {t} : th'[u] = th[u]
        /\ th[t].pc = "idle" /\ th'[t].pc \notin {"idle", "insert"}
        /\ th'[t].ast = g_cache[i].ast /\ UNCHANGED <<astHeap, compiled>>
    BY <1>0, <1>3, <2>1 DEF EvalHit, Start
  <2> QED
    BY <1>0, <1>1, <1>2, <2>1, <2>2, ThreadRefines
<1>4. ASSUME NEW t \in Threads, NEW op, NEW e \in Exprs, NEW h, th[t].pc = "idle",
             Parse(t, op, e, h), UNCHANGED compiled
      PROVE  [Lease!Next]_(Lease!vars)
  <2>1. PICK a \in Asts :
          /\ astHeap[a] = None /\ astHeap' = [astHeap EXCEPT ![a] = e]
          /\ th' = [th EXCEPT ![t] = [pc |-> "insert", op |-> op, expr |-> e,
                                      ast |-> a, bc |-> None, h |-> h]]
    BY <1>4 DEF Parse, Alloc
  <2>2. \A u \in Threads \ {t} : th'[u] = th[u]
    BY <1>0, <2>1
  <2>3. th'[t].pc = "insert"
    BY <1>0, <2>1
  <2>4. Stay
    BY <1>4, <2>2, <2>3, ThreadMoves DEF Stay, OthersKeepLeases
  <2>5. [y \in Holders |-> LeaseOf(y)]' = [y \in Holders |-> LeaseOf(y)]
    BY <2>4 DEF Stay, Holders
  <2>6. Lease!Parse(a, e)
    BY <2>1, <2>5 DEF Lease!Parse
  <2> QED
    BY <2>6 DEF Lease!Next
<1>5. ASSUME NEW t \in Threads, EvalInsert(t)
      PROVE  [Lease!Next]_(Lease!vars)
  <2>1. PICK r : /\ CacheInsert(th[t].expr, th[t].ast, r)
                 /\ th' = [th EXCEPT ![t].ast = r,
                       ![t].pc = IF r = None THEN "interp" ELSE "compile_bc"]
    BY <1>5 DEF EvalInsert
  <2>2. r \in Asts /\ astHeap[r] # None /\ OnlyFreed /\ th[t].pc = "insert"
    BY <1>0, <1>5, <2>1, InsertReturnsLive, InsertOnlyFreed DEF EvalInsert
  <2>3. /\ \A u \in Threads \ {t} : th'[u] = th[u]
        /\ th'[t].pc = "compile_bc" /\ th'[t].ast = r
    BY <1>0, <2>1, <2>2 DEF FrameType
  <2>4. UNCHANGED compiled
    BY <1>5 DEF EvalInsert
  <2> QED
    BY <1>0, <2>2, <2>3, <2>4, ThreadRefines
<1>6. ASSUME NEW t \in Threads, CompileBc(t) \/ RunFreshAndStore(t) \/ RunCached(t)
                                \/ CtxStore(t) \/ CtxReread(t)
      PROVE  [Lease!Next]_(Lease!vars)
  <2>1. /\ \A u \in Threads \ {t} : th'[u] = th[u]
        /\ th[t].pc \notin {"idle", "insert"} /\ th'[t].pc \notin {"idle", "insert"}
        /\ th'[t].ast = th[t].ast
    <3>1. CASE CompileBc(t)
      <4>1. th[t].pc = "compile_bc"
        BY <3>1 DEF CompileBc
      <4>2. ASSUME NEW b \in Bcs, NEW pc \in {"store", "run_fresh"},
                   th' = [th EXCEPT ![t].bc = b, ![t].pc = pc]
            PROVE  /\ \A u \in Threads \ {t} : th'[u] = th[u]
                   /\ th'[t].pc = pc /\ th'[t].ast = th[t].ast
        BY <1>0, <4>2 DEF FrameType
      <4>3. ASSUME NEW pc \in {"run", "interp"}, th' = [th EXCEPT ![t].pc = pc]
            PROVE  /\ \A u \in Threads \ {t} : th'[u] = th[u]
                   /\ th'[t].pc = pc /\ th'[t].ast = th[t].ast
        BY <1>0, <4>3 DEF FrameType
      <4>4. \/ \E b \in Bcs, pc \in {"store", "run_fresh"} :
                 th' = [th EXCEPT ![t].bc = b, ![t].pc = pc]
            \/ \E pc \in {"run", "interp"} : th' = [th EXCEPT ![t].pc = pc]
        BY <3>1 DEF CompileBc, Goto
      <4> QED
        BY <4>1, <4>2, <4>3, <4>4
    <3>2. CASE RunFreshAndStore(t) \/ RunCached(t) \/ CtxStore(t) \/ CtxReread(t)
      BY <1>0, <3>2 DEF RunFreshAndStore, RunCached, CtxStore, CtxReread, Goto, FrameType
    <3> QED
      BY <1>6, <3>1, <3>2
  <2>2. UNCHANGED <<astHeap, compiled>>
    BY <1>6 DEF CompileBc, RunFreshAndStore, RunCached, CtxStore, CtxReread, CacheStoreBc
  <2> QED
    BY <1>2, <2>1, <2>2, ThreadRefines
<1>7. ASSUME NEW t \in Threads, EvalRelease(t) \/ CtxRunAndRelease(t)
      PROVE  [Lease!Next]_(Lease!vars)
  <2>1. /\ \A u \in Threads \ {t} : th'[u] = th[u]
        /\ th[t].pc \notin {"idle", "insert"}
        /\ th'[t].pc = "idle" \/ th'[t].ast = None
        /\ CacheRelease(th[t].ast) /\ UNCHANGED compiled
    BY <1>0, <1>7 DEF EvalRelease, CtxRunAndRelease, Return, Idle, FrameType
  <2>2. th[t].ast = None => astHeap' = astHeap
    BY <2>1 DEF CacheRelease
  <2>3. OnlyFreed
    BY <1>0, <2>1, ReleaseOnlyFreed
  <2>4. PICK a, b : /\ a = th[t].ast
                    /\ b = IF th'[t].pc \in {"idle", "insert"} THEN None ELSE th'[t].ast
    OBVIOUS
  <2>5. b = None
    BY <2>1, <2>4
  <2> QED
    BY <2>1, <2>2, <2>3, <2>4, <2>5, ThreadRefines
<1>8. ASSUME NEW t \in Threads, CompileInsert(t)
      PROVE  [Lease!Next]_(Lease!vars)
  <2>1. PICK r : /\ CacheInsert(th[t].expr, th[t].ast, r)
                 /\ compiled' = IF r = None THEN compiled
                       ELSE [compiled EXCEPT ![th[t].h] = [expr |-> th[t].expr, ast |-> r]]
    BY <1>8 DEF CompileInsert
  <2>2. th[t].pc = "insert" /\ r \in Asts /\ astHeap[r] # None /\ OnlyFreed
    BY <1>0, <1>8, <2>1, InsertReturnsLive, InsertOnlyFreed DEF CompileInsert
  <2>3. PICK h \in Handles : h = th[t].h /\ compiled[h] = NoHandle
    BY <1>0, <1>8 DEF CompileInsert, IType, FramesOK
  <2>4. compiled' = [compiled EXCEPT ![h] = [expr |-> th[t].expr, ast |-> r]]
    BY <1>0, <2>1, <2>2, <2>3
  <2>5. th' = [th EXCEPT ![t] = Idle]
    BY <1>8 DEF CompileInsert, Return
  <2>6. LeaseOf(h) = None /\ LeaseOf(h)' = r /\ h \in Holders
    BY <1>0, <2>3, <2>4 DEF LeaseOf, NoHandle, Holders
  <2>7. OthersKeepLeases(h)
    BY <1>0, <2>2, <2>4, <2>5, CacheAssumption
       DEF OthersKeepLeases, LeaseOf, Borrowing, Holders, Idle
  <2> QED
    BY <2>2, <2>6, <2>7, MoveRefines
<1>9. ASSUME NEW t \in Threads, NEW h \in Handles, EvalIn(t, h)
      PROVE  [Lease!Next]_(Lease!vars)
  <2>1. /\ \A u \in Threads \ {t} : th'[u] = th[u]
        /\ th[t].pc = "idle" /\ th'[t].ast = None /\ UNCHANGED <<astHeap, compiled>>
    BY <1>0, <1>9 DEF EvalIn, Start
  <2> QED
    BY <1>2, <2>1, ThreadRefines
<1>10. ASSUME NEW t \in Threads, NEW h \in Handles, CtxGet(t, h)
       PROVE  [Lease!Next]_(Lease!vars)
  <2>1. /\ compiled[h].expr \in Exprs /\ th[t].pc = "idle" /\ UNCHANGED <<astHeap, compiled>>
    BY <1>0, <1>10 DEF CtxGet, Start, IType, FramesOK
  <2>2. PICK a, pc, bc :
          /\ th' = [th EXCEPT ![t] = [pc |-> pc, op |-> "eval_ctx", expr |-> compiled[h].expr,
                                      ast |-> a, bc |-> bc, h |-> h]]
          /\ pc \notin {"idle", "insert"}
          /\ a = None \/ \E i \in Hits(compiled[h].expr) : a = g_cache[i].ast
    BY <1>10 DEF CtxGet
  <2>3. a = None \/ (a \in Asts /\ astHeap[a] # None)
    BY <1>0, <1>1, <2>1, <2>2, ProbeRange
  <2>4. /\ \A u \in Threads \ {t} : th'[u] = th[u]
        /\ th'[t].pc = pc /\ th'[t].ast = a
    BY <1>0, <2>2
  <2> QED
    BY <1>2, <2>1, <2>2, <2>3, <2>4, ThreadRefines
<1>11. ASSUME NEW t \in Threads, CompiledReturn(t)
       PROVE  [Lease!Next]_(Lease!vars)
  <2>1. /\ th[t].pc = "interp" /\ th[t].ast = None /\ th' = [th EXCEPT ![t] = Idle]
        /\ UNCHANGED <<astHeap, compiled>>
    BY <1>0, <1>11 DEF CompiledReturn, Return, IType, FramesOK
  <2>2. \A u \in Threads \ {t} : th'[u] = th[u]
    BY <1>0, <2>1
  <2>3. th'[t].pc = "idle"
    BY <1>0, <2>1 DEF Idle
  <2> QED
    BY <1>2, <2>1, <2>2, <2>3, ThreadRefines
<1>12. ASSUME NEW h \in Handles, CompiledFree(h)
       PROVE  [Lease!Next]_(Lease!vars)
  <2>1. /\ compiled[h].ast \in Asts /\ CacheRelease(compiled[h].ast)
        /\ compiled' = [compiled EXCEPT ![h] = NoHandle] /\ th' = th
    BY <1>0, <1>12 DEF CompiledFree, IType, FramesOK
  <2>2. /\ h \in Holders /\ LeaseOf(h) = compiled[h].ast /\ LeaseOf(h)' = None
        /\ OthersKeepLeases(h)
    BY <1>0, <2>1 DEF LeaseOf, NoHandle, Holders, OthersKeepLeases, Borrowing
  <2>3. OnlyFreed
    BY <1>0, <2>1, ReleaseOnlyFreed
  <2>4. compiled[h].ast # None
    BY <1>0, <2>1
  <2> QED
    BY <2>2, <2>3, <2>4, MoveRefines
<1>13. CASE UNCHANGED vars
  <2>1. Stay
    BY <1>13 DEF vars, Stay, LeaseOf, Borrowing, Holders
  <2> QED
    BY <1>13, <2>1, KeepsLeaseStill DEF vars
<1>14. CASE Next
  <2>1. ASSUME NEW t \in Threads, Call(t) PROVE [Lease!Next]_(Lease!vars)
    BY <1>3, <1>4, <1>9, <1>10, <2>1 DEF Call, EvalMiss, CompileParse, Start
  <2>2. ASSUME NEW t \in Threads, Step(t) PROVE [Lease!Next]_(Lease!vars)
    BY <1>5, <1>6, <1>7, <1>8, <1>11, <2>2 DEF Step
  <2> QED
    BY <1>12, <1>14, <2>1, <2>2 DEF Next
<1> QED
  BY <1>13, <1>14

(* The cache implements AstLease: whatever is inserted, evicted, buried    *)
(* and freed, what the callers see is a set of parses, each of which stays *)
(* where it is while anybody holds a lease on it.                          *)
THEOREM CacheImplementsLease == "copy" \notin MayFail => (Spec => KeepsLeases)
<1> SUFFICES ASSUME "copy" \notin MayFail PROVE Spec => KeepsLeases
  OBVIOUS
<1>1. Init => IInv
  BY SafetyInit
<1>2. IInv /\ [Next]_vars => IInv'
  BY SafetyNext
<1>3. Init => Lease!Init
  BY LeaseInit
<1>4. IInv /\ IInv' /\ [Next]_vars => [Lease!Next]_(Lease!vars)
  BY LeaseNext
<1> QED
  BY <1>1, <1>2, <1>3, <1>4, PTL DEF Spec, KeepsLeases, Lease!Spec

-----------------------------------------------------------------------------
(***************************************************************************)
(* The entries of the cache.  First, the probe finds every cached          *)
(* expression, in one slot only.  Second, every live AST and every live    *)
(* bytecode has one owner: nothing leaks and nothing is freed twice.  That *)
(* does not survive a failed allocation in the cache: the entry in the way *)
(* is then dropped while borrowed, or freed while its slot still names it. *)
(***************************************************************************)
(* The walk from the home slot of the expression in slot i to i meets no   *)
(* empty slot, and no other slot holds the expression.                     *)
Reached(i) ==
  \E k \in Slots : /\ Probe(g_cache[i].expr, k) = i
                   /\ \A j \in 0 .. k - 1 : g_cache[Probe(g_cache[i].expr, j)].expr # None
PInv == /\ \A i \in Filled : Reached(i)
        /\ \A i, j \in Filled : g_cache[i].expr = g_cache[j].expr => i = j

LEMMA ModOf ==
  ASSUME NEW n \in Nat \ {0}, NEW a \in 0 .. n - 1, NEW k \in 0 .. n - 1
  PROVE  (a + k) % n = IF a + k < n THEN a + k ELSE a + k - n
OBVIOUS

LEMMA ProbeAt ==
  ASSUME NEW e \in Exprs
  PROVE  /\ Home[e] \in 0 .. NSlots - 1
         /\ \A m \in Slots : Probe(e, m) = IF Home[e] + m < NSlots THEN Home[e] + m
                                           ELSE Home[e] + m - NSlots
<1>1. NSlots \in Nat \ {0} /\ Home[e] \in 0 .. NSlots - 1
  BY CacheAssumption
<1> QED
  BY <1>1, ModOf DEF Probe, Slots

(* NSlots probes of an expression are NSlots different slots.              *)
LEMMA ProbeOnce ==
  ASSUME NEW e \in Exprs
  PROVE  /\ \A k \in Slots : Probe(e, k) \in Slots
         /\ \A j, k \in Slots : Probe(e, j) = Probe(e, k) => j = k
BY ProbeAt, CacheAssumption DEF Slots

LEMMA WalkIn ==
  ASSUME NEW k \in Slots, NEW j \in 0 .. k - 1 PROVE j \in Slots /\ j # k
BY CacheAssumption DEF Slots

LEMMA ProbeFinds ==
  ASSUME IType, PInv PROVE Findable
<1> SUFFICES ASSUME NEW i \in Filled PROVE Hits(g_cache[i].expr) = {i}
  BY DEF Findable
<1>1. i \in Slots /\ g_cache[i].expr \in Exprs
  BY DEF Filled, IType, TypeOK
<1>2. PICK e \in Exprs : e = g_cache[i].expr
  BY <1>1
<1>3. PICK k \in Slots : /\ Probe(e, k) = i
                         /\ \A j \in 0 .. k - 1 : g_cache[Probe(e, j)].expr # None
  BY <1>2 DEF PInv, Reached
<1>4. ASSUME NEW j \in 0 .. k - 1 PROVE g_cache[Probe(e, j)].expr \notin {None, e}
  <2>1. j \in Slots /\ Probe(e, j) \in Slots /\ Probe(e, j) # i
    BY <1>3, WalkIn, ProbeOnce
  <2>2. g_cache[Probe(e, j)].expr # None
    BY <1>3
  <2> QED
    BY <1>2, <2>1, <2>2 DEF PInv, Filled
<1>5. i \in Hits(e)
  BY <1>1, <1>2, <1>3, <1>4 DEF Hits
<1>6. \A x \in Hits(e) : x = i
  BY <1>1, <1>2, ProbeRange, CacheAssumption DEF PInv, Filled
<1> QED
  BY <1>2, <1>5, <1>6

(* No step empties a slot, so that a walk stays a walk.                    *)
LEMMA WalksStay ==
  ASSUME IType, NEW i \in Filled, Reached(i), g_cache'[i].expr = g_cache[i].expr,
         \A j \in Filled : g_cache'[j].expr # None
  PROVE  Reached(i)'
<1>1. PICK e \in Exprs : e = g_cache[i].expr
  BY DEF Filled, IType, TypeOK
<1>2. PICK k \in Slots : /\ Probe(e, k) = i
                         /\ \A j \in 0 .. k - 1 : g_cache[Probe(e, j)].expr # None
  BY <1>1 DEF Reached
<1>3. ASSUME NEW j \in 0 .. k - 1 PROVE g_cache'[Probe(e, j)].expr # None
  BY <1>2, WalkIn, ProbeOnce DEF Filled
<1>4. e = g_cache'[i].expr
  BY <1>1
<1> QED
  BY <1>2, <1>3, <1>4 DEF Reached, Probe, Slots

LEMMA SameExprs ==
  ASSUME IType, PInv, \A i \in Slots : g_cache'[i].expr = g_cache[i].expr
  PROVE  PInv'
<1>1. Filled' = Filled
  BY DEF Filled, Slots
<1>2. \A i \in Filled : g_cache'[i].expr = g_cache[i].expr /\ g_cache[i].expr # None
  BY DEF Filled
<1>3. \A i \in Filled : Reached(i)'
  BY <1>2, WalksStay DEF PInv
<1> QED
  BY <1>1, <1>2, <1>3 DEF PInv

(* A new entry goes to the first empty slot of its walk or, when no slot   *)
(* is empty, to its home slot, whose expression is not cached any more.    *)
LEMMA InsertProbe ==
  ASSUME IType, PInv, NEW e \in Exprs, NEW a \in Asts, NEW r, CacheInsert(e, a, r)
  PROVE  PInv'
<1>0. g_cache \in [Slots -> CacheType] /\ None \notin Exprs
  BY CacheAssumption DEF IType, TypeOK, CacheType
<1>1. CASE \E i \in Hits(e) : InsertTwin(i, a)
  <2>1. \A i \in Slots : g_cache'[i].expr = g_cache[i].expr
    BY <1>0, <1>1, ProbeRange DEF InsertTwin, CacheType
  <2> QED
    BY <2>1, SameExprs
<1>2. CASE Hits(e) = {} /\ UNCHANGED g_cache
  BY <1>2, SameExprs
<1>3. CASE /\ Hits(e) = {}
           /\ \E i \in Target(e) : g_cache' = [g_cache EXCEPT
                  ![i] = [expr |-> e, ast |-> a, bc |-> None, pins |-> 1]]
  <2>1. PICK i \in Target(e) : g_cache' = [g_cache EXCEPT
                  ![i] = [expr |-> e, ast |-> a, bc |-> None, pins |-> 1]]
    BY <1>3
  <2>2. /\ i \in Slots /\ g_cache'[i].expr = e
        /\ \A j \in Slots : j # i => g_cache'[j] = g_cache[j]
    BY <1>0, <2>1, ProbeRange
  <2>3. Filled' = Filled \cup {i}
    BY <1>0, <2>2 DEF Filled, Slots
  <2>4. \A j \in Filled : g_cache[j].expr # e
    <3>1. Findable
      BY ProbeFinds
    <3> QED
      BY <1>3, <3>1 DEF Findable
  <2>5. ASSUME NEW j \in Filled, j # i PROVE Reached(j)'
    <3>1. \A m \in Filled : g_cache'[m].expr # None
      BY <1>0, <2>2 DEF Filled
    <3>2. g_cache'[j].expr = g_cache[j].expr
      BY <2>2, <2>5 DEF Filled
    <3> QED
      BY <3>1, <3>2, WalksStay DEF PInv
  <2>6. Reached(i)'
    <3>1. PICK k \in Slots : /\ Probe(e, k) = i
                             /\ \A j \in 0 .. k - 1 : g_cache[Probe(e, j)].expr # None
      <4>1. CASE FirstEmpty(e) = {}
        <5>1. i = Home[e] /\ Home[e] \in 0 .. NSlots - 1 /\ 0 \in Slots
          BY <4>1, CacheAssumption DEF Target, Slots
        <5>2. Probe(e, 0) = i
          BY <5>1, ProbeAt, CacheAssumption
        <5>3. \A j \in 0 .. 0 - 1 : FALSE
          OBVIOUS
        <5> QED
          BY <5>1, <5>2, <5>3
      <4>2. CASE FirstEmpty(e) # {}
        BY <4>2, <2>1 DEF Target, FirstEmpty
      <4> QED
        BY <4>1, <4>2
    <3>2. ASSUME NEW j \in 0 .. k - 1 PROVE g_cache'[Probe(e, j)].expr # None
      BY <1>0, <2>2, <3>1, WalkIn, ProbeOnce
    <3> QED
      BY <2>2, <3>1, <3>2 DEF Reached, Probe, Slots
  <2>7. \A j, m \in Filled \cup {i} : g_cache'[j].expr = g_cache'[m].expr => j = m
    BY <2>2, <2>4 DEF PInv, Filled
  <2> QED
    BY <2>3, <2>5, <2>6, <2>7 DEF PInv
<1> QED
  BY <1>1, <1>2, <1>3 DEF CacheInsert, Fill

LEMMA ProbeInit == Init => PInv
BY DEF Init, PInv, Filled, EmptySlot

LEMMA ProbeNext == IType /\ PInv /\ [Next]_vars => PInv'
<1> SUFFICES ASSUME IType, PInv, [Next]_vars PROVE PInv'
  OBVIOUS
<1>0. g_cache \in [Slots -> CacheType]
  BY DEF IType, TypeOK, CacheType
<1>1. ASSUME NEW t \in Threads, EvalInsert(t) \/ CompileInsert(t) PROVE PInv'
  <2>1. th[t].expr \in Exprs /\ th[t].ast \in Asts
    BY <1>1 DEF EvalInsert, CompileInsert, IType, FramesOK
  <2> QED
    BY <1>1, <2>1, InsertProbe DEF EvalInsert, CompileInsert
<1>2. ASSUME UNCHANGED g_cache \/ \E i \in Slots : CacheGet(i) PROVE PInv'
  BY <1>0, <1>2, SameExprs DEF CacheGet, CacheType
<1>3. ASSUME NEW a, CacheRelease(a) PROVE PInv'
  <2>1. UNCHANGED g_cache \/ \E i \in Slots : ReleaseInSlot(i)
    BY <1>3 DEF CacheRelease, ReleaseInGrave, SlotsOf
  <2> QED
    BY <1>0, <2>1, SameExprs DEF ReleaseInSlot, CacheType
<1>4. ASSUME NEW t \in Threads, RunFreshAndStore(t) \/ CtxStore(t) PROVE PInv'
  <2>1. th[t].expr \in Exprs /\ CacheStoreBc(th[t].expr, th[t].bc)
    BY <1>4 DEF RunFreshAndStore, CtxStore, IType, FramesOK
  <2>2. UNCHANGED g_cache \/ \E i \in Slots : g_cache' = [g_cache EXCEPT ![i].bc = th[t].bc]
    BY <2>1, ProbeRange DEF CacheStoreBc
  <2>3. \A i \in Slots : g_cache'[i].expr = g_cache[i].expr
    BY <1>0, <2>2 DEF CacheType
  <2> QED
    BY <2>3, SameExprs
<1>5. ASSUME NEW t \in Threads, NEW h \in Handles, CtxGet(t, h) PROVE PInv'
  <2>1. compiled[h].expr \in Exprs
    BY <1>5 DEF CtxGet, IType, FramesOK
  <2> QED
    BY <1>2, <1>5, <2>1, ProbeRange DEF CtxGet, cacheVars
<1>6. ASSUME NEW t \in Threads, NEW e \in Exprs, EvalHit(t, e) PROVE PInv'
  BY <1>2, <1>6, ProbeRange DEF EvalHit
<1>7. CASE UNCHANGED vars
  BY <1>2, <1>7 DEF vars
<1>8. CASE Next
  <2>1. ASSUME NEW t \in Threads, Call(t) PROVE PInv'
    BY <1>2, <1>5, <1>6, <2>1 DEF Call, EvalMiss, CompileParse, EvalIn
  <2>2. ASSUME NEW t \in Threads, Step(t) PROVE PInv'
    BY <1>1, <1>2, <1>3, <1>4, <2>2
       DEF Step, CompileBc, RunCached, EvalRelease, CtxReread, CtxRunAndRelease, CompiledReturn
  <2>3. ASSUME NEW h \in Handles, CompiledFree(h) PROVE PInv'
    BY <1>3, <2>3 DEF CompiledFree
  <2> QED
    BY <1>8, <2>1, <2>2, <2>3 DEF Next
<1> QED
  BY <1>7, <1>8

(* Every cached expression is found by the probe, in the one slot that     *)
(* holds it, whatever was inserted, evicted and overwritten before and     *)
(* whichever allocations failed.                                           *)
THEOREM ProbesFind == Spec => []Findable
<1>1. Init => IType /\ PInv
  BY TypeInit, ProbeInit
<1>2. IType /\ PInv /\ [Next]_vars => IType' /\ PInv'
  BY TypeNext, ProbeNext
<1>3. IType /\ PInv => Findable
  BY ProbeFinds
<1> QED
  BY <1>1, <1>2, <1>3, PTL DEF Spec

-----------------------------------------------------------------------------
(* The invariant of owning.  Of the ASTs only the leak is new: that no two *)
(* owners share one is in EntriesOK and PrivateOK.  What leaks when a      *)
(* graveyard node cannot be allocated has no owner; nothing else changes.  *)
Buries == "graveyard" \notin MayFail
AstsOwned ==
  Buries => \A a \in Asts : astHeap[a] # None => Cached(a) \/ Private(a) # {}

(* A thread carries the bytecode it compiled until it stores it.           *)
Fresh(t) == th[t].pc \in {"run_fresh", "store"}

InSlot(b) == \E i \in Slots : g_cache[i].bc = b
InGrave(b) == \E g \in g_graveyard : g.bc = b
Carried(b) == \E t \in Threads : Fresh(t) /\ th[t].bc = b

OwnersLive == \A b \in Bcs :
  /\ InSlot(b) \/ InGrave(b) \/ Carried(b) => bcHeap[b] # None
  /\ Buries /\ bcHeap[b] # None => InSlot(b) \/ InGrave(b) \/ Carried(b)
OwnersApart == \A b \in Bcs : /\ ~(InSlot(b) /\ InGrave(b))
                              /\ ~(InSlot(b) /\ Carried(b))
                              /\ ~(InGrave(b) /\ Carried(b))
SlotBcsOK ==
  /\ \A i, j \in Slots : g_cache[i].bc = g_cache[j].bc => g_cache[i].bc = None \/ i = j
  /\ \A i \in Slots : g_cache[i].expr = None => g_cache[i].bc = None
GraveBcsOK == \A g, k \in g_graveyard : g.bc = k.bc => g.bc = None \/ g = k
CarriersOK ==
  /\ \A t \in Threads : Fresh(t) => th[t].bc \in Bcs
  /\ \A t, u \in Threads : Fresh(t) /\ Fresh(u) /\ th[t].bc = th[u].bc => t = u

BcsOwned == OwnersLive /\ OwnersApart /\ SlotBcsOK /\ GraveBcsOK /\ CarriersOK
OInv == AstsOwned /\ BcsOwned

(* One owner, counted: a set of owners in which any two are the same.      *)
LEMMA AtMostOne ==
  ASSUME NEW S, \A x, y \in S : x = y
  PROVE  Cardinality(S) = IF S = {} THEN 0 ELSE 1
<1>1. CASE S = {}
  BY <1>1, FS_EmptySet
<1>2. CASE S # {}
  <2>1. PICK x : S = {x}
    BY <1>2
  <2> QED
    BY <2>1, FS_Singleton
<1> QED
  BY <1>1, <1>2

LEMMA OwnedInOneSlot ==
  ASSUME Buries, IInv, OInv PROVE OwnedOnce
<1>0. None \notin Asts \cup Bcs \cup Exprs
  BY CacheAssumption
<1>1. ASSUME NEW a \in Asts
      PROVE  Cardinality({i \in Filled : g_cache[i].ast = a}) + Cardinality(GravesOf(a))
               + Cardinality(Private(a)) = IF astHeap[a] = None THEN 0 ELSE 1
  <2> DEFINE S == {i \in Filled : g_cache[i].ast = a}
             G == GravesOf(a)
             P == Private(a)
  <2>1. /\ \A i \in Slots : g_cache[i].ast = a => i \in S
        /\ \A i, j \in S : i = j
    BY <1>0 DEF IInv, EntriesOK, SlotsOK, Filled
  <2>2. \A g, k \in G : g = k
    BY DEF IInv, EntriesOK, GravesOK, GravesOf
  <2>3. \A t, u \in P : t = u
    BY DEF IInv, PrivateOK, Private
  <2>4. S = {} \/ G = {}
    BY DEF IInv, EntriesOK, GravesOK, GravesOf, Filled
  <2>5. P # {} => S = {} /\ G = {} /\ astHeap[a] # None
    BY <1>0 DEF IInv, IType, FramesOK, PrivateOK, Private, Cached, GravesOf, Filled
  <2>6. S # {} \/ G # {} => astHeap[a] # None
    BY <1>0 DEF IInv, EntriesOK, SlotsOK, GravesOK, EntryOK, GravesOf, Filled
  <2>7. astHeap[a] # None => S # {} \/ G # {} \/ P # {}
    BY <2>1 DEF OInv, AstsOwned, Cached, GravesOf
  <2>8. /\ Cardinality(S) = IF S = {} THEN 0 ELSE 1
        /\ Cardinality(G) = IF G = {} THEN 0 ELSE 1
        /\ Cardinality(P) = IF P = {} THEN 0 ELSE 1
    BY <2>1, <2>2, <2>3, AtMostOne
  <2> HIDE DEF S, G, P
  <2>9. Cardinality(S) + Cardinality(G) + Cardinality(P) = IF astHeap[a] = None THEN 0 ELSE 1
    BY <2>4, <2>5, <2>6, <2>7, <2>8
  <2> QED
    BY <2>9 DEF S, G, P
<1>2. ASSUME NEW b \in Bcs
      PROVE  Cardinality({i \in Filled : g_cache[i].bc = b})
               + Cardinality({g \in g_graveyard : g.bc = b})
               + Cardinality({t \in Threads : th[t].pc \in {"run_fresh", "store"}
                                             /\ th[t].bc = b})
             = IF bcHeap[b] = None THEN 0 ELSE 1
  <2> DEFINE S == {i \in Filled : g_cache[i].bc = b}
             G == {g \in g_graveyard : g.bc = b}
             C == {t \in Threads : th[t].pc \in {"run_fresh", "store"} /\ th[t].bc = b}
  <2>1. /\ \A i \in Slots : g_cache[i].bc = b => i \in S
        /\ \A i, j \in S : i = j
        /\ \A g, k \in G : g = k
        /\ \A t, u \in C : t = u
    BY <1>0 DEF OInv, BcsOwned, SlotBcsOK, GraveBcsOK, CarriersOK, Filled, Fresh
  <2>2. /\ InSlot(b) <=> S # {}
        /\ InGrave(b) <=> G # {}
        /\ Carried(b) <=> C # {}
    BY <2>1 DEF InSlot, InGrave, Carried, Fresh, Filled
  <2>3. /\ Cardinality(S) = IF S = {} THEN 0 ELSE 1
        /\ Cardinality(G) = IF G = {} THEN 0 ELSE 1
        /\ Cardinality(C) = IF C = {} THEN 0 ELSE 1
    BY <2>1, AtMostOne
  <2> HIDE DEF S, G, C
  <2>4. Cardinality(S) + Cardinality(G) + Cardinality(C) = IF bcHeap[b] = None THEN 0 ELSE 1
    BY <2>2, <2>3 DEF OInv, BcsOwned, OwnersLive, OwnersApart
  <2> QED
    BY <2>4 DEF S, G, C
<1> QED
  BY <1>1, <1>2 DEF OwnedOnce

-----------------------------------------------------------------------------
(* A thread whose step neither starts nor ends a private parse or fresh    *)
(* bytecode, and the entries as far as owning is concerned.                *)
ThreadKeeps(u) ==
  /\ th'[u].pc = "insert" <=> th[u].pc = "insert"
  /\ th[u].pc = "insert" => th'[u].ast = th[u].ast
  /\ Fresh(u)' <=> Fresh(u)
  /\ Fresh(u) => th'[u].bc = th[u].bc
SlotKeeps(i) == /\ g_cache'[i].expr = g_cache[i].expr
                /\ g_cache'[i].ast = g_cache[i].ast
                /\ g_cache'[i].bc = g_cache[i].bc

LEMMA ThreadsKeep ==
  ASSUME \A u \in Threads : ThreadKeeps(u)
  PROVE  /\ \A a \in Asts : Private(a)' = Private(a)
         /\ \A b \in Bcs : Carried(b)' <=> Carried(b)
         /\ CarriersOK => CarriersOK'
BY DEF ThreadKeeps, Private, Carried, CarriersOK, Fresh

LEMMA SlotsKeep ==
  ASSUME \A i \in Slots : SlotKeeps(i)
  PROVE  /\ \A b \in Bcs : InSlot(b)' <=> InSlot(b)
         /\ SlotBcsOK => SlotBcsOK'
BY DEF SlotKeeps, InSlot, SlotBcsOK, Slots

LEMMA GravesKeep ==
  ASSUME g_graveyard' = g_graveyard
  PROVE  /\ \A b \in Bcs : InGrave(b)' <=> InGrave(b)
         /\ GraveBcsOK => GraveBcsOK'
BY DEF InGrave, GraveBcsOK

LEMMA CachedKeeps ==
  ASSUME \A i \in Slots : SlotKeeps(i), g_graveyard' = g_graveyard
  PROVE  \A a \in Asts : Cached(a)' <=> Cached(a)
BY DEF SlotKeeps, Cached, Slots

(* Steps that move no owner.                                               *)
LEMMA StillOwned ==
  ASSUME OInv, \A u \in Threads : ThreadKeeps(u), \A i \in Slots : SlotKeeps(i),
         g_graveyard' = g_graveyard, astHeap' = astHeap, bcHeap' = bcHeap
  PROVE  OInv'
<1>1. AstsOwned'
  BY ThreadsKeep, CachedKeeps DEF OInv, AstsOwned
<1>2. BcsOwned'
  BY ThreadsKeep, SlotsKeep, GravesKeep DEF OInv, BcsOwned, OwnersLive, OwnersApart
<1> QED
  BY <1>1, <1>2 DEF OInv

(* A parse is the caller's own.                                            *)
LEMMA ParseOwned ==
  ASSUME IInv, OInv, NEW t \in Threads, NEW op, NEW e \in Exprs, NEW h,
         th[t].pc = "idle", Parse(t, op, e, h), UNCHANGED <<g_cache, g_graveyard, bcHeap>>
  PROVE  OInv'
<1>1. PICK a \in Asts :
        /\ astHeap' = [astHeap EXCEPT ![a] = e]
        /\ th' = [th EXCEPT ![t] = [pc |-> "insert", op |-> op, expr |-> e,
                                   ast |-> a, bc |-> None, h |-> h]]
  BY DEF Parse, Alloc
<1>2. th \in [Threads -> FrameType] /\ astHeap \in [Asts -> Exprs \cup {None}]
  BY DEF IInv, IType, TypeOK
<1>3. /\ \A u \in Threads \ {t} : th'[u] = th[u]
      /\ th'[t].pc = "insert" /\ th'[t].ast = a
  BY <1>1, <1>2
<1>4. AstsOwned'
  <2>1. t \in Private(a)' /\ \A c \in Asts : Private(c) \subseteq Private(c)'
    BY <1>3 DEF Private
  <2>2. \A c \in Asts : Cached(c)' <=> Cached(c)
    BY CachedKeeps DEF SlotKeeps
  <2>3. \A c \in Asts : c # a => astHeap'[c] = astHeap[c]
    BY <1>1, <1>2
  <2> QED
    BY <2>1, <2>2, <2>3 DEF OInv, AstsOwned
<1>5. BcsOwned'
  <2>1. \A b \in Bcs : Carried(b)' <=> Carried(b)
    BY <1>3 DEF Carried, Fresh
  <2>2. CarriersOK'
    BY <1>3 DEF OInv, BcsOwned, CarriersOK, Fresh
  <2>3. \A i \in Slots : SlotKeeps(i)
    BY DEF SlotKeeps
  <2> QED
    BY <2>1, <2>2, <2>3, SlotsKeep, GravesKeep DEF OInv, BcsOwned, OwnersLive, OwnersApart
<1> QED
  BY <1>4, <1>5 DEF OInv

(* What inserting does: the private parse goes to the slot, or is freed    *)
(* for the twin's; what was in the slot is buried or freed.                *)
LEMMA InsertOwned ==
  ASSUME "copy" \notin MayFail, IInv, IInv', OInv, NEW t \in Threads,
         \A u \in Threads \ {t} : th'[u] = th[u], th[t].pc = "insert",
         th'[t].pc \notin {"insert", "run_fresh", "store"},
         NEW r, CacheInsert(th[t].expr, th[t].ast, r)
  PROVE  OInv'
<1>0. PICK a \in Asts, e \in Exprs : a = th[t].ast /\ e = th[t].expr
  BY DEF IInv, IType, FramesOK
<1>1. CacheInsert(e, a, r)
  BY <1>0
<1>2. StoreType /\ None \notin Asts \cup Bcs \cup Exprs
  BY CacheAssumption DEF IInv, IType, TypeOK, StoreType, CacheType, GraveType
<1>3. /\ \A c \in Asts : c # a => Private(c)' = Private(c)
      /\ \A b \in Bcs : Carried(b)' <=> Carried(b)
      /\ CarriersOK'
  <2>1. \A c \in Asts : c # a => Private(c)' = Private(c)
    BY <1>0 DEF Private
  <2>2. \A b \in Bcs : Carried(b)' <=> Carried(b)
    BY DEF Carried, Fresh
  <2>3. CarriersOK'
    BY DEF OInv, BcsOwned, CarriersOK, Fresh
  <2> QED
    BY <2>1, <2>2, <2>3
<1>4. CASE \E i \in Hits(e) : r = g_cache[i].ast /\ InsertTwin(i, a)
  <2>1. PICK i \in Slots : InsertTwin(i, a)
    BY <1>4, ProbeRange
  <2>2. (\A j \in Slots : SlotKeeps(j)) /\ g_graveyard' = g_graveyard
    BY <1>2, <2>1 DEF InsertTwin, SlotKeeps, StoreType, CacheType
  <2>3. astHeap'[a] = None /\ \A c \in Asts : c # a => astHeap'[c] = astHeap[c]
    BY <1>2, <2>1 DEF InsertTwin, Freed, StoreType
  <2>4. AstsOwned'
    BY <1>3, <2>2, <2>3, CachedKeeps DEF OInv, AstsOwned
  <2>5. BcsOwned'
    BY <1>3, <2>1, <2>2, SlotsKeep, GravesKeep
       DEF InsertTwin, OInv, BcsOwned, OwnersLive, OwnersApart
  <2> QED
    BY <2>4, <2>5 DEF OInv
<1>5. CASE \E i \in Target(e) : Evict(g_cache[i]) /\ Fill(i, e, a, r)
  <2>1. PICK i \in Slots : Evict(g_cache[i]) /\ Fill(i, e, a, r)
    BY <1>5, ProbeRange
  <2>2. PICK old : old = g_cache[i]
    OBVIOUS
  <2>3. /\ \A j \in Slots : j # i => g_cache'[j] = g_cache[j]
        /\ g_cache'[i] = [expr |-> e, ast |-> a, bc |-> None, pins |-> 1]
    BY <1>2, <2>1 DEF Fill, StoreType
  <2>4. Cached(a)'
    BY <2>3 DEF Cached, Slots
  <2>5. \A b \in Bcs : InSlot(b)' <=> InSlot(b) /\ b # old.bc
    BY <1>2, <2>2, <2>3 DEF InSlot, OInv, BcsOwned, SlotBcsOK, Slots
  <2>6. SlotBcsOK'
    BY <1>2, <2>3 DEF OInv, BcsOwned, SlotBcsOK, Slots
  <2>7. old \in CacheType /\ (old.expr = None => old.ast = None /\ old.bc = None)
    BY <1>2, <2>2 DEF StoreType, IInv, EntriesOK, SlotsOK, OInv, BcsOwned, SlotBcsOK
  <2>8. old.bc \in Bcs => InSlot(old.bc)
    BY <2>2 DEF InSlot
  <2>9. CASE old.expr = None /\ UNCHANGED <<g_graveyard, astHeap, bcHeap>>
    <3>1. \A c \in Asts : Cached(c) => Cached(c)'
      BY <1>2, <2>2, <2>3, <2>7, <2>9 DEF Cached, Slots
    <3>2. AstsOwned'
      BY <1>3, <2>4, <2>9, <3>1 DEF OInv, AstsOwned
    <3>3. BcsOwned'
      BY <1>2, <1>3, <2>5, <2>6, <2>7, <2>9, GravesKeep
         DEF OInv, BcsOwned, OwnersLive, OwnersApart
    <3> QED
      BY <3>2, <3>3 DEF OInv
  <2>10. CASE Bury(old) /\ UNCHANGED heaps
    <3> DEFINE g == [ast |-> old.ast, bc |-> old.bc, pins |-> old.pins]
    <3>1. g_graveyard' = g_graveyard \cup {g} /\ g.bc = old.bc /\ g.ast = old.ast
      BY <2>10 DEF Bury
    <3> HIDE DEF g
    <3>2. \A c \in Asts : Cached(c) => Cached(c)'
      BY <2>2, <2>3, <3>1 DEF Cached, Slots
    <3>3. AstsOwned'
      BY <1>3, <2>4, <2>10, <3>2 DEF OInv, AstsOwned, heaps
    <3>4. \A b \in Bcs : InGrave(b)' <=> InGrave(b) \/ b = old.bc
      BY <3>1 DEF InGrave
    <3>5. GraveBcsOK'
      <4>1. \A k \in g_graveyard : k.bc = old.bc => k.bc = None
        <5>1. old.bc \in Bcs => ~InGrave(old.bc)
          BY <2>8 DEF OInv, BcsOwned, OwnersApart
        <5>2. old.bc \in Bcs \cup {None}
          BY <2>7 DEF CacheType
        <5> QED
          BY <5>1, <5>2 DEF InGrave
      <4> QED
        BY <3>1, <4>1 DEF OInv, BcsOwned, GraveBcsOK
    <3>6. BcsOwned'
      BY <1>3, <2>5, <2>6, <2>8, <2>10, <3>4, <3>5
         DEF OInv, BcsOwned, OwnersLive, OwnersApart, heaps
    <3> QED
      BY <3>3, <3>6 DEF OInv
  <2>11. CASE /\ astHeap' = Freed(astHeap, {old.ast})
              /\ bcHeap' = Freed(bcHeap, {old.bc})
              /\ UNCHANGED g_graveyard
    <3>1. \A c \in Asts : Cached(c) => Cached(c)' \/ c = old.ast
      BY <2>2, <2>3, <2>11 DEF Cached, Slots
    <3>2. \A c \in Asts : astHeap'[c] = IF c = old.ast THEN None ELSE astHeap[c]
      BY <1>2, <2>11 DEF Freed, StoreType
    <3>3. AstsOwned'
      BY <1>3, <2>4, <3>1, <3>2 DEF OInv, AstsOwned
    <3>4. \A b \in Bcs : bcHeap'[b] = IF b = old.bc THEN None ELSE bcHeap[b]
      BY <1>2, <2>11 DEF Freed, StoreType
    <3>5. BcsOwned'
      BY <1>3, <2>5, <2>6, <2>8, <2>11, <3>4, GravesKeep
         DEF OInv, BcsOwned, OwnersLive, OwnersApart
    <3> QED
      BY <3>3, <3>5 DEF OInv
  <2>12. CASE ~Buries /\ UNCHANGED <<g_graveyard, astHeap, bcHeap>>
    <3>1. AstsOwned'
      BY <2>12 DEF AstsOwned
    <3>2. BcsOwned'
      BY <1>3, <2>5, <2>6, <2>12, GravesKeep DEF OInv, BcsOwned, OwnersLive, OwnersApart
    <3> QED
      BY <3>1, <3>2 DEF OInv
  <2> QED
    BY <2>1, <2>2, <2>9, <2>10, <2>11, <2>12 DEF Evict, Buries
<1> QED
  BY <1>1, <1>4, <1>5 DEF CacheInsert

(* Releasing: the last borrower of a buried entry frees both of its parts. *)
LEMMA ReleaseOwned ==
  ASSUME IInv, OInv, \A u \in Threads : ThreadKeeps(u), NEW a, CacheRelease(a)
  PROVE  OInv'
<1>0. StoreType /\ None \notin Asts \cup Bcs \cup Exprs
  BY CacheAssumption DEF IInv, IType, TypeOK, StoreType, CacheType, GraveType
<1>1. CASE UNCHANGED <<g_cache, g_graveyard, astHeap, bcHeap>>
  BY <1>1, StillOwned DEF SlotKeeps
<1>2. CASE \E i \in SlotsOf(a) : ReleaseInSlot(i)
  <2>1. PICK i \in Slots : ReleaseInSlot(i)
    BY <1>2 DEF SlotsOf
  <2>2. \A j \in Slots : SlotKeeps(j)
    BY <1>0, <2>1 DEF ReleaseInSlot, SlotKeeps, StoreType, CacheType
  <2> QED
    BY <2>1, <2>2, StillOwned DEF ReleaseInSlot
<1>3. CASE \E g \in GravesOf(a) : ReleaseInGrave(g)
  <2>1. PICK g \in g_graveyard : ReleaseInGrave(g)
    BY <1>3 DEF GravesOf
  <2>2. g \in GraveType /\ g_cache' = g_cache /\ \A i \in Slots : SlotKeeps(i)
    BY <1>0, <2>1 DEF ReleaseInGrave, StoreType, SlotKeeps
  <2>3. g.bc \in Bcs => InGrave(g.bc)
    BY DEF InGrave
  <2>4. CASE g.pins <= 1
    <3>1. g_graveyard' = g_graveyard \ {g}
      BY <2>1, <2>4 DEF ReleaseInGrave
    <3>2. /\ \A c \in Asts : astHeap'[c] = IF c = g.ast THEN None ELSE astHeap[c]
          /\ \A b \in Bcs : bcHeap'[b] = IF b = g.bc THEN None ELSE bcHeap[b]
      BY <1>0, <2>1, <2>4 DEF ReleaseInGrave, Freed, StoreType
    <3>3. \A c \in Asts : Cached(c) => Cached(c)' \/ c = g.ast
      BY <2>2, <3>1 DEF Cached, Slots
    <3>4. AstsOwned'
      BY <3>2, <3>3, ThreadsKeep DEF OInv, AstsOwned
    <3>5. /\ \A b \in Bcs : InGrave(b)' <=> InGrave(b) /\ b # g.bc
          /\ GraveBcsOK'
      BY <1>0, <3>1 DEF InGrave, OInv, BcsOwned, GraveBcsOK
    <3>6. BcsOwned'
      BY <2>2, <2>3, <3>2, <3>5, ThreadsKeep, SlotsKeep
         DEF OInv, BcsOwned, OwnersLive, OwnersApart
    <3> QED
      BY <3>4, <3>6 DEF OInv
  <2>5. CASE ~(g.pins <= 1)
    <3> DEFINE k == [g EXCEPT !.pins = @ - 1]
    <3>1. g_graveyard' = (g_graveyard \ {g}) \cup {k} /\ UNCHANGED heaps
      BY <2>1, <2>5 DEF ReleaseInGrave
    <3>2. k.ast = g.ast /\ k.bc = g.bc
      BY <2>2 DEF GraveType
    <3> HIDE DEF k
    <3>3. \A c \in Asts : Cached(c)' <=> Cached(c)
      BY <2>2, <3>1, <3>2 DEF Cached, Slots
    <3>4. AstsOwned'
      BY <3>1, <3>3, ThreadsKeep DEF OInv, AstsOwned, heaps
    <3>5. /\ \A b \in Bcs : InGrave(b)' <=> InGrave(b)
          /\ GraveBcsOK'
      BY <3>1, <3>2 DEF InGrave, OInv, BcsOwned, GraveBcsOK
    <3>6. BcsOwned'
      BY <2>2, <3>1, <3>5, ThreadsKeep, SlotsKeep
         DEF OInv, BcsOwned, OwnersLive, OwnersApart, heaps
    <3> QED
      BY <3>4, <3>6 DEF OInv
  <2> QED
    BY <2>4, <2>5
<1> QED
  BY <1>1, <1>2, <1>3 DEF CacheRelease

(* Compiling: the new bytecode is carried by the thread that compiled it.  *)
LEMMA CompileOwned ==
  ASSUME IInv, OInv, NEW t \in Threads, \A u \in Threads \ {t} : th'[u] = th[u],
         th[t].pc = "compile_bc", th'[t].pc \in {"run_fresh", "store"},
         NEW b \in Bcs, th'[t].bc = b, NEW e \in Exprs, Alloc(bcHeap, b, e),
         UNCHANGED <<g_cache, g_graveyard, astHeap>>
  PROVE  OInv'
<1>0. bcHeap \in [Bcs -> Exprs \cup {None}] /\ None \notin Bcs \cup Exprs
  BY CacheAssumption DEF IInv, IType, TypeOK
<1>1. bcHeap[b] = None /\ \A c \in Bcs : bcHeap'[c] = IF c = b THEN e ELSE bcHeap[c]
  BY <1>0 DEF Alloc
<1>2. \A i \in Slots : SlotKeeps(i)
  BY DEF SlotKeeps
<1>3. \A a \in Asts : Private(a)' = Private(a)
  BY DEF Private
<1>4. AstsOwned'
  BY <1>2, <1>3, CachedKeeps DEF OInv, AstsOwned
<1>5. \A c \in Bcs : Carried(c)' <=> Carried(c) \/ c = b
  BY DEF Carried, Fresh
<1>6. ~InSlot(b) /\ ~InGrave(b) /\ ~Carried(b)
  BY <1>1 DEF OInv, BcsOwned, OwnersLive
<1>7. CarriersOK'
  <2>1. \A u \in Threads : Fresh(u) => th[u].bc # b /\ u # t
    BY <1>6 DEF Carried, Fresh
  <2> QED
    BY <2>1 DEF OInv, BcsOwned, CarriersOK, Fresh
<1>8. OwnersLive'
  BY <1>0, <1>1, <1>2, <1>5, SlotsKeep, GravesKeep DEF OInv, BcsOwned, OwnersLive
<1>9. OwnersApart'
  BY <1>2, <1>5, <1>6, SlotsKeep, GravesKeep DEF OInv, BcsOwned, OwnersApart
<1> QED
  BY <1>2, <1>4, <1>7, <1>8, <1>9, SlotsKeep, GravesKeep DEF OInv, BcsOwned

(* Storing: the slot takes over what the thread carried, or it is freed.   *)
LEMMA StoreOwned ==
  ASSUME IInv, OInv, NEW t \in Threads, \A u \in Threads \ {t} : th'[u] = th[u],
         th[t].pc \in {"run_fresh", "store"}, th'[t].pc \notin {"insert", "run_fresh", "store"},
         CacheStoreBc(th[t].expr, th[t].bc)
  PROVE  OInv'
<1>0. StoreType /\ None \notin Asts \cup Bcs \cup Exprs
  BY CacheAssumption DEF IInv, IType, TypeOK, StoreType, CacheType, GraveType
<1>1. PICK b \in Bcs, e \in Exprs : b = th[t].bc /\ e = th[t].expr
  BY DEF OInv, BcsOwned, CarriersOK, Fresh, IInv, IType, FramesOK
<1>2. CacheStoreBc(e, b)
  BY <1>1
<1>3. Carried(b) /\ \A c \in Bcs : Carried(c)' <=> Carried(c) /\ c # b
  BY <1>1 DEF Carried, Fresh, OInv, BcsOwned, CarriersOK
<1>4. CarriersOK' /\ \A a \in Asts : Private(a)' = Private(a)
  BY DEF CarriersOK, Fresh, OInv, BcsOwned, Private
<1>5. g_graveyard' = g_graveyard /\ astHeap' = astHeap
  BY <1>2 DEF CacheStoreBc
<1>6. CASE bcHeap' = Freed(bcHeap, {b}) /\ UNCHANGED g_cache
  <2>1. \A c \in Bcs : bcHeap'[c] = IF c = b THEN None ELSE bcHeap[c]
    BY <1>0, <1>6 DEF Freed, StoreType
  <2>2. \A i \in Slots : SlotKeeps(i)
    BY <1>6 DEF SlotKeeps
  <2>3. AstsOwned'
    BY <1>4, <1>5, <2>2, CachedKeeps DEF OInv, AstsOwned
  <2>4. BcsOwned'
    BY <1>3, <1>4, <1>5, <2>1, <2>2, SlotsKeep, GravesKeep
       DEF OInv, BcsOwned, OwnersLive, OwnersApart
  <2> QED
    BY <2>3, <2>4 DEF OInv
<1>7. CASE \E i \in Hits(e) : /\ g_cache[i].bc = None
                              /\ g_cache' = [g_cache EXCEPT ![i].bc = b]
                              /\ UNCHANGED bcHeap
  <2>1. PICK i \in Slots : /\ g_cache[i].expr = e /\ g_cache[i].bc = None
                           /\ g_cache' = [g_cache EXCEPT ![i].bc = b]
                           /\ UNCHANGED bcHeap
    BY <1>7, ProbeRange
  <2>2. /\ \A j \in Slots : /\ g_cache'[j].expr = g_cache[j].expr
                            /\ g_cache'[j].ast = g_cache[j].ast
                            /\ j # i => g_cache'[j].bc = g_cache[j].bc
        /\ g_cache'[i].bc = b
    BY <1>0, <2>1 DEF StoreType, CacheType
  <2>3. AstsOwned'
    <3>1. \A a \in Asts : Cached(a)' <=> Cached(a)
      BY <1>5, <2>2 DEF Cached, Slots
    <3> QED
      BY <1>4, <1>5, <3>1 DEF OInv, AstsOwned
  <2>4. \A c \in Bcs : InSlot(c)' <=> InSlot(c) \/ c = b
    BY <1>0, <2>1, <2>2 DEF InSlot, Slots
  <2>5. SlotBcsOK'
    <3>1. ~InSlot(b)
      BY <1>3 DEF OInv, BcsOwned, OwnersApart
    <3> QED
      BY <1>0, <2>1, <2>2, <3>1 DEF OInv, BcsOwned, SlotBcsOK, InSlot, Slots
  <2>6. BcsOwned'
    BY <1>3, <1>4, <1>5, <2>1, <2>4, <2>5, GravesKeep
       DEF OInv, BcsOwned, OwnersLive, OwnersApart
  <2> QED
    BY <2>3, <2>6 DEF OInv
<1> QED
  BY <1>2, <1>6, <1>7 DEF CacheStoreBc

-----------------------------------------------------------------------------
LEMMA OwnedInit == Init => OInv
<1> SUFFICES ASSUME Init PROVE OInv
  OBVIOUS
<1>1. AstsOwned
  BY DEF Init, AstsOwned
<1>2. \A t \in Threads : ~Fresh(t)
  BY DEF Init, Fresh, Idle
<1>3. \A i \in Slots : g_cache[i].bc = None
  BY DEF Init, EmptySlot
<1>4. \A b \in Bcs : bcHeap[b] = None /\ ~InSlot(b) /\ ~InGrave(b) /\ ~Carried(b)
  BY <1>2, <1>3, CacheAssumption DEF Init, InSlot, InGrave, Carried
<1>5. SlotBcsOK /\ GraveBcsOK /\ CarriersOK
  BY <1>2, <1>3 DEF Init, SlotBcsOK, GraveBcsOK, CarriersOK
<1> QED
  BY <1>1, <1>4, <1>5 DEF OInv, BcsOwned, OwnersLive, OwnersApart

(* Steps of thread t that touch no heap and no entry but its pins.         *)
LEMMA PinsOnly ==
  ASSUME IInv, OInv, NEW t \in Threads, \A u \in Threads \ {t} : th'[u] = th[u],
         th[t].pc \notin {"insert", "run_fresh", "store"},
         th'[t].pc \notin {"insert", "run_fresh", "store"}, UNCHANGED heaps,
         UNCHANGED cacheVars \/ \E i \in Slots : CacheGet(i)
  PROVE  OInv'
<1>1. \A u \in Threads : ThreadKeeps(u)
  <2>1. ThreadKeeps(t)
    BY DEF ThreadKeeps, Fresh
  <2>2. ASSUME NEW u \in Threads \ {t} PROVE ThreadKeeps(u)
    BY DEF ThreadKeeps, Fresh
  <2> QED
    BY <2>1, <2>2
<1>2. g_cache \in [Slots -> CacheType]
  BY DEF IInv, IType, TypeOK, CacheType
<1>3. (\A i \in Slots : SlotKeeps(i)) /\ g_graveyard' = g_graveyard
  BY <1>2 DEF SlotKeeps, CacheGet, CacheType, cacheVars
<1> QED
  BY <1>1, <1>3, StillOwned DEF heaps

LEMMA OwnedNext ==
  ASSUME "copy" \notin MayFail, IInv, IInv', OInv, [Next]_vars
  PROVE  OInv'
<1>0. /\ IType /\ th \in [Threads -> FrameType]
      /\ UNCHANGED <<g_cache, g_graveyard>> => UNCHANGED cacheVars
      /\ UNCHANGED <<astHeap, bcHeap>> => UNCHANGED heaps
  BY DEF IInv, IType, TypeOK, cacheVars, heaps
<1>1. ASSUME NEW t \in Threads, NEW e \in Exprs, EvalHit(t, e) PROVE OInv'
  <2>1. /\ \A u \in Threads \ {t} : th'[u] = th[u]
        /\ th[t].pc = "idle" /\ th'[t].pc \in {"compile_bc", "run"}
    BY <1>0, <1>1 DEF EvalHit, Start
  <2>2. (\E i \in Slots : CacheGet(i)) /\ UNCHANGED heaps
    BY <1>0, <1>1, ProbeRange DEF EvalHit
  <2> QED
    BY <2>1, <2>2, PinsOnly
<1>2. ASSUME NEW t \in Threads, NEW op, NEW e \in Exprs, NEW h, th[t].pc = "idle",
             Parse(t, op, e, h), UNCHANGED <<g_cache, g_graveyard, bcHeap>>
      PROVE  OInv'
  BY <1>2, ParseOwned
<1>3. ASSUME NEW t \in Threads, EvalInsert(t) \/ CompileInsert(t) PROVE OInv'
  <2>1. PICK r : /\ CacheInsert(th[t].expr, th[t].ast, r)
                 /\ \/ th' = [th EXCEPT ![t].ast = r,
                             ![t].pc = IF r = None THEN "interp" ELSE "compile_bc"]
                    \/ th' = [th EXCEPT ![t] = Idle]
    BY <1>3 DEF EvalInsert, CompileInsert, Return
  <2>2. /\ \A u \in Threads \ {t} : th'[u] = th[u]
        /\ th'[t].pc \in {"interp", "compile_bc", "idle"}
    BY <1>0, <2>1 DEF FrameType, Idle
  <2>3. th[t].pc = "insert"
    BY <1>3 DEF EvalInsert, CompileInsert
  <2> QED
    BY <2>1, <2>2, <2>3, InsertOwned
<1>4. ASSUME NEW t \in Threads, CompileBc(t) PROVE OInv'
  <2>0. th[t].pc = "compile_bc" /\ UNCHANGED <<g_cache, g_graveyard, astHeap>>
    BY <1>4 DEF CompileBc
  <2>1. ASSUME NEW b \in Bcs, NEW pc \in {"store", "run_fresh"}, Alloc(bcHeap, b, th[t].expr),
               th' = [th EXCEPT ![t].bc = b, ![t].pc = pc]
        PROVE  OInv'
    <3>1. /\ \A u \in Threads \ {t} : th'[u] = th[u]
          /\ th'[t].pc = pc /\ th'[t].bc = b
      BY <1>0, <2>1 DEF FrameType
    <3>2. th[t].expr \in Exprs
      BY <1>0, <2>0 DEF IType, FramesOK
    <3> QED
      BY <2>0, <2>1, <3>1, <3>2, CompileOwned
  <2>2. ASSUME NEW pc \in {"run", "interp"}, th' = [th EXCEPT ![t].pc = pc], UNCHANGED bcHeap
        PROVE  OInv'
    <3>1. /\ \A u \in Threads \ {t} : th'[u] = th[u]
          /\ th'[t].pc = pc
      BY <1>0, <2>2 DEF FrameType
    <3> QED
      BY <1>0, <2>0, <2>2, <3>1, PinsOnly
  <2>3. \/ \E b \in Bcs, pc \in {"store", "run_fresh"} :
              Alloc(bcHeap, b, th[t].expr) /\ th' = [th EXCEPT ![t].bc = b, ![t].pc = pc]
        \/ \E pc \in {"run", "interp"} : th' = [th EXCEPT ![t].pc = pc] /\ UNCHANGED bcHeap
    BY <1>4 DEF CompileBc, Goto
  <2> QED
    BY <2>1, <2>2, <2>3
<1>5. ASSUME NEW t \in Threads, RunFreshAndStore(t) \/ CtxStore(t) PROVE OInv'
  <2>1. /\ \A u \in Threads \ {t} : th'[u] = th[u]
        /\ th[t].pc \in {"run_fresh", "store"} /\ th'[t].pc \in {"interp", "reread"}
        /\ CacheStoreBc(th[t].expr, th[t].bc)
    BY <1>0, <1>5 DEF RunFreshAndStore, CtxStore, Goto, FrameType
  <2> QED
    BY <2>1, StoreOwned
<1>6. ASSUME NEW t \in Threads, RunCached(t) \/ CtxReread(t) \/ CompiledReturn(t) PROVE OInv'
  <2>1. /\ \A u \in Threads \ {t} : th'[u] = th[u]
        /\ th[t].pc \in {"run", "reread", "interp"} /\ th'[t].pc \in {"run", "interp", "idle"}
    BY <1>0, <1>6 DEF RunCached, CtxReread, CompiledReturn, Return, FrameType, Idle
  <2>2. UNCHANGED heaps /\ UNCHANGED cacheVars
    BY <1>6 DEF RunCached, CtxReread, CompiledReturn, heaps, cacheVars
  <2> QED
    BY <2>1, <2>2, PinsOnly
<1>7. ASSUME NEW t \in Threads, EvalRelease(t) \/ CtxRunAndRelease(t) PROVE OInv'
  <2>1. /\ \A u \in Threads \ {t} : th'[u] = th[u]
        /\ th[t].pc \in {"run", "interp"} /\ th'[t].pc \in {"interp", "idle"}
        /\ CacheRelease(th[t].ast)
    BY <1>0, <1>7 DEF EvalRelease, CtxRunAndRelease, Return, FrameType, Idle
  <2>2. \A u \in Threads : ThreadKeeps(u)
    BY <2>1 DEF ThreadKeeps, Fresh
  <2> QED
    BY <2>1, <2>2, ReleaseOwned
<1>8. ASSUME NEW t \in Threads, NEW h \in Handles, EvalIn(t, h) PROVE OInv'
  <2>1. /\ \A u \in Threads \ {t} : th'[u] = th[u]
        /\ th[t].pc = "idle" /\ th'[t].pc \in {"compile_bc", "run"}
    BY <1>0, <1>8 DEF EvalIn, Start
  <2>2. UNCHANGED heaps /\ UNCHANGED cacheVars
    BY <1>8 DEF EvalIn, heaps, cacheVars
  <2> QED
    BY <2>1, <2>2, PinsOnly
<1>9. ASSUME NEW t \in Threads, NEW h \in Handles, CtxGet(t, h) PROVE OInv'
  <2>1. /\ \A u \in Threads \ {t} : th'[u] = th[u]
        /\ th[t].pc = "idle" /\ th'[t].pc \in {"compile_bc", "run", "interp"}
    BY <1>0, <1>9 DEF CtxGet, Start
  <2>2. compiled[h].expr \in Exprs
    BY <1>0, <1>9 DEF CtxGet, IType, FramesOK
  <2>3. UNCHANGED heaps /\ (UNCHANGED cacheVars \/ \E i \in Slots : CacheGet(i))
    BY <1>0, <1>9, <2>2, ProbeRange DEF CtxGet
  <2> QED
    BY <2>1, <2>3, PinsOnly
<1>10. ASSUME NEW h \in Handles, CompiledFree(h) PROVE OInv'
  BY <1>10, ReleaseOwned DEF CompiledFree, ThreadKeeps, Fresh
<1>11. CASE UNCHANGED vars
  BY <1>11, StillOwned DEF vars, ThreadKeeps, SlotKeeps, Fresh
<1>12. CASE Next
  <2>1. ASSUME NEW t \in Threads, Call(t) PROVE OInv'
    BY <1>1, <1>2, <1>8, <1>9, <2>1 DEF Call, EvalMiss, CompileParse, Start
  <2>2. ASSUME NEW t \in Threads, Step(t) PROVE OInv'
    BY <1>3, <1>4, <1>5, <1>6, <1>7, <2>2 DEF Step
  <2> QED
    BY <1>10, <1>12, <2>1, <2>2 DEF Next
<1> QED
  BY <1>11, <1>12

(* Every live AST and every live bytecode belongs to exactly one slot,     *)
(* graveyard node or call, whatever the threads evaluate and evict; the    *)
(* hypothesis is that no allocation of the cache itself fails.             *)
THEOREM OneOwner == MayFail = {} => (Spec => []OwnedOnce)
<1> SUFFICES ASSUME MayFail = {} PROVE Spec => []OwnedOnce
  OBVIOUS
<1>1. Init => IInv /\ OInv
  BY SafetyInit, OwnedInit
<1>2. IInv /\ OInv /\ [Next]_vars => IInv' /\ OInv'
  BY SafetyNext, OwnedNext
<1>3. IInv /\ OInv => OwnedOnce
  BY OwnedInOneSlot DEF Buries
<1> QED
  BY <1>1, <1>2, <1>3, PTL DEF Spec

-----------------------------------------------------------------------------
(* What bytecode there is belongs to the expression of its owner, and a    *)
(* thread that runs cached bytecode borrows the entry that owns it - or    *)
(* owned it, when the entry could not be buried.                           *)
Running(t) == th[t].pc = "run" /\ th[t].bc # None
Run(b) == \E t \in Threads : Running(t) /\ th[t].bc = b

BcsTrue ==
  /\ \A i \in Slots : g_cache[i].bc # None => bcHeap[g_cache[i].bc] = g_cache[i].expr
  /\ \A g \in g_graveyard : g.bc # None => bcHeap[g.bc] = astHeap[g.ast]
  /\ \A t \in Threads : Fresh(t) => bcHeap[th[t].bc] = th[t].expr
RunsPinned ==
  \A t \in Threads : Running(t) =>
    /\ bcHeap[th[t].bc] = th[t].expr
    /\ ~Carried(th[t].bc)
    /\ \A i \in Slots : g_cache[i].bc = th[t].bc => g_cache[i].ast = th[t].ast
    /\ \A g \in g_graveyard : g.bc = th[t].bc => g.ast = th[t].ast
BInv == BcsTrue /\ RunsPinned

(* What a step may do: bytecode moves from a slot to the graveyard, comes  *)
(* into a slot or to a thread while nobody runs it, and is freed or        *)
(* replaced while nobody runs it; a thread may begin to run what a slot    *)
(* holds.                                                                  *)
SlotsMove == \A i \in Slots : g_cache'[i].bc # None =>
  \/ SlotKeeps(i)
  \/ bcHeap'[g_cache'[i].bc] = g_cache'[i].expr /\ ~Run(g_cache'[i].bc)
GravesMove == \A k \in g_graveyard' : k.bc # None =>
  \/ \E g \in g_graveyard : g.bc = k.bc /\ g.ast = k.ast
  \/ \E i \in Slots : g_cache[i].bc = k.bc /\ g_cache[i].ast = k.ast
BcsMove == \A b \in Bcs : \/ bcHeap'[b] = bcHeap[b]
                          \/ bcHeap'[b] = None /\ ~Run(b)'
                          \/ bcHeap[b] = None
AstsMove == \A a \in Asts : astHeap[a] # None => astHeap'[a] \in {astHeap[a], None}
CarriersMove == \A t \in Threads : Fresh(t)' =>
  \/ th'[t] = th[t]
  \/ bcHeap'[th'[t].bc] = th'[t].expr /\ ~Run(th'[t].bc)
RunsMove == \A t \in Threads : Running(t)' =>
  \/ th'[t] = th[t]
  \/ \E i \in Slots : /\ g_cache'[i].bc = th'[t].bc /\ g_cache'[i].ast = th'[t].ast
                      /\ g_cache'[i].expr = th'[t].expr

LEMMA BcStep ==
  ASSUME IInv, IInv', OInv, OInv', BInv,
         SlotsMove, GravesMove, BcsMove, AstsMove, CarriersMove, RunsMove
  PROVE  BInv'
<1>0. /\ StoreType /\ StoreType' /\ None \notin Asts \cup Bcs \cup Exprs
      /\ th \in [Threads -> FrameType] /\ th' \in [Threads -> FrameType]
  BY CacheAssumption DEF IInv, IType, TypeOK, StoreType, CacheType, GraveType
<1>1. ASSUME NEW i \in Slots, NEW b, b = g_cache'[i].bc, b # None
      PROVE  bcHeap'[b] = g_cache'[i].expr
  <2>1. b \in Bcs
    BY <1>0, <1>1 DEF StoreType, CacheType
  <2>2. bcHeap'[b] # None
    <3>1. InSlot(b)'
      BY <1>1 DEF InSlot, Slots
    <3> QED
      BY <2>1, <3>1 DEF OInv, BcsOwned, OwnersLive
  <2>3. CASE SlotKeeps(i)
    <3>1. bcHeap[b] = g_cache[i].expr /\ bcHeap[b] # None
      <4>1. InSlot(b)
        BY <1>1, <2>3 DEF InSlot, SlotKeeps
      <4> QED
        BY <1>1, <2>1, <2>3, <4>1 DEF SlotKeeps, BInv, BcsTrue, OInv, BcsOwned, OwnersLive
    <3> QED
      BY <2>1, <2>2, <2>3, <3>1 DEF SlotKeeps, BcsMove
  <2> QED
    BY <1>1, <2>3 DEF SlotsMove
<1>2. ASSUME NEW k \in g_graveyard', NEW b, b = k.bc, b # None
      PROVE  /\ bcHeap'[b] = astHeap'[k.ast]
             /\ \/ \E g \in g_graveyard : g.bc = b /\ g.ast = k.ast
                \/ \E i \in Slots : g_cache[i].bc = b /\ g_cache[i].ast = k.ast
  <2>1. b \in Bcs /\ k.ast \in Asts /\ astHeap'[k.ast] # None
    BY <1>0, <1>2 DEF StoreType, GraveType, IInv, EntriesOK, GravesOK, EntryOK
  <2>2. bcHeap'[b] # None
    <3>1. InGrave(b)'
      BY <1>2 DEF InGrave
    <3> QED
      BY <2>1, <3>1 DEF OInv, BcsOwned, OwnersLive
  <2>3. CASE \E g \in g_graveyard : g.bc = b /\ g.ast = k.ast
    <3>1. bcHeap[b] = astHeap[k.ast] /\ astHeap[k.ast] # None
      BY <1>0, <1>2, <2>3 DEF BInv, BcsTrue, IInv, EntriesOK, GravesOK, EntryOK
    <3> QED
      BY <1>2, <2>1, <2>2, <2>3, <3>1 DEF BcsMove, AstsMove
  <2>4. CASE \E i \in Slots : g_cache[i].bc = b /\ g_cache[i].ast = k.ast
    <3>1. bcHeap[b] = astHeap[k.ast] /\ astHeap[k.ast] # None
      BY <1>0, <1>2, <2>1, <2>4 DEF BInv, BcsTrue, IInv, EntriesOK, SlotsOK, EntryOK
    <3> QED
      BY <1>2, <2>1, <2>2, <2>4, <3>1 DEF BcsMove, AstsMove
  <2> QED
    BY <1>2, <2>3, <2>4 DEF GravesMove
<1>3. ASSUME NEW t \in Threads, Fresh(t)', NEW b, b = th'[t].bc
      PROVE  /\ bcHeap'[b] = th'[t].expr /\ b \in Bcs
             /\ Carried(b) \/ ~Run(b)
  <2>1. b \in Bcs
    BY <1>3 DEF OInv, BcsOwned, CarriersOK
  <2>2. bcHeap'[b] # None
    <3>1. Carried(b)'
      BY <1>3 DEF Carried, Fresh
    <3> QED
      BY <2>1, <3>1 DEF OInv, BcsOwned, OwnersLive
  <2>3. CASE th'[t] = th[t]
    <3>1. Fresh(t) /\ Carried(b) /\ bcHeap[b] = th[t].expr
      BY <1>3, <2>3 DEF Fresh, Carried, BInv, BcsTrue
    <3>2. bcHeap[b] # None
      BY <2>1, <3>1 DEF OInv, BcsOwned, OwnersLive
    <3> QED
      BY <2>1, <2>2, <2>3, <3>1, <3>2 DEF BcsMove
  <2> QED
    BY <1>3, <2>1, <2>3 DEF CarriersMove
<1>4. BcsTrue'
  BY <1>1, <1>2, <1>3 DEF BcsTrue, Fresh, Slots
<1>5. ASSUME NEW t \in Threads, Running(t)', NEW b, b = th'[t].bc
      PROVE  /\ bcHeap'[b] = th'[t].expr
             /\ ~Carried(b)'
             /\ \A i \in Slots : g_cache'[i].bc = b => g_cache'[i].ast = th'[t].ast
             /\ \A g \in g_graveyard' : g.bc = b => g.ast = th'[t].ast
  <2>1. b \in Bcs /\ b # None
    BY <1>0, <1>5 DEF Running, FrameType
  <2>2. CASE th'[t] = th[t]
    <3>1. /\ Running(t) /\ Run(b) /\ bcHeap[b] = th[t].expr /\ ~Carried(b) /\ Run(b)'
          /\ \A i \in Slots : g_cache[i].bc = b => g_cache[i].ast = th[t].ast
          /\ \A g \in g_graveyard : g.bc = b => g.ast = th[t].ast
      BY <1>5, <2>2 DEF Running, Run, BInv, RunsPinned
    <3>2. th[t].expr # None
      BY <1>0, <3>1 DEF Running, IInv, IType, FramesOK
    <3>3. bcHeap'[b] = th'[t].expr
      BY <2>1, <2>2, <3>1, <3>2 DEF BcsMove
    <3>4. ~Carried(b)'
      BY <1>3, <3>1 DEF Carried, Fresh
    <3>5. \A i \in Slots : g_cache'[i].bc = b => g_cache'[i].ast = th'[t].ast
      BY <2>1, <2>2, <3>1 DEF SlotsMove, SlotKeeps
    <3>6. \A g \in g_graveyard' : g.bc = b => g.ast = th'[t].ast
      BY <1>2, <2>1, <2>2, <3>1
    <3> QED
      BY <3>3, <3>4, <3>5, <3>6
  <2>3. CASE \E i \in Slots : /\ g_cache'[i].bc = b /\ g_cache'[i].ast = th'[t].ast
                              /\ g_cache'[i].expr = th'[t].expr
    <3>1. PICK i \in Slots : /\ g_cache'[i].bc = b /\ g_cache'[i].ast = th'[t].ast
                             /\ g_cache'[i].expr = th'[t].expr
      BY <2>3
    <3>2. InSlot(b)'
      BY <3>1 DEF InSlot, Slots
    <3>3. ~Carried(b)' /\ ~InGrave(b)'
      BY <2>1, <3>2 DEF OInv, BcsOwned, OwnersApart
    <3>4. \A j \in Slots : g_cache'[j].bc = b => j = i
      BY <2>1, <3>1 DEF OInv, BcsOwned, SlotBcsOK, Slots
    <3> QED
      BY <1>1, <2>1, <3>1, <3>3, <3>4 DEF InGrave
  <2> QED
    BY <1>5, <2>2, <2>3 DEF RunsMove
<1>6. RunsPinned'
  BY <1>5 DEF RunsPinned, Running, Carried, Fresh, Slots
<1> QED
  BY <1>4, <1>6 DEF BInv

LEMMA BcInit == Init => BInv
<1> SUFFICES ASSUME Init PROVE BInv
  OBVIOUS
<1>1. \A t \in Threads : ~Fresh(t) /\ ~Running(t)
  BY DEF Init, Fresh, Running, Idle
<1>2. (\A i \in Slots : g_cache[i].bc = None) /\ g_graveyard = {}
  BY DEF Init, EmptySlot
<1> QED
  BY <1>1, <1>2 DEF BInv, BcsTrue, RunsPinned

(* A thread that runs bytecode on a call of leptris_xpath_eval borrows the *)
(* AST of its entry: while it does, the entry's pins are not zero.         *)
LEMMA RunnersBorrow ==
  ASSUME IInv, BInv, Ops \subseteq {"eval", "compile"},
         NEW a \in Asts, NEW b \in Bcs, Run(b),
         \/ \E i \in Slots : g_cache[i].bc = b /\ g_cache[i].ast = a
         \/ \E g \in g_graveyard : g.bc = b /\ g.ast = a
  PROVE  \E t \in Threads : th[t].ast = a /\ LeaseOf(t) = a /\ th[t].pc = "run"
<1>1. PICK t \in Threads : Running(t) /\ th[t].bc = b
  BY DEF Run
<1>2. th[t].ast = a
  BY <1>1 DEF BInv, RunsPinned
<1> QED
  BY <1>1, <1>2, CacheAssumption DEF Running, LeaseOf, Borrowing

(* Inserting: what is freed has no borrowers, so nobody runs it.           *)
LEMMA InsertMoves ==
  ASSUME "copy" \notin MayFail, Ops \subseteq {"eval", "compile"}, IInv, OInv, BInv,
         NEW e \in Exprs, NEW a \in Asts, NEW r, CacheInsert(e, a, r),
         \A b \in Bcs : Run(b)' => Run(b)
  PROVE  SlotsMove /\ GravesMove /\ BcsMove
<1>0. StoreType /\ None \notin Asts \cup Bcs \cup Exprs
  BY CacheAssumption DEF IInv, IType, TypeOK, StoreType, CacheType, GraveType
<1>1. CASE \E i \in Hits(e) : InsertTwin(i, a)
  <2>1. PICK i \in Slots : InsertTwin(i, a)
    BY <1>1, ProbeRange
  <2>2. \A j \in Slots : SlotKeeps(j)
    BY <1>0, <2>1 DEF InsertTwin, SlotKeeps, StoreType, CacheType
  <2> QED
    BY <2>1, <2>2 DEF InsertTwin, SlotsMove, GravesMove, BcsMove
<1>2. CASE \E i \in Target(e) : Evict(g_cache[i]) /\ Fill(i, e, a, r)
  <2>1. PICK i \in Slots : Evict(g_cache[i]) /\ Fill(i, e, a, r)
    BY <1>2, ProbeRange
  <2>2. PICK old : old = g_cache[i]
    OBVIOUS
  <2>3. /\ \A j \in Slots : j # i => g_cache'[j] = g_cache[j]
        /\ g_cache'[i].bc = None
    BY <1>0, <2>1 DEF Fill, StoreType
  <2>4. SlotsMove
    BY <2>3 DEF SlotsMove, SlotKeeps
  <2>5. GravesMove
    <3>1. g_graveyard' = g_graveyard
            \/ g_graveyard' = g_graveyard \cup {[ast |-> old.ast, bc |-> old.bc, pins |-> old.pins]}
      BY <2>1, <2>2 DEF Evict, Bury
    <3> QED
      BY <2>2, <3>1 DEF GravesMove
  <2>6. BcsMove
    <3>1. CASE UNCHANGED bcHeap
      BY <3>1 DEF BcsMove
    <3>2. CASE old.expr # None /\ old.pins = 0 /\ bcHeap' = Freed(bcHeap, {old.bc})
      <4>1. old.ast \in Asts /\ Borrowers(old.ast) = {}
        <5>1. EntryOK(old.ast, old.pins)
          BY <2>2, <3>2 DEF IInv, EntriesOK, SlotsOK
        <5> QED
          BY <3>2, <5>1, NoPinsNoBorrowers DEF EntryOK
      <4>2. old.bc \in Bcs => ~Run(old.bc)
        <5>1. PICK c \in Asts : c = old.ast
          BY <4>1
        <5>2. \A t \in Threads : LeaseOf(t) # c
          BY <4>1, <5>1 DEF Borrowers, Holders
        <5> QED
          BY <2>2, <5>1, <5>2, RunnersBorrow
      <4> QED
        BY <1>0, <3>2, <4>2 DEF Freed, StoreType, BcsMove
    <3> QED
      BY <2>1, <2>2, <3>1, <3>2 DEF Evict, heaps
  <2> QED
    BY <2>4, <2>5, <2>6
<1> QED
  BY <1>1, <1>2 DEF CacheInsert

(* Releasing x's lease: the last borrower frees a buried entry, so that    *)
(* nobody is left to run its bytecode.                                     *)
LEMMA ReleaseMoves ==
  ASSUME Ops \subseteq {"eval", "compile"}, IInv, OInv, BInv,
         NEW x \in Holders, NEW a \in Asts, LeaseOf(x) = a, CacheRelease(a),
         \A t \in Threads : Running(t)' => th'[t] = th[t] /\ t # x
  PROVE  SlotsMove /\ GravesMove /\ BcsMove
<1>0. StoreType /\ None \notin Asts \cup Bcs \cup Exprs
  BY CacheAssumption DEF IInv, IType, TypeOK, StoreType, CacheType, GraveType
<1>1. CASE UNCHANGED <<g_cache, g_graveyard, astHeap, bcHeap>>
  BY <1>1 DEF SlotsMove, SlotKeeps, GravesMove, BcsMove
<1>2. CASE \E i \in SlotsOf(a) : ReleaseInSlot(i)
  <2>1. PICK i \in Slots : ReleaseInSlot(i)
    BY <1>2 DEF SlotsOf
  <2>2. \A j \in Slots : SlotKeeps(j)
    BY <1>0, <2>1 DEF ReleaseInSlot, SlotKeeps, StoreType, CacheType
  <2> QED
    BY <2>1, <2>2 DEF ReleaseInSlot, SlotsMove, GravesMove, BcsMove
<1>3. CASE \E g \in GravesOf(a) : ReleaseInGrave(g)
  <2>1. PICK g \in g_graveyard : g.ast = a /\ ReleaseInGrave(g)
    BY <1>3 DEF GravesOf
  <2>2. g \in GraveType /\ g_cache' = g_cache
    BY <1>0, <2>1 DEF ReleaseInGrave, StoreType
  <2>3. SlotsMove
    BY <2>2 DEF SlotsMove, SlotKeeps
  <2>4. GravesMove
    <3>1. g_graveyard' \subseteq g_graveyard \cup {[g EXCEPT !.pins = @ - 1]}
      BY <2>1 DEF ReleaseInGrave
    <3> QED
      BY <2>2, <3>1 DEF GravesMove, GraveType
  <2>5. BcsMove
    <3>1. CASE UNCHANGED bcHeap
      BY <3>1 DEF BcsMove
    <3>2. CASE g.pins <= 1 /\ bcHeap' = Freed(bcHeap, {g.bc})
      <4>1. Cardinality(Borrowers(a)) = 1
        BY <2>1, <2>2, <3>2 DEF IInv, EntriesOK, GravesOK, EntryOK, GraveType
      <4>2. \A y \in Holders : LeaseOf(y) = a => y = x
        <5>1. x \in Borrowers(a)
          BY DEF Borrowers
        <5>2. PICK y : Borrowers(a) = {y}
          BY <4>1, BorrowersFinite, FS_Singleton
        <5> QED
          BY <5>1, <5>2 DEF Borrowers
      <4>3. g.bc \in Bcs => ~Run(g.bc)'
        <5>1. SUFFICES ASSUME g.bc \in Bcs, NEW t \in Threads, Running(t)', th'[t].bc = g.bc
                       PROVE  FALSE
          BY DEF Run, Running
        <5>2. t # x /\ Running(t) /\ th[t].bc = g.bc
          BY <5>1 DEF Running
        <5>3. LeaseOf(t) = a
          BY <2>1, <5>2, CacheAssumption DEF BInv, RunsPinned, Running, LeaseOf, Borrowing
        <5> QED
          BY <4>2, <5>2, <5>3 DEF Holders
      <4> QED
        BY <1>0, <3>2, <4>3 DEF Freed, StoreType, BcsMove
    <3> QED
      BY <2>1, <3>1, <3>2 DEF ReleaseInGrave, heaps
  <2> QED
    BY <2>3, <2>4, <2>5
<1> QED
  BY <1>0, <1>1, <1>2, <1>3 DEF CacheRelease

(* The calls that are made here never have another operation in progress.  *)
LEMMA OpsOnly ==
  ASSUME Ops \subseteq {"eval", "compile"}, IInv, NEW t \in Threads
  PROVE  /\ th[t].op \in {"eval", "compile", "none"}
         /\ th[t].pc \notin {"store", "reread"}
<1>1. th[t].op \in {"eval", "compile", "none"}
  BY DEF IInv, IType, TypeOK, FrameType
<1> QED
  BY <1>1 DEF IInv, IType, FramesOK

(* A heap of ASTs never has one parse in place of another.                 *)
LEMMA AstsOnlyFreed ==
  ASSUME StoreType, NEW S, astHeap' = Freed(astHeap, S) \/ astHeap' = astHeap
  PROVE  AstsMove
BY DEF AstsMove, Freed, StoreType

LEMMA InsertAsts ==
  ASSUME StoreType, NEW e, NEW a, NEW r, CacheInsert(e, a, r)
  PROVE  AstsMove
BY AstsOnlyFreed DEF CacheInsert, InsertTwin, Evict, heaps

LEMMA ReleaseAsts ==
  ASSUME StoreType, NEW a, CacheRelease(a)
  PROVE  AstsMove
BY AstsOnlyFreed DEF CacheRelease, ReleaseInSlot, ReleaseInGrave, heaps

(* Steps that leave the entries and the bytecode alone.                    *)
LEMMA EntriesStay ==
  ASSUME \A i \in Slots : SlotKeeps(i), g_graveyard' = g_graveyard, bcHeap' = bcHeap
  PROVE  SlotsMove /\ GravesMove /\ BcsMove
BY DEF SlotsMove, GravesMove, BcsMove

(* A step of thread t after which it carries no bytecode of its own.       *)
LEMMA QuietThread ==
  ASSUME NEW t \in Threads, \A u \in Threads \ {t} : th'[u] = th[u], ~Fresh(t)'
  PROVE  CarriersMove
BY DEF CarriersMove

(* ... and runs none.                                                      *)
LEMMA RestingThread ==
  ASSUME NEW t \in Threads, \A u \in Threads \ {t} : th'[u] = th[u],
         ~Fresh(t)', ~Running(t)'
  PROVE  /\ CarriersMove /\ RunsMove
         /\ \A b \in Bcs : Run(b)' => Run(b)
         /\ \A u \in Threads : Running(u)' => th'[u] = th[u] /\ u # t
BY DEF CarriersMove, RunsMove, Run, Running

(* A step of a thread that leaves entries and bytecode alone and rests.    *)
LEMMA RestingStep ==
  ASSUME IInv, IInv', OInv, OInv', BInv, AstsMove,
         NEW t \in Threads, \A u \in Threads \ {t} : th'[u] = th[u],
         th'[t].pc \notin {"run", "run_fresh", "store"},
         \A i \in Slots : SlotKeeps(i), g_graveyard' = g_graveyard, bcHeap' = bcHeap
  PROVE  BInv'
<1>1. ~Fresh(t)' /\ ~Running(t)'
  BY DEF Fresh, Running
<1>2. SlotsMove /\ GravesMove /\ BcsMove
  BY EntriesStay
<1>3. CarriersMove /\ RunsMove
  BY <1>1, RestingThread
<1> QED
  BY <1>2, <1>3, BcStep

(* A call that finds its expression runs what the entry holds.             *)
LEMMA HitRuns ==
  ASSUME IInv, IInv', OInv, OInv', BInv, NEW t \in Threads, NEW e \in Exprs, EvalHit(t, e)
  PROVE  BInv'
<1>0. StoreType /\ th \in [Threads -> FrameType]
  BY DEF IInv, IType, TypeOK, StoreType, CacheType, GraveType
<1>1. PICK i \in Slots : /\ g_cache[i].expr = e /\ CacheGet(i)
                         /\ th' = [th EXCEPT ![t] =
                              [pc |-> IF g_cache[i].bc = None THEN "compile_bc" ELSE "run",
                               op |-> "eval", expr |-> e, ast |-> g_cache[i].ast,
                               bc |-> g_cache[i].bc, h |-> None]]
  BY ProbeRange DEF EvalHit
<1>2. UNCHANGED <<astHeap, bcHeap, g_graveyard>>
  BY <1>1 DEF EvalHit, CacheGet
<1>3. \A j \in Slots : SlotKeeps(j)
  BY <1>0, <1>1 DEF CacheGet, SlotKeeps, StoreType, CacheType
<1>4. /\ \A u \in Threads \ {t} : th'[u] = th[u]
      /\ th'[t].pc \in {"compile_bc", "run"} /\ th'[t].bc = g_cache[i].bc
      /\ th'[t].ast = g_cache[i].ast /\ th'[t].expr = g_cache[i].expr
  BY <1>0, <1>1
<1>5. CarriersMove
  BY <1>4, QuietThread DEF Fresh
<1>6. RunsMove
  BY <1>3, <1>4 DEF RunsMove, SlotKeeps
<1>7. AstsMove
  BY <1>2 DEF AstsMove
<1> QED
  BY <1>2, <1>3, <1>5, <1>6, <1>7, EntriesStay, BcStep

(* Fresh bytecode has an address that nobody runs.                         *)
LEMMA FreshRuns ==
  ASSUME IInv, IInv', OInv, OInv', BInv, Ops \subseteq {"eval", "compile"},
         NEW t \in Threads, CompileBc(t)
  PROVE  BInv'
<1>0. StoreType /\ th \in [Threads -> FrameType] /\ th[t].op # "eval_ctx"
  BY OpsOnly DEF IInv, IType, TypeOK, StoreType, CacheType, GraveType
<1>1. UNCHANGED <<g_cache, g_graveyard, astHeap>>
  BY DEF CompileBc
<1>2. AstsMove /\ (\A i \in Slots : SlotKeeps(i))
  BY <1>1 DEF AstsMove, SlotKeeps
<1>3. CASE Goto(t, "interp") /\ UNCHANGED bcHeap
  <2>1. (\A u \in Threads \ {t} : th'[u] = th[u]) /\ th'[t].pc = "interp"
    BY <1>0, <1>3 DEF Goto, FrameType
  <2> QED
    BY <1>1, <1>2, <1>3, <2>1, RestingStep
<1>4. ASSUME NEW b \in Bcs, Alloc(bcHeap, b, th[t].expr),
             th' = [th EXCEPT ![t].bc = b, ![t].pc = "run_fresh"]
      PROVE  BInv'
  <2>1. /\ \A u \in Threads \ {t} : th'[u] = th[u]
        /\ th'[t].pc = "run_fresh" /\ th'[t].bc = b /\ th'[t].expr = th[t].expr
    BY <1>0, <1>4 DEF FrameType
  <2>2. /\ bcHeap[b] = None /\ bcHeap'[b] = th[t].expr
        /\ \A c \in Bcs \ {b} : bcHeap'[c] = bcHeap[c]
    BY <1>0, <1>4 DEF Alloc, StoreType
  <2>3. ~Run(b)
    <3>1. SUFFICES ASSUME NEW u \in Threads, Running(u), th[u].bc = b PROVE FALSE
      BY DEF Run
    <3>2. bcHeap[b] = th[u].expr
      BY <3>1 DEF BInv, RunsPinned
    <3>3. th[u].expr \in Exprs
      BY <3>1 DEF Running, IInv, IType, FramesOK
    <3> QED
      BY <2>2, <3>2, <3>3, CacheAssumption
  <2>4. SlotsMove /\ GravesMove /\ BcsMove
    BY <1>1, <1>2, <2>2 DEF SlotsMove, GravesMove, BcsMove
  <2>5. CarriersMove
    BY <2>1, <2>2, <2>3 DEF CarriersMove
  <2>6. RunsMove
    BY <2>1 DEF RunsMove, Running
  <2> QED
    BY <1>2, <2>4, <2>5, <2>6, BcStep
<1> QED
  BY <1>0, <1>3, <1>4 DEF CompileBc

(* What a call stores nobody runs but itself, and it is done with it.      *)
LEMMA StoreKeepsRuns ==
  ASSUME IInv, IInv', OInv, OInv', BInv, NEW t \in Threads, RunFreshAndStore(t)
  PROVE  BInv'
<1>0. StoreType /\ th \in [Threads -> FrameType]
  BY DEF IInv, IType, TypeOK, StoreType, CacheType, GraveType
<1>1. PICK e, b : e = th[t].expr /\ b = th[t].bc
  OBVIOUS
<1>2. /\ \A u \in Threads \ {t} : th'[u] = th[u]
      /\ th'[t].pc = "interp"
  BY <1>0 DEF RunFreshAndStore, FrameType
<1>3. Fresh(t) /\ e \in Exprs /\ b \in Bcs
  BY <1>1 DEF RunFreshAndStore, Fresh, OInv, BcsOwned, CarriersOK, IInv, IType, FramesOK
<1>4. bcHeap[b] = e /\ ~Run(b)
  <2>1. bcHeap[b] = e /\ Carried(b)
    BY <1>1, <1>3 DEF BInv, BcsTrue, Carried, Fresh
  <2> QED
    BY <2>1 DEF BInv, RunsPinned, Run
<1>5. /\ UNCHANGED <<g_graveyard, astHeap>>
      /\ \/ bcHeap' = Freed(bcHeap, {b}) /\ UNCHANGED g_cache
         \/ /\ UNCHANGED bcHeap
            /\ \E i \in Slots : /\ g_cache[i].expr = e
                               /\ g_cache' = [g_cache EXCEPT ![i].bc = b]
  BY <1>1, <1>3, ProbeRange DEF RunFreshAndStore, CacheStoreBc
<1>6. CarriersMove /\ RunsMove /\ \A c \in Bcs : Run(c)' => Run(c)
  BY <1>2, RestingThread DEF Fresh, Running
<1>7. BcsMove
  BY <1>0, <1>3, <1>4, <1>5, <1>6 DEF BcsMove, Freed, StoreType
<1>8. SlotsMove
  <2>1. ASSUME NEW i \in Slots, g_cache[i].expr = e, UNCHANGED bcHeap,
               g_cache' = [g_cache EXCEPT ![i].bc = b]
        PROVE  SlotsMove
    <3>1. /\ \A j \in Slots \ {i} : g_cache'[j] = g_cache[j]
          /\ g_cache'[i].bc = b /\ g_cache'[i].expr = e
      BY <1>0, <2>1 DEF StoreType, CacheType
    <3> QED
      BY <1>4, <2>1, <3>1 DEF SlotsMove, SlotKeeps
  <2>2. CASE UNCHANGED g_cache
    BY <2>2 DEF SlotsMove, SlotKeeps
  <2> QED
    BY <1>5, <2>1, <2>2
<1>9. GravesMove /\ AstsMove
  BY <1>5 DEF GravesMove, AstsMove
<1> QED
  BY <1>6, <1>7, <1>8, <1>9, BcStep

LEMMA BcNext ==
  ASSUME "copy" \notin MayFail, Ops \subseteq {"eval", "compile"},
         IInv, IInv', OInv, OInv', BInv, [Next]_vars
  PROVE  BInv'
<1>0. /\ StoreType /\ th \in [Threads -> FrameType]
      /\ \A t \in Threads : /\ th[t].op \notin {"eval_in", "eval_ctx"}
                            /\ th[t].pc \notin {"store", "reread"}
  BY OpsOnly DEF IInv, IType, TypeOK, StoreType, CacheType, GraveType
<1>1. ASSUME NEW t \in Threads, NEW op, NEW e \in Exprs, NEW h, th[t].pc = "idle",
             Parse(t, op, e, h), UNCHANGED <<g_cache, g_graveyard, bcHeap>>
      PROVE  BInv'
  <2>1. (\A u \in Threads \ {t} : th'[u] = th[u]) /\ th'[t].pc = "insert"
    BY <1>0, <1>1 DEF Parse
  <2>2. AstsMove
    BY <1>0, <1>1 DEF Parse, Alloc, AstsMove, StoreType
  <2>3. \A i \in Slots : SlotKeeps(i)
    BY <1>1 DEF SlotKeeps
  <2> QED
    BY <1>1, <2>1, <2>2, <2>3, RestingStep
<1>2. ASSUME NEW t \in Threads, EvalInsert(t) \/ CompileInsert(t) PROVE BInv'
  <2>1. PICK r : /\ CacheInsert(th[t].expr, th[t].ast, r)
                 /\ \/ th' = [th EXCEPT ![t].ast = r,
                             ![t].pc = IF r = None THEN "interp" ELSE "compile_bc"]
                    \/ th' = [th EXCEPT ![t] = Idle]
    BY <1>2 DEF EvalInsert, CompileInsert, Return
  <2>2. /\ \A u \in Threads \ {t} : th'[u] = th[u]
        /\ th'[t].pc \in {"interp", "compile_bc", "idle"}
    BY <1>0, <2>1 DEF FrameType, Idle
  <2>3. th[t].expr \in Exprs /\ th[t].ast \in Asts
    BY <1>2 DEF EvalInsert, CompileInsert, IInv, IType, FramesOK
  <2>4. /\ CarriersMove /\ RunsMove
        /\ \A b \in Bcs : Run(b)' => Run(b)
    BY <2>2, RestingThread DEF Fresh, Running
  <2>5. SlotsMove /\ GravesMove /\ BcsMove
    BY <2>1, <2>3, <2>4, InsertMoves
  <2> QED
    BY <1>0, <2>1, <2>4, <2>5, InsertAsts, BcStep
<1>3. ASSUME NEW t \in Threads, RunCached(t) PROVE BInv'
  <2>1. (\A u \in Threads \ {t} : th'[u] = th[u]) /\ th'[t].pc = "interp"
    BY <1>0, <1>3 DEF RunCached, FrameType
  <2>2. AstsMove /\ (\A i \in Slots : SlotKeeps(i))
    BY <1>3 DEF RunCached, AstsMove, SlotKeeps
  <2> QED
    BY <1>3, <2>1, <2>2, RestingStep DEF RunCached
<1>4. ASSUME NEW x \in Holders, NEW a, a = LeaseOf(x), CacheRelease(a),
             CarriersMove, RunsMove,
             \A u \in Threads : Running(u)' => th'[u] = th[u] /\ u # x
      PROVE  BInv'
  <2>1. a \in Asts \cup {None}
    BY <1>4 DEF LeaseOf, Holders, IInv, IType, TypeOK, FrameType
  <2>2. AstsMove
    BY <1>0, <1>4, ReleaseAsts
  <2>3. SlotsMove /\ GravesMove /\ BcsMove
    <3>1. CASE a \in Asts
      BY <1>4, <3>1, ReleaseMoves
    <3>2. CASE a = None
      BY <1>4, <3>2 DEF CacheRelease, SlotsMove, SlotKeeps, GravesMove, BcsMove
    <3> QED
      BY <2>1, <3>1, <3>2
  <2> QED
    BY <1>4, <2>2, <2>3, BcStep
<1>5. ASSUME NEW t \in Threads, EvalRelease(t) PROVE BInv'
  <2>1. (\A u \in Threads \ {t} : th'[u] = th[u]) /\ th'[t].pc = "idle"
    BY <1>0, <1>5 DEF EvalRelease, Return, Idle
  <2>2. /\ CarriersMove /\ RunsMove
        /\ \A u \in Threads : Running(u)' => th'[u] = th[u] /\ u # t
    BY <2>1, RestingThread DEF Fresh, Running
  <2>3. th[t].ast = LeaseOf(t)
    BY <1>5, CacheAssumption DEF EvalRelease, LeaseOf, Borrowing
  <2> QED
    BY <1>4, <1>5, <2>2, <2>3 DEF EvalRelease, Holders
<1>6. ASSUME NEW h \in Handles, CompiledFree(h) PROVE BInv'
  <2>1. CarriersMove /\ RunsMove
    BY <1>6 DEF CompiledFree, CarriersMove, RunsMove
  <2>2. \A u \in Threads : th'[u] = th[u] /\ u # h
    BY <1>6, CacheAssumption DEF CompiledFree
  <2>3. compiled[h].ast = LeaseOf(h) /\ h \in Holders
    BY DEF LeaseOf, Holders
  <2> QED
    BY <1>4, <1>6, <2>1, <2>2, <2>3 DEF CompiledFree
<1>7. CASE UNCHANGED vars
  BY <1>7, EntriesStay, BcStep
     DEF vars, SlotKeeps, AstsMove, CarriersMove, RunsMove
<1>8. CASE Next
  <2>1. ASSUME NEW t \in Threads, Call(t) PROVE BInv'
    BY <1>1, <2>1, HitRuns DEF Call, EvalMiss, CompileParse, EvalIn, CtxGet, Start
  <2>2. ASSUME NEW t \in Threads, Step(t) PROVE BInv'
    BY <1>0, <1>2, <1>3, <1>5, <2>2, FreshRuns, StoreKeepsRuns
       DEF Step, CtxStore, CtxReread, CtxRunAndRelease, CompiledReturn
  <2> QED
    BY <1>6, <1>8, <2>1, <2>2 DEF Next
<1> QED
  BY <1>7, <1>8

(* No thread runs bytecode that was freed or that belongs to another       *)
(* expression, as long as only leptris_xpath_eval runs any: the pin of the *)
(* AST is what keeps its bytecode.  The compiled handles run what they     *)
(* fetched without a pin, and for them the statement is false              *)
(* (CacheHandleBytecode.cfg).                                              *)
THEOREM RunsAreSafe ==
  "copy" \notin MayFail /\ Ops \subseteq {"eval", "compile"} => (Spec => []BcRunSafe)
<1> SUFFICES ASSUME "copy" \notin MayFail, Ops \subseteq {"eval", "compile"}
             PROVE  Spec => []BcRunSafe
  OBVIOUS
<1>1. Init => IInv /\ OInv /\ BInv
  BY SafetyInit, OwnedInit, BcInit
<1>2. IInv /\ OInv /\ BInv /\ [Next]_vars => IInv' /\ OInv' /\ BInv'
  BY SafetyNext, OwnedNext, BcNext
<1>3. BInv => BcRunSafe
  BY DEF BInv, BcsTrue, RunsPinned, Running, Fresh, BcRunSafe
<1> QED
  BY <1>1, <1>2, <1>3, PTL DEF Spec
=================================================================================
