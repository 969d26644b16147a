------------------------------- MODULE AstLease -------------------------------
(***************************************************************************)
(* What the AST cache promises its callers, with no slots, no counters and *)
(* no eviction policy: a borrower holds a lease on the parse of the        *)
(* expression it asked for, and a parse may be reclaimed only when nobody  *)
(* holds a lease on it (README.adoc, "Threading model").                   *)
(***************************************************************************)
CONSTANTS Holders, Exprs, Asts, None

VARIABLES
  obj,     \* address -> the expression parsed there, or None
  lease    \* borrower -> the address it borrows, or None

vars == <<obj, lease>>

Leased(l) == {l[b] : b \in Holders}

(* Unleased parses may be reclaimed along any step; nothing else changes.  *)
Reclaim == \A x \in Asts : \/ obj'[x] = obj[x]
                           \/ obj'[x] = None /\ x \notin Leased(lease')

Parse(x, e) ==
  /\ obj[x] = None
  /\ obj' = [obj EXCEPT ![x] = e]
  /\ UNCHANGED lease
Borrow(b, x) ==
  /\ lease[b] = None /\ obj[x] # None
  /\ lease' = [lease EXCEPT ![b] = x]
  /\ obj' \in [Asts -> Exprs \cup {None}] /\ Reclaim
Return(b) ==
  /\ lease[b] # None
  /\ lease' = [lease EXCEPT ![b] = None]
  /\ obj' \in [Asts -> Exprs \cup {None}] /\ Reclaim

Init == /\ obj = [x \in Asts |-> None]
        /\ lease = [b \in Holders |-> None]
Next == \/ \E x \in Asts, e \in Exprs : Parse(x, e)
        \/ \E b \in Holders : Return(b) \/ \E x \in Asts : Borrow(b, x)
Spec == Init /\ [][Next]_vars
================================================================================
