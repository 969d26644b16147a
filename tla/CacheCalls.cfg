SPECIFICATION Spec
CONSTANTS
  e1 = e1
  e2 = e2
  e3 = e3
  Threads = {t1, t2}
  Handles = {h1}
  Exprs = {e1, e2, e3}
  Asts = {a1, a2, a3, a4, a5}
  Bcs = {b1, b2, b3}
  NSlots = 2
  Home <- TwoHomes
  None = None
  Ops = {"eval", "compile", "eval_in", "eval_ctx"}
  MayFail = {}
SYMMETRY Symmetry
INVARIANTS
  TypeOK
  AstBorrowSafe
  PinsExact
  OwnedOnce
  Findable
PROPERTY KeepsLeases
