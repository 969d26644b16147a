SPECIFICATION Spec
CONSTANTS
  e1 = e1
  e2 = e2
  e3 = e3
  Threads = {t1, t2}
  Handles = {h1}
  Exprs = {e1, e2}
  Asts = {a1, a2, a3, a4}
  Bcs = {b1, b2}
  NSlots = 1
  Home <- OneHome
  None = None
  Ops = {"eval", "compile", "eval_in"}
  MayFail = {}
SYMMETRY Symmetry
INVARIANTS
  BcRunSafe
