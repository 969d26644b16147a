SPECIFICATION FairSpec
CONSTANTS
  e1 = e1
  e2 = e2
  e3 = e3
  Threads = {t1, t2}
  Handles = {}
  Exprs = {e1, e2}
  Asts = {a1, a2, a3}
  Bcs = {b1, b2, b3, b4, b5}
  NSlots = 1
  Home <- OneHome
  None = None
  Ops = {"eval"}
  MayFail = {"graveyard"}
INVARIANTS
  BcRunSafe
PROPERTY GraveyardDrains
