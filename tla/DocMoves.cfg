SPECIFICATION Spec
CONSTANTS
  Docs = {d1, d2, d3}
  Elems = {e1, e2, e3, e4}
  None = None
  MaxSize = 6
  Ops = {"parse", "create", "append", "unlink", "set_root", "set_name", "absorb", "include", "free", "remove"}
SYMMETRY Symmetry
CONSTRAINT Bounded
INVARIANTS
  TypeOK
  TreeSafe
  ReleasedOnce
  EntriesLive
  ResolvesInFamily
