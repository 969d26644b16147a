SPECIFICATION Spec
CONSTANTS
  Documents <- Texts
  RingCap = 2
  BlockStrings = 3
  MaxBatch = 3
  SliceEvents = 5
  Users = {"pull", "iter"}
  Modes = {"top", "full"}
INVARIANTS Accounted BatchReadable AttrsServed YieldsTrees ScopeTrue YieldsAll
CHECK_DEADLOCK FALSE
