SPECIFICATION Spec
CONSTANTS
  Elems = {e1, e2, e3}
  Texts = {t1}
  Comments = {}
  Refs = {}
  None = None
  NSlots = 2
  SlotOf <- TwoSlots
  CountMod = 8
  WalkCap = 8192
  Programs <- Apart
  e1 = e1
INVARIANTS TypeOK ParentsAgree CountExact TailIsLast WalksEnd
PROPERTIES IsChildSeq
CONSTRAINT ElementChains
