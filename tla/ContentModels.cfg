SPECIFICATION Spec
CONSTANTS
  Names <- Abc
  Schemas <- AllSchemas
  MaxKids = 4
  NfaMax = 16
  KidCap = 64
INVARIANTS DtdSound DtdPlainExact XsdExact RngContiguous RngExplained
CHECK_DEADLOCK FALSE
