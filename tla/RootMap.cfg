SPECIFICATION Spec
CONSTANTS
  Threads = {t1, t2}
  Docs = {d1, d2, d3}
  r1 = r1
  r2 = r2
  r3 = r3
  Roots = {r1, r2, r3}
  Entries = {n1, n2, n3, n4}
  Bucket <- TwoBuckets
  None = None
SYMMETRY Symmetry
CONSTRAINT OneForThird
VIEW Fresh
INVARIANTS MemoTrue ChainsAgree ResolvesToOwner
