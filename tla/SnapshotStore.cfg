SPECIFICATION Spec
CONSTANTS
  s1 = s1
  s2 = s2
  r1 = r1
  r2 = r2
  Source = {s1, s2}
  Dated = {s1}
  Run = {r1, r2}
  NoItems = NoItems
  NoSnapshot = NoSnapshot
  NoSource = NoSource
  Dated = {s1}
  Overlap = FALSE
  MaxTime = 2
INVARIANTS TypeOK Persisted StoreInv
PROPERTY KeepsLatest
