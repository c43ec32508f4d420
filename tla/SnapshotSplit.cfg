SPECIFICATION WatchSpec
CONSTANTS
  s1 = s1
  s2 = s2
  r1 = r1
  r2 = r2
  r3 = r3
  Source = {s1}
  Dated = {s1}
  Run = {r1, r2}
  NoItems = NoItems
  NoSnapshot = NoSnapshot
  NoSource = NoSource
  Dated = {s1}
  Overlap = TRUE
  MaxTime = 2
INVARIANT Persisted
