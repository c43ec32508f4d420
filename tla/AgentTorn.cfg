SPECIFICATION Spec
CONSTANTS
  c1 = c1
  c2 = c2
  x1 = x1
  u1 = u1
  u2 = u2
  m1 = m1
  NoUsage = NoUsage
  NoModel = NoModel
  NoRow = NoRow
  NoState = NoState
  Usage = {u1}
  Model = {}
  File = {c1}
  WalkOrder <- OneOrder
  SourceOrder <- OneSource
  SourceOf <- OneSourceOf
  Codex = "codex"
  ChunkSize = 1
  Unruly <- TornWrites
  MaxLines = 2
  MaxMTime = 1
  MaxParser = 1
INVARIANTS NothingLost
