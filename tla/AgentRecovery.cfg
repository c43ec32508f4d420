SPECIFICATION RecoverySpec
CONSTANTS
  c1 = c1
  c2 = c2
  x1 = x1
  u1 = u1
  u2 = u2
  m1 = m1
  NoUsage = NoUsage
  NoModel = NoModel
  NoRow = NoRow
  NoState = NoState
  Usage = {u1}
  Model = {}
  File = {c1, c2, x1}
  WalkOrder <- ThreeOrder
  SourceOrder <- TwoSources
  SourceOf <- ThreeSourceOf
  Codex = "codex"
  ChunkSize = 1
  Unruly <- NoUnruly
  Layouts = {{c1, c2}, {c1, x1}}
  MaxLines = 1
  MaxMTime = 0
  MaxParser = 1
PROPERTIES KeepsLedger CatchesUp
