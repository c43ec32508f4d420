SPECIFICATION Spec
CONSTANTS
  c1 = c1
  c2 = c2
  x1 = x1
  u1 = u1
  u2 = u2
  m1 = m1
  NoUsage = NoUsage
  NoModel = NoModel
  NoRow = NoRow
  NoState = NoState
  Usage = {u1}
  Model = {m1}
  File = {x1}
  WalkOrder <- OneCodexOrder
  SourceOrder <- OneCodexSource
  SourceOf <- OneCodexSourceOf
  Codex = "codex"
  ChunkSize = 1
  Unruly <- NoUnruly
  MaxLines = 2
  MaxMTime = 1
  MaxParser = 1
INVARIANTS ModelsInherited
