SPECIFICATION Spec
CONSTANTS
  r1 = r1
  r2 = r2
  c1 = c1
  c2 = c2
  m1 = m1
  m2 = m2
  m3 = m3
  FirstDay = 1
  DayLength = 2
  LastMoment = 3
  Missing = Missing
  NoFiveHour = NoFiveHour
  Run <- TwoRuns
  Auth <- TwoAuths
  NoAuth = NoAuth
  Retries = {1, 2}
  BatchSize = 1
  MaxBatches = 2
  QuotaInterval = 2
  Timeout = 1
  Group <- TwoGroups
  NoWindow = NoWindow
  Unstated = Unstated
  NoToken = NoToken
  GroupStale = 1
  SwitchMaxAge = 1
  PushDelay = 1
  MaxTokens = 1
  Setups <- AllSetups
INVARIANTS TypeOK Accounted UsageIsTruth PinnedOnly SpentIsNotUnlimited ShownAsRead TokensCountedOnce
PROPERTIES KeepsLastGood KeepsGroups
CHECK_DEADLOCK FALSE
SYMMETRY Symmetric
