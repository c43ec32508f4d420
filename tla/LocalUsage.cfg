SPECIFICATION Spec
CONSTANTS
  r1 = r1
  r2 = r2
  m1 = m1
  m2 = m2
  Run <- TwoRuns
  Paths <- TwoPaths
  NoObs = NoObs
  StaleAfter = 1
  RateLimitTTL = 1
  TransportTTL = 2
  NotFoundTTL = 3
  LastMoment = 3
  Usage <- AllUsage
  NoUsage = NoUsage
  Model = {}
  NoModel = NoModel
  NoRow = NoRow
  NoState = NoState
  NoReport = NoReport
  ReportStale = 1
  Setups <- AllSetups
  MaxLines = 2
  MaxMTime = 3
INVARIANTS TypeOK RowsOfFile TotalIsTruth NoExpiredQuota
PROPERTIES CachedIsRecent RateLimitRespected
CHECK_DEADLOCK FALSE
SYMMETRY Symmetric
