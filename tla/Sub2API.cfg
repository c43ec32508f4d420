SPECIFICATION Spec
CONSTANTS
  Missing = Missing
  NoFiveHour = NoFiveHour
  Setups <- AllSetups
  FirstDay = 1
  LastDay = 2
  MaxUse = 2
  MaxRounds = 2
INVARIANTS TypeOK WeekIsTruth TodayIsTruth WeekCoversToday UserFigures EmailsShowOwnQuota WorstFirst
PROPERTIES FailureKeepsAge WeeklyNeverBlocks
CHECK_DEADLOCK FALSE
