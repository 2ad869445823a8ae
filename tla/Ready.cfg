CONSTANTS
  Codes = {0, 1}
  MaxSignals = 2
  MaxMoods = 3
SPECIFICATION ReadySpec
INVARIANTS ReportsTrue OrphanCases StrayOnlyAtExit
PROPERTIES NoSignalSwallowed FollowsChild
CHECK_DEADLOCK FALSE
