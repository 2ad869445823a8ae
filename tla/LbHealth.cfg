SPECIFICATION NoSignalSpec
CONSTANTS
  N = 2
  FailThreshold = 2
  FailsMod = 4
  Conns = {c1}
  DrainTimeout = 0
INVARIANTS HealthExact RefusedByAll PickOrderSound
CHECK_DEADLOCK FALSE
