SPECIFICATION DrainSpec
CONSTANTS
  N = 2
  FailThreshold = 1
  FailsMod = 2
  Conns = {c1}
  DrainTimeout = 1
INVARIANT DrainGrace
PROPERTIES DrainEnds HealthConverges
CHECK_DEADLOCK FALSE
