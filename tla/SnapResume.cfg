CONSTANTS
  N = 2
  Sizes = {1, 2}
  Servers = 2
  Capacities = {1, 2}
  Stuck = {{}, {1}}
  Rounds = 2
  Pokes = 1
  MinStep = 2
  MaxDelay = 1
  Ages = {3}
SPECIFICATION ResumeSpec
INVARIANTS Tracked ExitKillsOwned ReturnsSound NoStrayKill ClockClose
PROPERTIES Terminates
CHECK_DEADLOCK FALSE
