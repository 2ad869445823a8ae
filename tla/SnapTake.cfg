CONSTANTS
  None = None
  Watchlist = {"amx", "avx"}
  Settings <- SmallSettings
  Texts = {"t1", "t2"}
  MaxTakes = 2
  MaxClock = 1
SPECIFICATION SnapSpec
INVARIANTS SameTakeConsistent ManifestTrue RestorableWhereTaken
PROPERTIES GateSound
CHECK_DEADLOCK FALSE
