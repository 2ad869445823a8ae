CONSTANTS
  Guests = {s1, s2}
  NFiles = 3
  KeyFile = 2
  MaxConns = 4
  MaxTroubles = 2
  s1 = s1
  s2 = s2
SPECIFICATION CustodySpec
INVARIANTS CountMeansLanded NoPartialTrust
PROPERTIES EveryServerDecides
CHECK_DEADLOCK FALSE
