SPECIFICATION Spec
CONSTANTS
  Keys = {1, 2}
  Ops <- MixOps
  CompactRevs = {2, 6}
  LeaseIds = {1, 2}
  Ttls <- OneTtl
  MaxRevision = 4
  MaxTime = 1
INVARIANTS LeaseKeysSound KeysDieWithLease StateIsReplay LogComplete
