SPECIFICATION KaSpec
CONSTANTS
  Keys = {1, 2}
  Ops <- LeaseOps
  CompactRevs = {2}
  LeaseIds = {1, 2}
  Ttls <- OneTtl
  MaxRevision = 3
  MaxTime = 2
  KaStreams = {s1}
  KaCapacity = 1
  Nobody = Nobody
  s1 = s1
PROPERTIES ExpiredLeaseRevoked
