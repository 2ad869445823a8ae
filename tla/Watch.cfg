SPECIFICATION WFairSpec
CONSTANTS
  Keys = {1, 2}
  Ops <- WatchOps
  CompactRevs = {2}
  LeaseIds = {}
  Ttls = {}
  MaxRevision = 4
  MaxTime = 0
  Streams = {1}
  Watches = {1, 2}
  WatchReqs <- AllReqs
  Capacity = 2
  MaxWatchId = 2
INVARIANTS ExactDelivery
PROPERTIES FeedSpec CatchesUp
