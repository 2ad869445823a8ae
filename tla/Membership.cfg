CONSTANTS
  Settings <- Deployments
  Streak = 2
SPECIFICATION JoinSpec
INVARIANTS OneCluster RecordTruthful
PROPERTIES StaysWithHealthy QuorumKept
CHECK_DEADLOCK FALSE
