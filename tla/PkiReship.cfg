SPECIFICATION AgentSpec
CONSTANTS
  NLeaves = 1
  MaxIssue = 2
INVARIANT KubeconfigsFollowShipment
