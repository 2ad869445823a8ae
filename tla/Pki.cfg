SPECIFICATION PkiFairSpec
CONSTANTS
  NCas = 2
  NLeaves = 2
  IssuerOf <- TwoIssuers
  Users = {1}
  Configs = {1, 2}
  MaxEvents = 4
INVARIANTS FinishedSound KubeconfigSound
PROPERTIES Idempotent Converges
