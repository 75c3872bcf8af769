SPECIFICATION FairSpec
CONSTANTS
  MaxNAT = 2
  MaxAttempt = 2
INVARIANTS DownOnlyForIngress HeardPath RelayPath
PROPERTIES ChangeReconnects  RunDecides
