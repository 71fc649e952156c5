SPECIFICATION FairSpec
CONSTANTS
  Hosts = {web1, web2}
  MaxPort = 3
  MaxDeploys = 2
  None = None
INVARIANTS RecordedHostServes ClosedHostIsClean
PROPERTIES FailedDeployUndoesFleet RecordedOnlyWhenFleetServes LedgerRefinement DeployEnds
CHECK_DEADLOCK FALSE
