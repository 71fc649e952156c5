SPECIFICATION LateSpec
CONSTANTS
  Hosts = {web1}
  MaxPort = 2
  MaxDeploys = 1
  None = None
INVARIANT RecordedHostServes
CHECK_DEADLOCK FALSE
