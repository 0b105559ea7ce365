SPECIFICATION ForwardsFairSpec
CONSTANTS
  Order <- TwoApps
  Ports = {8080, 8081}
  Refreshes = {"r1"}
  MaxChanges = 2
  MaxRefreshes = 1
  Contended = {8080}
  MaxManagers = 2
INVARIANTS ForwardsTypeOK ListenersAccountedFor NewestListKept
PROPERTIES ForwardsFollowTable StopReturns
CHECK_DEADLOCK FALSE
