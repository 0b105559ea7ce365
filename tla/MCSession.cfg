SPECIFICATION AttachFairSpec
CONSTANTS
  MaxConns = 2
  MaxEvents = 1
  MaxAsks = 2
INVARIANTS PathAfterUpload RequestNotLost SessionHasGateway
PROPERTIES RequestIsFollowed NoSessionLeftBehind
CHECK_DEADLOCK FALSE
