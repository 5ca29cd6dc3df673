SPECIFICATION Spec
CONSTANTS
  Request = {h1, h2}
  OAuthTx = TRUE
  Interval = 1
  MaxKeys = 2
  MaxUsers = 2
  MaxFaults = 1
SYMMETRY Requests
CHECK_DEADLOCK FALSE
INVARIANTS IdTypeOK GetsOwner NoOrphan FewRefreshes
PROPERTY OneOwner
