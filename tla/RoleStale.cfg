SPECIFICATION ASpec
CONSTANTS
  Sid = {s1}
  Role = {user, admin}
  NoRole = none
  Change = {c1}
  AccessTTL = 2
  MaxLag = 1
  MaxNow = 2
  MaxTokens = 2
  MaxFaults = 0
INVARIANT RoleTakesEffect
CHECK_DEADLOCK FALSE
