SPECIFICATION ASpec
CONSTANTS
  Sid = {s1}
  Role = {user, admin}
  NoRole = none
  Change = {c1, c2}
  AccessTTL = 2
  MaxLag = 1
  MaxNow = 2
  MaxTokens = 2
  MaxFaults = 1
INVARIANTS AccountTypeOK DisabledFadesOut OldTokensDie OnlyLaterSessions
PROPERTIES NoComeback
SYMMETRY Symmetry
CHECK_DEADLOCK FALSE
