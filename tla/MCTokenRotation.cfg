SPECIFICATION TSpec
CONSTANTS
  Sid = {s1}
  Request = {r1, r2}
  RefreshTTL = 2
  BlacklistTTL = 2
  MaxNow = 2
  MaxFaults = 1
INVARIANTS TokenTypeOK OneUsable
PROPERTIES SingleUse NoRefreshAfterLogout RotationWorks
SYMMETRY Symmetry
