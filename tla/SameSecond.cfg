SPECIFICATION TSpec
CONSTANTS
  Sid = {s1}
  Request = {r1, r2}
  RefreshTTL = 2
  BlacklistTTL = 2
  MaxNow = 3
  MaxFaults = 0
PROPERTIES EveryRotationWorks
