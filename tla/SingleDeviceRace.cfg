SPECIFICATION Spec
CONSTANTS
  Sid = {s1, s2}
  NoSid = none
  Admin = {a1}
  SessionTTL = 2
  MaxFaults = 0
INVARIANT SingleDevice
