SPECIFICATION Spec
CONSTANTS
  Sid = {s1, s2}
  NoSid = none
  Admin = {a1}
  SessionTTL = 2
  MaxFaults = 1
INVARIANTS TypeOK RevokedStaysDead LoginSurvives NoLateAccept NoFalseReject OneDevice EverySessionTracked
PROPERTIES OneWayLife RevokeAllLeavesNone OnlyLoginsRenew
SYMMETRY Symmetry
