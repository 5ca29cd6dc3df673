SPECIFICATION LSpec
CONSTANTS
  Request = {r1, r2, r3}
  MaxAttempts = 5
  Window = 2
  LockTTL = 3
  MaxFaults = 2
INVARIANTS LockTypeOK GuessBound FreshStart
PROPERTIES LockDeserved LockLapses
