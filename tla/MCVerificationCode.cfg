SPECIFICATION Spec
CONSTANTS
  Caller = {h1, h2}
  Cooldown = 2
  Expiry = 3
  MaxCalls = 3
  MaxFaults = 2
SYMMETRY Callers
CHECK_DEADLOCK FALSE
INVARIANTS CodeTypeOK CodeOnce LiveCode OnePerCooldown RetryAfterFailure
