CONSTANTS
  p1 = p1
  p2 = p2
  Procs = {p1, p2}
  MaxConcurrency = 2
  RateBurst = 2
  FailureThreshold = 1
  Cooldown = 2
  SessionThreshold = 1
  SessionCooldown = 2
  MaxSessionStrikes = 2
  OpTimeout = 1
  RetryAfters = {4}
SPECIFICATION Spec
PROPERTY RetryAfterHonored
