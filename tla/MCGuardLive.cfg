CONSTANTS
  p1 = p1
  p2 = p2
  Procs = {p1, p2}
  MaxConcurrency = 1
  RateBurst = 1
  FailureThreshold = 2
  Cooldown = 2
  SessionThreshold = 1
  SessionCooldown = 2
  MaxSessionStrikes = 2
  OpTimeout = 2
  RetryAfters = {3}
SPECIFICATION FairSpec
PROPERTIES CooldownsEnd ProbeAnswered
