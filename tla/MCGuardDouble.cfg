\* The code's default thresholds and concurrency (config.go), the cooldown in
\* ticks longer than any call.
CONSTANTS
  p1 = p1
  p2 = p2
  p3 = p3
  p4 = p4
  Procs = {p1, p2, p3, p4}
  MaxConcurrency = 4
  RateBurst = 4
  FailureThreshold = 5
  Cooldown = 2
  SessionThreshold = 2
  SessionCooldown = 2
  MaxSessionStrikes = 4
  OpTimeout = 1
  RetryAfters = {3}
SYMMETRY Symmetry
SPECIFICATION Spec
PROPERTY DoublesOnFailedProbe
