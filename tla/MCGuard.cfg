\* Calls shorter than both cooldowns; three goroutines for two slots.
CONSTANTS
  p1 = p1
  p2 = p2
  p3 = p3
  Procs = {p1, p2, p3}
  MaxConcurrency = 2
  RateBurst = 2
  FailureThreshold = 2
  Cooldown = 3
  SessionThreshold = 2
  SessionCooldown = 3
  MaxSessionStrikes = 4
  OpTimeout = 2
  RetryAfters = {5}
SYMMETRY Symmetry
SPECIFICATION Spec
INVARIANTS TypeOK SlotsHeld GaugesTruthful BreakersCoherent
  GeneralProbeAlone SessionProbeAlone
PROPERTIES OnlyProbeCloses WedgedForever ImplementsCircuitBreaker
