\* One second makes a token and, here, a bucket idle; three quarters of one per tick.
CONSTANTS
  Garbage = Garbage
  Requests = {1, 2, 3, 4}
  Deployments <- MCDeployments
  MaxKeys = 2
  IdleTTL = 100
  Tick = 75
SPECIFICATION Spec
CHECK_DEADLOCK FALSE
INVARIANTS TypeOK AddressedAsItself LimitedAsConfigured TrailMatches TotalsConsistent ListsConsistent
