\* Two requests: one recorded, one that outlasts the shutdown.
CONSTANTS
  r1 = r1
  r2 = r2
  Requests = {r1, r2}
  BufferSize = 2
  BatchSize = 2
CHECK_DEADLOCK FALSE
SPECIFICATION Spec
INVARIANT ShutdownFlushes
