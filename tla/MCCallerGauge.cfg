\* One request is enough for the gauge to go stale.
CONSTANTS
  r1 = r1
  s = s
  Requests = {r1}
  Sessions = {s}
  MarkTTL = 1
  MaxMarks = 1
SPECIFICATION Spec
INVARIANT GaugeCountsFastFailed
