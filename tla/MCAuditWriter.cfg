\* Three records, a buffer of one and batches of two.  The process ends.
CONSTANTS
  r1 = r1
  r2 = r2
  r3 = r3
  Requests = {r1, r2, r3}
  BufferSize = 1
  BatchSize = 2
CHECK_DEADLOCK FALSE
SPECIFICATION Spec
INVARIANTS TypeOK Accounted CleanStopLosesNothing StoreOutlivesWriter
PROPERTIES RecordsSettle SignalStops ImplementsAuditLog
