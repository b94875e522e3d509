\* Three requests with three sessions, room for the marks of two.
CONSTANTS
  r1 = r1
  r2 = r2
  r3 = r3
  s = s
  t = t
  u = u
  Requests = {r1, r2, r3}
  Sessions = {s, t, u}
  MarkTTL = 1
  MaxMarks = 2
SYMMETRY Symmetry
SPECIFICATION Spec
INVARIANTS TypeOK InvalidOnlyIfRejected
PROPERTIES MarksLast OnlyStragglersReachLinkedIn
