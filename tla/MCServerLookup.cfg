\* Two requests for two profiles, room for one in each map.
CONSTANTS
  r1 = r1
  r2 = r2
  a = a
  b = b
  Requests = {r1, r2}
  Ids = {a, b}
  CacheTTL = 2
  NegativeTTL = 1
  MaxEntries = 1
SPECIFICATION Spec
INVARIANTS TypeOK SizesBounded OneRetrievalPerId
PROPERTIES FreshProfilesStay MissingIsCurrent EveryRequestAnswered
