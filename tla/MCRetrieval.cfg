\* Backoffs of 1 and 2 ticks fit the deadline of 3; one of 8 and its double
\* would not fit a duration.
CONSTANTS
  r1 = r1
  r2 = r2
  NoDocument = NoDocument
  Malformed = Malformed
  NoProfile = NoProfile
  Requests = {r1, r2}
  Configs <- MCConfigs
  MaxConcurrency = 2
  EnrichSlots = 2
  Statuses = {401, 302, 404, 429, 500, 999}
  CoreDocs <- MCCoreDocs
  SectionDocs <- MCSectionDocs
  RetryBackoff = 1
  Timeout = 3
  MaxDuration = 8
SPECIFICATION Spec
CHECK_DEADLOCK FALSE
INVARIANTS TypeOK SlotsAccounted VerdictsFinal SectionsTruthful BackoffPositive
PROPERTIES EveryRequestReturns
