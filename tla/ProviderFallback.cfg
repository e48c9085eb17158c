\* The provider, a fallback with its name or another one, one more; up to two
\* fallbacks, one retry, and a second call after a fallback has taken over.
\* No symmetry: the run checks liveness too.
SPECIFICATION FairSpec
CONSTANTS
  Providers = {p1, p2, p3}
  Primary = p1
  Ids = {a, b}
  NoId = NoId
  Streaming = TRUE
  Attempts = 2
  MaxFallbacks = 2
  MaxCalls = 2
INVARIANTS
  TypeOK
  EveryCandidateFailed
PROPERTIES
  NoReturnToPrimary
  CallEnds
  LlmCallSpec
CHECK_DEADLOCK FALSE
