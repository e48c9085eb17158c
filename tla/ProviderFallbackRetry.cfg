\* One candidate is enough: it streams, fails with an empty output and is
\* asked again.
SPECIFICATION Spec
CONSTANTS
  Providers = {p1}
  Primary = p1
  Ids = {a, b}
  NoId = NoId
  Streaming = TRUE
  Attempts = 2
  MaxFallbacks = 0
  MaxCalls = 1
PROPERTY NoRetryAfterOutput
CHECK_DEADLOCK FALSE
