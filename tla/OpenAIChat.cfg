\* Two keys, three attempts, conversations of up to three messages.  A call
\* that ended stays so: no deadlock check.
SPECIFICATION FairChatSpec
CONSTANTS
  ApiKeys = {k1, k2}
  NoKey = nokey
  MaxRetries = 3
  MaxContext = 3
INVARIANTS RequestHeedsErrors
PROPERTIES ChatEnds
CHECK_DEADLOCK FALSE
