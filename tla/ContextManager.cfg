\* Conversations of up to six messages under every configuration of small
\* limits, and answers of up to three content blocks.  A conversation may stop: no deadlock check.
SPECIFICATION Spec
CONSTANTS
  EnforceMaxTurns = {nolimit, 0, 1}
  NoLimit = nolimit
  TruncateTurns = {0, 1}
  Compressors = {"turns", "summary"}
  MaxBlocks = 3
  MaxMessages = 6
INVARIANTS WellFormed ProviderAccepts StreamedAsWhole
PROPERTIES SystemKept
CHECK_DEADLOCK FALSE
