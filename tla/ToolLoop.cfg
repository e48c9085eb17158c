\* A regular tool, one that may finish silently and an invented name; two
\* calls in a batch, a step before the forced one, a drive that can be resumed.
\* No symmetry: the run checks liveness too.
SPECIFICATION FairSpec
CONSTANTS
  Tools = {t1, t2}
  SilentTools = {t2}
  Ghosts = {ghost}
  Tickets = {f1, f2}
  Streaming = TRUE
  MaxStep = 2
  MaxBatch = 2
  MaxResults = 2
  MaxDrives = 2
INVARIANTS
  TypeOK
  NoTicketStranded
  ConsumedIsDelivered
  EndIsConsistent
  EveryCallAnswered
PROPERTIES
  DriveReturns
  LifecycleSpec
CHECK_DEADLOCK FALSE
