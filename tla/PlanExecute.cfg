\* Plans of up to two todos, their contents alike; one retry of the planner; a
\* step cut short and a crash.
SPECIFICATION FairSpec
CONSTANTS
  NoTodo = NoTodo
  Todos = {a}
  MaxPlan = 2
  MaxReplan = 1
  PlannerRetries = 1
  MaxStep = 5
  MaxResets = 2
  MaxCuts = 1
  MaxCrashes = 1
INVARIANTS
  TypeOK
  ExecAtFirstPending
  DurableAtBoundary
  UnbrokenRunCompletes
  EndIsAnnounced
PROPERTIES
  ChildNotRevived
  RunEnds
  LifecycleSpec
CHECK_DEADLOCK FALSE
