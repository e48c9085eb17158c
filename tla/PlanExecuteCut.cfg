\* The default cap of two replans and two crashes; no step is cut short.
SPECIFICATION Spec
CONSTANTS
  NoTodo = NoTodo
  Todos = {a}
  MaxPlan = 2
  MaxReplan = 2
  PlannerRetries = 1
  MaxStep = 6
  MaxResets = 3
  MaxCuts = 0
  MaxCrashes = 2
INVARIANT NeverCutShort
CHECK_DEADLOCK FALSE
