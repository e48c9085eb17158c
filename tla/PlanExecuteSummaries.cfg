\* One run that nothing interrupts.
SPECIFICATION Spec
CONSTANTS
  NoTodo = NoTodo
  Todos = {a, b}
  MaxPlan = 2
  MaxReplan = 2
  PlannerRetries = 1
  MaxStep = 5
  MaxResets = 1
  MaxCuts = 0
  MaxCrashes = 0
INVARIANT SummariesMatchTodos
CHECK_DEADLOCK FALSE
