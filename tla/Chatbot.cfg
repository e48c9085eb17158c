\* Three requests of two sessions, and an MCP server that may have a tool with
\* the name of a local one.  The server may stop: no deadlock check.
SPECIFICATION Spec
CONSTANTS
  Sessions = {s1, s2}
  Turns = 3
  Served = {"search", "calculate"}
  MaxSteps = 2
  MaxReminders = 1
INVARIANTS TypeOK HistoryKept ToolsAgree
SYMMETRY Symmetry
CHECK_DEADLOCK FALSE
