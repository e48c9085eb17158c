\* One skill, two plans of which one is open and escaping, two plugin objects
\* of one name.  A session may stop: no deadlock check.
SPECIFICATION Spec
CONSTANTS
  SkillNames = {a}
  PluginNames = {p}
  NoName = noname
  Instances = {1, 2}
  NoInstance = 0
  PluginTasks = {1, 2}
  Plans = {finished, unfinished}
  Open = {unfinished}
  Escaping = {unfinished}
  NoPlan = noplan
  MaxReminders = 1
  MaxOutside = 3
INVARIANTS TypeOK CacheIsFresh PluginsAgree PromptIsCurrent
CHECK_DEADLOCK FALSE
