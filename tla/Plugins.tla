------------------------------ MODULE Plugins ------------------------------
(***************************************************************************)
(* PluginManager (extensions/plugins/manager.py): tasks of the host that   *)
(* register, unload and reload plugins, with the awaits of initialize and  *)
(* terminate between the changes to the manager's and the registry's       *)
(* tables.  A plugin's contribution is the plugin itself; the order of the *)
(* contributions, directories and metadata are abstracted.                 *)
(***************************************************************************)
EXTENDS Integers

CONSTANTS
  PluginNames,
  NoName,      \* of a task that has none
  Instances,   \* Plugin objects, numbered as they are created
  NoInstance,
  PluginTasks  \* the host's operations, a task each

ASSUME PluginsAssumption == Instances \subseteq Nat /\ NoInstance \notin Instances

VARIABLES
  plugins,        \* PluginManager._plugins
  contributions,  \* PluginManager.contributions
  registry,       \* PluginRegistry._instances
  life,           \* what was called on each instance last, and its metadata.activated
  pluginTask,     \* the host's operations
  clashed         \* names registered while in use, or whose operation was cancelled

pluginVars == <<plugins, contributions, registry, life, pluginTask, clashed>>

NotStarted == [pc |-> "idle", name |-> NoName, instance |-> NoInstance, then |-> "over"]
Underway(n) == {t \in PluginTasks : pluginTask[t].pc \in {"initialize", "terminate"} /\ pluginTask[t].name = n}

PluginsInit ==
  /\ plugins = [n \in PluginNames |-> NoInstance]
  /\ contributions = {}
  /\ registry = [n \in PluginNames |-> NoInstance]
  /\ life = [i \in Instances |-> "none"]
  /\ pluginTask = [t \in PluginTasks |-> NotStarted]
  /\ clashed = {}

PluginTaskEnds(t) == pluginTask' = [pluginTask EXCEPT ![t] = [NotStarted EXCEPT !.pc = "over"]]

\* A new instance is initialised; nothing is recorded yet.
IsNext(i) == life[i] = "none" /\ \A j \in Instances : j < i => life[j] # "none"

Initializing(t, n, i) ==
  pluginTask' = [pluginTask EXCEPT ![t] =
    [pc |-> "initialize", name |-> n, instance |-> i, then |-> "over"]]

Register(t, n) ==
  /\ pluginTask[t].pc = "idle"
  /\ \E i \in Instances :
       /\ IsNext(i)
       /\ life' = [life EXCEPT ![i] = "initializing"]
       /\ Initializing(t, n, i)
  /\ clashed' = IF plugins[n] # NoInstance \/ Underway(n) # {} THEN clashed \cup {n} ELSE clashed
  /\ UNCHANGED <<plugins, contributions, registry>>

\* An instance of the same name that was registered before is forgotten, its
\* contribution is not.
Activate(t) ==
  LET n == pluginTask[t].name
      i == pluginTask[t].instance
  IN
  /\ pluginTask[t].pc = "initialize"
  /\ life' = [life EXCEPT ![i] = "active"]
  /\ contributions' = contributions \cup {i}
  /\ plugins' = [plugins EXCEPT ![n] = i]
  /\ registry' = [registry EXCEPT ![n] = i]
  /\ PluginTaskEnds(t)
  /\ UNCHANGED clashed

\* initialize raises, or the plugin is activated and a tool of it has a
\* malformed docstring: in both cases nothing is recorded or terminated.
ActivateFails(t) ==
  /\ pluginTask[t].pc = "initialize"
  /\ \E how \in {"failed", "active"} : life' = [life EXCEPT ![pluginTask[t].instance] = how]
  /\ PluginTaskEnds(t)
  /\ UNCHANGED <<plugins, contributions, registry, clashed>>

\* unload, and reload up to the end of terminate: an unknown name is left.
Unload(t, n, next) ==
  /\ pluginTask[t].pc = "idle"
  /\ IF plugins[n] = NoInstance
     THEN /\ PluginTaskEnds(t)
          /\ UNCHANGED <<plugins, life>>
     ELSE /\ plugins' = [plugins EXCEPT ![n] = NoInstance]
          /\ life' = [life EXCEPT ![plugins[n]] = "terminating"]
          /\ pluginTask' = [pluginTask EXCEPT ![t] =
               [pc |-> "terminate", name |-> n, instance |-> plugins[n], then |-> next]]
  /\ UNCHANGED <<contributions, registry, clashed>>

\* What terminate raises is only logged.  A reload goes on to register, and
\* loses a plugin whose metadata had been given and is not given again.
Leave(t, n) ==
  LET terminated == [life EXCEPT ![pluginTask[t].instance] = "terminated"] IN
  \/ /\ life' = terminated
     /\ PluginTaskEnds(t)
  \/ /\ pluginTask[t].then = "register"
     /\ \E j \in Instances :
          /\ IsNext(j)
          /\ life' = [terminated EXCEPT ![j] = "initializing"]
          /\ Initializing(t, n, j)

\* Mutant: the registry keeps the plugin.
TerminatedStillRegistered(t) ==
  LET n == pluginTask[t].name IN
  /\ pluginTask[t].pc = "terminate"
  /\ Leave(t, n)
  /\ contributions' = contributions \ {pluginTask[t].instance}
  /\ UNCHANGED <<plugins, registry, clashed>>

\* The contribution of the instance goes, and whatever the registry has under
\* its name by now.
Terminated(t) ==
  LET n == pluginTask[t].name IN
  /\ pluginTask[t].pc = "terminate"
  /\ Leave(t, n)
  /\ contributions' = contributions \ {pluginTask[t].instance}
  /\ registry' = [registry EXCEPT ![n] = NoInstance]
  /\ UNCHANGED <<plugins, clashed>>

\* A cancellation is no Exception: the tables stay as they are.
CancelPluginTask(t) ==
  /\ pluginTask[t].pc \in {"initialize", "terminate"}
  /\ PluginTaskEnds(t)
  /\ clashed' = clashed \cup {pluginTask[t].name}
  /\ UNCHANGED <<plugins, contributions, registry, life>>

PluginTaskRuns(t) == Activate(t) \/ ActivateFails(t) \/ Terminated(t)

HostAsksForPlugin(t) ==
  \/ \E n \in PluginNames : Register(t, n)
  \/ \E n \in PluginNames, next \in {"over", "register"} : Unload(t, n, next)
  \/ CancelPluginTask(t)

-----------------------------------------------------------------------------

PluginsTypeOK ==
  /\ plugins \in [PluginNames -> Instances \cup {NoInstance}]
  /\ contributions \in SUBSET Instances
  /\ registry \in [PluginNames -> Instances \cup {NoInstance}]
  /\ life \in [Instances -> {"none", "initializing", "active", "failed", "terminating", "terminated"}]
  /\ pluginTask \in [PluginTasks ->
       [pc: {"idle", "initialize", "terminate", "over"}, name: PluginNames \cup {NoName},
        instance: Instances \cup {NoInstance}, then: {"over", "register"}]]
  /\ clashed \in SUBSET PluginNames

(***************************************************************************)
(* A name registered only when it was free, and whose operations were not  *)
(* cancelled, is in the manager's table and in the registry under one      *)
(* instance, which is initialised, not terminated and contributes; between *)
(* the start and the end of its unload the registry still has it.          *)
(***************************************************************************)
PluginsAgree ==
  \A n \in PluginNames \ clashed :
    LET i == registry[n]
        leaving == \E t \in PluginTasks :
          pluginTask[t].pc = "terminate" /\ pluginTask[t].instance = i
    IN
    /\ plugins[n] = IF leaving THEN NoInstance ELSE i
    /\ i # NoInstance =>
         /\ i \in contributions
         /\ life[i] = IF leaving THEN "terminating" ELSE "active"
=============================================================================
