-------------------------- MODULE LocalAgentProofs --------------------------
(***************************************************************************)
(* Theorems about LocalAgent, and through it about Skills and Plugins, for *)
(* any skills, plugins, plans and interventions.                           *)
(***************************************************************************)
EXTENDS LocalAgent, TLAPS

PluginTaskRecord ==
  [pc: {"idle", "initialize", "terminate", "over"}, name: PluginNames \cup {NoName},
   instance: Instances \cup {NoInstance}, then: {"over", "register"}]

PluginsDataOK ==
  /\ plugins \in [PluginNames -> Instances \cup {NoInstance}]
  /\ contributions \in SUBSET Instances
  /\ registry \in [PluginNames -> Instances \cup {NoInstance}]
  /\ life \in [Instances -> {"none", "initializing", "active", "failed", "terminating", "terminated"}]
  /\ pluginTask \in [PluginTasks -> PluginTaskRecord]
  /\ clashed \in SUBSET PluginNames

Working(t) == pluginTask[t].pc \in {"initialize", "terminate"}

(* A task works on an instance of its own that no name stands for.         *)
TasksOwn ==
  \A t \in PluginTasks : Working(t) =>
    /\ pluginTask[t].name \in PluginNames
    /\ pluginTask[t].instance \in Instances
    /\ life[pluginTask[t].instance] =
         IF pluginTask[t].pc = "initialize" THEN "initializing" ELSE "terminating"
    /\ \A n \in PluginNames : plugins[n] # pluginTask[t].instance
    /\ \A u \in PluginTasks :
         Working(u) /\ pluginTask[u].instance = pluginTask[t].instance => u = t

(* A registered instance is active, contributes and has one name.          *)
NamesOwn ==
  \A n \in PluginNames : plugins[n] # NoInstance =>
    /\ life[plugins[n]] = "active"
    /\ plugins[n] \in contributions
    /\ \A m \in PluginNames : plugins[m] = plugins[n] => m = n

(* A name that was registered only when free has one operation at a time,  *)
(* and the registry follows it.                                            *)
NamesFollowed ==
  \A n \in PluginNames \ clashed :
    /\ \A t \in PluginTasks : Working(t) /\ pluginTask[t].name = n =>
         /\ plugins[n] = NoInstance
         /\ registry[n] = IF pluginTask[t].pc = "terminate" THEN pluginTask[t].instance ELSE NoInstance
         /\ pluginTask[t].pc = "terminate" => pluginTask[t].instance \in contributions
         /\ \A u \in PluginTasks : Working(u) /\ pluginTask[u].name = n => u = t
    /\ (\A t \in PluginTasks : Working(t) => pluginTask[t].name # n) => registry[n] = plugins[n]

PluginsInv ==
  /\ PluginsDataOK
  /\ TasksOwn
  /\ NamesOwn
  /\ NamesFollowed

Keys == [Parts -> Nat \cup {-1}]

(* Under a key that is current, what was read or found is what is there,   *)
(* but for what was written unseen; times never go back, so a key that is  *)
(* current was current all along.                                          *)
SkillsInv ==
  /\ SkillsTypeOK
  /\ \A part \in Parts : cache.key[part] <= mtime[part] /\ reading.key[part] <= mtime[part]
  /\ cache.key = mtime =>
       /\ \A r \in Roots \ unseen : cache.found[r] \subseteq dirs[r]
       /\ "cfg" \notin unseen => cache.disabled = disabled
  /\ reading.key = mtime => ("cfg" \notin unseen => reading.disabled = disabled)

Segments == [inventory: SUBSET SkillNames, plan: Plans \cup {NoPlan}]

SessionDataOK ==
  /\ system \in Seq(Segments)
  /\ store \in Plans \cup {NoPlan}
  /\ reminders \in 0..MaxReminders
  /\ layers \in SUBSET Instances
  /\ pc \in {"assemble", "skills", "scan", "plugins", "plan", "ask", "veto", "over"}
  /\ hook \in SUBSET layers
  /\ pc = "assemble" => hook = {}
  /\ told \in [inventory: SUBSET SkillNames, read: {"nothing", "skills"}, plan: Plans \cup {NoPlan, Failed}]
  /\ outside \in 0..MaxOutside

FlagOK == inserted \in BOOLEAN

(* What the hooks called so far have made of the system messages.          *)
Inventoried ==
  told.read = "skills" /\ told.inventory \cap Escaping = {} =>
    /\ \E k \in DOMAIN system : system[k].inventory = told.inventory
    /\ ~inserted => system[1].inventory = told.inventory

Planned ==
  told.plan \notin Escaping \cup {Failed} => system # <<>> /\ system[1].plan = told.plan

PromptInv ==
  /\ ~inserted => Len(system) <= 1
  /\ pc \in {"plugins", "plan", "ask"} => Inventoried
  /\ pc = "ask" => Planned
  /\ pc \in {"assemble", "skills", "scan", "veto", "over"} => told = Untold

AgentInv ==
  /\ PluginsInv
  /\ SkillsInv
  /\ SessionDataOK
  /\ FlagOK
  /\ PromptInv

-----------------------------------------------------------------------------
LEMMA InitInv == Init => AgentInv
  <1> SUFFICES ASSUME Init PROVE AgentInv
    OBVIOUS
  <1> USE PluginsAssumption, LocalAgentAssumption DEF Init
  <1>1. PluginsInv
    BY DEF PluginsInit, PluginsInv, PluginsDataOK, PluginTaskRecord, TasksOwn, NamesOwn,
           NamesFollowed, Working, NotStarted
  <1>2. SkillsInv
    BY DEF SkillsInit, SkillsInv, SkillsTypeOK, Parts, Roots, Never, NoCache, NothingRead
  <1>3. SessionDataOK
    <2>1. Empty \in Segments
      BY DEF Segments, Empty
    <2>2. system \in Seq(Segments)
      <3>1. <<>> \in Seq(Segments) /\ <<Empty>> \in Seq(Segments)
        BY <2>1
      <3> QED BY <3>1
    <2> QED BY <2>2 DEF SessionDataOK, Untold
  <1>4. FlagOK
    BY DEF FlagOK
  <1>5. PromptInv
    BY DEF PromptInv, Untold
  <1> QED BY <1>1, <1>2, <1>3, <1>4, <1>5 DEF AgentInv

-----------------------------------------------------------------------------
(* Plugins.                                                                *)

(* A task that is over or has not begun.                                   *)
LEMMA Over ==
  LET o == [NotStarted EXCEPT !.pc = "over"] IN o \in PluginTaskRecord /\ o.pc = "over"
  BY DEF NotStarted, PluginTaskRecord

(* A task ends, leaving the tables of a name alone or to a clash.          *)
LEMMA EndStep ==
  ASSUME PluginsInv, NEW t \in PluginTasks, PluginTaskEnds(t)
  PROVE  /\ pluginTask' \in [PluginTasks -> PluginTaskRecord]
         /\ ~Working(t)'
         /\ \A u \in PluginTasks : u # t => pluginTask'[u] = pluginTask[u] /\ (Working(u)' <=> Working(u))
         /\ \A u \in PluginTasks : Working(u)' => u # t /\ Working(u) /\ pluginTask'[u] = pluginTask[u]
  BY Over DEF PluginsInv, PluginsDataOK, PluginTaskEnds, Working

(* A task begins to initialise a new instance, all others going on.        *)
LEMMA BeginStep ==
  ASSUME PluginsInv, NEW t \in PluginTasks, NEW n \in PluginNames, NEW i \in Instances,
         Initializing(t, n, i)
  PROVE  /\ pluginTask' \in [PluginTasks -> PluginTaskRecord]
         /\ Working(t)' /\ pluginTask'[t].pc = "initialize"
         /\ pluginTask'[t].name = n /\ pluginTask'[t].instance = i
         /\ \A u \in PluginTasks : u # t => pluginTask'[u] = pluginTask[u] /\ (Working(u)' <=> Working(u))
  BY DEF PluginsInv, PluginsDataOK, PluginTaskRecord, Initializing, Working

LEMMA RegisterStep ==
  ASSUME PluginsInv, NEW t \in PluginTasks, NEW n \in PluginNames, Register(t, n)
  PROVE  PluginsInv'
  <1> USE PluginsAssumption
  <1>1. PICK i \in Instances :
          /\ life[i] = "none"
          /\ life' = [life EXCEPT ![i] = "initializing"]
          /\ Initializing(t, n, i)
    BY DEF Register, IsNext
  <1>2. /\ ~Working(t)
        /\ UNCHANGED <<plugins, contributions, registry>>
        /\ clashed' = IF plugins[n] # NoInstance \/ Underway(n) # {} THEN clashed \cup {n} ELSE clashed
    BY DEF Register, Working
  <1>3. PluginsDataOK /\ TasksOwn /\ NamesOwn /\ NamesFollowed
    BY DEF PluginsInv
  <1>4. /\ pluginTask' \in [PluginTasks -> PluginTaskRecord]
        /\ Working(t)' /\ pluginTask'[t].pc = "initialize"
        /\ pluginTask'[t].name = n /\ pluginTask'[t].instance = i
        /\ \A u \in PluginTasks : u # t => pluginTask'[u] = pluginTask[u] /\ (Working(u)' <=> Working(u))
    BY <1>1, BeginStep
  <1>5. PluginsDataOK'
    BY <1>1, <1>2, <1>3, <1>4 DEF PluginsDataOK
  <1>6. \A j \in Instances : life'[j] = IF j = i THEN "initializing" ELSE life[j]
    BY <1>1, <1>3 DEF PluginsDataOK
  <1>7. \A u \in PluginTasks : Working(u) => pluginTask[u].instance # i
    BY <1>1, <1>3 DEF TasksOwn
  <1>8. \A m \in PluginNames : plugins[m] # i
    BY <1>1, <1>3 DEF NamesOwn
  <1>9. TasksOwn'
    <2> SUFFICES ASSUME NEW u \in PluginTasks, Working(u)'
                 PROVE  /\ pluginTask'[u].name \in PluginNames
                        /\ pluginTask'[u].instance \in Instances
                        /\ life'[pluginTask'[u].instance] =
                             IF pluginTask'[u].pc = "initialize" THEN "initializing" ELSE "terminating"
                        /\ \A m \in PluginNames : plugins'[m] # pluginTask'[u].instance
                        /\ \A v \in PluginTasks :
                             Working(v)' /\ pluginTask'[v].instance = pluginTask'[u].instance => v = u
      BY DEF TasksOwn
    <2>1. CASE u = t
      BY <1>2, <1>4, <1>6, <1>7, <1>8, <2>1
    <2>2. CASE u # t
      <3>1. Working(u) /\ pluginTask'[u] = pluginTask[u]
        BY <1>4, <2>2
      <3>2. /\ pluginTask[u].name \in PluginNames
            /\ pluginTask[u].instance \in Instances \ {i}
            /\ life[pluginTask[u].instance] =
                 IF pluginTask[u].pc = "initialize" THEN "initializing" ELSE "terminating"
            /\ \A m \in PluginNames : plugins[m] # pluginTask[u].instance
            /\ \A v \in PluginTasks :
                 Working(v) /\ pluginTask[v].instance = pluginTask[u].instance => v = u
        BY <1>3, <1>7, <3>1 DEF TasksOwn
      <3>3. \A v \in PluginTasks : Working(v)' /\ pluginTask'[v].instance = pluginTask[u].instance =>
              Working(v) /\ pluginTask'[v] = pluginTask[v]
        BY <1>4, <3>2
      <3>4. /\ life'[pluginTask[u].instance] = life[pluginTask[u].instance]
            /\ \A m \in PluginNames : plugins'[m] # pluginTask[u].instance
        BY <1>2, <1>6, <3>2
      <3>5. ASSUME NEW v \in PluginTasks, Working(v)',
                   pluginTask'[v].instance = pluginTask[u].instance
            PROVE  v = u
        <4>1. Working(v) /\ pluginTask[v].instance = pluginTask[u].instance
          BY <3>3, <3>5
        <4> QED BY <3>2, <4>1
      <3> QED BY <3>1, <3>2, <3>4, <3>5
    <2> QED BY <2>1, <2>2
  <1>10. NamesOwn'
    BY <1>2, <1>3, <1>6, <1>8, <1>5 DEF NamesOwn, PluginsDataOK
  <1>11. NamesFollowed'
    <2> SUFFICES ASSUME NEW m \in PluginNames \ clashed'
                 PROVE  /\ \A u \in PluginTasks : Working(u)' /\ pluginTask'[u].name = m =>
                             /\ plugins'[m] = NoInstance
                             /\ registry'[m] = IF pluginTask'[u].pc = "terminate" THEN pluginTask'[u].instance ELSE NoInstance
                             /\ pluginTask'[u].pc = "terminate" => pluginTask'[u].instance \in contributions'
                             /\ \A v \in PluginTasks : Working(v)' /\ pluginTask'[v].name = m => v = u
                        /\ (\A u \in PluginTasks : Working(u)' => pluginTask'[u].name # m) => registry'[m] = plugins'[m]
      BY DEF NamesFollowed
    <2>1. m \in PluginNames \ clashed
      BY <1>2
    <2>2. CASE m = n
      <3>1. plugins[n] = NoInstance /\ Underway(n) = {}
        BY <1>2, <2>2
      <3>2. \A u \in PluginTasks : ~(Working(u) /\ pluginTask[u].name = n)
        BY <3>1 DEF Underway, Working
      <3>3. registry[n] = NoInstance
        BY <1>3, <2>1, <2>2, <3>1, <3>2 DEF NamesFollowed
      <3> QED BY <1>2, <1>4, <2>2, <3>1, <3>2, <3>3
    <2>3. CASE m # n
      <3>1. \A u \in PluginTasks : Working(u)' /\ pluginTask'[u].name = m =>
              u # t /\ Working(u) /\ pluginTask'[u] = pluginTask[u] /\ pluginTask[u].name = m
        BY <1>4, <2>3
      <3>2. \A u \in PluginTasks : Working(u) => u # t /\ pluginTask'[u] = pluginTask[u] /\ Working(u)'
        BY <1>2, <1>4
      <3> QED BY <1>2, <1>3, <2>1, <3>1, <3>2 DEF NamesFollowed
    <2> QED BY <2>2, <2>3
  <1> QED BY <1>5, <1>9, <1>10, <1>11 DEF PluginsInv

LEMMA ActivateStep ==
  ASSUME PluginsInv, NEW t \in PluginTasks, Activate(t)
  PROVE  PluginsInv'
  <1> USE PluginsAssumption
  <1> DEFINE n == pluginTask[t].name
             i == pluginTask[t].instance
  <1>1. /\ pluginTask[t].pc = "initialize" /\ Working(t)
        /\ life' = [life EXCEPT ![i] = "active"]
        /\ contributions' = contributions \cup {i}
        /\ plugins' = [plugins EXCEPT ![n] = i]
        /\ registry' = [registry EXCEPT ![n] = i]
        /\ PluginTaskEnds(t)
        /\ clashed' = clashed
    BY DEF Activate, Working
  <1>2. PluginsDataOK /\ TasksOwn /\ NamesOwn /\ NamesFollowed
    BY DEF PluginsInv
  <1>3. /\ n \in PluginNames /\ i \in Instances
        /\ pluginTask[t].name = n /\ pluginTask[t].instance = i
        /\ \A m \in PluginNames : plugins[m] # i
        /\ \A u \in PluginTasks : Working(u) /\ pluginTask[u].instance = i => u = t
    BY <1>1, <1>2 DEF TasksOwn
  <1>4. /\ pluginTask' \in [PluginTasks -> PluginTaskRecord]
        /\ \A u \in PluginTasks : Working(u)' => u # t /\ Working(u) /\ pluginTask'[u] = pluginTask[u]
        /\ \A u \in PluginTasks : u # t => pluginTask'[u] = pluginTask[u] /\ (Working(u)' <=> Working(u))
    BY <1>1, EndStep
  <1> HIDE DEF n, i
  <1>5. PluginsDataOK'
    BY <1>1, <1>2, <1>3, <1>4 DEF PluginsDataOK
  <1>6. /\ \A j \in Instances : life'[j] = IF j = i THEN "active" ELSE life[j]
        /\ \A m \in PluginNames : plugins'[m] = IF m = n THEN i ELSE plugins[m]
        /\ \A m \in PluginNames : registry'[m] = IF m = n THEN i ELSE registry[m]
    BY <1>1, <1>2 DEF PluginsDataOK
  <1>7. TasksOwn'
    <2> SUFFICES ASSUME NEW u \in PluginTasks, Working(u)'
                 PROVE  /\ pluginTask'[u].name \in PluginNames
                        /\ pluginTask'[u].instance \in Instances
                        /\ life'[pluginTask'[u].instance] =
                             IF pluginTask'[u].pc = "initialize" THEN "initializing" ELSE "terminating"
                        /\ \A m \in PluginNames : plugins'[m] # pluginTask'[u].instance
                        /\ \A v \in PluginTasks :
                             Working(v)' /\ pluginTask'[v].instance = pluginTask'[u].instance => v = u
      BY DEF TasksOwn
    <2>1. u # t /\ Working(u) /\ pluginTask'[u] = pluginTask[u]
      BY <1>4
    <2>2. /\ pluginTask[u].name \in PluginNames
          /\ pluginTask[u].instance \in Instances \ {i}
          /\ life[pluginTask[u].instance] =
               IF pluginTask[u].pc = "initialize" THEN "initializing" ELSE "terminating"
          /\ \A m \in PluginNames : plugins[m] # pluginTask[u].instance
          /\ \A v \in PluginTasks :
               Working(v) /\ pluginTask[v].instance = pluginTask[u].instance => v = u
      BY <1>2, <1>3, <2>1 DEF TasksOwn
    <2>3. \A m \in PluginNames : plugins'[m] # pluginTask[u].instance
      BY <1>6, <2>2
    <2>4. ASSUME NEW v \in PluginTasks, Working(v)',
                 pluginTask'[v].instance = pluginTask'[u].instance
          PROVE  v = u
      <3>1. Working(v) /\ pluginTask'[v] = pluginTask[v]
        BY <1>4, <2>4
      <3>2. pluginTask[v].instance = pluginTask[u].instance
        BY <2>1, <2>4, <3>1
      <3> QED BY <2>2, <3>1, <3>2
    <2>5. life'[pluginTask'[u].instance] =
            IF pluginTask'[u].pc = "initialize" THEN "initializing" ELSE "terminating"
      <3>1. life'[pluginTask[u].instance] = life[pluginTask[u].instance]
        BY <1>6, <2>2
      <3> QED BY <2>1, <2>2, <3>1
    <2> QED BY <2>1, <2>2, <2>3, <2>4, <2>5
  <1>8. NamesOwn'
    <2> SUFFICES ASSUME NEW m \in PluginNames, plugins'[m] # NoInstance
                 PROVE  /\ life'[plugins'[m]] = "active"
                        /\ plugins'[m] \in contributions'
                        /\ \A q \in PluginNames : plugins'[q] = plugins'[m] => q = m
      BY DEF NamesOwn
    <2>1. CASE m = n
      <3>1. plugins'[m] = i /\ life'[i] = "active" /\ i \in contributions'
        BY <1>1, <1>3, <1>6, <2>1
      <3>2. ASSUME NEW q \in PluginNames, plugins'[q] = i PROVE q = m
        <4>1. plugins[q] # i
          BY <1>3
        <4> QED BY <1>6, <2>1, <3>2, <4>1
      <3> QED BY <3>1, <3>2
    <2>2. CASE m # n
      <3>1. plugins'[m] = plugins[m] /\ plugins[m] \in Instances \ {i}
        BY <1>2, <1>3, <1>6, <2>2 DEF PluginsDataOK
      <3>2. /\ life[plugins[m]] = "active" /\ plugins[m] \in contributions
            /\ \A q \in PluginNames : plugins[q] = plugins[m] => q = m
        BY <1>2, <3>1 DEF NamesOwn
      <3> QED BY <1>1, <1>6, <3>1, <3>2
    <2> QED BY <2>1, <2>2
  <1>9. NamesFollowed'
    <2> SUFFICES ASSUME NEW m \in PluginNames \ clashed
                 PROVE  /\ \A u \in PluginTasks : Working(u)' /\ pluginTask'[u].name = m =>
                             /\ plugins'[m] = NoInstance
                             /\ registry'[m] = IF pluginTask'[u].pc = "terminate" THEN pluginTask'[u].instance ELSE NoInstance
                             /\ pluginTask'[u].pc = "terminate" => pluginTask'[u].instance \in contributions'
                             /\ \A v \in PluginTasks : Working(v)' /\ pluginTask'[v].name = m => v = u
                        /\ (\A u \in PluginTasks : Working(u)' => pluginTask'[u].name # m) => registry'[m] = plugins'[m]
      BY <1>1 DEF NamesFollowed
    <2>1. CASE m = n
      <3>1. \A u \in PluginTasks : Working(u) /\ pluginTask[u].name = n => u = t
        BY <1>1, <1>2, <1>3, <2>1 DEF NamesFollowed
      <3>2. \A u \in PluginTasks : ~(Working(u)' /\ pluginTask'[u].name = m)
        BY <1>4, <2>1, <3>1
      <3> QED BY <1>6, <2>1, <3>2
    <2>2. CASE m # n
      <3>1. \A u \in PluginTasks : Working(u) /\ pluginTask[u].name = m =>
              u # t /\ Working(u)' /\ pluginTask'[u] = pluginTask[u]
        BY <1>3, <1>4, <2>2
      <3>2. plugins'[m] = plugins[m] /\ registry'[m] = registry[m] /\ contributions \subseteq contributions'
        BY <1>1, <1>6, <2>2
      <3> QED BY <1>2, <1>4, <3>1, <3>2 DEF NamesFollowed
    <2> QED BY <2>1, <2>2
  <1> QED BY <1>5, <1>7, <1>8, <1>9 DEF PluginsInv

LEMMA ActivateFailsStep ==
  ASSUME PluginsInv, NEW t \in PluginTasks, ActivateFails(t)
  PROVE  PluginsInv'
  <1> DEFINE n == pluginTask[t].name
             i == pluginTask[t].instance
  <1>1. /\ pluginTask[t].pc = "initialize" /\ Working(t)
        /\ \E how \in {"failed", "active"} : life' = [life EXCEPT ![i] = how]
        /\ PluginTaskEnds(t)
        /\ UNCHANGED <<plugins, contributions, registry, clashed>>
    BY DEF ActivateFails, Working
  <1>2. PluginsDataOK /\ TasksOwn /\ NamesOwn /\ NamesFollowed
    BY DEF PluginsInv
  <1>3. /\ n \in PluginNames /\ i \in Instances
        /\ pluginTask[t].name = n /\ pluginTask[t].instance = i
        /\ \A m \in PluginNames : plugins[m] # i
        /\ \A u \in PluginTasks : Working(u) /\ pluginTask[u].instance = i => u = t
    BY <1>1, <1>2 DEF TasksOwn
  <1>4. /\ pluginTask' \in [PluginTasks -> PluginTaskRecord]
        /\ \A u \in PluginTasks : Working(u)' => u # t /\ Working(u) /\ pluginTask'[u] = pluginTask[u]
        /\ \A u \in PluginTasks : u # t => pluginTask'[u] = pluginTask[u] /\ (Working(u)' <=> Working(u))
    BY <1>1, EndStep
  <1> HIDE DEF n, i
  <1>5. PluginsDataOK'
    BY <1>1, <1>2, <1>3, <1>4 DEF PluginsDataOK
  <1>6. \A j \in Instances : j # i => life'[j] = life[j]
    BY <1>1, <1>2 DEF PluginsDataOK
  <1>7. TasksOwn'
    <2> SUFFICES ASSUME NEW u \in PluginTasks, Working(u)'
                 PROVE  /\ pluginTask'[u].name \in PluginNames
                        /\ pluginTask'[u].instance \in Instances
                        /\ life'[pluginTask'[u].instance] =
                             IF pluginTask'[u].pc = "initialize" THEN "initializing" ELSE "terminating"
                        /\ \A m \in PluginNames : plugins'[m] # pluginTask'[u].instance
                        /\ \A v \in PluginTasks :
                             Working(v)' /\ pluginTask'[v].instance = pluginTask'[u].instance => v = u
      BY DEF TasksOwn
    <2>1. u # t /\ Working(u) /\ pluginTask'[u] = pluginTask[u]
      BY <1>4
    <2>2. /\ pluginTask[u].name \in PluginNames
          /\ pluginTask[u].instance \in Instances \ {i}
          /\ life[pluginTask[u].instance] =
               IF pluginTask[u].pc = "initialize" THEN "initializing" ELSE "terminating"
          /\ \A m \in PluginNames : plugins[m] # pluginTask[u].instance
          /\ \A v \in PluginTasks :
               Working(v) /\ pluginTask[v].instance = pluginTask[u].instance => v = u
      BY <1>2, <1>3, <2>1 DEF TasksOwn
    <2> QED BY <1>1, <1>4, <1>6, <2>1, <2>2
  <1>8. NamesOwn'
    BY <1>1, <1>2, <1>3, <1>6 DEF NamesOwn, PluginsDataOK
  <1>9. NamesFollowed'
    <2> SUFFICES ASSUME NEW m \in PluginNames \ clashed
                 PROVE  /\ \A u \in PluginTasks : Working(u)' /\ pluginTask'[u].name = m =>
                             /\ plugins'[m] = NoInstance
                             /\ registry'[m] = IF pluginTask'[u].pc = "terminate" THEN pluginTask'[u].instance ELSE NoInstance
                             /\ pluginTask'[u].pc = "terminate" => pluginTask'[u].instance \in contributions'
                             /\ \A v \in PluginTasks : Working(v)' /\ pluginTask'[v].name = m => v = u
                        /\ (\A u \in PluginTasks : Working(u)' => pluginTask'[u].name # m) => registry'[m] = plugins'[m]
      BY <1>1 DEF NamesFollowed
    <2>1. CASE m = n
      <3>1. /\ \A u \in PluginTasks : Working(u) /\ pluginTask[u].name = n => u = t
            /\ plugins[m] = NoInstance /\ registry[m] = NoInstance
        BY <1>1, <1>2, <1>3, <2>1 DEF NamesFollowed
      <3> QED BY <1>1, <1>4, <2>1, <3>1
    <2>2. CASE m # n
      <3>1. \A u \in PluginTasks : Working(u) /\ pluginTask[u].name = m =>
              u # t /\ Working(u)' /\ pluginTask'[u] = pluginTask[u]
        BY <1>3, <1>4, <2>2
      <3> QED BY <1>1, <1>2, <1>4, <3>1 DEF NamesFollowed
    <2> QED BY <2>1, <2>2
  <1> QED BY <1>5, <1>7, <1>8, <1>9 DEF PluginsInv

(* An unknown name is left; another gives its instance to the task.        *)
LEMMA UnloadStep ==
  ASSUME PluginsInv, NEW t \in PluginTasks, NEW n \in PluginNames, NEW next \in {"over", "register"},
         Unload(t, n, next)
  PROVE  PluginsInv'
  <1> USE PluginsAssumption
  <1>1. /\ pluginTask[t].pc = "idle" /\ ~Working(t)
        /\ UNCHANGED <<contributions, registry, clashed>>
    BY DEF Unload, Working
  <1>2. PluginsDataOK /\ TasksOwn /\ NamesOwn /\ NamesFollowed
    BY DEF PluginsInv
  <1>3. CASE plugins[n] = NoInstance
    <2>1. PluginTaskEnds(t) /\ UNCHANGED <<plugins, life>>
      BY <1>3 DEF Unload
    <2>2. /\ pluginTask' \in [PluginTasks -> PluginTaskRecord]
          /\ \A u \in PluginTasks : Working(u)' <=> Working(u)
          /\ \A u \in PluginTasks : Working(u) => pluginTask'[u] = pluginTask[u]
      BY <1>1, <2>1, EndStep
    <2>3. PluginsDataOK'
      BY <1>1, <1>2, <2>1, <2>2 DEF PluginsDataOK
    <2>4. TasksOwn' /\ NamesOwn'
      BY <1>1, <1>2, <2>1, <2>2 DEF TasksOwn, NamesOwn
    <2>5. NamesFollowed'
      BY <1>1, <1>2, <2>1, <2>2 DEF NamesFollowed
    <2> QED BY <2>3, <2>4, <2>5 DEF PluginsInv
  <1>4. CASE plugins[n] # NoInstance
    <2> DEFINE i == plugins[n]
               w == [pc |-> "terminate", name |-> n, instance |-> i, then |-> next]
    <2>1. /\ plugins' = [plugins EXCEPT ![n] = NoInstance]
          /\ life' = [life EXCEPT ![i] = "terminating"]
          /\ pluginTask' = [pluginTask EXCEPT ![t] = w]
      BY <1>4 DEF Unload
    <2>2. /\ i \in Instances /\ i \in contributions /\ life[i] = "active" /\ plugins[n] = i
          /\ \A m \in PluginNames : plugins[m] = i => m = n
      BY <1>2, <1>4 DEF NamesOwn, PluginsDataOK
    <2>3. /\ w \in PluginTaskRecord /\ w.pc = "terminate" /\ w.name = n /\ w.instance = i
      BY <2>2 DEF PluginTaskRecord
    <2> HIDE DEF i, w
    <2>4. /\ pluginTask' \in [PluginTasks -> PluginTaskRecord]
          /\ \A u \in PluginTasks : pluginTask'[u] = IF u = t THEN w ELSE pluginTask[u]
      BY <1>2, <2>1, <2>3 DEF PluginsDataOK
    <2>5. /\ Working(t)'
          /\ \A u \in PluginTasks : u # t => (Working(u)' <=> Working(u))
      BY <2>3, <2>4 DEF Working
    <2>6. PluginsDataOK'
      BY <1>1, <1>2, <2>1, <2>2, <2>4 DEF PluginsDataOK
    <2>7. /\ \A j \in Instances : life'[j] = IF j = i THEN "terminating" ELSE life[j]
          /\ \A m \in PluginNames : plugins'[m] = IF m = n THEN NoInstance ELSE plugins[m]
      BY <1>2, <2>1 DEF PluginsDataOK
    <2>8. \A u \in PluginTasks : Working(u) => u # t /\ pluginTask[u].instance # i
      BY <1>1, <1>2, <2>2 DEF TasksOwn
    <2>9. TasksOwn'
      <3> SUFFICES ASSUME NEW u \in PluginTasks, Working(u)'
                 PROVE  /\ pluginTask'[u].name \in PluginNames
                        /\ pluginTask'[u].instance \in Instances
                        /\ life'[pluginTask'[u].instance] =
                             IF pluginTask'[u].pc = "initialize" THEN "initializing" ELSE "terminating"
                        /\ \A m \in PluginNames : plugins'[m] # pluginTask'[u].instance
                        /\ \A v \in PluginTasks :
                             Working(v)' /\ pluginTask'[v].instance = pluginTask'[u].instance => v = u
      BY DEF TasksOwn
      <3>1. CASE u = t
        BY <2>2, <2>3, <2>4, <2>5, <2>7, <2>8, <3>1
      <3>2. CASE u # t
        <4>1. Working(u) /\ pluginTask'[u] = pluginTask[u]
          BY <2>4, <2>5, <3>2
        <4>2. /\ pluginTask[u].name \in PluginNames
              /\ pluginTask[u].instance \in Instances \ {i}
              /\ life[pluginTask[u].instance] =
                   IF pluginTask[u].pc = "initialize" THEN "initializing" ELSE "terminating"
              /\ \A m \in PluginNames : plugins[m] # pluginTask[u].instance
              /\ \A v \in PluginTasks :
                   Working(v) /\ pluginTask[v].instance = pluginTask[u].instance => v = u
          BY <1>2, <2>8, <4>1 DEF TasksOwn
        <4>3. \A m \in PluginNames : plugins'[m] # pluginTask[u].instance
          BY <2>7, <4>2
        <4>4. ASSUME NEW v \in PluginTasks, Working(v)',
                     pluginTask'[v].instance = pluginTask'[u].instance
              PROVE  v = u
          <5>1. v # t
            BY <2>3, <2>4, <4>1, <4>2, <4>4
          <5>2. Working(v) /\ pluginTask[v].instance = pluginTask[u].instance
            BY <2>4, <2>5, <4>1, <4>4, <5>1
          <5> QED BY <4>2, <5>2
        <4>5. life'[pluginTask'[u].instance] =
                IF pluginTask'[u].pc = "initialize" THEN "initializing" ELSE "terminating"
          <5>1. life'[pluginTask[u].instance] = life[pluginTask[u].instance]
            BY <2>7, <4>2
          <5> QED BY <4>1, <4>2, <5>1
        <4> QED BY <4>1, <4>2, <4>3, <4>4, <4>5
      <3> QED BY <3>1, <3>2
    <2>10. NamesOwn'
      <3> SUFFICES ASSUME NEW m \in PluginNames, plugins'[m] # NoInstance
                   PROVE  /\ life'[plugins'[m]] = "active"
                          /\ plugins'[m] \in contributions'
                          /\ \A q \in PluginNames : plugins'[q] = plugins'[m] => q = m
        BY DEF NamesOwn
      <3>1. m # n /\ plugins'[m] = plugins[m] /\ plugins[m] # NoInstance
        BY <2>7
      <3>2. /\ plugins[m] \in Instances /\ life[plugins[m]] = "active" /\ plugins[m] \in contributions
            /\ \A q \in PluginNames : plugins[q] = plugins[m] => q = m
        BY <1>2, <3>1 DEF NamesOwn, PluginsDataOK
      <3>3. plugins[m] # i
        BY <2>2, <3>1
      <3> QED BY <1>1, <2>7, <3>1, <3>2, <3>3
    <2>11. NamesFollowed'
      <3> SUFFICES ASSUME NEW m \in PluginNames \ clashed
                 PROVE  /\ \A u \in PluginTasks : Working(u)' /\ pluginTask'[u].name = m =>
                             /\ plugins'[m] = NoInstance
                             /\ registry'[m] = IF pluginTask'[u].pc = "terminate" THEN pluginTask'[u].instance ELSE NoInstance
                             /\ pluginTask'[u].pc = "terminate" => pluginTask'[u].instance \in contributions'
                             /\ \A v \in PluginTasks : Working(v)' /\ pluginTask'[v].name = m => v = u
                        /\ (\A u \in PluginTasks : Working(u)' => pluginTask'[u].name # m) => registry'[m] = plugins'[m]
        BY <1>1 DEF NamesFollowed
      <3>1. CASE m = n
        <4>1. \A u \in PluginTasks : Working(u) => pluginTask[u].name # n
          BY <1>2, <1>4, <3>1 DEF NamesFollowed
        <4>2. registry[n] = i
          BY <1>2, <2>2, <3>1, <4>1 DEF NamesFollowed
        <4>3. \A u \in PluginTasks : Working(u)' /\ pluginTask'[u].name = n => u = t
          BY <2>4, <2>5, <4>1
        <4> QED BY <1>1, <2>2, <2>3, <2>4, <2>5, <2>7, <3>1, <4>2, <4>3
      <3>2. CASE m # n
        <4>1. \A u \in PluginTasks : Working(u)' /\ pluginTask'[u].name = m =>
                u # t /\ Working(u) /\ pluginTask'[u] = pluginTask[u]
          BY <2>3, <2>4, <2>5, <3>2
        <4>2. \A u \in PluginTasks : Working(u) => u # t /\ Working(u)' /\ pluginTask'[u] = pluginTask[u]
          BY <2>4, <2>5, <2>8
        <4>3. plugins'[m] = plugins[m] /\ registry'[m] = registry[m] /\ contributions' = contributions
          BY <1>1, <2>7, <3>2
        <4> QED BY <1>2, <4>1, <4>2, <4>3 DEF NamesFollowed
      <3> QED BY <3>1, <3>2
    <2> QED BY <2>6, <2>9, <2>10, <2>11 DEF PluginsInv
  <1> QED BY <1>3, <1>4

(* The task leaves its instance: it is over, or works on a new one.        *)
LEMMA TerminatedPluginStep ==
  ASSUME PluginsInv, NEW t \in PluginTasks, Terminated(t)
  PROVE  PluginsInv'
  <1> USE PluginsAssumption
  <1> DEFINE n == pluginTask[t].name
             i == pluginTask[t].instance
  <1>1. /\ pluginTask[t].pc = "terminate" /\ Working(t)
        /\ Leave(t, n)
        /\ contributions' = contributions \ {i}
        /\ registry' = [registry EXCEPT ![n] = NoInstance]
        /\ UNCHANGED <<plugins, clashed>>
    BY DEF Terminated, Working
  <1>2. PluginsDataOK /\ TasksOwn /\ NamesOwn /\ NamesFollowed
    BY DEF PluginsInv
  <1>3. /\ n \in PluginNames /\ i \in Instances
        /\ pluginTask[t].name = n /\ pluginTask[t].instance = i
        /\ life[i] = "terminating"
        /\ \A m \in PluginNames : plugins[m] # i
        /\ \A u \in PluginTasks : Working(u) /\ pluginTask[u].instance = i => u = t
    BY <1>1, <1>2 DEF TasksOwn
  <1>4. PICK j \in Instances \cup {NoInstance} :
          /\ pluginTask' \in [PluginTasks -> PluginTaskRecord]
          /\ life' = IF j = NoInstance THEN [life EXCEPT ![i] = "terminated"]
                     ELSE [[life EXCEPT ![i] = "terminated"] EXCEPT ![j] = "initializing"]
          /\ j # NoInstance => life[j] = "none" /\ Working(t)' /\ pluginTask'[t].pc = "initialize"
                               /\ pluginTask'[t].name = n /\ pluginTask'[t].instance = j
          /\ j = NoInstance => ~Working(t)'
          /\ \A u \in PluginTasks : u # t => pluginTask'[u] = pluginTask[u] /\ (Working(u)' <=> Working(u))
    <2>1. CASE life' = [life EXCEPT ![i] = "terminated"] /\ PluginTaskEnds(t)
      BY <2>1, EndStep
    <2>2. CASE \E j \in Instances : /\ IsNext(j)
                                    /\ life' = [[life EXCEPT ![i] = "terminated"] EXCEPT ![j] = "initializing"]
                                    /\ Initializing(t, n, j)
      <3>1. PICK j \in Instances : /\ IsNext(j)
                                   /\ life' = [[life EXCEPT ![i] = "terminated"] EXCEPT ![j] = "initializing"]
                                   /\ Initializing(t, n, j)
        BY <2>2
      <3>2. /\ pluginTask' \in [PluginTasks -> PluginTaskRecord]
            /\ Working(t)' /\ pluginTask'[t].pc = "initialize"
            /\ pluginTask'[t].name = n /\ pluginTask'[t].instance = j
            /\ \A u \in PluginTasks : u # t => pluginTask'[u] = pluginTask[u] /\ (Working(u)' <=> Working(u))
        BY <1>3, <3>1, BeginStep
      <3>3. life[j] = "none"
        BY <3>1 DEF IsNext
      <3> HIDE DEF n, i
      <3> QED BY <3>1, <3>2, <3>3
    <2> QED BY <1>1, <2>1, <2>2 DEF Leave
  <1> HIDE DEF n, i
  <1>5. \A k \in Instances : life'[k] = IF k = j THEN "initializing"
                                        ELSE IF k = i THEN "terminated" ELSE life[k]
    BY <1>2, <1>3, <1>4 DEF PluginsDataOK
  <1>6. PluginsDataOK'
    <2>1. life' \in [Instances -> {"none", "initializing", "active", "failed", "terminating", "terminated"}]
      BY <1>2, <1>4 DEF PluginsDataOK
    <2> QED BY <1>1, <1>2, <1>3, <1>4, <2>1 DEF PluginsDataOK
  <1>7. j # i /\ \A m \in PluginNames : j # NoInstance => plugins[m] # j
    BY <1>2, <1>3, <1>4 DEF NamesOwn
  <1>8. \A u \in PluginTasks : Working(u) => pluginTask[u].instance # j
    BY <1>2, <1>4 DEF TasksOwn
  <1>9. TasksOwn'
    <2> SUFFICES ASSUME NEW u \in PluginTasks, Working(u)'
                 PROVE  /\ pluginTask'[u].name \in PluginNames
                        /\ pluginTask'[u].instance \in Instances
                        /\ life'[pluginTask'[u].instance] =
                             IF pluginTask'[u].pc = "initialize" THEN "initializing" ELSE "terminating"
                        /\ \A m \in PluginNames : plugins'[m] # pluginTask'[u].instance
                        /\ \A v \in PluginTasks :
                             Working(v)' /\ pluginTask'[v].instance = pluginTask'[u].instance => v = u
      BY DEF TasksOwn
    <2>1. CASE u = t
      <3>1. /\ j \in Instances
            /\ pluginTask'[u].pc = "initialize" /\ pluginTask'[u].name = n /\ pluginTask'[u].instance = j
        BY <1>4, <2>1
      <3>2. \A v \in PluginTasks : Working(v)' /\ pluginTask'[v].instance = j => v = t
        BY <1>4, <1>8
      <3>3. \A m \in PluginNames : plugins'[m] # j
        BY <1>1, <1>7, <3>1, PluginsAssumption
      <3> QED BY <1>3, <1>5, <2>1, <3>1, <3>2, <3>3
    <2>2. CASE u # t
      <3>1. Working(u) /\ pluginTask'[u] = pluginTask[u]
        BY <1>4, <2>2
      <3>2. /\ pluginTask[u].name \in PluginNames
            /\ pluginTask[u].instance \in Instances \ {i}
            /\ life[pluginTask[u].instance] =
                 IF pluginTask[u].pc = "initialize" THEN "initializing" ELSE "terminating"
            /\ \A m \in PluginNames : plugins[m] # pluginTask[u].instance
            /\ \A v \in PluginTasks :
                 Working(v) /\ pluginTask[v].instance = pluginTask[u].instance => v = u
        BY <1>2, <1>3, <2>2, <3>1 DEF TasksOwn
      <3>3. pluginTask[u].instance # j
        BY <1>8, <3>1
      <3>4. \A v \in PluginTasks : Working(v)' /\ pluginTask'[v].instance = pluginTask[u].instance => v = u
        BY <1>4, <3>2, <3>3
      <3> QED BY <1>1, <1>5, <3>1, <3>2, <3>3, <3>4
    <2> QED BY <2>1, <2>2
  <1>10. NamesOwn'
    <2>1. \A m \in PluginNames : plugins[m] # NoInstance => plugins[m] \in Instances \ {i, j}
      BY <1>2, <1>3, <1>7 DEF PluginsDataOK
    <2> QED BY <1>1, <1>2, <1>5, <2>1 DEF NamesOwn
  <1>11. NamesFollowed'
    <2> SUFFICES ASSUME NEW m \in PluginNames \ clashed
                 PROVE  /\ \A u \in PluginTasks : Working(u)' /\ pluginTask'[u].name = m =>
                             /\ plugins'[m] = NoInstance
                             /\ registry'[m] = IF pluginTask'[u].pc = "terminate" THEN pluginTask'[u].instance ELSE NoInstance
                             /\ pluginTask'[u].pc = "terminate" => pluginTask'[u].instance \in contributions'
                             /\ \A v \in PluginTasks : Working(v)' /\ pluginTask'[v].name = m => v = u
                        /\ (\A u \in PluginTasks : Working(u)' => pluginTask'[u].name # m) => registry'[m] = plugins'[m]
      BY <1>1 DEF NamesFollowed
    <2>1. \A q \in PluginNames : registry'[q] = IF q = n THEN NoInstance ELSE registry[q]
      BY <1>1, <1>2 DEF PluginsDataOK
    <2>2. CASE m = n
      <3>1. /\ \A u \in PluginTasks : Working(u) /\ pluginTask[u].name = n => u = t
            /\ plugins[m] = NoInstance
        BY <1>1, <1>2, <1>3, <2>2 DEF NamesFollowed
      <3>2. \A u \in PluginTasks : Working(u)' /\ pluginTask'[u].name = n => u = t /\ pluginTask'[u].pc = "initialize"
        BY <1>4, <3>1
      <3> QED BY <1>1, <2>1, <2>2, <3>1, <3>2
    <2>3. CASE m # n
      <3>1. \A u \in PluginTasks : Working(u)' /\ pluginTask'[u].name = m =>
              u # t /\ Working(u) /\ pluginTask'[u] = pluginTask[u] /\ pluginTask[u].name = m
        BY <1>4, <2>3
      <3>2. \A u \in PluginTasks : Working(u) /\ pluginTask[u].name = m =>
              u # t /\ Working(u)' /\ pluginTask'[u] = pluginTask[u] /\ pluginTask[u].instance # i
        BY <1>3, <1>4, <2>3
      <3>3. plugins'[m] = plugins[m] /\ registry'[m] = registry[m]
        BY <1>1, <2>1, <2>3
      <3> QED BY <1>1, <1>2, <3>1, <3>2, <3>3 DEF NamesFollowed
    <2> QED BY <2>2, <2>3
  <1> QED BY <1>6, <1>9, <1>10, <1>11 DEF PluginsInv

LEMMA CancelStep ==
  ASSUME PluginsInv, NEW t \in PluginTasks, CancelPluginTask(t)
  PROVE  PluginsInv'
  <1>1. /\ PluginTaskEnds(t) /\ Working(t)
        /\ clashed' = clashed \cup {pluginTask[t].name}
        /\ UNCHANGED <<plugins, contributions, registry, life>>
    BY DEF CancelPluginTask, Working
  <1>2. PluginsDataOK /\ TasksOwn /\ NamesOwn /\ NamesFollowed
    BY DEF PluginsInv
  <1>3. /\ pluginTask' \in [PluginTasks -> PluginTaskRecord]
        /\ \A u \in PluginTasks : Working(u)' => u # t /\ Working(u) /\ pluginTask'[u] = pluginTask[u]
        /\ \A u \in PluginTasks : u # t => pluginTask'[u] = pluginTask[u] /\ (Working(u)' <=> Working(u))
    BY <1>1, EndStep
  <1>4. pluginTask[t].name \in PluginNames
    BY <1>1, <1>2 DEF TasksOwn
  <1>5. PluginsDataOK'
    BY <1>1, <1>2, <1>3, <1>4 DEF PluginsDataOK
  <1>6. TasksOwn'
    BY <1>1, <1>2, <1>3 DEF TasksOwn
  <1>7. NamesOwn'
    BY <1>1, <1>2 DEF NamesOwn
  <1>8. NamesFollowed'
    <2> SUFFICES ASSUME NEW m \in PluginNames \ clashed'
                 PROVE  /\ \A u \in PluginTasks : Working(u)' /\ pluginTask'[u].name = m =>
                             /\ plugins'[m] = NoInstance
                             /\ registry'[m] = IF pluginTask'[u].pc = "terminate" THEN pluginTask'[u].instance ELSE NoInstance
                             /\ pluginTask'[u].pc = "terminate" => pluginTask'[u].instance \in contributions'
                             /\ \A v \in PluginTasks : Working(v)' /\ pluginTask'[v].name = m => v = u
                        /\ (\A u \in PluginTasks : Working(u)' => pluginTask'[u].name # m) => registry'[m] = plugins'[m]
      BY DEF NamesFollowed
    <2>1. m \in PluginNames \ clashed /\ m # pluginTask[t].name
      BY <1>1
    <2>2. \A u \in PluginTasks : Working(u) /\ pluginTask[u].name = m =>
            u # t /\ Working(u)' /\ pluginTask'[u] = pluginTask[u]
      BY <1>3, <2>1
    <2> QED BY <1>1, <1>2, <1>3, <2>1, <2>2 DEF NamesFollowed
  <1> QED BY <1>5, <1>6, <1>7, <1>8 DEF PluginsInv

LEMMA PluginsKept ==
  ASSUME PluginsInv, UNCHANGED pluginVars
  PROVE  PluginsInv'
  <1> USE DEF PluginsInv, pluginVars
  <1>1. PluginsDataOK'
    BY DEF PluginsDataOK
  <1>2. TasksOwn' /\ NamesOwn' /\ NamesFollowed'
    BY DEF TasksOwn, NamesOwn, NamesFollowed, Working
  <1> QED BY <1>1, <1>2

LEMMA PluginsStep ==
  ASSUME PluginsInv, NEW t \in PluginTasks, PluginTaskRuns(t) \/ HostAsksForPlugin(t)
  PROVE  PluginsInv'
  BY ActivateStep, ActivateFailsStep, TerminatedPluginStep, RegisterStep, UnloadStep, CancelStep
     DEF PluginTaskRuns, HostAsksForPlugin

(* The tables and the registry agree on every name that was not clashed.   *)
LEMMA PluginsInvAgree ==
  ASSUME PluginsInv
  PROVE  PluginsAgree
  <1> USE PluginsAssumption
  <1> SUFFICES ASSUME NEW n \in PluginNames \ clashed
               PROVE  LET i == registry[n]
                          leaving == \E t \in PluginTasks :
                            pluginTask[t].pc = "terminate" /\ pluginTask[t].instance = i
                      IN
                      /\ plugins[n] = IF leaving THEN NoInstance ELSE i
                      /\ i # NoInstance =>
                           /\ i \in contributions
                           /\ life[i] = IF leaving THEN "terminating" ELSE "active"
    BY DEF PluginsAgree
  <1> DEFINE i == registry[n]
             leaving == \E t \in PluginTasks : pluginTask[t].pc = "terminate" /\ pluginTask[t].instance = i
  <1>1. PluginsDataOK /\ TasksOwn /\ NamesOwn /\ NamesFollowed
    BY DEF PluginsInv
  <1>2. CASE \E t \in PluginTasks : Working(t) /\ pluginTask[t].name = n
    <2>1. PICK t \in PluginTasks : Working(t) /\ pluginTask[t].name = n
      BY <1>2
    <2>2. /\ plugins[n] = NoInstance
          /\ i = IF pluginTask[t].pc = "terminate" THEN pluginTask[t].instance ELSE NoInstance
          /\ pluginTask[t].pc = "terminate" => pluginTask[t].instance \in contributions
      BY <1>1, <2>1 DEF NamesFollowed
    <2>3. CASE pluginTask[t].pc = "terminate"
      <3>1. leaving /\ life[i] = "terminating"
        BY <1>1, <2>1, <2>2, <2>3 DEF TasksOwn
      <3> QED BY <2>2, <2>3, <3>1
    <2>4. CASE pluginTask[t].pc # "terminate"
      <3>1. i = NoInstance
        BY <2>2, <2>4
      <3> QED BY <2>2, <3>1
    <2> QED BY <2>3, <2>4
  <1>3. CASE \A t \in PluginTasks : Working(t) => pluginTask[t].name # n
    <2>1. plugins[n] = i
      BY <1>1, <1>3 DEF NamesFollowed
    <2>2. ~leaving
      BY <1>1, <2>1 DEF TasksOwn, Working
    <2>3. i # NoInstance => i \in contributions /\ life[i] = "active"
      BY <1>1, <2>1 DEF NamesOwn
    <2> QED BY <2>1, <2>2, <2>3
  <1> QED BY <1>2, <1>3

-----------------------------------------------------------------------------
(* Skills.                                                                 *)

(* What a write of the platform leaves of the invariant: it need only say  *)
(* that a part whose time stays keeps what is compared with it.            *)
LEMMA WriteStep ==
  ASSUME SkillsInv,
         dirs' \in [Roots -> SUBSET SkillNames],
         files' \in [Roots -> SUBSET SkillNames],
         \A r \in Roots : files'[r] \subseteq dirs'[r],
         disabled' \in SUBSET SkillNames,
         mtime' \in [Parts -> Nat],
         \A part \in Parts : mtime[part] <= mtime'[part],
         unseen' \in SUBSET Parts,
         mtime' = mtime => unseen \subseteq unseen',
         mtime' = mtime => \A r \in Roots \ unseen' : dirs'[r] = dirs[r],
         mtime' = mtime => ("cfg" \notin unseen' => disabled' = disabled),
         UNCHANGED <<cache, reading>>
  PROVE  SkillsInv'
  <1> USE DEF SkillsInv
  <1>1. /\ cache.key \in Keys /\ reading.key \in Keys
        /\ mtime \in [Parts -> Nat]
    BY DEF SkillsTypeOK, Keys
  <1>2. SkillsTypeOK'
    BY DEF SkillsTypeOK
  <1>3. \A part \in Parts : cache.key[part] <= mtime'[part] /\ reading.key[part] <= mtime'[part]
    BY <1>1 DEF Keys
  <1>4. ASSUME NEW key \in Keys, \A part \in Parts : key[part] <= mtime[part], key = mtime'
        PROVE  key = mtime /\ mtime' = mtime
    <2>1. \A part \in Parts : key[part] = mtime[part]
      BY <1>1, <1>4 DEF Keys
    <2> QED BY <1>1, <1>4, <2>1 DEF Keys
  <1>5. cache.key = mtime' => cache.key = mtime /\ mtime' = mtime
    BY <1>1, <1>4
  <1>6. reading.key = mtime' => reading.key = mtime /\ mtime' = mtime
    BY <1>1, <1>4
  <1>7. cache.key = mtime' =>
          /\ \A r \in Roots \ unseen' : cache.found[r] \subseteq dirs'[r]
          /\ "cfg" \notin unseen' => cache.disabled = disabled'
    BY <1>5
  <1>8. reading.key = mtime' => ("cfg" \notin unseen' => reading.disabled = disabled')
    BY <1>6
  <1> QED BY <1>2, <1>3, <1>7, <1>8

(* A write shows in its part's time or is one of the unseen.               *)
LEMMA TouchRaises ==
  ASSUME SkillsInv, NEW p \in Parts, Touch(p)
  PROVE  /\ mtime' \in [Parts -> Nat]
         /\ \A part \in Parts : mtime[part] <= mtime'[part]
         /\ unseen' \in SUBSET Parts
         /\ unseen \subseteq unseen'
         /\ mtime' = mtime => p \in unseen'
  <1>1. mtime \in [Parts -> Nat] /\ unseen \in SUBSET Parts
    BY DEF SkillsInv, SkillsTypeOK
  <1>2. CASE mtime' = [mtime EXCEPT ![p] = @ + 1] /\ UNCHANGED unseen
    <2>1. mtime' \in [Parts -> Nat] /\ \A part \in Parts : mtime[part] <= mtime'[part]
      BY <1>1, <1>2
    <2>2. mtime'[p] # mtime[p]
      BY <1>1, <1>2
    <2> QED BY <1>1, <1>2, <2>1, <2>2
  <1>3. CASE unseen' = unseen \cup {p} /\ UNCHANGED mtime
    BY <1>1, <1>3
  <1> QED BY <1>2, <1>3 DEF Touch

LEMMA PlatformStep ==
  ASSUME SkillsInv, Platform
  PROVE  SkillsInv'
  <1>1. UNCHANGED <<cache, reading>>
    BY DEF Platform
  <1>2. /\ dirs \in [Roots -> SUBSET SkillNames] /\ files \in [Roots -> SUBSET SkillNames]
        /\ \A r \in Roots : files[r] \subseteq dirs[r]
        /\ disabled \in SUBSET SkillNames
        /\ mtime \in [Parts -> Nat]
    BY DEF SkillsInv, SkillsTypeOK
  <1>3. Roots \subseteq Parts /\ "cfg" \in Parts /\ "cfg" \notin Roots
    BY DEF Parts, Roots
  <1>4. ASSUME NEW r \in Roots, NEW n \in SkillNames, MakeDir(r, n)
        PROVE  SkillsInv'
    <2>1. /\ dirs' \in [Roots -> SUBSET SkillNames]
          /\ \A s \in Roots : dirs'[s] = IF s = r THEN dirs[s] \cup {n} ELSE dirs[s]
          /\ UNCHANGED <<files, disabled>> /\ Touch(r)
      BY <1>2, <1>4 DEF MakeDir
    <2>2. \A s \in Roots : files'[s] \subseteq dirs'[s]
      BY <1>2, <2>1
    <2>3. mtime' = mtime => \A s \in Roots \ unseen' : dirs'[s] = dirs[s]
      BY <1>3, <2>1, TouchRaises
    <2> QED BY <1>1, <1>2, <1>3, <2>1, <2>2, <2>3, TouchRaises, WriteStep
  <1>5. ASSUME NEW r \in Roots, NEW n \in SkillNames, WriteFile(r, n) \/ DeleteFile(r, n)
        PROVE  SkillsInv'
    <2>1. /\ files' \in [Roots -> SUBSET SkillNames]
          /\ \A s \in Roots : files'[s] \subseteq dirs[s]
          /\ UNCHANGED <<dirs, disabled, mtime, unseen>>
      BY <1>2, <1>5 DEF WriteFile, DeleteFile
    <2>2. \A part \in Parts : mtime[part] <= mtime'[part]
      BY <1>2, <2>1
    <2>3. unseen' \in SUBSET Parts /\ unseen \subseteq unseen'
      BY <2>1 DEF SkillsInv, SkillsTypeOK
    <2> QED BY <1>1, <1>2, <2>1, <2>2, <2>3, WriteStep
  <1>6. ASSUME NEW r \in Roots, NEW n \in SkillNames, RemoveDir(r, n)
        PROVE  SkillsInv'
    <2>1. /\ dirs' \in [Roots -> SUBSET SkillNames]
          /\ \A s \in Roots : dirs'[s] = IF s = r THEN dirs[s] \ {n} ELSE dirs[s]
          /\ n \notin files[r]
          /\ UNCHANGED <<files, disabled>> /\ Touch(r)
      BY <1>2, <1>6 DEF RemoveDir
    <2>2. \A s \in Roots : files'[s] \subseteq dirs'[s]
      BY <1>2, <2>1
    <2>3. mtime' = mtime => \A s \in Roots \ unseen' : dirs'[s] = dirs[s]
      BY <1>3, <2>1, TouchRaises
    <2> QED BY <1>1, <1>2, <1>3, <2>1, <2>2, <2>3, TouchRaises, WriteStep
  <1>7. ASSUME NEW n \in SkillNames, Configure(n)
        PROVE  SkillsInv'
    <2>1. disabled' \in SUBSET SkillNames /\ Touch("cfg") /\ UNCHANGED <<dirs, files>>
      BY <1>2, <1>7 DEF Configure
    <2> QED BY <1>1, <1>2, <1>3, <2>1, TouchRaises, WriteStep
  <1> QED BY <1>4, <1>5, <1>6, <1>7 DEF Platform

LEMMA SkillsKept ==
  ASSUME SkillsInv, UNCHANGED skillVars
  PROVE  SkillsInv'
  BY DEF SkillsInv, SkillsTypeOK, skillVars, disk

LEMMA MissStep ==
  ASSUME SkillsInv, Miss
  PROVE  SkillsInv'
  <1> USE DEF SkillsInv
  <1>1. /\ reading' = [key |-> mtime, disabled |-> disabled]
        /\ unseen' = {}
        /\ cache.key # mtime
        /\ UNCHANGED <<dirs, files, disabled, mtime, cache>>
    BY DEF Miss, Hit, disk
  <1>2. mtime \in [Parts -> Nat] /\ disabled \in SUBSET SkillNames
    BY DEF SkillsTypeOK
  <1>3. reading' \in [key: Keys, disabled: SUBSET SkillNames]
    BY <1>1, <1>2 DEF Keys
  <1>4. SkillsTypeOK'
    BY <1>1, <1>3 DEF SkillsTypeOK, Keys
  <1> QED BY <1>1, <1>2, <1>4

(* Nothing has been read: whatever is current by its key is current.       *)
LEMMA NothingIsCurrent ==
  ASSUME SkillsInv
  PROVE  /\ NothingRead \in [key: Keys, disabled: SUBSET SkillNames]
         /\ \A part \in Parts : NothingRead.key[part] <= mtime[part]
         /\ NothingRead.key # mtime
  <1>1. mtime \in [Parts -> Nat]
    BY DEF SkillsInv, SkillsTypeOK
  <1>2. \A part \in Parts : NothingRead.key[part] = -1
    BY DEF NothingRead, Never
  <1>3. "cfg" \in Parts
    BY DEF Parts
  <1> QED BY <1>1, <1>2, <1>3 DEF NothingRead, Never, Keys

LEMMA ScanStep ==
  ASSUME SkillsInv, Scan
  PROVE  SkillsInv' /\ Active(cache') \in SUBSET SkillNames
  <1> USE DEF SkillsInv
  <1> DEFINE found == [r \in Roots |-> IF r = "local" THEN files[r] ELSE files[r] \ files["local"]]
  <1>1. /\ cache' = [key |-> reading.key, found |-> found, disabled |-> reading.disabled]
        /\ reading' = NothingRead
        /\ UNCHANGED <<dirs, files, disabled, mtime, unseen>>
    BY DEF Scan, Scanned, disk
  <1>2. /\ files \in [Roots -> SUBSET SkillNames]
        /\ \A r \in Roots : files[r] \subseteq dirs[r]
        /\ reading \in [key: Keys, disabled: SUBSET SkillNames]
        /\ "local" \in Roots /\ "plugin" \in Roots
    BY DEF SkillsTypeOK, Keys, Roots
  <1>3. found \in [Roots -> SUBSET SkillNames] /\ \A r \in Roots : found[r] \subseteq dirs[r]
    BY <1>2
  <1> HIDE DEF found
  <1>4. cache' \in [key: Keys, found: [Roots -> SUBSET SkillNames], disabled: SUBSET SkillNames]
    BY <1>1, <1>2, <1>3
  <1>5. SkillsTypeOK'
    BY <1>1, <1>4, NothingIsCurrent DEF SkillsTypeOK, Keys
  <1>6. Active(cache') \in SUBSET SkillNames
    BY <1>1, <1>2, <1>3 DEF Active
  <1> QED BY <1>1, <1>3, <1>5, <1>6, NothingIsCurrent

LEMMA ScanFailsStep ==
  ASSUME SkillsInv, ScanFails
  PROVE  SkillsInv'
  <1> USE DEF SkillsInv
  <1>1. reading' = NothingRead /\ UNCHANGED <<dirs, files, disabled, mtime, unseen, cache>>
    BY DEF ScanFails, disk
  <1>2. SkillsTypeOK'
    BY <1>1, NothingIsCurrent DEF SkillsTypeOK, Keys
  <1> QED BY <1>1, <1>2, NothingIsCurrent

(* The skills a cache names.                                               *)
LEMMA CachedAreSkills ==
  ASSUME SkillsInv
  PROVE  Active(cache) \in SUBSET SkillNames
  BY DEF SkillsInv, SkillsTypeOK, Active, Roots

LEMMA SkillsInvFresh ==
  ASSUME SkillsInv
  PROVE  CacheIsFresh
  BY DEF SkillsInv, CacheIsFresh, Hit

-----------------------------------------------------------------------------
(* The session.                                                            *)

SessionInv ==
  /\ SessionDataOK
  /\ FlagOK
  /\ PromptInv

LEMMA EnsuredOK ==
  ASSUME SessionDataOK
  PROVE  /\ Ensured \in Seq(Segments) /\ Len(Ensured) >= 1 /\ Ensured[1] \in Segments
         /\ system # <<>> => Ensured = system
         /\ Len(system) <= 1 => Len(Ensured) <= 1
  <1>1. system \in Seq(Segments)
    BY DEF SessionDataOK
  <1>2. Empty \in Segments
    BY DEF Segments, Empty
  <1>3. CASE system = <<>>
    <2>1. Ensured = <<Empty>>
      BY <1>3 DEF Ensured
    <2>2. <<Empty>> \in Seq(Segments) /\ Len(<<Empty>>) = 1 /\ <<Empty>>[1] = Empty
      BY <1>2
    <2> HIDE DEF Ensured
    <2> QED BY <1>2, <1>3, <2>1, <2>2
  <1>4. CASE system # <<>>
    <2>1. Ensured = system
      BY <1>4 DEF Ensured
    <2>2. Len(system) >= 1 /\ system[1] \in Segments
      BY <1>1, <1>4
    <2> HIDE DEF Ensured
    <2> QED BY <1>1, <1>4, <2>1, <2>2
  <1> QED BY <1>3, <1>4

(* The first message is replaced: the others stay.                         *)
LEMMA FirstReplaced ==
  ASSUME NEW s \in Seq(Segments), Len(s) >= 1, NEW e \in Segments
  PROVE  /\ [s EXCEPT ![1] = e] \in Seq(Segments)
         /\ Len([s EXCEPT ![1] = e]) = Len(s)
         /\ [s EXCEPT ![1] = e][1] = e
         /\ \A k \in DOMAIN s : k # 1 => [s EXCEPT ![1] = e][k] = s[k]
         /\ DOMAIN [s EXCEPT ![1] = e] = DOMAIN s
  OBVIOUS

LEMMA SessionKept ==
  ASSUME SessionInv, UNCHANGED session, outside' \in 0..MaxOutside
  PROVE  SessionInv'
  BY DEF SessionInv, SessionDataOK, FlagOK, PromptInv, Inventoried, Planned, session

LEMMA AssembleStep ==
  ASSUME SessionInv, contributions \in SUBSET Instances, Assemble
  PROVE  SessionInv'
  <1> USE DEF SessionInv, Assemble
  <1>1. SessionDataOK' /\ FlagOK'
    BY DEF SessionDataOK, FlagOK, PromptInv
  <1>2. PromptInv'
    BY DEF PromptInv
  <1> QED BY <1>1, <1>2

(* The hook writes the inventory it has read, or cannot.                   *)
LEMMA ShowSkillsStep ==
  ASSUME SessionInv, NEW skills \in SUBSET SkillNames, ShowSkills(skills)
  PROVE  SessionInv'
  <1> DEFINE seen == Replaced(Ensured[1].inventory, {}, skills, skills \cap Escaping # {})
             first == [Ensured[1] EXCEPT !.inventory = seen]
  <1>1. /\ system' = [Ensured EXCEPT ![1] = first]
        /\ told' = [Untold EXCEPT !.inventory = skills, !.read = "skills"]
        /\ pc' = "plugins" /\ hook' = layers
        /\ UNCHANGED <<store, reminders, layers, inserted, outside>>
    BY DEF ShowSkills, ApplyInventory
  <1>2. SessionDataOK /\ FlagOK /\ PromptInv
    BY DEF SessionInv
  <1>3. /\ seen \in SUBSET SkillNames
        /\ skills \cap Escaping = {} => seen = skills
    BY <1>2, EnsuredOK DEF Replaced, Segments
  <1>4. first \in Segments /\ first.inventory = seen
    BY <1>2, <1>3, EnsuredOK DEF Segments
  <1> HIDE DEF seen, first
  <1>5. /\ system' \in Seq(Segments) /\ Len(system') = Len(Ensured)
        /\ system'[1] = first /\ 1 \in DOMAIN system'
    BY <1>1, <1>2, <1>4, EnsuredOK, FirstReplaced
  <1>6. /\ told'.inventory = skills
        /\ told' \in [inventory: SUBSET SkillNames, read: {"nothing", "skills"}, plan: Plans \cup {NoPlan, Failed}]
    BY <1>1 DEF Untold
  <1>7. SessionDataOK'
    BY <1>1, <1>2, <1>5, <1>6 DEF SessionDataOK
  <1>8. ~inserted' => Len(system') <= 1
    BY <1>1, <1>2, <1>5, EnsuredOK DEF PromptInv
  <1>9. Inventoried'
    BY <1>3, <1>4, <1>5, <1>6 DEF Inventoried
  <1>10. PromptInv'
    BY <1>1, <1>8, <1>9 DEF PromptInv
  <1> QED BY <1>1, <1>2, <1>7, <1>10 DEF SessionInv, FlagOK

(* A cache that misses, or whose scan fails: the prompt stays as it is.    *)
LEMMA SkillsHookStays ==
  ASSUME SessionInv, SkillsHookMisses \/ SkillsHookFails
  PROVE  SessionInv'
  <1> USE DEF SessionInv, SkillsHookMisses, SkillsHookFails
  <1>1. SessionDataOK' /\ FlagOK'
    BY DEF SessionDataOK, FlagOK
  <1>2. PromptInv'
    BY DEF PromptInv, Inventoried, Untold
  <1> QED BY <1>1, <1>2

LEMMA PluginHookStep ==
  ASSUME SessionInv, PluginHook
  PROVE  SessionInv'
  <1>1. /\ pc = "plugins" /\ pc' = "plugins"
        /\ hook' \subseteq hook
        /\ UNCHANGED <<store, reminders, layers, told, outside>>
    BY DEF PluginHook
  <1>2. SessionDataOK /\ FlagOK /\ PromptInv
    BY DEF SessionInv
  <1>3. CASE UNCHANGED <<system, inserted>>
    <2>1. SessionDataOK'
      BY <1>1, <1>2, <1>3 DEF SessionDataOK
    <2> QED BY <1>1, <1>2, <1>3, <2>1 DEF SessionInv, FlagOK, PromptInv, Inventoried
  <1>4. CASE system' = <<Empty>> \o system /\ inserted' = TRUE
    <2>1. system \in Seq(Segments) /\ Empty \in Segments
      BY <1>2 DEF SessionDataOK, Segments, Empty
    <2>2. /\ system' \in Seq(Segments)
          /\ \A k \in DOMAIN system : k + 1 \in DOMAIN system' /\ system'[k + 1] = system[k]
      BY <1>4, <2>1
    <2>3. SessionDataOK'
      BY <1>1, <1>2, <2>2 DEF SessionDataOK
    <2>5. FlagOK' /\ inserted'
      BY <1>4 DEF FlagOK
    <2>4. Inventoried'
      <3>1. Inventoried /\ told' = told
        BY <1>1, <1>2 DEF PromptInv
      <3>2. ASSUME told.read = "skills", told.inventory \cap Escaping = {}
            PROVE  \E k \in DOMAIN system' : system'[k].inventory = told.inventory
        <4>1. PICK k \in DOMAIN system : system[k].inventory = told.inventory
          BY <3>1, <3>2 DEF Inventoried
        <4> QED BY <2>2, <4>1
      <3> QED BY <2>5, <3>1, <3>2 DEF Inventoried
    <2>6. PromptInv'
      <3>1. pc' = "plugins"
        BY <1>1
      <3> QED BY <2>4, <2>5, <3>1 DEF PromptInv
    <2> QED BY <2>3, <2>5, <2>6 DEF SessionInv
  <1> QED BY <1>3, <1>4 DEF PluginHook

LEMMA LoadPlanStep ==
  ASSUME SessionInv, LoadPlan
  PROVE  SessionInv'
  <1>1. /\ pc = "plugins" /\ pc' = "plan"
        /\ UNCHANGED <<system, store, reminders, layers, hook, inserted, outside>>
        /\ \E plan \in {store, Failed} : told' = [told EXCEPT !.plan = plan]
    BY DEF LoadPlan
  <1>2. SessionDataOK /\ FlagOK /\ PromptInv
    BY DEF SessionInv
  <1>3. /\ told' \in [inventory: SUBSET SkillNames, read: {"nothing", "skills"}, plan: Plans \cup {NoPlan, Failed}]
        /\ told'.inventory = told.inventory /\ told'.read = told.read
    BY <1>1, <1>2 DEF SessionDataOK
  <1>4. SessionDataOK'
    BY <1>1, <1>2, <1>3 DEF SessionDataOK
  <1> QED BY <1>1, <1>2, <1>3, <1>4 DEF SessionInv, FlagOK, PromptInv, Inventoried

(* The plan is written into the first message: its inventory stays.        *)
LEMMA InjectPlanStep ==
  ASSUME SessionInv, InjectPlan
  PROVE  SessionInv'
  <1> USE LocalAgentAssumption
  <1>1. /\ pc = "plan" /\ pc' = "ask"
        /\ UNCHANGED <<store, reminders, layers, hook, told, inserted, outside>>
    BY DEF InjectPlan
  <1>2. SessionDataOK /\ FlagOK /\ PromptInv
    BY DEF SessionInv
  <1>3. Inventoried
    BY <1>1, <1>2 DEF PromptInv
  <1>4. CASE told.plan = Failed
    <2>1. system' = system
      BY <1>4 DEF InjectPlan
    <2>2. SessionDataOK'
      BY <1>1, <1>2, <2>1 DEF SessionDataOK
    <2> QED BY <1>1, <1>2, <1>3, <1>4, <2>1, <2>2 DEF SessionInv, FlagOK, PromptInv, Inventoried, Planned
  <1>5. CASE told.plan # Failed
    <2> DEFINE plan == Replaced(Ensured[1].plan, NoPlan, told.plan, told.plan \in Escaping)
               first == [Ensured[1] EXCEPT !.plan = plan]
    <2>1. system' = [Ensured EXCEPT ![1] = first]
      BY <1>5 DEF InjectPlan
    <2>2. /\ plan \in Plans \cup {NoPlan}
          /\ told.plan \notin Escaping => plan = told.plan
      BY <1>2, <1>5, EnsuredOK DEF Replaced, SessionDataOK, Segments
    <2>3. first \in Segments /\ first.plan = plan /\ first.inventory = Ensured[1].inventory
      BY <1>2, <2>2, EnsuredOK DEF Segments
    <2> HIDE DEF plan, first
    <2>4. /\ system' \in Seq(Segments) /\ Len(system') = Len(Ensured)
          /\ system'[1] = first /\ 1 \in DOMAIN system' /\ system' # <<>>
          /\ DOMAIN system' = DOMAIN Ensured
          /\ \A k \in DOMAIN Ensured : system'[k].inventory = Ensured[k].inventory
      BY <1>2, <2>1, <2>3, EnsuredOK, FirstReplaced
    <2>5. SessionDataOK'
      BY <1>1, <1>2, <2>4 DEF SessionDataOK
    <2>6. ~inserted' => Len(system') <= 1
      BY <1>1, <1>2, <2>4, EnsuredOK DEF PromptInv
    <2>7. Inventoried'
      <3> SUFFICES ASSUME told.read = "skills", told.inventory \cap Escaping = {}
                   PROVE  /\ \E k \in DOMAIN system' : system'[k].inventory = told.inventory
                          /\ ~inserted => system'[1].inventory = told.inventory
        BY <1>1 DEF Inventoried
      <3>1. PICK k \in DOMAIN system : system[k].inventory = told.inventory
        BY <1>3 DEF Inventoried
      <3>2. Ensured = system
        BY <1>2, <3>1, EnsuredOK
      <3> QED BY <1>3, <2>3, <2>4, <3>1, <3>2 DEF Inventoried
    <2>8. Planned'
      BY <1>1, <2>2, <2>3, <2>4 DEF Planned
    <2>9. PromptInv'
      BY <1>1, <2>6, <2>7, <2>8 DEF PromptInv
    <2> QED BY <1>1, <1>2, <2>5, <2>9 DEF SessionInv, FlagOK
  <1> QED BY <1>4, <1>5

(* The LLM's turns, and the next turn of the session.                      *)
LEMMA TurnStep ==
  ASSUME SessionInv, CallTools \/ Finish \/ Refuse \/ Admit
  PROVE  SessionInv'
  <1> USE LocalAgentAssumption
  <1>1. /\ pc' \in {"skills", "veto", "over"} /\ told' = Untold
        /\ UNCHANGED <<system, layers, hook, inserted, outside>>
    BY DEF CallTools, Finish, Refuse, Admit, Step
  <1>2. store' \in Plans \cup {NoPlan} /\ reminders' \in 0..MaxReminders
    BY DEF CallTools, Finish, Refuse, Admit, SessionInv, SessionDataOK
  <1>3. Untold \in [inventory: SUBSET SkillNames, read: {"nothing", "skills"}, plan: Plans \cup {NoPlan, Failed}]
    BY DEF Untold
  <1>4. SessionDataOK' /\ FlagOK'
    BY <1>1, <1>2, <1>3 DEF SessionInv, SessionDataOK, FlagOK
  <1>5. PromptInv'
    BY <1>1 DEF SessionInv, PromptInv
  <1> QED BY <1>4, <1>5 DEF SessionInv

LEMMA NextTurnStep ==
  ASSUME SessionInv, NextTurn
  PROVE  SessionInv'
  <1> USE LocalAgentAssumption
  <1>1. /\ pc = "over" /\ pc' = "skills"
        /\ outside' = outside + 1 /\ outside < MaxOutside
        /\ system' \in {system, <<>>}
        /\ inserted' = (inserted /\ system' = system)
        /\ UNCHANGED <<store, reminders, layers, hook, told>>
    BY DEF NextTurn
  <1>2. SessionDataOK /\ FlagOK /\ PromptInv
    BY DEF SessionInv
  <1>3. system' \in Seq(Segments) /\ outside' \in 0..MaxOutside
    <2>1. system \in Seq(Segments) /\ <<>> \in Seq(Segments)
      BY <1>2 DEF SessionDataOK
    <2>2. outside' \in 0..MaxOutside
      BY <1>1, <1>2 DEF SessionDataOK
    <2>3. system' = system \/ system' = <<>>
      BY <1>1
    <2> QED BY <2>1, <2>2, <2>3
  <1>4. SessionDataOK'
    BY <1>1, <1>2, <1>3 DEF SessionDataOK
  <1>5. FlagOK'
    BY <1>1, <1>2 DEF FlagOK
  <1>6. ~inserted' => Len(system') <= 1
    <2>1. CASE system' = system
      BY <1>1, <1>2, <2>1 DEF PromptInv, FlagOK
    <2>2. CASE system' = <<>>
      BY <2>2
    <2> QED BY <1>1, <2>1, <2>2
  <1>7. PromptInv'
    BY <1>1, <1>2, <1>6 DEF PromptInv
  <1> QED BY <1>4, <1>5, <1>7 DEF SessionInv

LEMMA HostEditsStep ==
  ASSUME SessionInv, HostEdits, outside' \in 0..MaxOutside
  PROVE  SessionInv'
  <1> USE DEF SessionInv, HostEdits
  <1>1. SessionDataOK' /\ FlagOK'
    BY DEF SessionDataOK, FlagOK
  <1>2. PromptInv'
    BY DEF PromptInv, Inventoried, Planned
  <1> QED BY <1>1, <1>2

LEMMA SessionInvCurrent ==
  ASSUME SessionInv
  PROVE  PromptIsCurrent
  BY DEF SessionInv, PromptInv, PromptIsCurrent, Inventoried, Planned

-----------------------------------------------------------------------------
LEMMA NextInv ==
  ASSUME AgentInv, [Next]_vars
  PROVE  AgentInv'
  <1> USE LocalAgentAssumption
  <1>1. PluginsInv /\ SkillsInv /\ SessionInv
    BY DEF AgentInv, SessionInv
  <1>2. contributions \in SUBSET Instances /\ outside \in 0..MaxOutside
    BY <1>1 DEF PluginsInv, PluginsDataOK, SessionInv, SessionDataOK
  <1> SUFFICES PluginsInv' /\ SkillsInv' /\ SessionInv'
    BY DEF AgentInv, SessionInv
  <1>3. CASE Assemble
    <2>1. UNCHANGED skillVars /\ UNCHANGED pluginVars
      BY <1>3 DEF Assemble
    <2> QED BY <1>1, <1>2, <1>3, <2>1, PluginsKept, SkillsKept, AssembleStep
  <1>4. CASE SkillsHookCached
    <2>1. /\ UNCHANGED skillVars /\ UNCHANGED pluginVars
          /\ ShowSkills(Active(cache))
      BY <1>4 DEF SkillsHookCached, ShowSkills
    <2> QED BY <1>1, <2>1, PluginsKept, SkillsKept, CachedAreSkills, ShowSkillsStep
  <1>5. CASE SkillsHookScans
    <2>1. Scan /\ UNCHANGED pluginVars /\ ShowSkills(Active(cache'))
      BY <1>5 DEF SkillsHookScans, ShowSkills
    <2>2. SkillsInv' /\ Active(cache') \in SUBSET SkillNames
      BY <1>1, <2>1, ScanStep
    <2> QED BY <1>1, <2>1, <2>2, PluginsKept, ShowSkillsStep
  <1>6. CASE SkillsHookMisses
    <2>1. Miss /\ UNCHANGED pluginVars
      BY <1>6 DEF SkillsHookMisses
    <2> QED BY <1>1, <1>6, <2>1, PluginsKept, MissStep, SkillsHookStays
  <1>7. CASE SkillsHookFails
    <2>1. ScanFails /\ UNCHANGED pluginVars
      BY <1>7 DEF SkillsHookFails
    <2> QED BY <1>1, <1>7, <2>1, PluginsKept, ScanFailsStep, SkillsHookStays
  <1>8. CASE PluginHook \/ LoadPlan \/ InjectPlan \/ CallTools \/ Finish \/ Refuse \/ Admit \/ NextTurn
    <2>1. UNCHANGED skillVars /\ UNCHANGED pluginVars
      BY <1>8 DEF PluginHook, LoadPlan, InjectPlan, CallTools, Finish, Refuse, Admit, NextTurn, Step
    <2> QED BY <1>1, <1>8, <2>1, PluginsKept, SkillsKept, PluginHookStep, LoadPlanStep,
               InjectPlanStep, TurnStep, NextTurnStep
  <1>9. CASE Outside
    <2>1. outside' \in 0..MaxOutside
      BY <1>2, <1>9 DEF Outside
    <2>2. CASE Platform /\ UNCHANGED <<pluginVars, session>>
      BY <1>1, <2>1, <2>2, PlatformStep, PluginsKept, SessionKept
    <2>3. CASE \E t \in PluginTasks : HostAsksForPlugin(t) /\ UNCHANGED <<skillVars, session>>
      BY <1>1, <2>1, <2>3, PluginsStep, SkillsKept, SessionKept
    <2>4. CASE HostEdits
      <3>1. UNCHANGED skillVars /\ UNCHANGED pluginVars
        BY <2>4 DEF HostEdits
      <3> QED BY <1>1, <2>1, <2>4, <3>1, PluginsKept, SkillsKept, HostEditsStep
    <2> QED BY <1>9, <2>2, <2>3, <2>4 DEF Outside
  <1>10. CASE PluginStep
    BY <1>1, <1>2, <1>10, PluginsStep, SkillsKept, SessionKept DEF PluginStep
  <1>11. CASE UNCHANGED vars
    <2>1. UNCHANGED skillVars /\ UNCHANGED pluginVars /\ UNCHANGED session /\ UNCHANGED outside
      BY <1>11 DEF vars
    <2> QED BY <1>1, <1>2, <2>1, PluginsKept, SkillsKept, SessionKept
  <1> QED BY <1>3, <1>4, <1>5, <1>6, <1>7, <1>8, <1>9, <1>10, <1>11 DEF Next

THEOREM AgentInvariant == Spec => []AgentInv
  <1>1. Init => AgentInv
    BY InitInv
  <1>2. AgentInv /\ [Next]_vars => AgentInv'
    BY NextInv
  <1> QED BY <1>1, <1>2, PTL DEF Spec

(* Every field of the skills' cache, the plugins' tables and the session   *)
(* stays in its range, and the plan's reminders within their cap over all  *)
(* turns of the session (PlanningHook.allow_finalize).                     *)
THEOREM LocalTypeCorrect == Spec => []TypeOK
  <1>1. AgentInv => TypeOK
    BY DEF AgentInv, PluginsInv, PluginsDataOK, PluginTaskRecord, SkillsInv, SessionDataOK,
           Segments, FlagOK, TypeOK, PluginsTypeOK
  <1> QED BY <1>1, AgentInvariant, PTL

(* An inventory that would be used again names no skill whose directory is *)
(* gone and knows who is disabled (list_skills): because its key was read  *)
(* before what it stands for.                                              *)
THEOREM CacheStaysFresh == Spec => []CacheIsFresh
  <1>1. AgentInv => CacheIsFresh
    BY SkillsInvFresh DEF AgentInv
  <1> QED BY <1>1, AgentInvariant, PTL

(* The manager's table, the registry, the contributions and the life of an *)
(* instance agree on each name that was never registered while in use nor  *)
(* cancelled (register, unload, reload).                                   *)
THEOREM PluginsAlwaysAgree == Spec => []PluginsAgree
  <1>1. AgentInv => PluginsAgree
    BY PluginsInvAgree DEF AgentInv
  <1> QED BY <1>1, AgentInvariant, PTL

(* Each request carries the inventory and the plan that its own hooks have *)
(* read (on_llm_request), whatever is written between them.                *)
THEOREM PromptStaysCurrent == Spec => []PromptIsCurrent
  <1>1. AgentInv => PromptIsCurrent
    BY SessionInvCurrent DEF AgentInv, SessionInv
  <1> QED BY <1>1, AgentInvariant, PTL

=============================================================================
