----------------------------- MODULE LocalAgent -----------------------------
(***************************************************************************)
(* What the extensions make of a session's turns as local_runtime.py wires *)
(* them: ChainedAgentRunHooks calls SkillsPromptHook, the plugins' hooks   *)
(* and PlanningHook one after the other, each of which may write a system  *)
(* message, while the platform changes the skills, the host edits the plan *)
(* and plugins come and go.                                                *)
(*                                                                         *)
(* Of run_context.messages the leading system messages are kept, and of    *)
(* these the skills' inventory and the plan between their sentinels.  A    *)
(* plan is its name; a skill or plan of Escaping has a text that re.sub    *)
(* does not take as a replacement, such as C:\Users.                       *)
(***************************************************************************)
EXTENDS Skills, Plugins, Sequences

CONSTANTS
  Plans,         \* plans with todos; of these
  Open,          \*   those with a todo that is not completed
  Escaping,      \* skills and plans with a backslash
  NoPlan,
  MaxReminders,  \* max_reminders
  MaxOutside     \* interventions of host, platform and plugins (bound)

ASSUME LocalAgentAssumption ==
  /\ Open \subseteq Plans
  /\ NoPlan \notin Plans
  /\ Escaping \subseteq Plans \cup SkillNames
  /\ MaxReminders \in Nat
  /\ MaxOutside \in Nat

VARIABLES
  system,     \* the leading system messages
  store,      \* the session's plan in the PluginStore
  reminders,  \* PlanningHook._reminder_counts of the session
  layers,     \* contributions CompositeAgentRunHooks was built with
  pc,         \* where the session is
  hook,       \* plugins whose hooks are still to be called
  told,       \* what this step's hooks have read: skills or nothing, and a plan
  inserted,   \* a plugin has put a system message in front
  outside     \* interventions so far

session == <<system, store, reminders, layers, pc, hook, told, inserted>>
vars == <<skillVars, pluginVars, session, outside>>

Empty == [inventory |-> {}, plan |-> NoPlan]
Failed == "failed"   \* the plan could not be read
Untold == [inventory |-> {}, read |-> "nothing", plan |-> NoPlan]

Init ==
  /\ SkillsInit
  /\ PluginsInit
  /\ system \in {<<>>, <<Empty>>}
  /\ store = NoPlan
  /\ reminders = 0
  /\ layers = {}
  /\ pc = "assemble"
  /\ hook = {}
  /\ told = Untold
  /\ inserted = FALSE
  /\ outside = 0

-----------------------------------------------------------------------------
(* on_llm_request.                                                         *)

\* build_local_agent_basics: the contributions of now.
Assemble ==
  /\ pc = "assemble"
  /\ layers' = contributions
  /\ pc' = "skills"
  /\ UNCHANGED <<skillVars, pluginVars, system, store, reminders, hook, told, inserted, outside>>

\* _ensure_system_message
Ensured == IF system = <<>> THEN <<Empty>> ELSE system

\* _replace_segment: text that takes the place of a segment is a replacement
\* for re.sub, and an error of that is logged; text that is added is not.
Replaced(old, none, new, escapes) ==
  IF old # none /\ new # none /\ escapes THEN old ELSE new

\* Mutant: the inventory is only added.
InventoryAdded(skills) ==
  system' = [Ensured EXCEPT ![1].inventory = IF @ = {} THEN skills ELSE @]

\* _apply_inventory
ApplyInventory(skills) ==
  system' = [Ensured EXCEPT ![1].inventory =
    Replaced(@, {}, skills, skills \cap Escaping # {})]

ShowSkills(skills) ==
  /\ ApplyInventory(skills)
  /\ told' = [Untold EXCEPT !.inventory = skills, !.read = "skills"]
  /\ pc' = "plugins"
  /\ hook' = layers
  /\ UNCHANGED <<pluginVars, store, reminders, layers, inserted, outside>>

SkillsHookCached ==
  /\ pc = "skills"
  /\ Hit
  /\ ShowSkills(Active(cache))
  /\ UNCHANGED skillVars

SkillsHookMisses ==
  /\ pc = "skills"
  /\ Miss
  /\ pc' = "scan"
  /\ UNCHANGED <<pluginVars, system, store, reminders, layers, hook, told, inserted, outside>>

SkillsHookScans ==
  /\ pc = "scan"
  /\ Scan
  /\ ShowSkills(Active(cache'))

\* What list_skills raises is logged.
SkillsHookFails ==
  /\ pc = "scan"
  /\ ScanFails
  /\ pc' = "plugins"
  /\ hook' = layers
  /\ UNCHANGED <<pluginVars, system, store, reminders, layers, told, inserted, outside>>

\* The next plugin's hook returns or raises, or first puts a system message
\* in front (extensions/plugins/README.md, the quick start).
PluginHook ==
  /\ pc = "plugins"
  /\ \E i \in hook : hook' = hook \ {i}
  /\ \/ UNCHANGED <<system, inserted>>
     \/ /\ ~inserted
        /\ system' = <<Empty>> \o system
        /\ inserted' = TRUE
  /\ UNCHANGED <<skillVars, pluginVars, store, reminders, layers, pc, told, outside>>

\* PlanningHook awaits the store; when that raises the plan stays as it is.
LoadPlan ==
  /\ pc = "plugins"
  /\ hook = {}
  /\ told' \in {[told EXCEPT !.plan = plan] : plan \in {store, Failed}}
  /\ pc' = "plan"
  /\ UNCHANGED <<skillVars, pluginVars, system, store, reminders, layers, hook, inserted, outside>>

InjectPlan ==
  /\ pc = "plan"
  /\ system' = IF told.plan = Failed THEN system
               ELSE [Ensured EXCEPT ![1].plan =
                       Replaced(@, NoPlan, told.plan, told.plan \in Escaping)]
  /\ pc' = "ask"
  /\ UNCHANGED <<skillVars, pluginVars, store, reminders, layers, hook, told, inserted, outside>>

-----------------------------------------------------------------------------
(* The LLM's turn.                                                         *)

Step(next) ==
  /\ pc' = next
  /\ told' = Untold
  /\ UNCHANGED <<skillVars, pluginVars, system, layers, hook, inserted, outside>>

\* write_todos replaces the plan; other tools change nothing here.
CallTools ==
  /\ pc = "ask"
  /\ store' \in Plans \cup {NoPlan, store}
  /\ Step("skills")
  /\ UNCHANGED reminders

\* The LLM answers: the hooks are polled, and the plan is read.
Finish ==
  /\ pc = "ask"
  /\ Step("veto")
  /\ UNCHANGED <<store, reminders>>

\* Mutant: the cap is not asked.
RefuseAgain ==
  /\ pc = "veto"
  /\ store \in Open
  /\ reminders' = reminders + 1
  /\ Step("skills")
  /\ UNCHANGED store

\* PlanningHook refuses while a todo is open, up to the cap.
Refuse ==
  /\ pc = "veto"
  /\ store \in Open
  /\ reminders < MaxReminders
  /\ reminders' = reminders + 1
  /\ Step("skills")
  /\ UNCHANGED store

\* A store that raises admits.
Admit ==
  /\ pc = "veto"
  /\ Step("over")
  /\ UNCHANGED <<store, reminders>>

\* The session's next turn, on the same messages or on others.
NextTurn ==
  /\ pc = "over"
  /\ outside < MaxOutside
  /\ outside' = outside + 1
  /\ system' \in {system, <<>>}
  /\ inserted' = (inserted /\ system' = system)
  /\ pc' = "skills"
  /\ UNCHANGED <<skillVars, pluginVars, store, reminders, layers, hook, told>>

\* write_plan
HostEdits ==
  /\ store' \in (Plans \cup {NoPlan}) \ {store}
  /\ UNCHANGED <<skillVars, pluginVars, system, reminders, layers, pc, hook, told, inserted>>

Outside ==
  /\ outside < MaxOutside
  /\ outside' = outside + 1
  /\ \/ Platform /\ UNCHANGED <<pluginVars, session>>
     \/ \E t \in PluginTasks : HostAsksForPlugin(t) /\ UNCHANGED <<skillVars, session>>
     \/ HostEdits

PluginStep == \E t \in PluginTasks : PluginTaskRuns(t) /\ UNCHANGED <<skillVars, session, outside>>

Next ==
  \/ Assemble
  \/ SkillsHookCached
  \/ SkillsHookMisses
  \/ SkillsHookScans
  \/ SkillsHookFails
  \/ PluginHook
  \/ LoadPlan
  \/ InjectPlan
  \/ CallTools
  \/ Finish
  \/ Refuse
  \/ Admit
  \/ NextTurn
  \/ Outside
  \/ PluginStep

Spec == Init /\ [][Next]_vars

-----------------------------------------------------------------------------
(***************************************************************************)
(* Every field is in its range; the session is reminded at most            *)
(* max_reminders times, over all its turns.                                *)
(***************************************************************************)
TypeOK ==
  /\ SkillsTypeOK
  /\ PluginsTypeOK
  /\ system \in Seq([inventory: SUBSET SkillNames, plan: Plans \cup {NoPlan}])
  /\ store \in Plans \cup {NoPlan}
  /\ reminders \in 0..MaxReminders
  /\ layers \in SUBSET Instances
  /\ pc \in {"assemble", "skills", "scan", "plugins", "plan", "ask", "veto", "over"}
  /\ hook \in SUBSET layers
  /\ told \in [inventory: SUBSET SkillNames, read: {"nothing", "skills"}, plan: Plans \cup {NoPlan, Failed}]
  /\ inserted \in BOOLEAN
  /\ outside \in 0..MaxOutside

(***************************************************************************)
(* The key is read before what is scanned under it (list_skills), so a     *)
(* cached inventory that would be used again names no skill whose          *)
(* directory is gone, and knows who is disabled: whatever was written      *)
(* before, during and after the scan, and however often it failed.  Only a *)
(* root or a skills.json that was written after the key was read, in the   *)
(* tick of the file system's clock in which it had been written before, is *)
(* another matter: its st_mtime_ns, which is all the key has (371-385),    *)
(* does not show the second write.                                         *)
(***************************************************************************)
CacheIsFresh ==
  Hit => /\ \A r \in Roots \ unseen : cache.found[r] \subseteq dirs[r]
         /\ "cfg" \notin unseen => cache.disabled = disabled

(***************************************************************************)
(* on_llm_request: whoever fails, and whatever is written by others        *)
(* between the hooks, each step's request carries the inventory and the    *)
(* plan its hooks have read, unless one of them cannot replace the last.   *)
(* Without a system message of a plugin, it carries no other.              *)
(***************************************************************************)
PromptIsCurrent ==
  pc = "ask" =>
    /\ told.read = "skills" /\ told.inventory \cap Escaping = {} =>
         /\ \E k \in DOMAIN system : system[k].inventory = told.inventory
         /\ ~inserted => system[1].inventory = told.inventory
    /\ told.plan \notin Escaping \cup {Failed} =>
         system[1].plan = told.plan
    /\ ~inserted => Len(system) <= 1
=============================================================================
