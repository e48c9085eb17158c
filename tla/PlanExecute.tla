---------------------------- MODULE PlanExecute ----------------------------
(***************************************************************************)
(* PlanExecuteRunner (core/runners/plan_execute_runner.py): PLAN, then     *)
(* EXEC of one todo by a child runner and REPLAN by turns, with the        *)
(* progress persisted through the PluginStore so that another process can  *)
(* resume the session.                                                     *)
(*                                                                         *)
(* pc names the await or yield the runner is suspended at.  A step can be  *)
(* cut short at any of them (an exception, a cancelled task, a host that   *)
(* closes the generator) with what is in memory kept, and the process can  *)
(* crash with everything lost but the store.  The child is seen through    *)
(* the AgentState of its run; ToolLoop is the detailed model of it.        *)
(* A todo is its content; in_progress counts as pending, as in             *)
(* _first_pending.  Positions count from 1.                                *)
(***************************************************************************)
EXTENDS Naturals, Sequences

CONSTANTS
  Todos,           \* contents a planner may write
  NoTodo,          \* no summary at this position
  MaxPlan,         \* todos in one plan (bound)
  MaxReplan,       \* max_replan
  PlannerRetries,  \* planner_retries
  MaxStep,         \* max_step
  MaxResets,       \* runs of the session (bound)
  MaxCuts,         \* steps cut short (bound)
  MaxCrashes       \* crashes of the process (bound)

ASSUME PlanExecuteAssumption ==
  /\ NoTodo \notin Todos
  /\ {MaxPlan, MaxReplan, PlannerRetries, MaxStep} \subseteq Nat
  /\ {MaxResets, MaxCuts, MaxCrashes} \subseteq Nat

VARIABLES
  state,      \* _state
  final,      \* kind of final_llm_resp
  doneCalls,  \* calls of on_agent_done in this run
  pc,         \* where the runner is suspended
  after,      \* where it goes on once the progress is persisted
  prog,       \* _progress
  child,      \* state of _sub_runner's run, "none" without one
  steps,      \* _step_count
  attempts,   \* LLM calls made by the current _call_structured
  snap,       \* stored under the phase key: <<>>, or <<progress>>
  mirror,     \* plan stored by save_plan
  cut,        \* a step of this run was cut short
  resets,     \* calls of reset
  cuts,       \* steps cut short so far
  crashes     \* crashes so far

lifecycle == <<state, final, doneCalls>>
store == <<snap, mirror>>
history == <<cut, resets, cuts, crashes>>
vars == <<state, final, doneCalls, pc, after, prog, child, steps, attempts, snap,
          mirror, cut, resets, cuts, crashes>>

Todo == [todo : Todos, status : {"pending", "completed"}]
Plans == UNION {[1..n -> Todo] : n \in 0..MaxPlan}

Fresh == [phase |-> "plan", plan |-> <<>>, cursor |-> 1,
          summaries |-> [i \in 1..MaxPlan |-> NoTodo], replans |-> 0]

Pending(p) == {i \in DOMAIN p : p[i].status # "completed"}

\* _first_pending, 0 when every todo is completed.
FirstPending(p) ==
  IF Pending(p) = {} THEN 0
  ELSE CHOOSE i \in Pending(p) : \A j \in Pending(p) : i <= j

Done == state \in {"DONE", "ERROR"}

Init ==
  /\ state = "IDLE" /\ final = "none" /\ doneCalls = 0
  /\ pc = "down"
  /\ after = "between"
  /\ prog = Fresh
  /\ child = "none"
  /\ steps = 0
  /\ attempts = 0
  /\ snap = <<>>
  /\ mirror = <<>>
  /\ cut = FALSE
  /\ resets = 0
  /\ cuts = 0
  /\ crashes = 0

-----------------------------------------------------------------------------
(* reset, by a new process or for the session's next turn.  A snapshot     *)
(* reads back as it was written: every field is a string, an integer or a  *)
(* list of them.                                                           *)

Reset ==
  /\ pc \in {"down", "between"}
  /\ resets < MaxResets
  /\ resets' = resets + 1
  /\ state' = "IDLE" /\ final' = "none" /\ doneCalls' = 0
  /\ child' = "none"
  /\ steps' = 0
  /\ cut' = FALSE
  /\ \/ snap = <<>> /\ prog' = Fresh /\ pc' = "between"
     \/ snap # <<>> /\ prog' = snap[1] /\ pc' = "resync"
  /\ UNCHANGED <<after, attempts, store, cuts, crashes>>

\* The mirror is rewritten from the snapshot; a todo in flight gets a child.
Resync ==
  /\ pc = "resync"
  /\ mirror' = prog.plan
  /\ child' = IF prog.phase = "exec" /\ Pending(prog.plan) # {} THEN "IDLE" ELSE "none"
  /\ pc' = "between"
  /\ UNCHANGED <<lifecycle, after, prog, steps, attempts, snap, history>>

-----------------------------------------------------------------------------
(* _persist: the snapshot first, then the mirror, then on to `after'.  The *)
(* call of on_agent_done follows the persisting of the final progress.     *)

PersistThen(next) ==
  /\ pc' = "snapshot"
  /\ after' = next

\* Mutant: the store keeps the older snapshots.
WriteAnotherSnapshot ==
  /\ pc = "snapshot"
  /\ snap' = Append(snap, prog)
  /\ pc' = "mirror"
  /\ UNCHANGED <<lifecycle, after, prog, child, steps, attempts, mirror, history>>

WriteSnapshot ==
  /\ pc = "snapshot"
  /\ snap' = <<prog>>
  /\ pc' = "mirror"
  /\ UNCHANGED <<lifecycle, after, prog, child, steps, attempts, mirror, history>>

WriteMirror ==
  /\ pc = "mirror"
  /\ mirror' = prog.plan
  /\ pc' = after
  /\ doneCalls' = IF after = "announce" THEN doneCalls + 1 ELSE doneCalls
  /\ UNCHANGED <<state, final, after, prog, child, steps, attempts, snap, history>>

\* on_agent_done returns and the step is over.
HookReturns ==
  /\ pc = "announce"
  /\ pc' = "between"
  /\ UNCHANGED <<lifecycle, after, prog, child, steps, attempts, store, history>>

\* _finish_done, _to_error and _to_liveness_error.
Finish(newState, kind) ==
  /\ state' = newState
  /\ final' = kind
  /\ PersistThen("announce")
  /\ UNCHANGED doneCalls

-----------------------------------------------------------------------------
(* step: its boundary, up to the call of the model.                        *)

\* Mutant: the step is not counted.
StepUncounted ==
  /\ pc = "between"
  /\ ~Done
  /\ UNCHANGED steps

\* Mutant: no look at the terminal states.
StepUnguarded ==
  /\ pc = "between"
  /\ steps' = steps + 1

StepStarts ==
  /\ pc = "between"
  /\ ~Done
  /\ steps' = steps + 1

\* More than max_step steps, or past the deadline; no time has passed when
\* the first step looks at the clock.
CeilingTripped ==
  /\ StepStarts
  /\ steps >= MaxStep \/ steps > 0
  /\ Finish("ERROR", "err")
  /\ UNCHANGED <<prog, child, attempts, store, history>>

StepRuns == StepStarts /\ steps < MaxStep

BeginPlan ==
  /\ StepRuns
  /\ prog.phase = "plan"
  /\ state' = "RUNNING"
  /\ attempts' = 1
  /\ pc' = "plan"
  /\ UNCHANGED <<final, doneCalls, after, prog, child, store, history>>

BeginExec ==
  /\ StepRuns
  /\ prog.phase = "exec"
  /\ state' = "RUNNING"
  /\ child' = IF child = "none" THEN "IDLE" ELSE child
  /\ pc' = "exec"
  /\ UNCHANGED <<final, doneCalls, after, prog, attempts, store, history>>

BeginReplan ==
  /\ StepRuns
  /\ prog.phase = "replan"
  /\ prog.replans < MaxReplan
  /\ prog' = [prog EXCEPT !.replans = @ + 1]
  /\ state' = "RUNNING"
  /\ attempts' = 1
  /\ pc' = "replan"
  /\ UNCHANGED <<final, doneCalls, after, child, store, history>>

\* The cap is reached: the run completes, and no hook can veto.
ForceComplete ==
  /\ StepRuns
  /\ prog.phase = "replan"
  /\ prog.replans >= MaxReplan
  /\ Finish("DONE", "text")
  /\ UNCHANGED <<prog, child, attempts, store, history>>

-----------------------------------------------------------------------------
(* PLAN and REPLAN: _call_structured and what is done with its plan.       *)

\* An err response, or one without a usable submit_plan call.
AskAgain ==
  /\ pc \in {"plan", "replan"}
  /\ attempts <= PlannerRetries
  /\ attempts' = attempts + 1
  /\ UNCHANGED <<lifecycle, pc, after, prog, child, steps, store, history>>

\* Mutant: the planner's failure is not announced.
NoPlanSilent ==
  /\ pc \in {"plan", "replan"}
  /\ attempts > PlannerRetries
  /\ state' = "ERROR"
  /\ final' = "err"
  /\ PersistThen("between")
  /\ UNCHANGED <<doneCalls, prog, child, steps, attempts, store, history>>

NoPlan ==
  /\ pc \in {"plan", "replan"}
  /\ attempts > PlannerRetries
  /\ Finish("ERROR", "err")
  /\ UNCHANGED <<prog, child, steps, attempts, store, history>>

\* A step of the child is left before its last yield, perhaps in its done hook.
LeaveChild == child' \in IF pc = "exec" THEN {child, "RUNNING", "DONE"} ELSE {child}

\* A call of the model, or the child's next response, exceeds its time.
CallTimesOut ==
  /\ pc \in {"plan", "replan", "exec"}
  /\ Finish("ERROR", "err")
  /\ LeaveChild
  /\ UNCHANGED <<prog, steps, attempts, store, history>>

\* A plan with nothing to execute goes straight to completion, in phase PLAN.
Planned(p) ==
  /\ pc = "plan"
  /\ \/ /\ Pending(p) = {}
        /\ prog' = [prog EXCEPT !.plan = p, !.replans = 0, !.cursor = 1]
        /\ PersistThen("veto")
     \/ /\ Pending(p) # {}
        /\ prog' = [prog EXCEPT !.plan = p, !.replans = 0, !.phase = "exec",
                                !.cursor = FirstPending(p)]
        /\ PersistThen("between")
  /\ UNCHANGED <<lifecycle, child, steps, attempts, store, history>>

Replanned(p) ==
  /\ pc = "replan"
  /\ prog' = [prog EXCEPT !.plan = p]
  /\ PersistThen("decide")
  /\ UNCHANGED <<lifecycle, child, steps, attempts, store, history>>

\* Mutant: the cursor is left on the todo just completed.
DecideStaleCursor ==
  /\ pc = "decide"
  /\ \/ /\ Pending(prog.plan) = {}
        /\ pc' = "veto"
        /\ UNCHANGED <<after, prog>>
     \/ /\ Pending(prog.plan) # {}
        /\ prog' = [prog EXCEPT !.phase = "exec"]
        /\ PersistThen("between")
  /\ UNCHANGED <<lifecycle, child, steps, attempts, store, history>>

\* After the yield of the revised checklist.
Decide ==
  /\ pc = "decide"
  /\ \/ /\ Pending(prog.plan) = {}
        /\ pc' = "veto"
        /\ UNCHANGED <<after, prog>>
     \/ /\ Pending(prog.plan) # {}
        /\ prog' = [prog EXCEPT !.phase = "exec", !.cursor = FirstPending(prog.plan)]
        /\ PersistThen("between")
  /\ UNCHANGED <<lifecycle, child, steps, attempts, store, history>>

-----------------------------------------------------------------------------
(* _complete: on_before_complete has answered.                             *)

Admit ==
  /\ pc = "veto"
  /\ Finish("DONE", "text")
  /\ UNCHANGED <<prog, child, steps, attempts, store, history>>

\* Mutant: the return to REPLAN is not persisted.
RefuseUnsaved ==
  /\ pc = "veto"
  /\ prog' = [prog EXCEPT !.phase = "replan"]
  /\ pc' = "between"
  /\ UNCHANGED <<lifecycle, after, child, steps, attempts, store, history>>

Refuse ==
  /\ pc = "veto"
  /\ prog' = [prog EXCEPT !.phase = "replan"]
  /\ PersistThen("between")
  /\ UNCHANGED <<lifecycle, child, steps, attempts, store, history>>

-----------------------------------------------------------------------------
(* EXEC: one step of the child.  Its last yield lies between the end of    *)
(* the child's run and the harvest.                                        *)

ChildSteps ==
  /\ pc = "exec"
  /\ child' \in {"RUNNING", "DONE", "ERROR"}
  /\ pc' = "childStepped"
  /\ UNCHANGED <<lifecycle, after, prog, steps, attempts, store, history>>

\* Mutant: the child's done() is not asked.
ChildGoesOnAnyhow ==
  /\ pc = "childStepped"
  /\ pc' = "between"
  /\ UNCHANGED <<lifecycle, after, prog, child, steps, attempts, store, history>>

ChildGoesOn ==
  /\ pc = "childStepped"
  /\ child = "RUNNING"
  /\ pc' = "between"
  /\ UNCHANGED <<lifecycle, after, prog, child, steps, attempts, store, history>>

\* Mutant: forward progress does not reset the cap.
HarvestKeepsCount ==
  /\ pc = "childStepped"
  /\ child \in {"DONE", "ERROR"}
  /\ prog' = [prog EXCEPT !.plan[prog.cursor].status = "completed",
                          !.summaries[prog.cursor] = prog.plan[prog.cursor].todo,
                          !.phase = "replan"]
  /\ child' = "none"
  /\ PersistThen("between")
  /\ UNCHANGED <<lifecycle, steps, attempts, store, history>>

\* _on_sub_done.  The child's final text, if any, is the summary.
Harvest ==
  /\ pc = "childStepped"
  /\ child \in {"DONE", "ERROR"}
  /\ \E summary \in {prog.plan[prog.cursor].todo, NoTodo} :
       prog' = [prog EXCEPT !.plan[prog.cursor].status = "completed",
                            !.summaries[prog.cursor] = summary,
                            !.replans = 0, !.phase = "replan"]
  /\ child' = "none"
  /\ PersistThen("between")
  /\ UNCHANGED <<lifecycle, steps, attempts, store, history>>

-----------------------------------------------------------------------------
(* What can come in between.                                               *)

\* The step ends where it is suspended; memory and store stay as they are.
CutShort ==
  /\ pc \notin {"down", "between", "resync"}
  /\ cuts < MaxCuts
  /\ cuts' = cuts + 1
  /\ cut' = TRUE
  /\ pc' = "between"
  /\ LeaveChild
  /\ UNCHANGED <<lifecycle, after, prog, steps, attempts, store, resets, crashes>>

Crash ==
  /\ pc # "down"
  /\ crashes < MaxCrashes
  /\ crashes' = crashes + 1
  /\ pc' = "down"
  /\ UNCHANGED <<lifecycle, after, prog, child, steps, attempts, store, cut, resets, cuts>>

Persistence == WriteSnapshot \/ WriteMirror \/ HookReturns
Boundary == CeilingTripped \/ BeginPlan \/ BeginExec \/ BeginReplan \/ ForceComplete
Planner ==
  AskAgain \/ NoPlan \/ CallTimesOut \/ Decide
    \/ \E p \in Plans : Planned(p) \/ Replanned(p)
Completion == Admit \/ Refuse
Executor == ChildSteps \/ ChildGoesOn \/ Harvest

Runner == Resync \/ Persistence \/ Boundary \/ Planner \/ Completion \/ Executor
Environment == Reset \/ CutShort \/ Crash
Next == Runner \/ Environment

Spec == Init /\ [][Next]_vars

\* The host steps the runner until it is done; model, child and store answer.
FairSpec == Spec /\ WF_vars(Runner)

-----------------------------------------------------------------------------
Progress ==
  [phase : {"plan", "exec", "replan"}, plan : Seq(Todo), cursor : Nat,
   summaries : [1..MaxPlan -> Todos \cup {NoTodo}], replans : Nat]

Suspension ==
  {"down", "between", "resync", "snapshot", "mirror", "announce", "plan", "replan",
   "decide", "veto", "exec", "childStepped"}

TypeOK ==
  /\ state \in {"IDLE", "RUNNING", "DONE", "ERROR"}
  /\ final \in {"none", "text", "err"}
  /\ doneCalls \in Nat
  /\ pc \in Suspension
  /\ after \in {"between", "announce", "decide", "veto"}
  /\ prog \in Progress
  /\ child \in {"none", "IDLE", "RUNNING", "DONE", "ERROR"}
  /\ steps \in Nat
  /\ attempts \in Nat
  /\ snap \in Seq(Progress) /\ Len(snap) <= 1
  /\ mirror \in Seq(Todo)
  /\ cut \in BOOLEAN
  /\ resets \in Nat
  /\ cuts \in Nat
  /\ crashes \in Nat

AtFirstPending(p) ==
  p.phase = "exec" => p.cursor = FirstPending(p.plan) /\ p.cursor # 0

(***************************************************************************)
(* In phase EXEC the cursor is on the first todo that is not completed, in *)
(* memory and in the snapshot a crash leaves behind: a resumed session     *)
(* never executes a completed todo again and never asks for a child beyond *)
(* the plan (README.md:246).                                               *)
(***************************************************************************)
ExecAtFirstPending ==
  /\ AtFirstPending(prog)
  /\ snap # <<>> => AtFirstPending(snap[1])
  /\ child # "none" => prog.phase = "exec"

(***************************************************************************)
(* Between two steps the store holds exactly what is in memory, snapshot   *)
(* and mirror alike, so a host may stop there and resume elsewhere without *)
(* loss; reset restores this after a crash at any point of _persist.       *)
(***************************************************************************)
DurableAtBoundary ==
  pc = "between" /\ ~cut =>
    IF snap = <<>> THEN prog = Fresh /\ mirror = <<>>
                   ELSE snap[1] = prog /\ mirror = prog.plan

(***************************************************************************)
(* In a run that no one interrupted the replan cap forces the completion   *)
(* of finished plans only: DONE means that every todo is completed.        *)
(***************************************************************************)
UnbrokenRunCompletes ==
  state = "DONE" /\ cuts = 0 /\ resets = 1 => Pending(prog.plan) = {}

(***************************************************************************)
(* A step that ends a run announces it exactly once, after the final       *)
(* progress is stored; an error, too, is announced.                        *)
(***************************************************************************)
EndIsAnnounced ==
  /\ pc = "between" /\ ~cut => doneCalls = IF Done THEN 1 ELSE 0
  /\ doneCalls = 1 => Done /\ snap = <<prog>>
  /\ doneCalls <= 1

(***************************************************************************)
(* A child whose run is over is harvested and dropped, not stepped again.  *)
(* (A host that abandons a step may break this: ToolLoopAgentRunner.step   *)
(* does not look at its state.)                                            *)
(***************************************************************************)
ChildNotRevived ==
  [][(child \in {"DONE", "ERROR"} /\ ~cut) => child' \in {child, "none"}]_vars

(***************************************************************************)
(* Whatever the planner, the child and the vetoing hooks do, a run that is *)
(* driven ends: the ceilings are tested in step() itself.                  *)
(***************************************************************************)
RunEnds == pc # "down" ~> (Done \/ pc = "down")

(***************************************************************************)
(* plan_execute_runner.py:65: a healthy plan is never cut short, the cap   *)
(* forces only a replanner that stops making progress to completion.       *)
(***************************************************************************)
NeverCutShort == state = "DONE" => Pending(prog.plan) = {}

(***************************************************************************)
(* plan_execute_runner.py:521 and the replan prompt: the line of a todo    *)
(* shows the summary harvested from its own execution, also when the       *)
(* replanner reordered the plan as plan_execute_prompts.py tells it to.    *)
(***************************************************************************)
SummariesMatchTodos ==
  state = "DONE" =>
    \A i \in DOMAIN prog.plan :
      prog.summaries[i] \in {NoTodo, prog.plan[i].todo}

(* Seen from outside, a session is a succession of ordinary runs.          *)
Lifecycle == INSTANCE AgentLifecycle
LifecycleSpec == Lifecycle!SessionSpec
=============================================================================
