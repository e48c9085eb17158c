------------------------- MODULE PlanExecuteProofs -------------------------
(***************************************************************************)
(* Proofs about PlanExecute for any plans, any caps and any number of      *)
(* resets, steps cut short and crashes.                                    *)
(***************************************************************************)
EXTENDS PlanExecute, SequenceTheorems, WellFoundedInduction, TLAPS

(* A set of natural numbers that is not empty has a least element.         *)
LEMMA LeastElement ==
  ASSUME NEW S \in SUBSET Nat, S # {}
  PROVE  \E i \in S : \A j \in S : i <= j
  <1> DEFINE R == {ss \in Nat \X Nat : ss[1] < ss[2]}
  <1>1. IsWellFoundedOn(R, Nat)
    BY NatLessThanWellFounded DEF OpToRel
  <1>2. PICK i \in S : \A j \in S : ~ (<<j, i>> \in R)
    BY <1>1, WFMin
  <1>3. \A j \in S : i <= j
    <2> TAKE j \in S
    <2>1. i \in Nat /\ j \in Nat /\ ~ (j < i)
      BY <1>2 DEF R
    <2> QED BY <2>1
  <1> QED BY <1>3

(* _first_pending returns the first todo that is not completed.            *)
LEMMA FirstPendingIsFirst ==
  ASSUME NEW p \in Seq(Todo), Pending(p) # {}
  PROVE  /\ FirstPending(p) \in DOMAIN p
         /\ p[FirstPending(p)].status # "completed"
         /\ \A j \in Pending(p) : FirstPending(p) <= j
         /\ FirstPending(p) # 0
  <1>1. Pending(p) \in SUBSET Nat
    BY DEF Pending
  <1>2. \E i \in Pending(p) : \A j \in Pending(p) : i <= j
    BY <1>1, LeastElement
  <1>3. FirstPending(p) \in Pending(p) /\ \A j \in Pending(p) : FirstPending(p) <= j
    BY <1>2 DEF FirstPending
  <1> QED BY <1>3 DEF Pending

-----------------------------------------------------------------------------
(***************************************************************************)
(* The AgentState at each suspension point, and the phase.  `announce' is  *)
(* where the persisting of an end, and only of an end, goes on.            *)
(***************************************************************************)
StateAt ==
  /\ pc \in {"plan", "replan", "decide", "veto", "exec", "childStepped"} =>
       state = "RUNNING"
  /\ pc = "resync" => state = "IDLE"
  /\ pc = "announce" => Done
  /\ pc \in {"snapshot", "mirror"} => state # "IDLE" /\ (Done <=> after = "announce")

PhaseAt ==
  /\ pc = "plan" => prog.phase = "plan"
  /\ pc \in {"replan", "decide"} => prog.phase = "replan"
  /\ pc = "veto" => prog.phase # "exec"
  /\ pc \in {"exec", "childStepped"} => prog.phase = "exec"
  /\ pc \in {"snapshot", "mirror"} /\ after = "decide" => prog.phase = "replan"
  /\ pc \in {"snapshot", "mirror"} /\ after = "veto" => prog.phase # "exec"

Fits(p) == p \in Progress /\ Len(p.plan) <= MaxPlan

Sized ==
  /\ Fits(prog)
  /\ snap # <<>> => Fits(snap[1])

SessionInv ==
  /\ TypeOK
  /\ Sized
  /\ StateAt
  /\ PhaseAt
  /\ ExecAtFirstPending

(* TypeOK without its Boolean.                                             *)
DataOK ==
  /\ state \in {"IDLE", "RUNNING", "DONE", "ERROR"}
  /\ final \in {"none", "text", "err"}
  /\ doneCalls \in Nat
  /\ pc \in Suspension
  /\ after \in {"between", "announce", "decide", "veto"}
  /\ prog \in Progress
  /\ child \in {"none", "IDLE", "RUNNING", "DONE", "ERROR"}
  /\ steps \in Nat
  /\ attempts \in Nat
  /\ snap \in Seq(Progress) /\ Len(snap) <= 1
  /\ mirror \in Seq(Todo)
  /\ resets \in Nat
  /\ cuts \in Nat
  /\ crashes \in Nat

FlagOK == cut \in BOOLEAN

(* TypeOK in two parts: the flag, and data.                                *)
LEMMA TypeParts == TypeOK <=> DataOK /\ FlagOK
  BY DEF TypeOK, DataOK, FlagOK

(* The data part of the session's invariant.                               *)
LEMMA DataInSession == SessionInv => DataOK
  BY TypeParts DEF SessionInv

(* A submitted plan is a sequence of at most MaxPlan todos.                *)
LEMMA PlanFits ==
  ASSUME NEW p \in Plans
  PROVE  p \in Seq(Todo) /\ Len(p) <= MaxPlan
  <1>1. PICK n \in 0..MaxPlan : p \in [1..n -> Todo]
    BY DEF Plans
  <1>2. MaxPlan \in Nat /\ n \in Nat
    BY <1>1, PlanExecuteAssumption
  <1> QED BY <1>1, <1>2

(* A new session starts with an empty plan.                                *)
LEMMA FreshFits == Fits(Fresh) /\ AtFirstPending(Fresh)
  <1>1. MaxPlan \in Nat
    BY PlanExecuteAssumption
  <1>2. <<>> \in Seq(Todo) /\ Len(<<>>) = 0
    OBVIOUS
  <1>3. [i \in 1..MaxPlan |-> NoTodo] \in [1..MaxPlan -> Todos \cup {NoTodo}]
    OBVIOUS
  <1> QED BY <1>1, <1>2, <1>3 DEF Fits, Fresh, Progress, AtFirstPending

(* What holds before the first reset.                                      *)
LEMMA InitSession == Init => SessionInv
  <1> SUFFICES ASSUME Init PROVE SessionInv
    OBVIOUS
  <1>1. Fits(prog) /\ AtFirstPending(prog)
    BY FreshFits DEF Init
  <1>2. DataOK
    BY <1>1 DEF Init, DataOK, Fits, Suspension
  <1>3. FlagOK
    BY DEF Init, FlagOK
  <1> QED
    BY <1>1, <1>2, <1>3, TypeParts
       DEF Init, SessionInv, Sized, StateAt, PhaseAt, ExecAtFirstPending, Done

-----------------------------------------------------------------------------
(* Only these actions change the progress in memory.                       *)
LEMMA ProgChanges ==
  ASSUME [Next]_vars
  PROVE  \/ prog' = prog
         \/ Reset \/ BeginReplan \/ Decide \/ Refuse \/ Harvest
         \/ \E p \in Plans : Planned(p) \/ Replanned(p)
  <1>1. CASE Runner
    <2>1. Resync => prog' = prog
      BY DEF Resync
    <2>2. Persistence => prog' = prog
      BY DEF Persistence, WriteSnapshot, WriteMirror, HookReturns
    <2>3. Boundary => prog' = prog \/ BeginReplan
      BY DEF Boundary, CeilingTripped, BeginPlan, BeginExec, ForceComplete
    <2>4. AskAgain \/ NoPlan \/ CallTimesOut => prog' = prog
      BY DEF AskAgain, NoPlan, CallTimesOut
    <2>5. Admit \/ ChildSteps \/ ChildGoesOn => prog' = prog
      BY DEF Admit, ChildSteps, ChildGoesOn
    <2> QED
      BY <1>1, <2>1, <2>2, <2>3, <2>4, <2>5 DEF Runner, Planner, Completion, Executor
  <1>2. CASE Environment
    BY <1>2 DEF Environment, CutShort, Crash
  <1>3. CASE UNCHANGED vars
    BY <1>3 DEF vars
  <1> QED BY <1>1, <1>2, <1>3 DEF Next

(* Harvesting completes the todo the cursor is on, a todo of the plan.     *)
LEMMA HarvestFits ==
  ASSUME SessionInv, Harvest
  PROVE  Fits(prog') /\ prog'.phase = "replan"
  <1>1. prog \in Progress /\ Len(prog.plan) <= MaxPlan
    BY DEF SessionInv, Sized, Fits
  <1>2. prog.plan \in Seq(Todo) /\ prog.summaries \in [1..MaxPlan -> Todos \cup {NoTodo}]
    BY <1>1 DEF Progress
  <1>3. prog.cursor \in DOMAIN prog.plan
    <2>1. prog.cursor = FirstPending(prog.plan) /\ prog.cursor # 0
      BY DEF SessionInv, PhaseAt, Harvest, ExecAtFirstPending, AtFirstPending
    <2>2. Pending(prog.plan) # {}
      BY <2>1 DEF FirstPending
    <2> QED BY <1>2, <2>1, <2>2, FirstPendingIsFirst
  <1>4. PICK summary \in {prog.plan[prog.cursor].todo, NoTodo} :
          prog' = [prog EXCEPT !.plan[prog.cursor].status = "completed",
                               !.summaries[prog.cursor] = summary,
                               !.replans = 0, !.phase = "replan"]
    BY DEF Harvest
  <1> DEFINE t == prog.plan[prog.cursor]
  <1>5. t \in Todo
    BY <1>2, <1>3
  <1> DEFINE done == [t EXCEPT !.status = "completed"]
             plan == [prog.plan EXCEPT ![prog.cursor] = done]
             sums == [prog.summaries EXCEPT ![prog.cursor] = summary]
  <1>6. done \in Todo
    BY <1>5 DEF Todo
  <1>7. plan \in Seq(Todo) /\ Len(plan) = Len(prog.plan)
    <2> HIDE DEF done
    <2> QED BY <1>2, <1>3, <1>6
  <1>8. sums \in [1..MaxPlan -> Todos \cup {NoTodo}]
    <2>1. summary \in Todos \cup {NoTodo}
      BY <1>4, <1>5 DEF Todo
    <2> HIDE DEF t
    <2> QED BY <1>2, <2>1
  <1>9. /\ prog'.plan = plan
        /\ prog'.summaries = sums
        /\ prog'.replans = 0
        /\ prog'.phase = "replan"
        /\ prog'.cursor = prog.cursor
        /\ prog' = [phase |-> "replan", plan |-> plan, cursor |-> prog.cursor,
                    summaries |-> sums, replans |-> 0]
    BY <1>1, <1>4 DEF Progress
  <1> HIDE DEF plan, sums
  <1>10. prog.cursor \in Nat
    BY <1>1 DEF Progress
  <1>11. prog' \in Progress
    BY <1>7, <1>8, <1>9, <1>10 DEF Progress
  <1>12. Len(prog'.plan) <= MaxPlan
    BY <1>1, <1>7, <1>9
  <1> QED BY <1>9, <1>11, <1>12 DEF Fits

(* The progress in memory keeps its range and its cursor.                  *)
LEMMA ProgStep ==
  ASSUME SessionInv, [Next]_vars
  PROVE  Fits(prog') /\ AtFirstPending(prog')
  <1> USE DEF Fits
  <1>1. Fits(prog) /\ AtFirstPending(prog)
    BY DEF SessionInv, Sized, ExecAtFirstPending
  <1>2. CASE prog' = prog
    BY <1>1, <1>2
  <1>3. CASE Reset
    BY <1>3, FreshFits DEF Reset, SessionInv, Sized, ExecAtFirstPending
  <1>4. CASE BeginReplan
    BY <1>1, <1>4 DEF BeginReplan, Progress, AtFirstPending
  <1>5. CASE Decide
    <2>1. CASE Pending(prog.plan) = {}
      BY <1>1, <1>5, <2>1 DEF Decide
    <2>2. CASE Pending(prog.plan) # {}
      <3>1. prog.plan \in Seq(Todo)
        BY <1>1 DEF Progress
      <3>2. FirstPending(prog.plan) \in Nat /\ FirstPending(prog.plan) # 0
        BY <2>2, <3>1, FirstPendingIsFirst
      <3>3. prog' = [prog EXCEPT !.phase = "exec", !.cursor = FirstPending(prog.plan)]
        BY <1>5, <2>2 DEF Decide
      <3> QED BY <1>1, <3>2, <3>3 DEF Progress, AtFirstPending
    <2> QED BY <2>1, <2>2
  <1>6. CASE Refuse
    BY <1>1, <1>6 DEF Refuse, Progress, AtFirstPending
  <1>7. CASE Harvest
    BY <1>7, HarvestFits DEF AtFirstPending
  <1>8. ASSUME NEW p \in Plans, Planned(p) PROVE Fits(prog') /\ AtFirstPending(prog')
    <2>1. p \in Seq(Todo) /\ Len(p) <= MaxPlan
      BY PlanFits
    <2>2. CASE Pending(p) = {}
      <3>1. prog' = [prog EXCEPT !.plan = p, !.replans = 0, !.cursor = 1]
        BY <1>8, <2>2 DEF Planned
      <3>2. prog.phase = "plan"
        BY <1>8 DEF Planned, SessionInv, PhaseAt
      <3> QED BY <1>1, <2>1, <3>1, <3>2 DEF Progress, AtFirstPending
    <2>3. CASE Pending(p) # {}
      <3>1. prog' = [prog EXCEPT !.plan = p, !.replans = 0, !.phase = "exec",
                                 !.cursor = FirstPending(p)]
        BY <1>8, <2>3 DEF Planned
      <3>2. FirstPending(p) \in Nat /\ FirstPending(p) # 0
        BY <2>1, <2>3, FirstPendingIsFirst
      <3> QED BY <1>1, <2>1, <3>1, <3>2 DEF Progress, AtFirstPending
    <2> QED BY <2>2, <2>3
  <1>9. ASSUME NEW p \in Plans, Replanned(p) PROVE Fits(prog') /\ AtFirstPending(prog')
    <2>1. p \in Seq(Todo) /\ Len(p) <= MaxPlan
      BY PlanFits
    <2>2. prog.phase = "replan" /\ prog' = [prog EXCEPT !.plan = p]
      BY <1>9 DEF Replanned, SessionInv, PhaseAt
    <2> QED BY <1>1, <2>1, <2>2 DEF Progress, AtFirstPending
  <1> QED
    BY ProgChanges, <1>2, <1>3, <1>4, <1>5, <1>6, <1>7, <1>8, <1>9

(* Only WriteSnapshot and WriteMirror write the store's two keys, besides  *)
(* the resync of the mirror by reset.                                      *)
LEMMA StoreChanges ==
  ASSUME [Next]_vars
  PROVE  /\ snap' = snap \/ WriteSnapshot
         /\ mirror' = mirror \/ (WriteMirror \/ Resync)
  <1>1. CASE Runner
    <2>1. Persistence => snap' = snap \/ WriteSnapshot
      BY DEF Persistence, WriteMirror, HookReturns, store
    <2>2. Persistence => mirror' = mirror \/ WriteMirror
      BY DEF Persistence, WriteSnapshot, HookReturns, store
    <2>3. Boundary => UNCHANGED store
      BY DEF Boundary, CeilingTripped, BeginPlan, BeginExec, BeginReplan, ForceComplete
    <2>4. Planner => UNCHANGED store
      BY DEF Planner, AskAgain, NoPlan, CallTimesOut, Decide, Planned, Replanned
    <2>5. Completion \/ Executor => UNCHANGED store
      BY DEF Completion, Executor, Admit, Refuse, ChildSteps, ChildGoesOn, Harvest
    <2>6. Resync => snap' = snap
      BY DEF Resync
    <2> QED
      BY <1>1, <2>1, <2>2, <2>3, <2>4, <2>5, <2>6 DEF Runner, store
  <1>2. CASE Environment
    BY <1>2 DEF Environment, Reset, CutShort, Crash, store
  <1>3. CASE UNCHANGED vars
    BY <1>3 DEF vars, store
  <1> QED BY <1>1, <1>2, <1>3 DEF Next

(* Every step keeps the data in range.                                     *)
LEMMA DataStep ==
  ASSUME SessionInv, [Next]_vars
  PROVE  DataOK'
  <1>1. DataOK
    BY TypeParts DEF SessionInv
  <1>2. prog' \in Progress /\ prog.plan \in Seq(Todo)
    BY <1>1, ProgStep DEF Fits, DataOK, Progress
  <1>3. snap' \in Seq(Progress) /\ Len(snap') <= 1
    <2>1. CASE snap' = snap
      BY <1>1, <2>1 DEF DataOK
    <2>2. CASE WriteSnapshot
      <3>1. snap' = <<prog>> /\ prog \in Progress
        BY <1>1, <2>2 DEF WriteSnapshot, DataOK
      <3> QED BY <3>1
    <2> QED BY <2>1, <2>2, StoreChanges
  <1>4. mirror' \in Seq(Todo)
    BY <1>1, <1>2, StoreChanges DEF DataOK, WriteMirror, Resync
  <1> DEFINE RestOK ==
    /\ state \in {"IDLE", "RUNNING", "DONE", "ERROR"}
    /\ final \in {"none", "text", "err"}
    /\ doneCalls \in Nat
    /\ pc \in Suspension
    /\ after \in {"between", "announce", "decide", "veto"}
    /\ child \in {"none", "IDLE", "RUNNING", "DONE", "ERROR"}
    /\ steps \in Nat
    /\ attempts \in Nat
    /\ resets \in Nat
    /\ cuts \in Nat
    /\ crashes \in Nat
  <1>5. RestOK
    BY <1>1 DEF DataOK
  <1>6. RestOK'
    <2> USE <1>5 DEF Suspension, lifecycle, history
    <2>1. CASE Resync
      BY <2>1 DEF Resync
    <2>2. CASE Persistence
      BY <2>2 DEF Persistence, WriteSnapshot, WriteMirror, HookReturns
    <2>3. CASE Boundary
      <3>1. CASE CeilingTripped \/ ForceComplete
        BY <3>1 DEF CeilingTripped, ForceComplete, StepStarts, StepRuns, Finish, PersistThen
      <3>2. CASE BeginPlan \/ BeginExec
        BY <3>2 DEF BeginPlan, BeginExec, StepStarts, StepRuns, PersistThen
      <3>3. CASE BeginReplan
        BY <3>3 DEF BeginReplan, StepStarts, StepRuns, PersistThen
      <3> QED BY ONLY <2>3, <3>1, <3>2, <3>3 DEF Boundary
    <2>4. CASE AskAgain \/ NoPlan \/ CallTimesOut \/ Decide
      BY <2>4 DEF AskAgain, NoPlan, CallTimesOut, LeaveChild, Decide, Finish, PersistThen
    <2>5. ASSUME NEW p \in Plans, Planned(p) \/ Replanned(p) PROVE RestOK'
      BY <2>5 DEF Planned, Replanned, PersistThen
    <2>6. CASE Completion
      BY <2>6 DEF Completion, Admit, Refuse, Finish, PersistThen
    <2>7. CASE Executor
      BY <2>7 DEF Executor, ChildSteps, ChildGoesOn, Harvest, PersistThen
    <2>8. CASE Environment
      BY <2>8, SMTT(30) DEF Environment, Reset, CutShort, LeaveChild, Crash
    <2>9. CASE UNCHANGED vars
      BY <2>9 DEF vars
    <2> QED
      BY <2>1, <2>2, <2>3, <2>4, <2>5, <2>6, <2>7, <2>8, <2>9 DEF Next, Runner, Planner
  <1> QED BY <1>2, <1>3, <1>4, <1>6 DEF DataOK

(* Every step keeps every field in range.                                  *)
LEMMA TypeStep ==
  ASSUME SessionInv, [Next]_vars
  PROVE  TypeOK'
  <1>1. FlagOK
    BY TypeParts DEF SessionInv
  <1>2. FlagOK'
    <2> USE <1>1 DEF FlagOK, history
    <2>1. CASE Resync \/ Persistence
      BY <2>1 DEF Resync, Persistence, WriteSnapshot, WriteMirror, HookReturns
    <2>2. CASE Boundary
      BY <2>2 DEF Boundary, CeilingTripped, BeginPlan, BeginExec, BeginReplan, ForceComplete
    <2>3. CASE Planner
      BY <2>3 DEF Planner, AskAgain, NoPlan, CallTimesOut, Decide, Planned, Replanned
    <2>4. CASE Completion \/ Executor
      BY <2>4 DEF Completion, Executor, Admit, Refuse, ChildSteps, ChildGoesOn, Harvest
    <2>5. CASE Environment
      BY <2>5 DEF Environment, Reset, CutShort, Crash
    <2>6. CASE UNCHANGED vars
      BY <2>6 DEF vars
    <2> HIDE <1>1 DEF FlagOK
    <2> QED BY <2>1, <2>2, <2>3, <2>4, <2>5, <2>6 DEF Next, Runner
  <1>3. DataOK'
    BY DataStep
  <1> QED BY <1>2, <1>3 DEF TypeOK, DataOK, FlagOK

(* The state and the phase keep to the suspension point, and there is a    *)
(* child in phase EXEC only.                                               *)
LEMMA LocationStep ==
  ASSUME SessionInv, [Next]_vars
  PROVE  StateAt' /\ PhaseAt' /\ (child # "none" => prog.phase = "exec")'
  <1> DEFINE Located == StateAt /\ PhaseAt /\ (child # "none" => prog.phase = "exec")
  <1>1. Located /\ prog \in Progress
    BY DEF SessionInv, ExecAtFirstPending, Sized, Fits
  <1>2. Located'
    <2> USE <1>1 DEF StateAt, PhaseAt, Done, lifecycle
    <2>1. CASE Resync
      BY <2>1 DEF Resync
    <2>2. CASE Persistence
      <3>1. CASE WriteSnapshot
        BY <3>1 DEF WriteSnapshot
      <3>2. CASE WriteMirror
        <4>1. after \in {"between", "announce", "decide", "veto"}
          BY DataInSession DEF DataOK
        <4>2. state \in {"IDLE", "RUNNING", "DONE", "ERROR"}
          BY DataInSession DEF DataOK
        <4> QED BY <3>2, <4>1, <4>2 DEF WriteMirror
      <3>3. CASE HookReturns
        BY <3>3 DEF HookReturns
      <3> QED BY <2>2, <3>1, <3>2, <3>3 DEF Persistence
    <2>3. CASE Boundary
      BY <2>3 DEF Boundary, CeilingTripped, BeginPlan, BeginExec, BeginReplan,
                  ForceComplete, StepStarts, StepRuns, Finish, PersistThen, Progress
    <2>4. CASE AskAgain \/ NoPlan \/ CallTimesOut
      BY <2>4 DEF AskAgain, NoPlan, CallTimesOut, LeaveChild, Finish, PersistThen
    <2>5. CASE Decide
      BY <2>5 DEF Decide, PersistThen, Progress
    <2>6. ASSUME NEW p \in Plans, Planned(p) PROVE Located'
      BY <2>6 DEF Planned, PersistThen, Progress
    <2>7. ASSUME NEW p \in Plans, Replanned(p) PROVE Located'
      BY <2>7 DEF Replanned, PersistThen, Progress
    <2>8. CASE Completion
      BY <2>8 DEF Completion, Admit, Refuse, Finish, PersistThen, Progress
    <2>9. CASE ChildSteps \/ ChildGoesOn
      BY <2>9 DEF ChildSteps, ChildGoesOn
    <2>10. CASE Harvest
      <3>1. prog'.phase = "replan"
        BY <2>10, HarvestFits
      <3> QED BY <2>10, <3>1 DEF Harvest, PersistThen
    <2>11. CASE Environment
      BY <2>11 DEF Environment, Reset, CutShort, LeaveChild, Crash
    <2>12. CASE UNCHANGED vars
      BY <2>12 DEF vars
    <2> HIDE DEF StateAt, PhaseAt
    <2> QED
      BY <2>1, <2>2, <2>3, <2>4, <2>5, <2>6, <2>7, <2>8, <2>9, <2>10, <2>11, <2>12
         DEF Next, Runner, Planner, Executor
  <1> QED BY <1>2

(* Every step of the runner, the host or the environment keeps the         *)
(* session's invariant.                                                    *)
LEMMA SessionStep ==
  ASSUME SessionInv, [Next]_vars
  PROVE  SessionInv'
  <1>1. Fits(prog') /\ AtFirstPending(prog')
    BY ProgStep
  <1>2. snap' # <<>> => Fits(snap'[1]) /\ AtFirstPending(snap'[1])
    <2>1. CASE snap' = snap
      BY <2>1 DEF SessionInv, Sized, ExecAtFirstPending
    <2>2. CASE WriteSnapshot
      <3>1. snap' = <<prog>> /\ Fits(prog) /\ AtFirstPending(prog)
        BY <2>2 DEF WriteSnapshot, SessionInv, Sized, ExecAtFirstPending
      <3> QED BY <3>1
    <2> QED BY <2>1, <2>2, StoreChanges
  <1>3. (child # "none" => prog.phase = "exec")'
    BY LocationStep
  <1>4. Sized' /\ ExecAtFirstPending'
    BY <1>1, <1>2, <1>3 DEF Sized, ExecAtFirstPending, Fits, AtFirstPending, FirstPending, Pending
  <1> QED BY <1>4, TypeStep, LocationStep DEF SessionInv

(* The session's invariant holds throughout.                               *)
LEMMA SessionInvariant == Spec => []SessionInv
  <1>1. SessionInv /\ [Next]_vars => SessionInv'
    BY SessionStep
  <1> QED BY InitSession, <1>1, PTL DEF Spec

(***************************************************************************)
(* Every field of PlanExecuteRunner stays in its range.                    *)
(***************************************************************************)
THEOREM PlanExecuteTypes == Spec => []TypeOK
  <1>1. SessionInv => TypeOK
    BY DEF SessionInv
  <1> QED BY <1>1, SessionInvariant, PTL

(***************************************************************************)
(* In phase EXEC the cursor is on the first pending todo, in memory and in *)
(* the snapshot, for plans of any length and after any number of crashes:  *)
(* what _build_sub_runner and _on_sub_done index is always in the plan.    *)
(***************************************************************************)
THEOREM CursorOnFirstPending == Spec => []ExecAtFirstPending
  <1>1. SessionInv => ExecAtFirstPending
    BY DEF SessionInv
  <1> QED BY <1>1, SessionInvariant, PTL

-----------------------------------------------------------------------------
(* The announcement: none before the end is stored, exactly one after.     *)
EndInv ==
  /\ doneCalls \in {0, 1}
  /\ doneCalls = 1 => Done /\ snap = <<prog>>
  /\ pc \in {"snapshot", "mirror"} => doneCalls = 0
  /\ pc = "mirror" => snap = <<prog>>
  /\ pc = "announce" => doneCalls = 1
  /\ pc = "between" /\ Done /\ ~cut => doneCalls = 1

(* Every step keeps announcement, end and stored progress together.        *)
LEMMA EndStep ==
  ASSUME SessionInv, EndInv, [Next]_vars
  PROVE  EndInv'
  <1>1. StateAt /\ EndInv
    BY DEF SessionInv
  <1> USE <1>1 DEF EndInv, StateAt, Done, lifecycle, store, history
  <1>2. CASE Resync
    BY <1>2 DEF Resync
  <1>3. CASE WriteSnapshot
    BY <1>3 DEF WriteSnapshot
  <1>4. CASE WriteMirror
    BY <1>4 DEF WriteMirror
  <1>5. CASE HookReturns
    BY <1>5 DEF HookReturns
  <1>6. CASE Boundary
    BY <1>6 DEF Boundary, CeilingTripped, BeginPlan, BeginExec, BeginReplan,
                ForceComplete, StepStarts, StepRuns, Finish, PersistThen
  <1>7. CASE AskAgain \/ NoPlan \/ CallTimesOut \/ Decide
    BY <1>7 DEF AskAgain, NoPlan, CallTimesOut, Decide, Finish, PersistThen
  <1>8. ASSUME NEW p \in Plans, Planned(p) \/ Replanned(p) PROVE EndInv'
    BY <1>8 DEF Planned, Replanned, PersistThen
  <1>9. CASE Completion
    BY <1>9 DEF Completion, Admit, Refuse, Finish, PersistThen
  <1>10. CASE Executor
    BY <1>10 DEF Executor, ChildSteps, ChildGoesOn, Harvest, PersistThen
  <1>11. CASE Environment
    BY <1>11 DEF Environment, Reset, CutShort, Crash
  <1>12. CASE UNCHANGED vars
    BY <1>12 DEF vars
  <1> HIDE DEF EndInv
  <1> QED
    BY <1>2, <1>3, <1>4, <1>5, <1>6, <1>7, <1>8, <1>9, <1>10, <1>11, <1>12
       DEF Next, Runner, Persistence, Planner

(* The store holds the progress in memory, both keys alike, or nothing.    *)
Stored ==
  IF snap = <<>> THEN prog = Fresh /\ mirror = <<>>
                 ELSE snap[1] = prog /\ mirror = prog.plan

(* Where the store and the memory agree: between two steps of a run, while *)
(* the child is stepped, and when an end is announced.                     *)
StoreInv ==
  /\ snap = <<>> => mirror = <<>>
  /\ pc = "resync" => snap = <<prog>>
  /\ pc = "mirror" => snap = <<prog>>
  /\ pc = "announce" => snap = <<prog>> /\ mirror = prog.plan
  /\ pc \in {"between", "exec", "childStepped"} /\ ~cut => Stored

(* A sequence of at most one element is empty or holds its first.          *)
LEMMA OnlyElement ==
  ASSUME NEW S, NEW s \in Seq(S), s # <<>>, Len(s) <= 1
  PROVE  s = <<s[1]>>
  <1>1. Len(s) = 1 /\ s[1] \in S
    <2>1. Len(s) \in Nat \ {0}
      BY EmptySeq
    <2>2. Len(s) = 1
      BY <2>1
    <2> QED BY <2>2
  <1>2. <<s[1]>> \in Seq(S) /\ Len(<<s[1]>>) = 1
    BY <1>1
  <1>3. \A i \in 1..Len(s) : s[i] = <<s[1]>>[i]
    BY <1>1
  <1> QED BY <1>1, <1>2, <1>3, SeqEqual

(* Every step keeps store and memory in agreement.                         *)
LEMMA StoreStep ==
  ASSUME SessionInv, StoreInv, [Next]_vars
  PROVE  StoreInv'
  <1>1. StoreInv
    OBVIOUS
  <1> USE <1>1 DEF StoreInv, Stored, lifecycle, store, history
  <1>2. CASE Resync
    BY <1>2 DEF Resync
  <1>3. CASE WriteSnapshot
    BY <1>3 DEF WriteSnapshot
  <1>4. CASE WriteMirror
    <2>1. after \in {"between", "announce", "decide", "veto"}
      BY DataInSession DEF DataOK
    <2> QED BY <1>4, <2>1 DEF WriteMirror
  <1>5. CASE HookReturns
    BY <1>5 DEF HookReturns
  <1>6. CASE Boundary
    BY <1>6 DEF Boundary, CeilingTripped, BeginPlan, BeginExec, BeginReplan,
                ForceComplete, StepStarts, StepRuns, Finish, PersistThen
  <1>7. CASE AskAgain \/ NoPlan \/ CallTimesOut \/ Decide
    BY <1>7 DEF AskAgain, NoPlan, CallTimesOut, Decide, Finish, PersistThen
  <1>8. ASSUME NEW p \in Plans, Planned(p) \/ Replanned(p) PROVE StoreInv'
    BY <1>8 DEF Planned, Replanned, PersistThen
  <1>9. CASE Completion
    BY <1>9 DEF Completion, Admit, Refuse, Finish, PersistThen
  <1>10. CASE Executor
    BY <1>10 DEF Executor, ChildSteps, ChildGoesOn, Harvest, PersistThen
  <1>11. CASE Reset
    <2>1. CASE snap = <<>>
      BY <1>11, <2>1 DEF Reset
    <2>2. CASE snap # <<>>
      <3>1. snap \in Seq(Progress) /\ Len(snap) <= 1
        BY DataInSession DEF DataOK
      <3>2. snap = <<snap[1]>>
        BY <2>2, <3>1, OnlyElement
      <3> QED BY <1>11, <2>2, <3>2 DEF Reset
    <2> QED BY <2>1, <2>2
  <1>12. CASE CutShort
    BY <1>12 DEF CutShort
  <1>13. CASE Crash
    BY <1>13 DEF Crash
  <1>14. CASE UNCHANGED vars
    BY <1>14 DEF vars
  <1> HIDE DEF StoreInv
  <1> QED
    BY <1>2, <1>3, <1>4, <1>5, <1>6, <1>7, <1>8, <1>9, <1>10, <1>11, <1>12, <1>13, <1>14
       DEF Next, Runner, Environment, Persistence, Planner

-----------------------------------------------------------------------------
(***************************************************************************)
(* In the first run, with no step cut short, a replan that is not the      *)
(* first since the last harvest follows a veto, and so a finished plan.    *)
(***************************************************************************)
UnbrokenInv ==
  /\ resets = 0 => pc = "down" /\ snap = <<>> /\ state = "IDLE"
  /\ resets <= 1 => pc # "resync"
  /\ cuts = 0 /\ resets <= 1 =>
       /\ state = "DONE" => Pending(prog.plan) = {}
       /\ pc = "veto" => Pending(prog.plan) = {}
       /\ pc \in {"snapshot", "mirror"} /\ after = "veto" => Pending(prog.plan) = {}
       /\ \/ pc = "between" /\ ~Done
          \/ pc \in {"snapshot", "mirror"} /\ after = "between"
          => (prog.phase = "replan" => prog.replans = 0 \/ Pending(prog.plan) = {})

(* Every step keeps an unbroken run's forced completions to finished plans.*)
LEMMA UnbrokenStep ==
  ASSUME MaxReplan > 0, SessionInv, UnbrokenInv, [Next]_vars
  PROVE  UnbrokenInv'
  <1>1. /\ StateAt /\ PhaseAt /\ UnbrokenInv
        /\ prog \in Progress
        /\ MaxReplan \in Nat /\ resets \in Nat /\ cuts \in Nat
        /\ state \in {"IDLE", "RUNNING", "DONE", "ERROR"}
        /\ after \in {"between", "announce", "decide", "veto"}
    BY DataInSession, PlanExecuteAssumption DEF SessionInv, DataOK
  <1> USE <1>1 DEF UnbrokenInv, StateAt, PhaseAt, Done, lifecycle, store, history
  <1>2. CASE Resync
    BY <1>2 DEF Resync
  <1>3. CASE WriteSnapshot
    BY <1>3 DEF WriteSnapshot
  <1>4. CASE WriteMirror
    BY <1>4 DEF WriteMirror
  <1>5. CASE HookReturns
    BY <1>5 DEF HookReturns
  <1>6. CASE Boundary
    <2>1. CASE CeilingTripped
      BY <2>1 DEF CeilingTripped, StepStarts, Finish, PersistThen
    <2>2. CASE BeginPlan \/ BeginExec
      BY <2>2 DEF BeginPlan, BeginExec, StepStarts, StepRuns
    <2>3. CASE BeginReplan
      BY <2>3 DEF BeginReplan, StepStarts, StepRuns
    <2>4. CASE ForceComplete
      BY <2>4 DEF ForceComplete, StepStarts, StepRuns, Finish, PersistThen
    <2> QED BY <1>6, <2>1, <2>2, <2>3, <2>4 DEF Boundary
  <1>7. CASE AskAgain \/ NoPlan \/ CallTimesOut
    BY <1>7 DEF AskAgain, NoPlan, CallTimesOut, Finish, PersistThen
  <1>8. CASE Decide
    BY <1>8 DEF Decide, PersistThen, Progress
  <1>9. ASSUME NEW p \in Plans, Planned(p) PROVE UnbrokenInv'
    BY <1>9 DEF Planned, PersistThen, Progress
  <1>10. ASSUME NEW p \in Plans, Replanned(p) PROVE UnbrokenInv'
    BY <1>10 DEF Replanned, PersistThen, Progress
  <1>11. CASE Admit
    BY <1>11 DEF Admit, Finish, PersistThen
  <1>12. CASE Refuse
    BY <1>12 DEF Refuse, PersistThen, Progress
  <1>13. CASE ChildSteps \/ ChildGoesOn
    BY <1>13 DEF ChildSteps, ChildGoesOn
  <1>14. CASE Harvest
    <2>1. prog'.replans = 0
      BY <1>14 DEF Harvest, Progress
    <2>2. /\ UNCHANGED <<lifecycle, resets, cuts, snap>>
          /\ pc' = "snapshot" /\ after' = "between" /\ pc = "childStepped"
      BY <1>14 DEF Harvest, PersistThen
    <2> QED BY <2>1, <2>2
  <1>15. CASE Reset
    BY <1>15 DEF Reset, Fresh
  <1>16. CASE CutShort
    BY <1>16 DEF CutShort
  <1>17. CASE Crash
    BY <1>17 DEF Crash
  <1>18. CASE UNCHANGED vars
    BY <1>18 DEF vars
  <1> HIDE <1>1 DEF UnbrokenInv
  <1> QED
    BY <1>2, <1>3, <1>4, <1>5, <1>6, <1>7, <1>8, <1>9, <1>10, <1>11, <1>12, <1>13,
       <1>14, <1>15, <1>16, <1>17, <1>18
       DEF Next, Runner, Environment, Persistence, Planner, Completion, Executor

(* A child whose run is over is looked at in the step that ended it.       *)
ChildInv ==
  child \in {"DONE", "ERROR"} /\ ~cut => pc \in {"childStepped", "down"} \/ Done

(* Every step keeps finished children from lingering, and none revives one.*)
LEMMA ChildStep ==
  ASSUME SessionInv, ChildInv, [Next]_vars
  PROVE  /\ ChildInv'
         /\ child \in {"DONE", "ERROR"} /\ ~cut => child' \in {child, "none"}
  <1> DEFINE Kept == child \in {"DONE", "ERROR"} /\ ~cut => child' \in {child, "none"}
  <1>1. StateAt /\ ChildInv
    BY DEF SessionInv
  <1>2. ChildInv' /\ Kept
    <2> USE <1>1 DEF ChildInv, StateAt, Done, lifecycle, history
    <2>1. CASE Resync
      BY <2>1 DEF Resync
    <2>2. CASE Persistence
      BY <2>2 DEF Persistence, WriteSnapshot, WriteMirror, HookReturns
    <2>3. CASE Boundary
      <3>1. CASE CeilingTripped \/ ForceComplete
        BY <3>1 DEF CeilingTripped, ForceComplete, StepStarts, StepRuns, Finish, PersistThen
      <3>2. CASE BeginPlan \/ BeginExec
        BY <3>2 DEF BeginPlan, BeginExec, StepStarts, StepRuns, PersistThen
      <3>3. CASE BeginReplan
        BY <3>3 DEF BeginReplan, StepStarts, StepRuns, PersistThen
      <3> QED BY ONLY <2>3, <3>1, <3>2, <3>3 DEF Boundary
    <2>4. CASE AskAgain \/ NoPlan \/ CallTimesOut \/ Decide
      BY <2>4 DEF AskAgain, NoPlan, CallTimesOut, LeaveChild, Decide, Finish, PersistThen
    <2>5. ASSUME NEW p \in Plans, Planned(p) \/ Replanned(p) PROVE ChildInv' /\ Kept
      BY <2>5 DEF Planned, Replanned, PersistThen
    <2>6. CASE Completion
      BY <2>6 DEF Completion, Admit, Refuse, Finish, PersistThen
    <2>7. CASE Executor
      BY <2>7 DEF Executor, ChildSteps, ChildGoesOn, Harvest, PersistThen
    <2>8. CASE Environment
      BY <2>8 DEF Environment, Reset, CutShort, LeaveChild, Crash
    <2>9. CASE UNCHANGED vars
      BY <2>9 DEF vars
    <2> HIDE DEF ChildInv, Kept
    <2> QED
      BY <2>1, <2>2, <2>3, <2>4, <2>5, <2>6, <2>7, <2>8, <2>9 DEF Next, Runner, Planner
  <1> QED BY <1>2

-----------------------------------------------------------------------------
(* Nothing is announced, stored or out of line before the first reset.     *)
LEMMA InitRest == Init => EndInv /\ StoreInv /\ UnbrokenInv /\ ChildInv
  BY DEF Init, EndInv, StoreInv, UnbrokenInv, ChildInv, Done

(***************************************************************************)
(* Between two steps no one interrupted, the store is what a recovering    *)
(* process needs: both keys hold the progress in memory.                   *)
(***************************************************************************)
THEOREM StoreFollowsMemory == Spec => []DurableAtBoundary
  <1>1. Init => StoreInv
    BY InitRest
  <1>2. SessionInv /\ StoreInv /\ [Next]_vars => StoreInv'
    BY StoreStep
  <1>3. StoreInv => DurableAtBoundary
    BY DEF StoreInv, Stored, DurableAtBoundary
  <1> QED BY SessionInvariant, <1>1, <1>2, <1>3, PTL DEF Spec

(***************************************************************************)
(* However a run ends, it is announced once, after its final progress was  *)
(* stored, and before its last step is over.                               *)
(***************************************************************************)
THEOREM AnnouncedOnce == Spec => []EndIsAnnounced
  <1>1. Init => EndInv
    BY InitRest
  <1>2. SessionInv /\ EndInv /\ [Next]_vars => EndInv'
    BY EndStep
  <1>3. EndInv => EndIsAnnounced
    BY DEF EndInv, EndIsAnnounced, Done
  <1> QED BY SessionInvariant, <1>1, <1>2, <1>3, PTL DEF Spec

(***************************************************************************)
(* With a cap of at least one replan, the cap cuts short no plan in a      *)
(* first run that no one interrupts, however often a hook vetoes.          *)
(***************************************************************************)
THEOREM HealthyPlansComplete ==
  ASSUME MaxReplan > 0
  PROVE  Spec => []UnbrokenRunCompletes
  <1>1. Init => UnbrokenInv
    BY InitRest
  <1>2. SessionInv /\ UnbrokenInv /\ [Next]_vars => UnbrokenInv'
    BY UnbrokenStep
  <1>3. UnbrokenInv => UnbrokenRunCompletes
    BY DEF UnbrokenInv, UnbrokenRunCompletes
  <1> QED BY SessionInvariant, <1>1, <1>2, <1>3, PTL DEF Spec

(***************************************************************************)
(* As long as no step of its run was abandoned, a child whose run is over  *)
(* is not stepped again.                                                   *)
(***************************************************************************)
THEOREM ChildrenEndOnce == Spec => ChildNotRevived
  <1>1. Init => ChildInv
    BY InitRest
  <1>2. SessionInv /\ ChildInv /\ [Next]_vars => ChildInv'
    BY ChildStep
  <1>3. SessionInv /\ ChildInv /\ [Next]_vars =>
          [(child \in {"DONE", "ERROR"} /\ ~cut) => child' \in {child, "none"}]_vars
    BY ChildStep
  <1> QED BY SessionInvariant, <1>1, <1>2, <1>3, PTL DEF Spec, ChildNotRevived

-----------------------------------------------------------------------------
(* Only a response ends a run.                                             *)
FinalInv == Done => final # "none"

(* Every step is a step of the lifecycle, a restart, or leaves it alone.   *)
LEMMA LifecycleStep ==
  ASSUME SessionInv, EndInv, FinalInv, [Next]_vars
  PROVE  /\ FinalInv'
         /\ [Lifecycle!Next \/ Lifecycle!Restart]_(Lifecycle!lifecycleVars)
  <1> DEFINE Refined == [Lifecycle!Next \/ Lifecycle!Restart]_(Lifecycle!lifecycleVars)
  <1>1. /\ StateAt /\ EndInv /\ FinalInv
        /\ state \in {"IDLE", "RUNNING", "DONE", "ERROR"}
    BY DataInSession DEF SessionInv, DataOK
  <1>2. FinalInv' /\ Refined
    <2> USE <1>1 DEF FinalInv, EndInv, StateAt, Done, lifecycle, Lifecycle!lifecycleVars,
                     Lifecycle!Next, Lifecycle!Begin, Lifecycle!Answer, Lifecycle!Fail,
                     Lifecycle!EndWith, Lifecycle!Announce, Lifecycle!Restart
    <2>1. CASE Resync
      BY <2>1 DEF Resync
    <2>2. CASE WriteSnapshot \/ HookReturns
      BY <2>2 DEF WriteSnapshot, HookReturns
    <2>3. CASE WriteMirror
      BY <2>3 DEF WriteMirror
    <2>4. CASE CeilingTripped \/ ForceComplete
      BY <2>4 DEF CeilingTripped, ForceComplete, StepStarts, StepRuns, Finish
    <2>5. CASE BeginPlan \/ BeginExec \/ BeginReplan
      BY <2>5 DEF BeginPlan, BeginExec, BeginReplan, StepStarts, StepRuns
    <2>6. CASE AskAgain \/ Decide
      BY <2>6 DEF AskAgain, Decide
    <2>7. CASE NoPlan \/ CallTimesOut
      BY <2>7 DEF NoPlan, CallTimesOut, Finish
    <2>8. ASSUME NEW p \in Plans, Planned(p) \/ Replanned(p) PROVE FinalInv' /\ Refined
      BY <2>8 DEF Planned, Replanned
    <2>9. CASE Admit
      BY <2>9 DEF Admit, Finish
    <2>10. CASE Refuse
      BY <2>10 DEF Refuse
    <2>11. CASE Executor
      BY <2>11 DEF Executor, ChildSteps, ChildGoesOn, Harvest
    <2>12. CASE Reset
      BY <2>12 DEF Reset
    <2>13. CASE CutShort \/ Crash
      BY <2>13 DEF CutShort, Crash
    <2>14. CASE UNCHANGED vars
      BY <2>14 DEF vars
    <2> HIDE DEF FinalInv, Refined
    <2> QED
      BY <2>1, <2>2, <2>3, <2>4, <2>5, <2>6, <2>7, <2>8, <2>9, <2>10, <2>11, <2>12,
         <2>13, <2>14
         DEF Next, Runner, Environment, Persistence, Boundary, Planner, Completion
  <1> QED BY <1>2

(***************************************************************************)
(* Seen through AgentState, final response and on_agent_done, a session of *)
(* plan-execute runs is a succession of ordinary runs, crashes or not.     *)
(***************************************************************************)
THEOREM SessionRefinement == Spec => LifecycleSpec
  <1>1. Init => EndInv /\ FinalInv /\ Lifecycle!Init
    BY InitRest DEF Init, FinalInv, Done, Lifecycle!Init
  <1>2. SessionInv /\ EndInv /\ [Next]_vars => EndInv'
    BY EndStep
  <1>3. SessionInv /\ EndInv /\ FinalInv /\ [Next]_vars =>
          FinalInv' /\ [Lifecycle!Next \/ Lifecycle!Restart]_(Lifecycle!lifecycleVars)
    BY LifecycleStep
  <1> QED
    BY SessionInvariant, <1>1, <1>2, <1>3, PTL
       DEF Spec, LifecycleSpec, Lifecycle!SessionSpec

-----------------------------------------------------------------------------
(* The run is finite.  What is left of it, most significant first: steps   *)
(* below the ceiling, the one that trips it included, the way to the end   *)
(* of the step, and the planner's attempts.                                *)
StepsLeft == MaxStep + 1 - steps

Stage ==
  [down |-> 0, between |-> 0, announce |-> 1, veto |-> 4, decide |-> 7, childStepped |-> 10,
   exec |-> 11, plan |-> 11, replan |-> 11, resync |-> 12]

PersistStage == [between |-> 2, announce |-> 2, veto |-> 5, decide |-> 8]

StageLeft ==
  CASE pc = "snapshot" -> PersistStage[after] + 1
    [] pc = "mirror"   -> PersistStage[after]
    [] OTHER           -> Stage[pc]

AttemptsLeft == PlannerRetries + 1 - attempts

Left == <<StepsLeft, StageLeft, AttemptsLeft>>

(* The lexicographic order.                                                *)
Lower == LexProductOrdering(OpToRel(<, Nat), Nat, 3)

(***************************************************************************)
(* The safety half of RunEnds: whatever planner, child and hooks do, every *)
(* step of the runner brings the run closer to its end, and a step that is *)
(* cut short or a crash sets nothing back; only reset begins another run.  *)
(***************************************************************************)
RunDescends ==
  [][/\ Runner \/ CutShort => <<Left', Left>> \in Lower
     /\ Crash => Left' = Left \/ <<Left', Left>> \in Lower]_vars

(* Only the step that trips the ceiling, and so ends the run, is beyond it. *)
LeftBounds ==
  /\ steps <= MaxStep + 1
  /\ ~Done => steps <= MaxStep
  /\ attempts <= PlannerRetries + 1

(* No chain of ever lower triples of numbers is infinite.                  *)
LEMMA LowerWellFounded == IsWellFoundedOn(Lower, [1..3 -> Nat])
  BY NatLessThanWellFounded, WFLexProductOrdering DEF Lower

(* What it takes to be lower.                                              *)
LEMMA LowerAt ==
  ASSUME NEW a \in Nat, NEW b \in Nat, NEW c \in Nat,
         NEW p \in Nat, NEW q \in Nat, NEW r \in Nat,
         p < a \/ (p = a /\ q < b) \/ (p = a /\ q = b /\ r < c)
  PROVE  <<<<p, q, r>>, <<a, b, c>>>> \in Lower
  <1> DEFINE x == <<a, b, c>>
             y == <<p, q, r>>
  <1>1. /\ x \in [1..3 -> Nat] /\ x[1] = a /\ x[2] = b /\ x[3] = c
        /\ y \in [1..3 -> Nat] /\ y[1] = p /\ y[2] = q /\ y[3] = r
    OBVIOUS
  <1> HIDE DEF x, y
  <1>2. \E j \in 1..3 : (\A i \in 1..(j - 1) : y[i] = x[i]) /\ y[j] < x[j]
    <2>1. CASE p < a
      BY <1>1, <2>1, 1 \in 1..3, 1..(1 - 1) = {}
    <2>2. CASE p = a /\ q < b
      BY <1>1, <2>2, 2 \in 1..3, 1..(2 - 1) = {1}
    <2>3. CASE p = a /\ q = b /\ r < c
      BY <1>1, <2>3, 3 \in 1..3, 1..(3 - 1) = {1, 2}
    <2> QED BY <2>1, <2>2, <2>3
  <1>3. \A j \in 1..3 : y[j] < x[j] => <<y[j], x[j]>> \in OpToRel(<, Nat)
    BY <1>1 DEF OpToRel
  <1>4. <<y, x>> \in Lower
    BY <1>1, <1>2, <1>3 DEF Lower, LexProductOrdering
  <1> QED BY <1>4 DEF x, y

(* Steps and attempts stay within their bounds.                            *)
LEMMA BoundsStep ==
  ASSUME TypeOK, LeftBounds, [Next]_vars
  PROVE  LeftBounds'
  <1>0. MaxStep \in Nat /\ PlannerRetries \in Nat /\ steps \in Nat /\ attempts \in Nat
    BY PlanExecuteAssumption DEF TypeOK
  <1>1. CASE CeilingTripped
    <2>1. ~Done /\ steps' = steps + 1 /\ attempts' = attempts /\ state' = "ERROR"
      BY <1>1 DEF CeilingTripped, StepStarts, Finish
    <2> QED BY <1>0, <2>1 DEF LeftBounds, Done
  <1>2. CASE BeginPlan \/ BeginExec \/ BeginReplan \/ ForceComplete
    <2>1. steps < MaxStep /\ steps' = steps + 1
      BY <1>2 DEF BeginPlan, BeginExec, BeginReplan, ForceComplete, StepRuns, StepStarts
    <2>2. attempts' = attempts \/ attempts' = 1
      BY <1>2 DEF BeginPlan, BeginExec, BeginReplan, ForceComplete
    <2> QED BY <1>0, <2>1, <2>2 DEF LeftBounds
  <1>3. CASE AskAgain
    <2>1. attempts <= PlannerRetries /\ attempts' = attempts + 1 /\ steps' = steps /\ state' = state
      BY <1>3 DEF AskAgain, lifecycle
    <2> QED BY <1>0, <2>1 DEF LeftBounds, Done
  <1>4. CASE Reset
    <2>1. steps' = 0 /\ attempts' = attempts
      BY <1>4 DEF Reset
    <2> QED BY <1>0, <2>1 DEF LeftBounds
  <1>5. ASSUME steps' = steps, attempts' = attempts, state' = state \/ Done'
        PROVE  LeftBounds'
    BY <1>5 DEF LeftBounds, Done
  <1>6. CASE Resync \/ Persistence \/ Executor
    <2>1. steps' = steps /\ attempts' = attempts /\ state' = state
      BY <1>6 DEF Resync, Persistence, WriteSnapshot, WriteMirror, HookReturns,
                  Executor, ChildSteps, ChildGoesOn, Harvest, lifecycle
    <2> QED BY <1>5, <2>1
  <1>7. CASE NoPlan \/ CallTimesOut \/ Admit
    <2>1. steps' = steps /\ attempts' = attempts /\ state' \in {"DONE", "ERROR"}
      BY <1>7 DEF NoPlan, CallTimesOut, Admit, Finish
    <2> QED BY <1>5, <2>1 DEF Done
  <1>8. CASE Refuse \/ Decide \/ \E p \in Plans : Planned(p) \/ Replanned(p)
    <2>1. steps' = steps /\ attempts' = attempts /\ state' = state
      BY <1>8 DEF Refuse, Decide, Planned, Replanned, lifecycle
    <2> QED BY <1>5, <2>1
  <1>9. CASE CutShort \/ Crash \/ UNCHANGED vars
    <2>1. steps' = steps /\ attempts' = attempts /\ state' = state
      BY <1>9 DEF CutShort, Crash, vars, lifecycle
    <2> QED BY <1>5, <2>1
  <1> QED
    BY <1>1, <1>2, <1>3, <1>4, <1>6, <1>7, <1>8, <1>9
       DEF Next, Runner, Environment, Boundary, Planner, Completion

(* All three parts are numbers.                                            *)
LeftOK == StepsLeft \in Nat /\ StageLeft \in Nat /\ AttemptsLeft \in Nat

LEMMA LeftInNat ==
  ASSUME TypeOK, LeftBounds
  PROVE  LeftOK
  <1>1. MaxStep \in Nat /\ PlannerRetries \in Nat /\ steps \in Nat /\ attempts \in Nat
    BY PlanExecuteAssumption DEF TypeOK
  <1>2. StepsLeft \in Nat /\ AttemptsLeft \in Nat
    BY <1>1 DEF StepsLeft, AttemptsLeft, LeftBounds
  <1>3. StageLeft \in Nat
    <2>1. PersistStage[after] \in Nat
      BY DEF TypeOK, PersistStage
    <2>2. pc \notin {"snapshot", "mirror"} => Stage[pc] \in Nat
      BY DEF TypeOK, Suspension, Stage
    <2> QED BY <2>1, <2>2 DEF StageLeft
  <1> QED BY <1>2, <1>3 DEF LeftOK

(* Which part of what is left a step lowers.                               *)
LEMMA DescentStep ==
  ASSUME TypeOK, LeftBounds, Runner \/ CutShort
  PROVE  \/ StepsLeft' < StepsLeft
         \/ StepsLeft' = StepsLeft /\ StageLeft' < StageLeft
         \/ StepsLeft' = StepsLeft /\ StageLeft' = StageLeft /\ AttemptsLeft' < AttemptsLeft
  <1>0. /\ MaxStep \in Nat /\ PlannerRetries \in Nat /\ steps \in Nat /\ attempts \in Nat
        /\ pc \in Suspension /\ after \in {"between", "announce", "decide", "veto"}
    BY PlanExecuteAssumption DEF TypeOK
  <1>1. CASE Boundary
    <2>1. steps' = steps + 1
      BY <1>1 DEF Boundary, CeilingTripped, BeginPlan, BeginExec, BeginReplan, ForceComplete,
                  StepRuns, StepStarts
    <2> QED BY <1>0, <2>1 DEF StepsLeft
  <1>2. ASSUME steps' = steps, StageLeft' < StageLeft
        PROVE  StepsLeft' = StepsLeft /\ StageLeft' < StageLeft
    BY <1>2 DEF StepsLeft
  <1>3. CASE AskAgain
    <2>1. StepsLeft' = StepsLeft /\ StageLeft' = StageLeft /\ AttemptsLeft' < AttemptsLeft
      BY <1>0, <1>3 DEF AskAgain, StepsLeft, StageLeft, AttemptsLeft
    <2> QED BY <2>1
  <1>4. CASE Resync \/ HookReturns \/ ChildSteps \/ ChildGoesOn
    <2>1. steps' = steps /\ StageLeft' < StageLeft
      BY <1>4 DEF Resync, HookReturns, ChildSteps, ChildGoesOn, StageLeft, Stage
    <2> QED BY <1>2, <2>1
  <1>5. CASE WriteSnapshot
    <2>1. PersistStage[after] \in Nat
      BY <1>0 DEF PersistStage
    <2>2. steps' = steps /\ StageLeft' < StageLeft
      BY <1>5, <2>1 DEF WriteSnapshot, StageLeft
    <2> QED BY <1>2, <2>2
  <1>6. CASE WriteMirror
    <2>1. steps' = steps /\ pc = "mirror" /\ pc' = after
      BY <1>6 DEF WriteMirror
    <2>2. StageLeft' < StageLeft
      BY <1>0, <2>1 DEF StageLeft, Stage, PersistStage
    <2> QED BY <1>2, <2>1, <2>2
  <1>7. ASSUME pc' = "snapshot", steps' = steps,
               \/ pc \in {"plan", "replan", "exec", "childStepped"} /\ after' \in {"between", "announce"}
               \/ pc \in {"plan"} /\ after' = "veto"
               \/ pc \in {"replan"} /\ after' = "decide"
               \/ pc \in {"decide", "veto"} /\ after' \in {"between", "announce"}
        PROVE  StepsLeft' = StepsLeft /\ StageLeft' < StageLeft
    <2>1. StageLeft' < StageLeft
      BY <1>7 DEF StageLeft, Stage, PersistStage
    <2> QED BY <1>2, <1>7, <2>1
  <1>8. CASE NoPlan \/ CallTimesOut
    BY <1>7, <1>8 DEF NoPlan, CallTimesOut, Finish, PersistThen
  <1>9. ASSUME NEW p \in Plans, Planned(p) \/ Replanned(p)
        PROVE  StepsLeft' = StepsLeft /\ StageLeft' < StageLeft
    BY <1>7, <1>9 DEF Planned, Replanned, PersistThen
  <1>10. CASE Decide
    <2>1. CASE Pending(prog.plan) = {}
      <3>1. steps' = steps /\ StageLeft' < StageLeft
        BY <1>10, <2>1 DEF Decide, StageLeft, Stage
      <3> QED BY <1>2, <3>1
    <2>2. CASE Pending(prog.plan) # {}
      BY <1>7, <1>10, <2>2 DEF Decide, PersistThen
    <2> QED BY <2>1, <2>2
  <1>11. CASE Completion
    BY <1>7, <1>11 DEF Completion, Admit, Refuse, Finish, PersistThen
  <1>12. CASE Harvest
    BY <1>7, <1>12 DEF Harvest, PersistThen
  <1>13. CASE CutShort
    <2>1. steps' = steps /\ pc \notin {"down", "between", "resync"} /\ pc' = "between"
      BY <1>13 DEF CutShort
    <2>2. StageLeft \in Nat \ {0}
      <3>1. PersistStage[after] \in Nat \ {0}
        BY <1>0 DEF PersistStage
      <3>2. pc \notin {"snapshot", "mirror"} => Stage[pc] \in Nat \ {0}
        BY <1>0, <2>1 DEF Stage, Suspension
      <3> QED BY <3>1, <3>2 DEF StageLeft
    <2>3. StageLeft' = 0
      BY <2>1 DEF StageLeft, Stage
    <2> QED BY <1>2, <2>1, <2>2, <2>3
  <1> QED
    BY <1>1, <1>3, <1>4, <1>5, <1>6, <1>8, <1>9, <1>10, <1>11, <1>12, <1>13
       DEF Runner, Persistence, Planner, Executor

(***************************************************************************)
(* A run of PlanExecuteRunner has finitely many steps, for any max_step,   *)
(* planner_retries and max_replan: each lowers what is left, and nothing   *)
(* is lowered for ever (LowerWellFounded).  That the runner takes them is  *)
(* the fairness that RunEnds assumes.                                      *)
(***************************************************************************)
THEOREM RunsDescend == Spec => RunDescends
  <1>1. Init => LeftBounds
    BY PlanExecuteAssumption DEF Init, LeftBounds, Done
  <1>2. Spec => [](TypeOK /\ LeftBounds /\ LeftOK)
    BY <1>1, BoundsStep, PlanExecuteTypes, LeftInNat, PTL DEF Spec
  <1>3. ASSUME TypeOK, LeftBounds, LeftOK, LeftOK', Runner \/ CutShort
        PROVE  <<Left', Left>> \in Lower
    BY <1>3, DescentStep, LowerAt DEF Left, LeftOK
  <1>4. ASSUME TypeOK, LeftBounds, LeftOK, LeftOK', Crash
        PROVE  Left' = Left \/ <<Left', Left>> \in Lower
    <2>1. StepsLeft' = StepsLeft /\ AttemptsLeft' = AttemptsLeft /\ pc' = "down"
      BY <1>4 DEF Crash, StepsLeft, AttemptsLeft
    <2>2. StageLeft' = 0
      BY <2>1 DEF StageLeft, Stage
    <2>3. StageLeft' = StageLeft \/ StageLeft' < StageLeft
      BY <1>4, <2>2 DEF LeftOK
    <2>4. CASE StageLeft' = StageLeft
      BY <2>1, <2>4 DEF Left
    <2>5. CASE StageLeft' < StageLeft
      BY <1>4, <2>1, <2>5, LowerAt DEF Left, LeftOK
    <2> QED BY <2>3, <2>4, <2>5
  <1> QED BY <1>2, <1>3, <1>4, PTL DEF Spec, RunDescends
=============================================================================
