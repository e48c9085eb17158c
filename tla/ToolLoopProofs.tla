--------------------------- MODULE ToolLoopProofs ---------------------------
(***************************************************************************)
(* Proofs about ToolLoop for every tool set, every bound and any number of *)
(* follow-ups.                                                             *)
(***************************************************************************)
EXTENDS ToolLoop, WellFoundedInduction, TLAPS

(***************************************************************************)
(* Where the runner can be suspended in each AgentState.  DONE inside a    *)
(* batch is the state a tool leaves behind that answered the user itself.  *)
(***************************************************************************)
StateAtSuspension ==
  /\ pc = "begin" => state \in {"IDLE", "RUNNING"}
  /\ pc \in {"llm", "veto", "requery"} => state = "RUNNING"
  /\ pc \in InBatch => state \in {"RUNNING", "DONE"} /\ final = "none"
  /\ pc \in {"doneHook", "abortHook"} => state = "DONE"

RunInv ==
  /\ TypeOK
  /\ StateAtSuspension
  /\ NoTicketStranded
  /\ ConsumedIsDelivered
  /\ EndIsConsistent

(* Flags and the rest of TypeOK: Zenon reasons about the first, SMT about  *)
(* the second.                                                             *)
FlagsOK ==
  /\ stop \in BOOLEAN
  /\ aborted \in BOOLEAN
  /\ tools \in {Tools, {}}
  /\ skillsLike \in BOOLEAN
  /\ forced \in BOOLEAN
  /\ streamed \in BOOLEAN
  /\ broken \in BOOLEAN

DataOK ==
  /\ state \in {"IDLE", "RUNNING", "DONE", "ERROR"}
  /\ final \in {"none", "text", "err", "interrupted"}
  /\ doneCalls \in Nat
  /\ ticket \in [Tickets -> TicketStatus]
  /\ pc \in Suspension
  /\ drives \in Nat
  /\ steps \in Nat
  /\ calls \in Seq(Names)
  /\ k \in Nat
  /\ results \in Nat
  /\ answers \in Seq(Nat)

(* TypeOK in two parts: Boolean-valued fields, and data.                   *)
LEMMA TypeParts == TypeOK <=> FlagsOK /\ DataOK
  BY DEF TypeOK, FlagsOK, DataOK

(* The calls of one response are a sequence of names.                      *)
LEMMA BatchIsSeq ==
  ASSUME NEW b \in Batches
  PROVE  b \in Seq(Names)
  BY DEF Batches

(* What holds before the host has done anything.                           *)
LEMMA InitRunInv == Init => RunInv
  <1>1. Init => FlagsOK
    BY DEF Init, FlagsOK
  <1>2. Init => DataOK
    BY DEF Init, DataOK, TicketStatus, Suspension
  <1>3. Init => StateAtSuspension /\ NoTicketStranded
                  /\ ConsumedIsDelivered /\ EndIsConsistent
    BY DEF Init, StateAtSuspension, InBatch, NoTicketStranded, Done, Pending,
           ConsumedIsDelivered, EndIsConsistent
  <1> QED BY <1>1, <1>2, <1>3, TypeParts DEF RunInv

(* Every step keeps the Boolean and enumerated fields in range.            *)
LEMMA FlagsStep == FlagsOK /\ [Next]_vars => FlagsOK'
  <1> SUFFICES ASSUME FlagsOK, [Next]_vars
               PROVE  FlagsOK'
    OBVIOUS
  <1> USE DEF FlagsOK, runVars
  <1>1. CASE Host
    BY <1>1, ZenonT(30) DEF Host, RequestStop, Drive, Cancel, Unwind, FollowUp, driveVars
  <1>2. CASE StepUntilDone
    BY <1>2, ZenonT(30) DEF StepUntilDone, NextStep, ForceLastStep, Return, driveVars
  <1>3. CASE LLMCall
    BY <1>3, ZenonT(30) DEF LLMCall, BeginStep, Chunk, AbortLLM, FinalizeAborted, NoResponse,
                ErrorResponse, TextResponse, ToolResponse, driveVars
  <1>4. CASE Completion
    BY <1>4 DEF Completion, Admit, Refuse, DoneHookReturns, driveVars
  <1>5. CASE Requery
    BY <1>5, ZenonT(30) DEF Requery, RequeryTools, RequeryText, RequeryRaises, Unwind, driveVars
  <1>6. CASE ToolBatch
    <2>1. CASE UnknownTool \/ ToolResult \/ ToolFinished
      BY <2>1 DEF UnknownTool, ToolResult, ToolFinished, driveVars
    <2>2. CASE StartTool \/ AwaitResult \/ UnhandledResult
      BY <2>2 DEF StartTool, AwaitResult, UnhandledResult, driveVars
    <2>3. CASE InterruptTool
      BY <2>3 DEF InterruptTool, FinalizeAborted, driveVars
    <2>4. CASE ToolRaised
      BY <2>4 DEF ToolRaised, driveVars
    <2>5. CASE RecordTurn
      BY <2>5 DEF RecordTurn, driveVars
    <2> QED BY <1>6, <2>1, <2>2, <2>3, <2>4, <2>5 DEF ToolBatch
  <1>7. CASE UNCHANGED vars
    BY <1>7 DEF vars
  <1> QED
    BY <1>1, <1>2, <1>3, <1>4, <1>5, <1>6, <1>7 DEF Next, Runner

(* Every step keeps the counters, the batch and the tickets in range.      *)
LEMMA DataStep == DataOK /\ [Next]_vars => DataOK'
  <1> SUFFICES ASSUME DataOK, [Next]_vars
               PROVE  DataOK'
    OBVIOUS
  <1> USE DEF DataOK, runVars, driveVars, batchVars
  <1>1. CASE Host
    <2>1. ASSUME NEW t \in Tickets, FollowUp(t) PROVE DataOK'
      BY <2>1 DEF FollowUp, TicketStatus
    <2>2. CASE RequestStop
      BY <2>2 DEF RequestStop
    <2>3. CASE Drive
      BY <2>3 DEF Drive, Suspension
    <2>4. CASE Cancel
      BY <2>4 DEF Cancel, Unwind, ClearBatch, Move, Suspension, TicketStatus
    <2> QED BY <1>1, <2>1, <2>2, <2>3, <2>4 DEF Host
  <1>2. CASE StepUntilDone
    <2>1. CASE NextStep
      BY <2>1 DEF NextStep, Suspension
    <2>2. CASE ForceLastStep
      BY <2>2 DEF ForceLastStep, Suspension
    <2>3. CASE Return
      BY <2>3 DEF Return, Suspension
    <2> QED BY <1>2, <2>1, <2>2, <2>3 DEF StepUntilDone
  <1>3. CASE LLMCall
    <2>1. CASE BeginStep
      BY <2>1 DEF BeginStep, Suspension
    <2>2. CASE Chunk
      BY <2>2 DEF Chunk
    <2>3. CASE AbortLLM
      BY <2>3 DEF AbortLLM, FinalizeAborted, ClearBatch, Move, Suspension, TicketStatus
    <2>4. CASE NoResponse
      BY <2>4 DEF NoResponse, Suspension
    <2>5. CASE ErrorResponse
      BY <2>5 DEF ErrorResponse, Move, Suspension, TicketStatus
    <2>6. CASE TextResponse
      BY <2>6 DEF TextResponse, Suspension
    <2>7. ASSUME NEW b \in Batches, ToolResponse(b) PROVE DataOK'
      <3>1. b \in Seq(Names)
        BY <2>7, BatchIsSeq
      <3>2. \/ pc' = "requery" /\ UNCHANGED batchVars
            \/ StartBatch(b)
        BY <2>7 DEF ToolResponse
      <3>3. UNCHANGED <<state, final, doneCalls, ticket, drives, steps>>
        BY <2>7 DEF ToolResponse
      <3>4. CASE pc' = "requery" /\ UNCHANGED batchVars
        BY <3>3, <3>4 DEF Suspension
      <3>5. CASE StartBatch(b)
        BY <3>1, <3>3, <3>5 DEF StartBatch, Suspension
      <3> QED BY <3>2, <3>4, <3>5
    <2> QED BY <1>3, <2>1, <2>2, <2>3, <2>4, <2>5, <2>6, <2>7 DEF LLMCall
  <1>4. CASE Completion
    BY <1>4, SMTT(30) DEF Completion, Admit, Refuse, DoneHookReturns, Move, Suspension, TicketStatus
  <1>5. CASE Requery
    <2>1. ASSUME NEW b \in Batches, RequeryTools(b) PROVE DataOK'
      BY <2>1, BatchIsSeq DEF RequeryTools, StartBatch, Suspension
    <2>2. CASE RequeryText
      BY <2>2 DEF RequeryText, Suspension
    <2>3. CASE RequeryRaises
      BY <2>3 DEF RequeryRaises, Unwind, ClearBatch, Move, Suspension, TicketStatus
    <2> QED BY <1>5, <2>1, <2>2, <2>3 DEF Requery
  <1>6. CASE ToolBatch
    <2>1. CASE UnknownTool
      BY <2>1 DEF UnknownTool, AppendBlock, NextCall, Move, Suspension, TicketStatus
    <2>2. CASE StartTool
      BY <2>2 DEF StartTool, Suspension
    <2>3. CASE AwaitResult
      BY <2>3 DEF AwaitResult, Suspension
    <2>4. CASE InterruptTool
      BY <2>4 DEF InterruptTool, FinalizeAborted, ClearBatch, Move, Suspension, TicketStatus
    <2>5. CASE ToolResult
      BY <2>5 DEF ToolResult, AppendBlock, Move, Suspension, TicketStatus
    <2>6. CASE UnhandledResult
      BY <2>6 DEF UnhandledResult, Suspension
    <2>7. CASE ToolFinished
      BY <2>7 DEF ToolFinished, NextCall, Suspension
    <2>8. CASE ToolRaised
      BY <2>8 DEF ToolRaised, AppendBlock, NextCall, Move, Suspension, TicketStatus
    <2>9. CASE RecordTurn
      BY <2>9 DEF RecordTurn, ClearBatch, Move, Suspension, TicketStatus
    <2> QED BY <1>6, <2>1, <2>2, <2>3, <2>4, <2>5, <2>6, <2>7, <2>8, <2>9 DEF ToolBatch
  <1>7. CASE UNCHANGED vars
    BY <1>7 DEF vars
  <1> QED
    BY <1>1, <1>2, <1>3, <1>4, <1>5, <1>6, <1>7 DEF Next, Runner

(* Every step keeps the fields of the runner in range.                     *)
LEMMA TypeStep == TypeOK /\ [Next]_vars => TypeOK'
  BY TypeParts, FlagsStep, DataStep DEF TypeOK, FlagsOK, DataOK

(* Where the runner is suspended tells the state it is in.                 *)
LEMMA SuspensionStep ==
  ASSUME TypeOK, StateAtSuspension, EndIsConsistent, [Next]_vars
  PROVE  StateAtSuspension'
  <1> USE DEF StateAtSuspension, InBatch, runVars
  <1>1. CASE Host
    BY <1>1 DEF Host, RequestStop, Drive, Cancel, Unwind, FollowUp
  <1>2. CASE StepUntilDone
    BY <1>2 DEF StepUntilDone, NextStep, ForceLastStep, Return, TypeOK, Done
  <1>3. CASE LLMCall
    BY <1>3 DEF LLMCall, BeginStep, Chunk, AbortLLM, FinalizeAborted, NoResponse,
                ErrorResponse, TextResponse, ToolResponse, StartBatch,
                EndIsConsistent, TypeOK
  <1>4. CASE Completion
    BY <1>4 DEF Completion, Admit, Refuse, DoneHookReturns
  <1>5. CASE Requery
    BY <1>5 DEF Requery, RequeryTools, RequeryText, RequeryRaises, Unwind,
                StartBatch, EndIsConsistent, TypeOK
  <1>6. CASE ToolBatch
    BY <1>6 DEF ToolBatch, UnknownTool, StartTool, AwaitResult, InterruptTool,
                FinalizeAborted, ToolResult, UnhandledResult, ToolFinished,
                ToolRaised, RecordTurn, NextCall
  <1>7. CASE UNCHANGED vars
    BY <1>7 DEF vars
  <1> QED
    BY <1>1, <1>2, <1>3, <1>4, <1>5, <1>6, <1>7 DEF Next, Runner

(* The final response, the announcement and the state stay in step.        *)
LEMMA EndStep ==
  ASSUME TypeOK, StateAtSuspension, EndIsConsistent, [Next]_vars
  PROVE  EndIsConsistent'
  <1> USE DEF EndIsConsistent, runVars
  <1>1. CASE Host
    BY <1>1 DEF Host, RequestStop, Drive, Cancel, Unwind, FollowUp
  <1>2. CASE StepUntilDone
    BY <1>2 DEF StepUntilDone, NextStep, ForceLastStep, Return
  <1>3. CASE LLMCall
    BY <1>3 DEF LLMCall, BeginStep, Chunk, AbortLLM, FinalizeAborted, NoResponse,
                ErrorResponse, TextResponse, ToolResponse, StartBatch,
                StateAtSuspension, TypeOK
  <1>4. CASE Completion
    BY <1>4 DEF Completion, Admit, Refuse, DoneHookReturns, StateAtSuspension, TypeOK
  <1>5. CASE Requery
    BY <1>5 DEF Requery, RequeryTools, RequeryText, RequeryRaises, Unwind
  <1>6. CASE ToolBatch
    BY <1>6 DEF ToolBatch, UnknownTool, StartTool, AwaitResult, InterruptTool,
                FinalizeAborted, ToolResult, UnhandledResult, ToolFinished,
                ToolRaised, RecordTurn, NextCall, StateAtSuspension, InBatch, TypeOK
  <1>7. CASE UNCHANGED vars
    BY <1>7 DEF vars
  <1> QED
    BY <1>1, <1>2, <1>3, <1>4, <1>5, <1>6, <1>7 DEF Next, Runner

(* No accepted follow-up is left pending by a run that is over.  A run is  *)
(* ended in the midst of a batch only by a result that consumes them all.  *)
LEMMA StrandedStep ==
  ASSUME TypeOK, StateAtSuspension, NoTicketStranded, [Next]_vars
  PROVE  NoTicketStranded'
  <1> USE DEF NoTicketStranded, Done, Pending, runVars
  <1>1. CASE Host
    BY <1>1 DEF Host, RequestStop, Drive, Cancel, Unwind, FollowUp, Done
  <1>2. CASE StepUntilDone
    BY <1>2 DEF StepUntilDone, NextStep, ForceLastStep, Return
  <1>3. CASE LLMCall
    BY <1>3 DEF LLMCall, BeginStep, Chunk, AbortLLM, FinalizeAborted, NoResponse,
                ErrorResponse, TextResponse, ToolResponse, StartBatch, Move
  <1>4. CASE Completion
    BY <1>4 DEF Completion, Admit, Refuse, DoneHookReturns, Move
  <1>5. CASE Requery
    BY <1>5 DEF Requery, RequeryTools, RequeryText, RequeryRaises, Unwind, StartBatch
  <1>6. CASE ToolBatch
    BY <1>6 DEF ToolBatch, UnknownTool, StartTool, AwaitResult, InterruptTool,
                FinalizeAborted, ToolResult, UnhandledResult, ToolFinished,
                ToolRaised, RecordTurn, NextCall, AppendBlock, Move
  <1>7. CASE UNCHANGED vars
    BY <1>7 DEF vars
  <1> QED
    BY <1>1, <1>2, <1>3, <1>4, <1>5, <1>6, <1>7 DEF Next, Runner

(* A consumed follow-up stays in the batch until the turn is recorded.     *)
LEMMA ConsumedStep ==
  ASSUME TypeOK, StateAtSuspension, EndIsConsistent, ConsumedIsDelivered, [Next]_vars
  PROVE  ConsumedIsDelivered'
  <1> USE DEF ConsumedIsDelivered, InBatch, runVars
  <1>1. CASE Host
    <2>1. CASE RequestStop \/ Drive
      BY <2>1 DEF RequestStop, Drive
    <2>2. CASE Cancel
      BY <2>2 DEF Cancel, Unwind, Move
    <2>3. ASSUME NEW t \in Tickets, FollowUp(t) PROVE ConsumedIsDelivered'
      BY <2>3 DEF FollowUp, TypeOK
    <2> QED BY <1>1, <2>1, <2>2, <2>3 DEF Host
  <1>2. CASE StepUntilDone
    BY <1>2 DEF StepUntilDone, NextStep, ForceLastStep, Return
  <1>3. CASE LLMCall
    BY <1>3 DEF LLMCall, BeginStep, Chunk, AbortLLM, FinalizeAborted, NoResponse,
                ErrorResponse, TextResponse, ToolResponse, StartBatch, Move
  <1>4. CASE Completion
    BY <1>4 DEF Completion, Admit, Refuse, DoneHookReturns, Move
  <1>5. CASE Requery
    BY <1>5 DEF Requery, RequeryTools, RequeryText, RequeryRaises, Unwind, StartBatch, Move
  <1>6. CASE ToolBatch
    BY <1>6 DEF ToolBatch, UnknownTool, StartTool, AwaitResult, InterruptTool,
                FinalizeAborted, ToolResult, UnhandledResult, ToolFinished,
                ToolRaised, RecordTurn, NextCall, AppendBlock, Move
  <1>7. CASE UNCHANGED vars
    BY <1>7 DEF vars
  <1> QED
    BY <1>1, <1>2, <1>3, <1>4, <1>5, <1>6, <1>7 DEF Next, Runner

(* Every step of host or runner keeps the run's invariant.                 *)
LEMMA RunStep == RunInv /\ [Next]_vars => RunInv'
  BY TypeStep, SuspensionStep, EndStep, StrandedStep, ConsumedStep DEF RunInv

(* The run's invariant holds throughout.                                   *)
LEMMA RunInvariant == Spec => []RunInv
  BY InitRunInv, RunStep, PTL DEF Spec

(***************************************************************************)
(* Every variable keeps its type: the bookkeeping of reset, step and       *)
(* step_until_done stays within what the dataclasses declare.              *)
(***************************************************************************)
THEOREM TypeCorrect == Spec => []TypeOK
  BY RunInvariant, PTL DEF RunInv

(***************************************************************************)
(* follow_up / _resolve_unconsumed_follow_ups: no run that is over, ended  *)
(* in whatever way, leaves an accepted ticket unresolved.                  *)
(***************************************************************************)
THEOREM TicketsResolved == Spec => []NoTicketStranded
  BY RunInvariant, PTL DEF RunInv

(***************************************************************************)
(* _consume_follow_up_notice: a ticket marked consumed reaches the         *)
(* messages unless the run is interrupted or torn down.                    *)
(***************************************************************************)
THEOREM TicketsDelivered == Spec => []ConsumedIsDelivered
  BY RunInvariant, PTL DEF RunInv

(***************************************************************************)
(* The three places that end a run (_complete_with_assistant_response,     *)
(* _finalize_aborted_step, the error branch of step) never overlap: state, *)
(* final response, was_aborted() and on_agent_done agree in every state.   *)
(***************************************************************************)
THEOREM EndsAgree == Spec => []EndIsConsistent
  BY RunInvariant, PTL DEF RunInv

(* An ended run is not restarted by any step.                              *)
LEMMA StableStep == RunInv /\ [Next]_vars => (Done => Done')
  <1> SUFFICES ASSUME RunInv, [Next]_vars, Done
               PROVE  Done'
    OBVIOUS
  <1> USE DEF Done, runVars
  <1>1. CASE Host
    BY <1>1 DEF Host, RequestStop, Drive, Cancel, Unwind, FollowUp
  <1>2. CASE StepUntilDone
    BY <1>2 DEF StepUntilDone, NextStep, ForceLastStep, Return
  <1>3. CASE LLMCall
    BY <1>3 DEF LLMCall, BeginStep, Chunk, AbortLLM, FinalizeAborted, NoResponse,
                ErrorResponse, TextResponse, ToolResponse, RunInv, StateAtSuspension
  <1>4. CASE Completion
    BY <1>4 DEF Completion, Admit, Refuse, DoneHookReturns
  <1>5. CASE Requery
    BY <1>5 DEF Requery, RequeryTools, RequeryText, RequeryRaises, Unwind
  <1>6. CASE ToolBatch
    BY <1>6 DEF ToolBatch, UnknownTool, StartTool, AwaitResult, InterruptTool,
                FinalizeAborted, ToolResult, UnhandledResult, ToolFinished,
                ToolRaised, RecordTurn
  <1>7. CASE UNCHANGED vars
    BY <1>7 DEF vars
  <1> QED
    BY <1>1, <1>2, <1>3, <1>4, <1>5, <1>6, <1>7 DEF Next, Runner

(***************************************************************************)
(* step() sets RUNNING without looking at the state; driven by             *)
(* step_until_done it nevertheless never revives a run that is over.       *)
(***************************************************************************)
THEOREM EndsForGood == Spec => EndIsStable
  <1>1. RunInv /\ [Next]_vars => [Done => Done']_vars
    BY StableStep
  <1> QED BY <1>1, RunInvariant, PTL DEF Spec, EndIsStable

-----------------------------------------------------------------------------
(* The batch of tool calls.                                                *)

Answered(i) == \E j \in DOMAIN answers : answers[j] = i
Ordered(s) == \A i, j \in DOMAIN s : i < j => s[i] <= s[j]

(***************************************************************************)
(* While a batch is handled: every call before the current one has been    *)
(* answered, the current one as soon as its executor has yielded, and no   *)
(* block is for a call still to come.  Without tools none is handled.      *)
(***************************************************************************)
BatchInv ==
  pc \in InBatch =>
    /\ k \in 1..(Len(calls) + 1)
    /\ pc # "call" => k <= Len(calls)
    /\ \A j \in DOMAIN answers :
         answers[j] \in 1..k /\ (pc = "call" => answers[j] < k)
    /\ Ordered(answers)
    /\ \A i \in DOMAIN calls : i < k /\ calls[i] \notin SilentTools => Answered(i)
    /\ pc # "call" /\ results > 0 /\ calls[k] \notin SilentTools => Answered(k)
    /\ tools = {} => pc = "call" /\ k = 1 /\ answers = <<>>

(* Appending a block for a call not before the last one answered keeps the *)
(* blocks in order and answers that call besides those answered before.    *)
LEMMA AppendKeepsOrder ==
  ASSUME NEW s \in Seq(Nat), NEW n \in Nat \ {0},
         Ordered(s), \A j \in DOMAIN s : s[j] \in 1..n
  PROVE  LET r == Append(s, n)
         IN /\ Ordered(r)
            /\ \A j \in DOMAIN r : r[j] \in 1..n
            /\ \A j \in DOMAIN s : j \in DOMAIN r /\ r[j] = s[j]
            /\ \E j \in DOMAIN r : r[j] = n
  <1> DEFINE r == Append(s, n)
  <1>1. r \in Seq(Nat) /\ Len(r) = Len(s) + 1
    OBVIOUS
  <1>2. \A j \in 1..Len(s) : r[j] = s[j]
    OBVIOUS
  <1>3. r[Len(s) + 1] = n
    OBVIOUS
  <1>4. DOMAIN r = 1..(Len(s) + 1) /\ DOMAIN s = 1..Len(s)
    BY <1>1
  <1> HIDE DEF r
  <1>5. Ordered(r)
    BY <1>2, <1>3, <1>4 DEF Ordered
  <1>6. \A j \in DOMAIN r : r[j] \in 1..n
    BY <1>2, <1>3, <1>4
  <1> QED BY <1>2, <1>3, <1>4, <1>5, <1>6 DEF r

(* A block appended for the current call keeps BatchInv's facts about the  *)
(* blocks, and answers the current call.                                   *)
LEMMA AppendBlockAnswers ==
  ASSUME TypeOK, BatchInv, pc \in InBatch, k <= Len(calls), AppendBlock
  PROVE  /\ Ordered(answers')
         /\ \A j \in DOMAIN answers' : answers'[j] \in 1..k
         /\ \A i : Answered(i) \/ i = k => Answered(i)'
  <1>1. k \in Nat /\ k > 0 /\ answers \in Seq(Nat)
    BY DEF TypeOK, BatchInv
  <1>2. Ordered(answers) /\ \A j \in DOMAIN answers : answers[j] \in 1..k
    BY DEF BatchInv
  <1>3. answers' = Append(answers, k)
    BY DEF AppendBlock
  <1>4. /\ Ordered(answers')
        /\ \A j \in DOMAIN answers' : answers'[j] \in 1..k
        /\ \A j \in DOMAIN answers : j \in DOMAIN answers' /\ answers'[j] = answers[j]
        /\ \E j \in DOMAIN answers' : answers'[j] = k
    <2> DEFINE r == Append(answers, k)
    <2>1. k \in Nat \ {0} /\ answers \in Seq(Nat)
      BY <1>1
    <2>2. /\ Ordered(r)
          /\ \A j \in DOMAIN r : r[j] \in 1..k
          /\ \A j \in DOMAIN answers : j \in DOMAIN r /\ r[j] = answers[j]
          /\ \E j \in DOMAIN r : r[j] = k
      BY ONLY <2>1, <1>2, AppendKeepsOrder
    <2>3. answers' = r
      BY <1>3
    <2> HIDE DEF r
    <2> QED BY ONLY <2>2, <2>3
  <1> QED BY <1>4 DEF Answered

(* Every step keeps the calls up to the current one answered, in order.    *)
LEMMA BatchStep ==
  ASSUME TypeOK, BatchInv, [Next]_vars
  PROVE  BatchInv'
  <1>1. CASE pc' \notin InBatch
    BY <1>1 DEF BatchInv, InBatch
  <1>2. CASE UNCHANGED <<pc, batchVars, tools>>
    BY <1>2 DEF BatchInv, InBatch, batchVars, Answered, Ordered
  <1>3. ASSUME NEW b \in Batches, StartBatch(b)
        PROVE  BatchInv'
    <2>1. b \in Seq(Names) /\ Len(b) > 0
      BY <1>3, BatchIsSeq DEF Batches
    <2> QED BY <1>3, <2>1 DEF BatchInv, StartBatch, Answered, Ordered
  <1>4. CASE UnknownTool
    <2>1. /\ pc \in InBatch /\ k <= Len(calls) /\ AppendBlock /\ NextCall
          /\ calls' = calls /\ tools' # {}
      BY <1>4 DEF UnknownTool, InBatch
    <2>2. k \in Nat /\ k > 0 /\ k' = k + 1 /\ pc' = "call" /\ Len(calls) \in Nat
      BY <2>1 DEF NextCall, TypeOK, BatchInv
    <2>3. \A i \in DOMAIN calls : i < k' /\ calls[i] \notin SilentTools => Answered(i)'
      <3>1. \A i \in DOMAIN calls : i < k' => i < k \/ i = k
        <4> calls \in Seq(Names)
          BY DEF TypeOK
        <4> QED BY <2>2
      <3>2. \A i \in DOMAIN calls : i < k /\ calls[i] \notin SilentTools => Answered(i)
        BY <2>1 DEF BatchInv
      <3>3. \A i : Answered(i) \/ i = k => Answered(i)'
        BY <2>1, AppendBlockAnswers
      <3> QED BY <3>1, <3>2, <3>3
    <2> QED BY <2>1, <2>2, <2>3, AppendBlockAnswers DEF BatchInv
  <1>5. CASE StartTool
    BY <1>5 DEF StartTool, BatchInv, InBatch, Answered, Ordered, TypeOK
  <1>6. CASE AwaitResult
    BY <1>6 DEF AwaitResult, BatchInv, InBatch, batchVars, Answered, Ordered
  <1>7. CASE ToolResult
    <2>1. /\ pc \in InBatch /\ k <= Len(calls) /\ AppendBlock
          /\ pc' = "exec" /\ calls' = calls /\ k' = k /\ tools' # {}
      BY <1>7 DEF ToolResult, InBatch, BatchInv
    <2>2. \A i \in DOMAIN calls : i < k /\ calls[i] \notin SilentTools => Answered(i)'
      BY <2>1, AppendBlockAnswers DEF BatchInv
    <2> QED BY <2>1, <2>2, AppendBlockAnswers DEF BatchInv
  <1>8. CASE UnhandledResult
    BY <1>8 DEF UnhandledResult, BatchInv, InBatch, Answered, Ordered
  <1>9. CASE ToolFinished
    <2>1. /\ pc \in InBatch /\ pc # "call" /\ pc' = "call"
          /\ calls' = calls /\ k' = k + 1 /\ answers' = answers
          /\ results > 0 \/ calls[k] \in SilentTools
          /\ tools' = tools
      BY <1>9 DEF ToolFinished, NextCall, InBatch
    <2>0. tools' # {}
      BY <2>1 DEF BatchInv
    <2>2. k \in 1..Len(calls) /\ Len(calls) \in Nat
      BY <2>1 DEF BatchInv, TypeOK
    <2>3. ASSUME NEW i \in DOMAIN calls, i < k', calls[i] \notin SilentTools
          PROVE  Answered(i)'
      <3>1. i < k \/ i = k
        <4>1. i \in Int /\ k \in Int /\ k' = k + 1
          BY <2>1, <2>2 DEF TypeOK
        <4> QED BY ONLY <4>1, i < k'
      <3>2. Answered(i)
        BY <2>1, <2>3, <3>1 DEF BatchInv
      <3> QED BY <2>1, <3>2 DEF Answered
    <2>4. \A j \in DOMAIN answers' : answers'[j] \in 1..k' /\ answers'[j] < k'
      BY <2>1, <2>2 DEF BatchInv
    <2>5. Ordered(answers')
      BY <2>1 DEF BatchInv
    <2> QED BY <2>0, <2>1, <2>2, <2>3, <2>4, <2>5 DEF BatchInv
  <1>10. CASE ToolRaised
    <2>1. /\ pc \in InBatch /\ k <= Len(calls) /\ AppendBlock /\ NextCall
          /\ calls' = calls /\ tools' # {}
      BY <1>10 DEF ToolRaised, InBatch, BatchInv
    <2>2. k \in Nat /\ k > 0 /\ k' = k + 1 /\ pc' = "call" /\ Len(calls) \in Nat
      BY <2>1 DEF NextCall, TypeOK, BatchInv
    <2>3. \A i \in DOMAIN calls : i < k' /\ calls[i] \notin SilentTools => Answered(i)'
      <3>1. \A i \in DOMAIN calls : i < k' => i < k \/ i = k
        <4> calls \in Seq(Names)
          BY DEF TypeOK
        <4> QED BY <2>2
      <3>2. \A i \in DOMAIN calls : i < k /\ calls[i] \notin SilentTools => Answered(i)
        BY <2>1 DEF BatchInv
      <3>3. \A i : Answered(i) \/ i = k => Answered(i)'
        BY <2>1, AppendBlockAnswers
      <3> QED BY <3>1, <3>2, <3>3
    <2> QED BY <2>1, <2>2, <2>3, AppendBlockAnswers DEF BatchInv
  <1> QED
    <2> USE <1>1, <1>2, <1>3 DEF InBatch
    <2>1. CASE Host
      BY <2>1 DEF Host, RequestStop, Drive, Cancel, Unwind, FollowUp
    <2>2. CASE StepUntilDone
      BY <2>2 DEF StepUntilDone, NextStep, ForceLastStep, Return
    <2>3. CASE LLMCall
      BY <2>3 DEF LLMCall, BeginStep, Chunk, AbortLLM, FinalizeAborted, NoResponse,
                  ErrorResponse, TextResponse, ToolResponse
    <2>4. CASE Completion
      BY <2>4 DEF Completion, Admit, Refuse, DoneHookReturns
    <2>5. CASE Requery
      BY <2>5 DEF Requery, RequeryTools, RequeryText, RequeryRaises, Unwind
    <2>6. CASE ToolBatch
      BY <2>6, <1>4, <1>5, <1>6, <1>7, <1>8, <1>9, <1>10
         DEF ToolBatch, InterruptTool, FinalizeAborted, RecordTurn
    <2>7. CASE UNCHANGED vars
      BY <2>7 DEF vars, batchVars
    <2> QED BY <2>1, <2>2, <2>3, <2>4, <2>5, <2>6, <2>7 DEF Next, Runner

(***************************************************************************)
(* _handle_function_tools: a turn about to be recorded has, for every      *)
(* tool_call id of a tool that has output, its tool messages, in the order *)
(* of the calls, whatever the sizes of the batch and of each tool's        *)
(* output; or, when the request has no tools, no tool message at all.      *)
(***************************************************************************)
THEOREM CallsAnswered == Spec => []EveryCallAnswered
  <1>1. Init => BatchInv
    BY DEF Init, BatchInv, InBatch
  <1>2. Spec => []BatchInv
    BY <1>1, BatchStep, TypeCorrect, PTL DEF Spec
  <1>3. TypeOK /\ BatchInv => EveryCallAnswered
    <2> SUFFICES ASSUME TypeOK, BatchInv, pc = "call", BatchIsOver
                 PROVE  /\ tools = {} => answers = <<>>
                        /\ tools # {} => \A i \in DOMAIN calls :
                             calls[i] \notin SilentTools => i \in ToSet(answers)
                        /\ Ordered(answers)
                        /\ ToSet(answers) \subseteq DOMAIN calls
      BY DEF EveryCallAnswered, Ordered
    <2>1. tools = {} => answers = <<>>
      BY DEF BatchInv, InBatch
    <2>2. CASE tools = {}
      BY <2>1, <2>2 DEF ToSet, Ordered
    <2>3. CASE tools # {}
      <3>1. k = Len(calls) + 1 /\ DOMAIN calls = 1..Len(calls) /\ Len(calls) \in Nat
        BY <2>3 DEF BatchIsOver, BatchInv, InBatch, TypeOK
      <3>2. \A i \in DOMAIN calls : calls[i] \notin SilentTools => Answered(i)
        BY <3>1 DEF BatchInv, InBatch
      <3>3. \A j \in DOMAIN answers : answers[j] \in DOMAIN calls
        BY <3>1 DEF BatchInv, InBatch
      <3> QED BY <2>3, <3>2, <3>3 DEF ToSet, Answered, BatchInv, InBatch
    <2> QED BY <2>2, <2>3
  <1> QED BY <1>2, <1>3, TypeCorrect, PTL

-----------------------------------------------------------------------------
(* The refinement of AgentLifecycle.                                       *)

(* A fresh run is a fresh lifecycle.                                       *)
LEMMA InitRefines == Init => Lifecycle!Init
  BY DEF Init, Lifecycle!Init

(* Every step of host or runner is a lifecycle step, or leaves the state,  *)
(* the final response and the announcements alone.                         *)
LEMMA StepRefines ==
  RunInv /\ [Next]_vars => [Lifecycle!Next]_(Lifecycle!lifecycleVars)
  <1> SUFFICES ASSUME RunInv, [Next]_vars
               PROVE  Lifecycle!Next \/ UNCHANGED <<state, final, doneCalls>>
    BY DEF Lifecycle!lifecycleVars
  <1> USE DEF runVars
  <1>0. /\ StateAtSuspension
        /\ final = "none" => doneCalls = 0
        /\ state = "RUNNING" => final = "none"
    BY DEF RunInv, EndIsConsistent, TypeOK
  <1>1. CASE Host
    BY <1>1 DEF Host, RequestStop, Drive, Cancel, Unwind, FollowUp
  <1>2. CASE StepUntilDone
    BY <1>2 DEF StepUntilDone, NextStep, ForceLastStep, Return
  <1>3. CASE LLMCall
    <2>1. CASE BeginStep
      BY <1>0, <2>1 DEF BeginStep, StateAtSuspension, Lifecycle!Next, Lifecycle!Begin
    <2>2. CASE AbortLLM
      BY <1>0, <2>2 DEF AbortLLM, FinalizeAborted, StateAtSuspension, Lifecycle!Next,
                  Lifecycle!Answer, Lifecycle!EndWith
    <2>3. CASE ErrorResponse
      BY <1>0, <2>3 DEF ErrorResponse, StateAtSuspension, Lifecycle!Next,
                  Lifecycle!Fail, Lifecycle!EndWith
    <2>4. ASSUME \/ Chunk \/ NoResponse \/ TextResponse
                 \/ \E b \in Batches : ToolResponse(b)
          PROVE  UNCHANGED <<state, final, doneCalls>>
      BY <2>4 DEF Chunk, NoResponse, TextResponse, ToolResponse
    <2> QED BY <1>3, <2>1, <2>2, <2>3, <2>4 DEF LLMCall
  <1>4. CASE Completion
    BY <1>0, <1>4 DEF Completion, Admit, Refuse, DoneHookReturns, StateAtSuspension,
                Lifecycle!Next, Lifecycle!Answer, Lifecycle!EndWith
  <1>5. CASE Requery
    BY <1>5 DEF Requery, RequeryTools, RequeryText, RequeryRaises, Unwind
  <1>6. CASE ToolBatch
    <2>1. CASE InterruptTool
      BY <1>0, <2>1 DEF InterruptTool, FinalizeAborted, StateAtSuspension, InBatch,
                  Lifecycle!Next, Lifecycle!Answer, Lifecycle!EndWith,
                  Lifecycle!CloseInterrupted
    <2>2. CASE ToolResult
      BY <1>0, <2>2 DEF ToolResult, StateAtSuspension, InBatch, Lifecycle!Next,
                  Lifecycle!EndWithoutAnswer
    <2>3. ASSUME \/ UnknownTool \/ StartTool \/ AwaitResult \/ UnhandledResult
                 \/ ToolFinished \/ ToolRaised \/ RecordTurn
          PROVE  UNCHANGED <<state, final, doneCalls>>
      BY <2>3 DEF UnknownTool, StartTool, AwaitResult, UnhandledResult, ToolFinished,
                  ToolRaised, RecordTurn
    <2> QED BY <1>6, <2>1, <2>2, <2>3 DEF ToolBatch
  <1>7. CASE UNCHANGED vars
    BY <1>7 DEF vars
  <1> QED
    BY <1>1, <1>2, <1>3, <1>4, <1>5, <1>6, <1>7 DEF Next, Runner

(***************************************************************************)
(* The tool loop implements AgentLifecycle: seen from outside, a run       *)
(* begins once, ends at most once as an error, announces its one answer    *)
(* once, and never runs again.                                             *)
(***************************************************************************)
THEOREM Refinement == Spec => LifecycleSpec
  BY InitRefines, StepRefines, RunInvariant, PTL
     DEF Spec, LifecycleSpec, Lifecycle!Spec

-----------------------------------------------------------------------------
(* The drive is finite.  What is left of it, most significant first: steps *)
(* of step_until_done, the way to the end of the step, calls of the batch, *)
(* and results of the executor.                                            *)
StepsLeft == IF forced THEN 0 ELSE MaxStep + 1 - steps

Stage ==
  [off |-> 0, loop |-> 1, doneHook |-> 2, abortHook |-> 2, veto |-> 3, call |-> 3,
   exec |-> 3, await |-> 3, requery |-> 4, llm |-> 5, begin |-> 7]

StageLeft == Stage[pc] + IF pc = "llm" /\ ~streamed THEN 1 ELSE 0

CallsLeft == IF pc \in InBatch THEN Len(calls) + 1 - k ELSE 0

ResultsLeft ==
  CASE pc = "call"  -> 2 * MaxResults + 3
    [] pc = "exec"  -> 2 * (MaxResults - results) + 2
    [] pc = "await" -> 2 * (MaxResults - results) + 1
    [] OTHER        -> 0

Left == <<StepsLeft, StageLeft, CallsLeft, ResultsLeft>>

(* The lexicographic order.                                                *)
Lower == LexProductOrdering(OpToRel(<, Nat), Nat, 4)

(***************************************************************************)
(* The safety half of DriveReturns: whatever the model, the tools and the  *)
(* hooks do, every step of the runner brings the drive closer to its end,  *)
(* and a host that queues follow-ups or asks for a stop sets nothing back. *)
(***************************************************************************)
DriveDescends ==
  [][/\ Runner \/ Cancel => <<Left', Left>> \in Lower
     /\ RequestStop \/ (\E t \in Tickets : FollowUp(t)) => Left' = Left]_vars

LeftBounds == steps <= MaxStep /\ results <= MaxResults

(* No chain of ever lower quadruples of numbers is infinite.               *)
LEMMA LowerWellFounded == IsWellFoundedOn(Lower, [1..4 -> Nat])
  BY NatLessThanWellFounded, WFLexProductOrdering DEF Lower

(* What it takes to be lower.                                              *)
LEMMA LowerAt ==
  ASSUME NEW a \in Nat, NEW b \in Nat, NEW c \in Nat, NEW d \in Nat,
         NEW p \in Nat, NEW q \in Nat, NEW r \in Nat, NEW t \in Nat,
         \/ p < a
         \/ p = a /\ q < b
         \/ p = a /\ q = b /\ r < c
         \/ p = a /\ q = b /\ r = c /\ t < d
  PROVE  <<<<p, q, r, t>>, <<a, b, c, d>>>> \in Lower
  <1> DEFINE x == <<a, b, c, d>>
             y == <<p, q, r, t>>
  <1>1. /\ x \in [1..4 -> Nat] /\ x[1] = a /\ x[2] = b /\ x[3] = c /\ x[4] = d
        /\ y \in [1..4 -> Nat] /\ y[1] = p /\ y[2] = q /\ y[3] = r /\ y[4] = t
    OBVIOUS
  <1> HIDE DEF x, y
  <1>2. \E j \in 1..4 : (\A i \in 1..(j - 1) : y[i] = x[i]) /\ y[j] < x[j]
    <2>1. CASE p < a
      BY <1>1, <2>1, 1 \in 1..4, 1..(1 - 1) = {}
    <2>2. CASE p = a /\ q < b
      BY <1>1, <2>2, 2 \in 1..4, 1..(2 - 1) = {1}
    <2>3. CASE p = a /\ q = b /\ r < c
      BY <1>1, <2>3, 3 \in 1..4, 1..(3 - 1) = {1, 2}
    <2>4. CASE p = a /\ q = b /\ r = c /\ t < d
      BY <1>1, <2>4, 4 \in 1..4, 1..(4 - 1) = {1, 2, 3}
    <2> QED BY <2>1, <2>2, <2>3, <2>4
  <1>3. \A j \in 1..4 : y[j] < x[j] => <<y[j], x[j]>> \in OpToRel(<, Nat)
    BY <1>1 DEF OpToRel
  <1>4. <<y, x>> \in Lower
    BY <1>1, <1>2, <1>3 DEF Lower, LexProductOrdering
  <1> QED BY <1>4 DEF x, y

(* Steps and results stay within their bounds.                             *)
LEMMA BoundsStep ==
  ASSUME TypeOK, LeftBounds, [Next]_vars
  PROVE  LeftBounds'
  <1> USE DEF LeftBounds, runVars, driveVars, batchVars
  <1>0. MaxStep \in Nat /\ MaxResults \in Nat /\ results \in Nat /\ steps \in Nat
    BY ToolLoopAssumption DEF TypeOK
  <1>1. CASE Host
    BY <1>0, <1>1 DEF Host, RequestStop, Drive, Cancel, Unwind, ClearBatch, FollowUp
  <1>2. CASE StepUntilDone
    BY <1>0, <1>2 DEF StepUntilDone, NextStep, ForceLastStep, Return
  <1>3. CASE LLMCall
    BY <1>0, <1>3 DEF LLMCall, BeginStep, Chunk, AbortLLM, FinalizeAborted, ClearBatch, NoResponse,
                      ErrorResponse, TextResponse, ToolResponse, StartBatch
  <1>4. CASE Completion
    BY <1>4 DEF Completion, Admit, Refuse, DoneHookReturns
  <1>5. CASE Requery
    BY <1>0, <1>5 DEF Requery, RequeryTools, RequeryText, RequeryRaises, StartBatch, Unwind, ClearBatch
  <1>6. CASE ToolBatch
    <2>1. CASE UnknownTool \/ StartTool \/ AwaitResult \/ ToolFinished \/ ToolRaised
      BY <1>0, <2>1 DEF UnknownTool, StartTool, AwaitResult, ToolFinished, ToolRaised, NextCall
    <2>2. CASE InterruptTool \/ RecordTurn
      BY <1>0, <2>2 DEF InterruptTool, FinalizeAborted, RecordTurn, ClearBatch
    <2>3. CASE ToolResult \/ UnhandledResult
      BY <1>0, <2>3 DEF ToolResult, UnhandledResult
    <2> QED BY <1>6, <2>1, <2>2, <2>3 DEF ToolBatch
  <1>7. CASE UNCHANGED vars
    BY <1>7 DEF vars
  <1> QED
    BY <1>1, <1>2, <1>3, <1>4, <1>5, <1>6, <1>7 DEF Next, Runner

(* All four parts are numbers.                                             *)
LeftOK == StepsLeft \in Nat /\ StageLeft \in Nat /\ CallsLeft \in Nat /\ ResultsLeft \in Nat

LEMMA LeftInNat ==
  ASSUME TypeOK, BatchInv, LeftBounds
  PROVE  LeftOK
  <1>0. MaxStep \in Nat /\ MaxResults \in Nat /\ results \in Nat /\ steps \in Nat
    BY ToolLoopAssumption DEF TypeOK
  <1>1. StepsLeft \in Nat
    BY <1>0 DEF StepsLeft, LeftBounds
  <1>2. StageLeft \in Nat
    <2>1. Stage[pc] \in Nat
      BY DEF TypeOK, Suspension, Stage
    <2> QED BY <2>1 DEF StageLeft
  <1>3. CallsLeft \in Nat
    <2>1. Len(calls) \in Nat
      BY DEF TypeOK
    <2> QED BY <2>1 DEF CallsLeft, BatchInv
  <1>4. ResultsLeft \in Nat
    BY <1>0 DEF ResultsLeft, LeftBounds
  <1> QED BY <1>1, <1>2, <1>3, <1>4 DEF LeftOK

(* Which part of what is left a step of the runner lowers.                 *)
LEMMA DescentStep ==
  ASSUME TypeOK, BatchInv, LeftBounds, Runner \/ Cancel
  PROVE  \/ StepsLeft' < StepsLeft
         \/ StepsLeft' = StepsLeft /\ StageLeft' < StageLeft
         \/ StepsLeft' = StepsLeft /\ StageLeft' = StageLeft /\ CallsLeft' < CallsLeft
         \/ /\ StepsLeft' = StepsLeft /\ StageLeft' = StageLeft /\ CallsLeft' = CallsLeft
            /\ ResultsLeft' < ResultsLeft
  <1>0. /\ MaxStep \in Nat /\ MaxResults \in Nat /\ results \in Nat /\ steps \in Nat
        /\ k \in Nat /\ Len(calls) \in Nat /\ pc \in Suspension
    BY ToolLoopAssumption DEF TypeOK
  <1>1. CASE NextStep \/ ForceLastStep
    <2>1. StepsLeft' < StepsLeft
      BY <1>0, <1>1 DEF NextStep, ForceLastStep, StepsLeft, LeftBounds
    <2> QED BY <2>1
  <1>2. ASSUME UNCHANGED driveVars, StageLeft' < StageLeft
        PROVE  StepsLeft' = StepsLeft /\ StageLeft' < StageLeft
    BY <1>2 DEF StepsLeft, driveVars
  <1>3. CASE Return
    <2>1. StageLeft' < StageLeft
      BY <1>3 DEF Return, StageLeft, Stage
    <2> QED BY <1>2, <1>3, <2>1 DEF Return
  <1>4. CASE LLMCall
    <2>1. CASE BeginStep
      <3>1. StageLeft' < StageLeft
        BY <2>1 DEF BeginStep, StageLeft, Stage
      <3> QED BY <1>2, <2>1, <3>1 DEF BeginStep
    <2>2. CASE Chunk
      <3>1. StageLeft' < StageLeft
        BY <2>2 DEF Chunk, StageLeft, Stage
      <3> QED BY <1>2, <2>2, <3>1 DEF Chunk
    <2>3. CASE AbortLLM
      <3>1. StageLeft' < StageLeft
        BY <2>3 DEF AbortLLM, FinalizeAborted, StageLeft, Stage
      <3> QED BY <1>2, <2>3, <3>1 DEF AbortLLM, FinalizeAborted
    <2>4. CASE NoResponse \/ ErrorResponse \/ TextResponse
      <3>1. StageLeft' < StageLeft
        BY <2>4 DEF NoResponse, ErrorResponse, TextResponse, StageLeft, Stage
      <3> QED BY <1>2, <2>4, <3>1 DEF NoResponse, ErrorResponse, TextResponse
    <2>5. ASSUME NEW b \in Batches, ToolResponse(b)
          PROVE  StepsLeft' = StepsLeft /\ StageLeft' < StageLeft
      <3>1. pc = "llm" /\ pc' \in {"requery", "call"} /\ UNCHANGED driveVars
        BY <2>5 DEF ToolResponse, StartBatch
      <3>2. StageLeft' < StageLeft
        BY <3>1 DEF StageLeft, Stage
      <3> QED BY <1>2, <3>1, <3>2
    <2> QED BY <1>4, <2>1, <2>2, <2>3, <2>4, <2>5 DEF LLMCall
  <1>5. CASE Completion
    <2>1. StageLeft' < StageLeft
      BY <1>5 DEF Completion, Admit, Refuse, DoneHookReturns, StageLeft, Stage
    <2> QED BY <1>2, <1>5, <2>1 DEF Completion, Admit, Refuse, DoneHookReturns
  <1>6. CASE Requery
    <2>1. /\ pc = "requery" /\ pc' \in {"call", "veto", "off"}
          /\ UNCHANGED driveVars
      BY <1>6 DEF Requery, RequeryTools, RequeryText, RequeryRaises, StartBatch, Unwind
    <2>2. StageLeft' < StageLeft
      BY <2>1 DEF StageLeft, Stage
    <2> QED BY <1>2, <2>1, <2>2
  <1>7. CASE Cancel
    <2>1. StageLeft' < StageLeft
      <3>1. pc # "off" /\ pc' = "off"
        BY <1>7 DEF Cancel, Unwind
      <3>2. Stage[pc] \in Nat \ {0}
        BY <1>0, <3>1 DEF Stage, Suspension
      <3> QED BY <3>1, <3>2 DEF StageLeft, Stage
    <2> QED BY <1>2, <1>7, <2>1 DEF Cancel, Unwind
  <1>8. CASE InterruptTool \/ RecordTurn
    <2>1. /\ pc \in InBatch /\ pc' \in {"abortHook", "loop"}
          /\ UNCHANGED driveVars
      BY <1>8 DEF InterruptTool, FinalizeAborted, RecordTurn, InBatch
    <2>2. StageLeft' < StageLeft
      BY <2>1 DEF StageLeft, Stage, InBatch
    <2> QED BY <1>2, <2>1, <2>2
  <1>9. ASSUME pc \in InBatch, pc' \in InBatch, UNCHANGED driveVars
        PROVE  StepsLeft' = StepsLeft /\ StageLeft' = StageLeft
    BY <1>9 DEF StepsLeft, driveVars, StageLeft, Stage, InBatch
  <1>10. CASE UnknownTool \/ ToolFinished \/ ToolRaised
    <2>1. pc \in InBatch /\ pc' \in InBatch /\ UNCHANGED <<driveVars, calls>> /\ k' = k + 1
      BY <1>10 DEF UnknownTool, ToolFinished, ToolRaised, NextCall, InBatch
    <2>2. CallsLeft' < CallsLeft
      BY <1>0, <2>1 DEF CallsLeft
    <2> QED BY <1>9, <2>1, <2>2
  <1>11. CASE StartTool \/ AwaitResult \/ ToolResult \/ UnhandledResult
    <2>1. pc \in InBatch /\ pc' \in InBatch /\ UNCHANGED <<driveVars, calls, k>>
      BY <1>11 DEF StartTool, AwaitResult, ToolResult, UnhandledResult, AppendBlock, batchVars, InBatch
    <2>2. CallsLeft' = CallsLeft
      BY <2>1 DEF CallsLeft
    <2>3. \/ pc = "call" /\ pc' = "exec" /\ results' = 0
          \/ pc = "exec" /\ pc' = "await" /\ results' = results
          \/ pc = "await" /\ pc' = "exec" /\ results' = results + 1
      BY <1>11 DEF StartTool, AwaitResult, ToolResult, UnhandledResult, batchVars
    <2>4. ResultsLeft' < ResultsLeft
      <3>1. CASE pc = "call"
        BY <1>0, <2>3, <3>1, SMTT(30) DEF ResultsLeft, LeftBounds
      <3>2. CASE pc = "exec"
        BY <1>0, <2>3, <3>2, SMTT(30) DEF ResultsLeft, LeftBounds
      <3>3. CASE pc = "await"
        BY <1>0, <2>3, <3>3, SMTT(30) DEF ResultsLeft, LeftBounds
      <3> QED BY <2>3, <3>1, <3>2, <3>3
    <2> QED BY <1>9, <2>1, <2>2, <2>4
  <1> QED
    BY <1>1, <1>3, <1>4, <1>5, <1>6, <1>7, <1>8, <1>10, <1>11 DEF Runner, StepUntilDone, ToolBatch

(***************************************************************************)
(* step_until_done makes finitely many steps, for any size of batch and    *)
(* any max_step: each lowers what is left, and nothing is lowered for ever *)
(* (LowerWellFounded).  That it takes them is the fairness that            *)
(* DriveReturns assumes.                                                   *)
(***************************************************************************)
THEOREM DrivesDescend == Spec => DriveDescends
  <1>1. Init => LeftBounds
    BY ToolLoopAssumption DEF Init, LeftBounds
  <1>2. Init => BatchInv
    BY DEF Init, BatchInv, InBatch
  <1>3. Spec => [](TypeOK /\ BatchInv /\ LeftBounds /\ LeftOK)
    BY <1>1, <1>2, BatchStep, BoundsStep, TypeCorrect, LeftInNat, PTL DEF Spec
  <1>4. ASSUME TypeOK, BatchInv, LeftBounds, LeftOK, LeftOK', Runner \/ Cancel
        PROVE  <<Left', Left>> \in Lower
    BY <1>4, DescentStep, LowerAt, ZenonT(30) DEF Left, LeftOK
  <1>5. ASSUME RequestStop \/ \E t \in Tickets : FollowUp(t)
        PROVE  Left' = Left
    BY <1>5 DEF RequestStop, FollowUp, driveVars, batchVars, Left, StepsLeft, StageLeft,
                CallsLeft, ResultsLeft
  <1>6. Spec => DriveDescends
    BY <1>3, <1>4, <1>5, PTL DEF Spec, DriveDescends
  <1> QED BY <1>6

(***************************************************************************)
(* The safety half of the rest of DriveReturns: a stop request that finds  *)
(* the runner before or in an LLM call, or in a tool, is not lost on the   *)
(* way to the next place that looks at it, whatever the batch still does.  *)
(***************************************************************************)
StopPending ==
  /\ stop
  /\ \/ pc \in {"begin", "llm", "exec", "await"}
     \/ pc \in {"call", "loop"} /\ ~forced

StopNotMissed == [][StopPending => (StopPending \/ Done \/ broken)']_vars

(* The step after max_step has no tools.                                   *)
ForcedOK == forced => tools = {} /\ pc \notin {"exec", "await"}

LEMMA ForcedStep ==
  ASSUME TypeOK, ForcedOK, [Next]_vars
  PROVE  ForcedOK'
  <1> USE DEF ForcedOK, runVars, driveVars, batchVars
  <1>1. CASE Host
    BY <1>1 DEF Host, RequestStop, Drive, Cancel, Unwind, FollowUp
  <1>2. CASE StepUntilDone
    BY <1>2 DEF StepUntilDone, NextStep, ForceLastStep, Return
  <1>3. CASE LLMCall
    BY <1>3 DEF LLMCall, BeginStep, Chunk, AbortLLM, FinalizeAborted, NoResponse,
                ErrorResponse, TextResponse, ToolResponse, StartBatch
  <1>4. CASE Completion
    BY <1>4 DEF Completion, Admit, Refuse, DoneHookReturns
  <1>5. CASE Requery
    BY <1>5 DEF Requery, RequeryTools, RequeryText, RequeryRaises, StartBatch, Unwind
  <1>6. CASE ToolBatch
    BY <1>6 DEF ToolBatch, UnknownTool, StartTool, AwaitResult, InterruptTool, FinalizeAborted,
                ToolResult, UnhandledResult, ToolFinished, ToolRaised, NextCall, RecordTurn
  <1>7. CASE UNCHANGED vars
    BY <1>7 DEF vars
  <1> QED
    BY <1>1, <1>2, <1>3, <1>4, <1>5, <1>6, <1>7 DEF Next, Runner

LEMMA StopStep ==
  ASSUME TypeOK, ForcedOK, StopPending, [Next]_vars
  PROVE  (StopPending \/ Done \/ broken)'
  <1> USE DEF StopPending, runVars, driveVars, batchVars
  <1>1. CASE Host
    <2>1. CASE Cancel
      BY <2>1 DEF Cancel, Unwind
    <2>2. ASSUME RequestStop \/ Drive PROVE FALSE
      BY <2>2 DEF RequestStop, Drive
    <2>3. ASSUME NEW t \in Tickets, FollowUp(t) PROVE StopPending'
      BY <2>3 DEF FollowUp
    <2> QED BY <1>1, <2>1, <2>2, <2>3 DEF Host
  <1>2. CASE StepUntilDone
    BY <1>2 DEF StepUntilDone, NextStep, ForceLastStep, Return, Done
  <1>3. CASE LLMCall
    BY <1>3 DEF LLMCall, BeginStep, Chunk, AbortLLM, FinalizeAborted, NoResponse,
                ErrorResponse, TextResponse, ToolResponse, Done
  <1>4. CASE Completion
    BY <1>4 DEF Completion, Admit, Refuse, DoneHookReturns
  <1>5. CASE Requery
    BY <1>5 DEF Requery, RequeryTools, RequeryText, RequeryRaises
  <1>6. CASE ToolBatch
    <2>1. CASE InterruptTool
      BY <2>1 DEF InterruptTool, FinalizeAborted, Done
    <2>2. ASSUME ToolBatch, ~InterruptTool
          PROVE  stop' = stop /\ forced' = forced /\ pc' \in {"call", "exec", "await", "loop"}
      BY <2>2 DEF ToolBatch, UnknownTool, StartTool, AwaitResult, ToolResult, UnhandledResult,
                  ToolFinished, ToolRaised, NextCall, RecordTurn
    <2>3. ~forced
      <3>1. pc \in InBatch
        BY <1>6 DEF ToolBatch, UnknownTool, StartTool, AwaitResult, InterruptTool, ToolResult,
                    UnhandledResult, ToolFinished, ToolRaised, RecordTurn, InBatch
      <3> QED BY <3>1 DEF InBatch, ForcedOK
    <2> QED BY <1>6, <2>1, <2>2, <2>3
  <1>7. CASE UNCHANGED vars
    BY <1>7 DEF vars
  <1> QED
    BY <1>1, <1>2, <1>3, <1>4, <1>5, <1>6, <1>7 DEF Next, Runner

(***************************************************************************)
(* request_stop: a stop that was heard in time stays heard until the run   *)
(* has ended or the drive was torn down; with DrivesDescend, one of the    *)
(* two is only finitely many steps away.                                   *)
(***************************************************************************)
THEOREM StopsNotMissed == Spec => StopNotMissed
  <1>1. Init => ForcedOK
    BY DEF Init, ForcedOK
  <1>2. Spec => [](TypeOK /\ ForcedOK)
    BY <1>1, ForcedStep, TypeCorrect, PTL DEF Spec
  <1> QED BY <1>2, StopStep, PTL DEF Spec, StopNotMissed
=============================================================================
