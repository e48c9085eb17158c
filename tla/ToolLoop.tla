------------------------------ MODULE ToolLoop ------------------------------
(***************************************************************************)
(* ToolLoopAgentRunner (core/runners/tool_loop_agent_runner.py): the ReAct *)
(* loop of one run, driven by step_until_done, and the host application    *)
(* that queues follow-up messages, requests a stop and may abandon the     *)
(* drive at any suspension point of the runner.                            *)
(*                                                                         *)
(* The runner is one coroutine; pc names the await or yield it is          *)
(* suspended at, and an action runs it from there to its next suspension.  *)
(* Host actions interleave between any two of them.  A provider's answer,  *)
(* a hook's verdict and a tool's results are nondeterministic choices.     *)
(* Message texts are abstracted away; of run_context.messages the model    *)
(* keeps which follow-up notices got in.                                   *)
(***************************************************************************)
EXTENDS Integers, Sequences, FiniteSets, SequencesExt

CONSTANTS
  Tools,        \* names in the request's tool set
  Ghosts,       \* names a model may invent: in no tool set
  SilentTools,  \* tools whose executor may finish without a result block
  Tickets,      \* follow-up messages the host may send (bound)
  Streaming,    \* reset()'s streaming: a provider yields chunks
  MaxStep,      \* step_until_done's max_step
  MaxBatch,     \* tool calls in one response (bound)
  MaxResults,   \* results one executor yields (bound)
  MaxDrives     \* calls of step_until_done in one run (bound)

ASSUME ToolLoopAssumption ==
  /\ Tools \cap Ghosts = {}
  /\ SilentTools \subseteq Tools
  /\ Streaming \in BOOLEAN
  /\ MaxStep \in Nat
  /\ MaxBatch \in Nat \ {0}
  /\ MaxResults \in Nat \ {0}
  /\ MaxDrives \in Nat

VARIABLES
  state,      \* _state
  final,      \* kind of final_llm_resp
  doneCalls,  \* calls of on_agent_done
  stop,       \* _abort_signal.is_set()
  aborted,    \* _aborted
  tools,      \* req.func_tool, {} when None or empty
  skillsLike, \* tool_schema_mode = "skills_like"
  ticket,     \* where each FollowUpTicket is
  pc,         \* where the runner is suspended
  drives,     \* step_until_done calls so far
  steps,      \* step_count of the current drive
  forced,     \* the drive is in its step after max_step
  streamed,   \* the current LLM call has produced a chunk
  calls,      \* names of the tool calls being handled
  k,          \* index of the call being handled
  results,    \* results the current executor has yielded
  answers,    \* call index of each block of tool_call_result_blocks
  broken      \* an exception or a cancellation left step_until_done

runVars == <<state, final, doneCalls, aborted>>
driveVars == <<drives, steps, forced>>
batchVars == <<calls, k, results, answers>>
vars == <<state, final, doneCalls, stop, aborted, tools, skillsLike, ticket, pc,
          drives, steps, forced, streamed, calls, k, results, answers, broken>>

Names == Tools \cup Ghosts
Batches == UNION {[1..n -> Names] : n \in 1..MaxBatch}

TicketStatus ==
  {"unused",     \* not sent
   "pending",    \* in _pending_follow_ups, resolved not set
   "carried",    \* consumed into a block of the batch being handled
   "delivered",  \* consumed, and the block is in run_context.messages
   "dropped",    \* consumed, and the block was discarded
   "released"}   \* resolved without being consumed

Suspension ==
  {"off",        \* no drive: before step_until_done, or after it ended
   "loop",       \* the last yield of a step
   "begin",      \* on_agent_begin
   "llm",        \* on_llm_request, compaction, or the LLM call
   "veto",       \* on_before_complete
   "doneHook",   \* on_agent_done after an answer
   "requery",    \* second LLM call of skills_like mode
   "call",       \* between two tool calls: yield of tool_call or of a result
   "exec",       \* on_tool_start, or between two results of the executor
   "await",      \* next result of the executor against the abort signal
   "abortHook"}  \* on_agent_done after an interruption

InBatch == {"call", "exec", "await"}

Done == state \in {"DONE", "ERROR"}

Pending == {t \in Tickets : ticket[t] = "pending"}
Move(from, to) == [t \in Tickets |-> IF ticket[t] = from THEN to ELSE ticket[t]]

-----------------------------------------------------------------------------
Init ==
  /\ state = "IDLE"
  /\ final = "none"
  /\ doneCalls = 0
  /\ stop = FALSE
  /\ aborted = FALSE
  /\ tools \in {Tools, {}}
  /\ skillsLike \in BOOLEAN
  /\ skillsLike => tools # {}     \* see the README on reset() without tools
  /\ ticket = [t \in Tickets |-> "unused"]
  /\ pc = "off"
  /\ drives = 0
  /\ steps = 0
  /\ forced = FALSE
  /\ streamed = FALSE
  /\ calls = <<>>
  /\ k = 0
  /\ results = 0
  /\ answers = <<>>
  /\ broken = FALSE

-----------------------------------------------------------------------------
(* The host application.                                                   *)

\* Mutant: the test on done() is missing.
FollowUpAfterEnd(t) ==
  /\ ~stop
  /\ ticket[t] = "unused"
  /\ ticket' = [ticket EXCEPT ![t] = "pending"]
  /\ UNCHANGED <<runVars, driveVars, batchVars, stop, tools, skillsLike, pc,
                 streamed, broken>>

\* follow_up: refused once the run is over or a stop was requested.
FollowUp(t) ==
  /\ ~Done
  /\ ~stop
  /\ ticket[t] = "unused"
  /\ ticket' = [ticket EXCEPT ![t] = "pending"]
  /\ UNCHANGED <<runVars, driveVars, batchVars, stop, tools, skillsLike, pc,
                 streamed, broken>>

RequestStop ==
  /\ ~stop
  /\ stop' = TRUE
  /\ UNCHANGED <<runVars, driveVars, batchVars, tools, skillsLike, ticket, pc,
                 streamed, broken>>

\* The host iterates step_until_done, a first time or again.
Drive ==
  /\ pc = "off"
  /\ drives < MaxDrives
  /\ drives' = drives + 1
  /\ steps' = 0
  /\ forced' = FALSE
  /\ pc' = "loop"
  /\ UNCHANGED <<runVars, batchVars, stop, tools, skillsLike, ticket, streamed, broken>>

ClearBatch ==
  /\ calls' = <<>>
  /\ k' = 0
  /\ results' = 0
  /\ answers' = <<>>

\* An exception ends step_until_done where it is suspended; nothing is undone.
\* The blocks of a batch in progress are local to step() and go with it.
Unwind ==
  /\ pc' = "off"
  /\ broken' = TRUE
  /\ streamed' = FALSE
  /\ ClearBatch
  /\ ticket' = Move("carried", "dropped")
  /\ UNCHANGED <<runVars, driveVars, stop, tools, skillsLike>>

\* The host closes the generator, or its task is cancelled.
Cancel ==
  /\ pc # "off"
  /\ Unwind

Host == RequestStop \/ Drive \/ Cancel \/ \E t \in Tickets : FollowUp(t)

-----------------------------------------------------------------------------
(* step_until_done.                                                        *)

\* Mutant: the step count runs down.
NextStepCountsDown ==
  /\ pc = "loop"
  /\ ~Done
  /\ ~forced
  /\ steps' = steps - 1
  /\ pc' = "begin"
  /\ UNCHANGED <<runVars, batchVars, drives, forced, stop, tools, skillsLike, ticket,
                 streamed, broken>>

NextStep ==
  /\ pc = "loop"
  /\ ~Done
  /\ ~forced
  /\ steps < MaxStep
  /\ steps' = steps + 1
  /\ pc' = "begin"
  /\ UNCHANGED <<runVars, batchVars, drives, forced, stop, tools, skillsLike, ticket,
                 streamed, broken>>

\* Mutant: the final round is driven inside the loop.
ForceEveryStep ==
  /\ pc = "loop"
  /\ ~Done
  /\ steps >= MaxStep
  /\ tools' = {}
  /\ pc' = "begin"
  /\ UNCHANGED <<runVars, batchVars, drives, steps, forced, stop, skillsLike, ticket,
                 streamed, broken>>

\* max_step reached: the tools are pulled, a prompt to summarise is appended.
ForceLastStep ==
  /\ pc = "loop"
  /\ ~Done
  /\ ~forced
  /\ steps >= MaxStep
  /\ forced' = TRUE
  /\ tools' = {}
  /\ pc' = "begin"
  /\ UNCHANGED <<runVars, batchVars, drives, steps, stop, skillsLike, ticket,
                 streamed, broken>>

Return ==
  /\ pc = "loop"
  /\ Done \/ forced
  /\ pc' = "off"
  /\ UNCHANGED <<runVars, driveVars, batchVars, stop, tools, skillsLike, ticket,
                 streamed, broken>>

-----------------------------------------------------------------------------
(* step: from its start to the end of the LLM call.                        *)

BeginStep ==
  /\ pc = "begin"
  /\ state' = "RUNNING"
  /\ streamed' = FALSE
  /\ pc' = "llm"
  /\ UNCHANGED <<final, doneCalls, aborted, driveVars, batchVars, stop, tools,
                 skillsLike, ticket, broken>>

\* _finalize_aborted_step, up to its await of on_agent_done.  What the batch
\* had produced is discarded.  kind: a response of role assistant is kept as
\* the final one, any other is replaced by the interruption message.
FinalizeAborted(kind) ==
  /\ stop
  /\ final' = kind
  /\ aborted' = TRUE
  /\ state' = "DONE"
  /\ doneCalls' = doneCalls + 1
  /\ ticket' = Move("carried", "dropped")
  /\ streamed' = FALSE
  /\ ClearBatch
  /\ pc' = "abortHook"
  /\ UNCHANGED <<driveVars, stop, tools, skillsLike, broken>>

\* A chunk is passed on; the abort signal is read after the yield.
Chunk ==
  /\ Streaming
  /\ pc = "llm"
  /\ ~stop
  /\ ~streamed
  /\ streamed' = TRUE
  /\ UNCHANGED <<runVars, driveVars, batchVars, stop, tools, skillsLike, ticket, pc, broken>>

\* A stop seen after a chunk, or after the whole response.
AbortLLM ==
  /\ pc = "llm"
  /\ \E kind \in {"text", "interrupted"} : FinalizeAborted(kind)

\* The stream ended after chunks, with no final response.
NoResponse ==
  /\ pc = "llm"
  /\ ~stop
  /\ streamed
  /\ streamed' = FALSE
  /\ pc' = "loop"
  /\ UNCHANGED <<runVars, driveVars, batchVars, stop, tools, skillsLike, ticket, broken>>

\* Mutant: the error is not kept as the final response.
ErrorNotKept ==
  /\ pc = "llm"
  /\ ~stop
  /\ state' = "ERROR"
  /\ ticket' = Move("pending", "released")
  /\ streamed' = FALSE
  /\ pc' = "loop"
  /\ UNCHANGED <<final, doneCalls, aborted, driveVars, batchVars, stop, tools,
                 skillsLike, broken>>

ErrorResponse ==
  /\ pc = "llm"
  /\ ~stop
  /\ final' = "err"
  /\ state' = "ERROR"
  /\ ticket' = Move("pending", "released")
  /\ streamed' = FALSE
  /\ pc' = "loop"
  /\ UNCHANGED <<doneCalls, aborted, driveVars, batchVars, stop, tools, skillsLike, broken>>

\* No tool call: the assistant turn is appended and on_before_complete polled.
TextResponse ==
  /\ pc = "llm"
  /\ ~stop
  /\ streamed' = FALSE
  /\ pc' = "veto"
  /\ UNCHANGED <<runVars, driveVars, batchVars, stop, tools, skillsLike, ticket, broken>>

StartBatch(b) ==
  /\ calls' = b
  /\ k' = 1
  /\ results' = 0
  /\ answers' = <<>>
  /\ pc' = "call"

\* _resolve_tool_exec asks again only when one of the names is in the tool set.
AsksAgain(b) == skillsLike /\ \E i \in DOMAIN b : b[i] \in tools

ToolResponse(b) ==
  /\ pc = "llm"
  /\ ~stop
  /\ streamed' = FALSE
  /\ \/ /\ AsksAgain(b)
        /\ pc' = "requery"
        /\ UNCHANGED batchVars
     \/ /\ ~AsksAgain(b)
        /\ StartBatch(b)
  /\ UNCHANGED <<runVars, driveVars, stop, tools, skillsLike, ticket, broken>>

-----------------------------------------------------------------------------
(* step: completion of a response without tool calls.                      *)

\* No hook vetoes, or one raises: the run is over and on_agent_done is called.
Admit ==
  /\ pc = "veto"
  /\ final' = "text"
  /\ state' = "DONE"
  /\ doneCalls' = doneCalls + 1
  /\ pc' = "doneHook"
  /\ UNCHANGED <<aborted, driveVars, batchVars, stop, tools, skillsLike, ticket,
                 streamed, broken>>

\* A hook returned False: the runner stays RUNNING and the step ends.
Refuse ==
  /\ pc = "veto"
  /\ pc' = "loop"
  /\ UNCHANGED <<runVars, driveVars, batchVars, stop, tools, skillsLike, ticket,
                 streamed, broken>>

\* on_agent_done returned, from either place that calls it.
DoneHookReturns ==
  /\ pc \in {"doneHook", "abortHook"}
  /\ ticket' = Move("pending", "released")
  /\ pc' = "loop"
  /\ UNCHANGED <<runVars, driveVars, batchVars, stop, tools, skillsLike, streamed, broken>>

-----------------------------------------------------------------------------
(* skills_like mode: the second LLM call, its repair attempt included.  It *)
(* reads no abort signal, and what it raises leaves step().                *)

RequeryTools(b) ==
  /\ pc = "requery"
  /\ StartBatch(b)
  /\ UNCHANGED <<runVars, driveVars, stop, tools, skillsLike, ticket, streamed, broken>>

RequeryText ==
  /\ pc = "requery"
  /\ pc' = "veto"
  /\ UNCHANGED <<runVars, driveVars, batchVars, stop, tools, skillsLike, ticket,
                 streamed, broken>>

RequeryRaises ==
  /\ pc = "requery"
  /\ Unwind

-----------------------------------------------------------------------------
(* step: the tool calls of one response (_handle_function_tools).          *)

\* A result block is appended for the current call; the follow-ups pending at
\* that moment are consumed into it.
AppendBlock ==
  /\ answers' = Append(answers, k)
  /\ ticket' = Move("pending", "carried")

NextCall ==
  /\ k' = k + 1
  /\ results' = 0
  /\ pc' = "call"

\* The name is in no tool set: an error block, and on to the next call.
UnknownTool ==
  /\ pc = "call"
  /\ k <= Len(calls)
  /\ tools # {}
  /\ calls[k] \notin tools
  /\ AppendBlock
  /\ NextCall
  /\ UNCHANGED <<runVars, driveVars, calls, stop, tools, skillsLike, streamed, broken>>

StartTool ==
  /\ pc = "call"
  /\ k <= Len(calls)
  /\ calls[k] \in tools
  /\ results' = 0
  /\ pc' = "exec"
  /\ UNCHANGED <<runVars, driveVars, calls, k, answers, stop, tools, skillsLike,
                 ticket, streamed, broken>>

\* The abort signal is clear: wait for the executor and for the signal at once.
AwaitResult ==
  /\ pc = "exec"
  /\ ~stop
  /\ pc' = "await"
  /\ UNCHANGED <<runVars, driveVars, batchVars, stop, tools, skillsLike, ticket,
                 streamed, broken>>

\* The signal is found set before the wait, or wins it: the executor is closed
\* and _ToolExecutionInterrupted leaves the batch.  The response has role
\* "tool", so the interruption message becomes the final one.
InterruptTool ==
  /\ pc \in {"exec", "await"}
  /\ FinalizeAborted("interrupted")

\* Mutant: a tool that ends the run announces it at once.
ToolResultAnnounced ==
  /\ pc = "await"
  /\ results < MaxResults
  /\ AppendBlock
  /\ results' = results + 1
  /\ \/ UNCHANGED <<state, doneCalls>>
     \/ state' = "DONE" /\ doneCalls' = doneCalls + 1
  /\ pc' = "exec"
  /\ UNCHANGED <<final, aborted, driveVars, calls, k, stop, tools, skillsLike,
                 streamed, broken>>

\* The executor yielded a result; None means the tool has answered the user
\* itself and ends the run, though not the batch.
ToolResult ==
  /\ pc = "await"
  /\ results < MaxResults
  /\ AppendBlock
  /\ results' = results + 1
  /\ state' \in {state, "DONE"}
  /\ pc' = "exec"
  /\ UNCHANGED <<final, doneCalls, aborted, driveVars, calls, k, stop, tools,
                 skillsLike, streamed, broken>>

\* A result of no content type the runner handles: no block is built from it.
UnhandledResult ==
  /\ pc = "await"
  /\ results < MaxResults
  /\ calls[k] \in SilentTools
  /\ results' = results + 1
  /\ pc' = "exec"
  /\ UNCHANGED <<runVars, driveVars, calls, k, answers, stop, tools, skillsLike,
                 ticket, streamed, broken>>

\* The executor is exhausted.  One that wraps a plain coroutine has yielded.
ToolFinished ==
  /\ pc = "await"
  /\ results > 0 \/ calls[k] \in SilentTools
  /\ NextCall
  /\ UNCHANGED <<runVars, driveVars, calls, answers, stop, tools, skillsLike, ticket,
                 streamed, broken>>

\* Mutant: the exception is logged, no error block is built.
ToolRaisedUnanswered ==
  /\ \/ pc = "await"
     \/ pc = "exec" /\ (results = 0 \/ stop)
  /\ NextCall
  /\ UNCHANGED <<runVars, driveVars, calls, answers, ticket, stop, tools, skillsLike,
                 streamed, broken>>

\* The executor raised, or could not be created, or raised while it was being
\* closed for a stop: an error block, and on to the next call.
ToolRaised ==
  /\ \/ pc = "await"
     \/ pc = "exec" /\ (results = 0 \/ stop)
  /\ AppendBlock
  /\ NextCall
  /\ UNCHANGED <<runVars, driveVars, calls, stop, tools, skillsLike, streamed, broken>>

\* Every call was handled; or there are no tools and the handler returned at
\* the first call, before it built a block.
BatchIsOver == k > Len(calls) \/ tools = {}

\* Mutant: the blocks do not reach the messages.
RecordCallsOnly ==
  /\ pc = "call"
  /\ BatchIsOver
  /\ ClearBatch
  /\ pc' = "loop"
  /\ UNCHANGED <<runVars, driveVars, stop, tools, skillsLike, ticket, streamed, broken>>

\* The assistant message with every call and the blocks, if there are any, are
\* appended to the messages.
RecordTurn ==
  /\ pc = "call"
  /\ BatchIsOver
  /\ ticket' = Move("carried", "delivered")
  /\ ClearBatch
  /\ pc' = "loop"
  /\ UNCHANGED <<runVars, driveVars, stop, tools, skillsLike, streamed, broken>>

-----------------------------------------------------------------------------
Completion == Admit \/ Refuse \/ DoneHookReturns

LLMCall ==
  \/ BeginStep
  \/ Chunk
  \/ AbortLLM
  \/ NoResponse
  \/ ErrorResponse
  \/ TextResponse
  \/ \E b \in Batches : ToolResponse(b)

Requery ==
  \/ \E b \in Batches : RequeryTools(b)
  \/ RequeryText
  \/ RequeryRaises

ToolBatch ==
  \/ UnknownTool
  \/ StartTool
  \/ AwaitResult
  \/ InterruptTool
  \/ ToolResult
  \/ UnhandledResult
  \/ ToolFinished
  \/ ToolRaised
  \/ RecordTurn

StepUntilDone == NextStep \/ ForceLastStep \/ Return

Runner == StepUntilDone \/ LLMCall \/ Completion \/ Requery \/ ToolBatch

Next == Host \/ Runner

Spec == Init /\ [][Next]_vars

\* The event loop runs a ready coroutine; providers, hooks and tools return.
FairSpec == Spec /\ WF_vars(Runner)

-----------------------------------------------------------------------------
TypeOK ==
  /\ state \in {"IDLE", "RUNNING", "DONE", "ERROR"}
  /\ final \in {"none", "text", "err", "interrupted"}
  /\ doneCalls \in Nat
  /\ stop \in BOOLEAN
  /\ aborted \in BOOLEAN
  /\ tools \in {Tools, {}}
  /\ skillsLike \in BOOLEAN
  /\ ticket \in [Tickets -> TicketStatus]
  /\ pc \in Suspension
  /\ drives \in Nat
  /\ steps \in Nat
  /\ forced \in BOOLEAN
  /\ streamed \in BOOLEAN
  /\ calls \in Seq(Names)
  /\ k \in Nat
  /\ results \in Nat
  /\ answers \in Seq(Nat)
  /\ broken \in BOOLEAN

(***************************************************************************)
(* A host that awaits FollowUpTicket.resolved is never left waiting by a   *)
(* run that is over: whichever way it ended (answer, error, interruption,  *)
(* a tool that answered the user), and however the follow-up raced with    *)
(* the hooks awaited around the end, no accepted ticket stays in           *)
(* _pending_follow_ups once the hooks have returned.                       *)
(***************************************************************************)
NoTicketStranded ==
  Done /\ pc \notin {"doneHook", "abortHook"} /\ ~broken => Pending = {}

(***************************************************************************)
(* A follow-up marked consumed is in the model's context: its notice rides *)
(* in a block only while the batch runs, every recorded batch delivers it, *)
(* and it is lost only when the run was interrupted or torn down.          *)
(***************************************************************************)
ConsumedIsDelivered ==
  \A t \in Tickets :
    /\ ticket[t] = "carried" => pc \in InBatch
    /\ ticket[t] = "dropped" => aborted \/ broken

(***************************************************************************)
(* on_agent_done is called exactly when there is an answer to announce: at *)
(* most once per run, never for an error, also when an interruption lands  *)
(* after a tool had already ended the run; and the state, the final        *)
(* response and was_aborted() tell the same story.                         *)
(***************************************************************************)
EndIsConsistent ==
  /\ doneCalls = IF final \in {"text", "interrupted"} THEN 1 ELSE 0
  /\ state = "ERROR" <=> final = "err"
  /\ final \in {"text", "interrupted"} => state = "DONE"
  /\ aborted => state = "DONE" /\ stop

(***************************************************************************)
(* Of every turn about to be recorded (867-892): when the request has      *)
(* tools, each call has its tool messages, in the order of the calls,      *)
(* whatever mixture of unknown tools, errors, several results and tools    *)
(* that end the run went before; only an executor that finishes without a  *)
(* result block leaves its call without one.  When it has none, as in the  *)
(* forced last step, the calls of a model that calls all the same are      *)
(* recorded with no tool message at all (992-993): none of them, so that   *)
(* what the next request drops or repairs is the whole message.            *)
(***************************************************************************)
EveryCallAnswered ==
  pc = "call" /\ BatchIsOver =>
    /\ tools = {} => answers = <<>>
    /\ tools # {} => \A i \in DOMAIN calls :
         calls[i] \notin SilentTools => i \in ToSet(answers)
    /\ \A i, j \in DOMAIN answers : i < j => answers[i] <= answers[j]
    /\ ToSet(answers) \subseteq DOMAIN calls

(***************************************************************************)
(* A run that is over stays over: step() sets RUNNING without looking, so  *)
(* only the loop that drives it keeps an ended run from being restarted.   *)
(***************************************************************************)
EndIsStable == [][Done => Done']_vars

(***************************************************************************)
(* step_until_done always comes back, whatever the model, the tools and a  *)
(* vetoing hook do; and a stop request that finds the runner before or in  *)
(* an LLM call, or in a tool, ends the run, unless the drive is torn down  *)
(* first.                                                                  *)
(***************************************************************************)
DriveReturns ==
  /\ pc # "off" ~> pc = "off"
  /\ (stop /\ pc \in {"begin", "llm", "exec", "await"}) ~> (Done \/ broken)

(* The runner keeps the promise every runner makes.                        *)
Lifecycle == INSTANCE AgentLifecycle
LifecycleSpec == Lifecycle!Spec
=============================================================================
