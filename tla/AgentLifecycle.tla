--------------------------- MODULE AgentLifecycle ---------------------------
(***************************************************************************)
(* What every runner promises its host, whatever loop it runs inside: the  *)
(* public AgentState (core/runners/base.py), the final response and the    *)
(* number of times the on_agent_done hook was called.  A run ends at most  *)
(* once, is announced at most once and only when there is a response to    *)
(* announce, and is never running again after its end.  The only thing     *)
(* that may still happen to an ended run, besides the announcement, is     *)
(* that one a tool ended without an answer is closed by an interruption.   *)
(***************************************************************************)
EXTENDS Naturals

VARIABLES
  state,      \* the runner's AgentState
  final,      \* kind of final_llm_resp, "none" before there is one
  doneCalls   \* calls of on_agent_done in this run

lifecycleVars == <<state, final, doneCalls>>

AgentState == {"IDLE", "RUNNING", "DONE", "ERROR"}
FinalKind == {"none", "text", "err", "interrupted"}

Init ==
  /\ state = "IDLE"
  /\ final = "none"
  /\ doneCalls = 0

Begin ==
  /\ state = "IDLE"
  /\ state' = "RUNNING"
  /\ UNCHANGED <<final, doneCalls>>

\* The run ends with a response, perhaps in the very step that began it; a
\* runner announces the end at once or later.
EndWith(newState, kinds) ==
  /\ state \in {"IDLE", "RUNNING"}
  /\ state' = newState
  /\ final' \in kinds
  /\ doneCalls' \in {0, 1}

Answer == EndWith("DONE", {"text", "interrupted"})

Fail == EndWith("ERROR", {"err"})

Announce ==
  /\ state \in {"DONE", "ERROR"}
  /\ final # "none"
  /\ doneCalls = 0
  /\ doneCalls' = 1
  /\ UNCHANGED <<state, final>>

\* A tool sent its result to the user itself: the run ends with no response.
EndWithoutAnswer ==
  /\ state = "RUNNING"
  /\ state' = "DONE"
  /\ UNCHANGED <<final, doneCalls>>

\* An interruption closes a run that had ended with no response.
CloseInterrupted ==
  /\ state = "DONE"
  /\ final = "none"
  /\ final' = "interrupted"
  /\ doneCalls' = 1
  /\ UNCHANGED state

Next ==
  \/ Begin
  \/ Answer
  \/ Fail
  \/ Announce
  \/ EndWithoutAnswer
  \/ CloseInterrupted

Spec == Init /\ [][Next]_lifecycleVars

\* reset starts the session's next run.
Restart ==
  /\ state' = "IDLE"
  /\ final' = "none"
  /\ doneCalls' = 0

SessionSpec == Init /\ [][Next \/ Restart]_lifecycleVars
=============================================================================
