------------------------------ MODULE LlmCall ------------------------------
(***************************************************************************)
(* What a step of the tool loop relies on when it asks for a response      *)
(* (tool_loop_agent_runner.py 707-762): chunks, then at most one response  *)
(* that is an answer or an error, after which the call is over.  A call    *)
(* may end with no response only if it produced chunks; only step() can    *)
(* make it end otherwise, by abandoning it.                                *)
(***************************************************************************)
VARIABLES
  open,      \* a call is in progress
  streamed,  \* it has produced a chunk
  outcome    \* how the last call ended

callVars == <<open, streamed, outcome>>

Outcome == {"none", "answer", "err", "nothing", "abandoned"}

Init ==
  /\ ~open
  /\ ~streamed
  /\ outcome = "none"

Ask ==
  /\ ~open
  /\ open'
  /\ ~streamed'
  /\ outcome' = "none"

Chunk ==
  /\ open
  /\ streamed'
  /\ UNCHANGED <<open, outcome>>

Close ==
  /\ open
  /\ ~open'
  /\ outcome' \in Outcome \ {"none"}
  /\ outcome' = "nothing" => streamed
  /\ UNCHANGED streamed

Next == Ask \/ Chunk \/ Close

Spec == Init /\ [][Next]_callVars
=============================================================================
