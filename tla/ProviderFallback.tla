-------------------------- MODULE ProviderFallback --------------------------
(***************************************************************************)
(* One LLM call of a ToolLoopAgentRunner over its candidate providers      *)
(* (_iter_llm_responses_with_fallback), repeated as the steps of a run     *)
(* repeat it: the candidates are the runner's current provider and the     *)
(* fallbacks prepared by reset; each is asked until it answers, again when *)
(* its output was empty, and the next one is asked when it fails.  The     *)
(* provider asked last stays the runner's provider.                        *)
(*                                                                         *)
(* Every await and every yield of a chunk is a suspension point at which   *)
(* the step may abandon the call.  What a provider does is a choice.       *)
(***************************************************************************)
EXTENDS Integers, Sequences, Functions

CONSTANTS
  Providers,     \* provider objects of the host
  Primary,       \* the one given to reset as provider
  Ids,           \* values of provider_config["id"]
  NoId,          \* an empty or missing id
  Streaming,     \* reset()'s streaming
  Attempts,      \* EMPTY_OUTPUT_RETRY_ATTEMPTS
  MaxFallbacks,  \* fallbacks that survive reset (bound)
  MaxCalls       \* LLM calls of the run (bound)

ASSUME ProviderFallbackAssumption ==
  /\ Primary \in Providers
  /\ NoId \notin Ids
  /\ Streaming \in BOOLEAN
  /\ Attempts \in Nat \ {0}
  /\ {MaxFallbacks, MaxCalls} \subseteq Nat

VARIABLES
  id,         \* the id of each provider
  fallbacks,  \* fallback_providers
  provider,   \* self.provider
  candidates, \* the candidates of the call
  idx,        \* the candidate being asked, from 1
  attempt,    \* attempt number with this candidate
  has,        \* has_stream_output
  failed,     \* candidates that failed in this call
  streamed,   \* the call has yielded a chunk
  outcome,    \* how the last call ended
  calls,      \* calls so far
  pc          \* "reset", "idle" between calls, or "call"

setup == <<id, fallbacks>>
asking == <<provider, idx, attempt, has, failed>>
vars == <<setup, asking, candidates, streamed, outcome, calls, pc>>

-----------------------------------------------------------------------------
(* reset.                                                                  *)

Init ==
  /\ id \in [Providers -> Ids \cup {NoId}]
  /\ fallbacks = <<>>
  /\ provider = Primary
  /\ candidates = <<>>
  /\ idx = 1
  /\ attempt = 1
  /\ has = FALSE
  /\ failed = {}
  /\ streamed = FALSE
  /\ outcome = "none"
  /\ calls = 0
  /\ pc = "reset"

\* seen_provider_ids
Seen == {id[p] : p \in {Primary} \cup Range(fallbacks)}

\* Mutant: the provider itself is recognised by its id only.
KeepNamed(p) ==
  /\ pc = "reset"
  /\ Len(fallbacks) < MaxFallbacks
  /\ id[p] \in Seen => id[p] = NoId
  /\ fallbacks' = Append(fallbacks, p)
  /\ UNCHANGED <<id, asking, candidates, streamed, outcome, calls, pc>>

\* The loop over the given fallbacks keeps p: it is not the provider itself,
\* and no named provider before it has its id.  The others are passed over.
Keep(p) ==
  /\ pc = "reset"
  /\ Len(fallbacks) < MaxFallbacks
  /\ p # Primary
  /\ id[p] \in Seen => id[p] = NoId
  /\ fallbacks' = Append(fallbacks, p)
  /\ UNCHANGED <<id, asking, candidates, streamed, outcome, calls, pc>>

Prepared ==
  /\ pc = "reset"
  /\ pc' = "idle"
  /\ UNCHANGED <<setup, asking, candidates, streamed, outcome, calls>>

Reset == Prepared \/ \E p \in Providers : Keep(p)

-----------------------------------------------------------------------------
(* The call.                                                               *)

\* step() asks for a response.
Ask ==
  /\ pc = "idle"
  /\ calls < MaxCalls
  /\ candidates' = <<provider>> \o fallbacks
  /\ idx' = 1
  /\ attempt' = 1
  /\ has' = FALSE
  /\ failed' = {}
  /\ streamed' = FALSE
  /\ outcome' = "none"
  /\ calls' = calls + 1
  /\ pc' = "call"
  /\ UNCHANGED <<setup, provider>>

IsLast == idx = Len(candidates)

Close(how) ==
  /\ pc' = "idle"
  /\ outcome' = how
  /\ UNCHANGED <<setup, asking, candidates, streamed, calls>>

\* Mutant: the last candidate is taken to be the last fallback but one.
AskNextButOne ==
  /\ failed' = failed \cup {idx}
  /\ IF idx + 1 >= Len(candidates)
     THEN /\ pc' = "idle"
          /\ outcome' = "err"
          /\ UNCHANGED <<provider, idx, attempt, has>>
     ELSE /\ idx' = idx + 1
          /\ provider' = candidates[idx + 1]
          /\ attempt' = 1
          /\ has' = FALSE
          /\ UNCHANGED <<pc, outcome>>
  /\ UNCHANGED <<setup, candidates, streamed, calls>>

\* The candidate failed: the next one is asked, or, after the last, the last
\* error is yielded (the texts of the three errors are abstracted).
AskNext ==
  /\ failed' = failed \cup {idx}
  /\ IF IsLast
     THEN /\ pc' = "idle"
          /\ outcome' = "err"
          /\ UNCHANGED <<provider, idx, attempt, has>>
     ELSE /\ idx' = idx + 1
          /\ provider' = candidates[idx + 1]
          /\ attempt' = 1
          /\ has' = FALSE
          /\ UNCHANGED <<pc, outcome>>
  /\ UNCHANGED <<setup, candidates, streamed, calls>>

Chunk ==
  /\ pc = "call"
  /\ Streaming
  /\ ~has
  /\ has' = TRUE
  /\ streamed' = TRUE
  /\ UNCHANGED <<setup, candidates, provider, idx, attempt, failed, outcome, calls, pc>>

Answer ==
  /\ pc = "call"
  /\ Close("answer")

\* An error response reaches the step once output was shown, or from the last
\* candidate; otherwise it is kept and the next candidate is asked.
ErrResponse ==
  /\ pc = "call"
  /\ IF has THEN Close("err") ELSE AskNext

\* Mutant: a stream that ends without any output ends the call.
StreamEndsCall ==
  /\ pc = "call"
  /\ Streaming
  /\ Close("nothing")

\* The stream ends with no final response.
StreamEnds ==
  /\ pc = "call"
  /\ Streaming
  /\ IF has THEN Close("nothing") ELSE AskNext

\* Mutant: retried without end.
EmptyOutputForever ==
  /\ pc = "call"
  /\ has' = FALSE
  /\ UNCHANGED <<setup, candidates, provider, idx, attempt, failed, streamed, outcome, calls, pc>>

\* Mutant: one attempt too many.
EmptyOutputOnceMore ==
  /\ pc = "call"
  /\ IF attempt <= Attempts
     THEN /\ attempt' = attempt + 1
          /\ has' = FALSE
          /\ UNCHANGED <<setup, candidates, provider, idx, failed, streamed, outcome, calls, pc>>
     ELSE AskNext

\* EmptyModelOutputError: retried after a wait, whether or not output was
\* shown; after the last attempt it is an exception like any other.
EmptyOutput ==
  /\ pc = "call"
  /\ IF attempt < Attempts
     THEN /\ attempt' = attempt + 1
          /\ has' = FALSE
          /\ UNCHANGED <<setup, candidates, provider, idx, failed, streamed, outcome, calls, pc>>
     ELSE AskNext

\* Any other exception of the provider, also in the middle of its output.
Raises ==
  /\ pc = "call"
  /\ AskNext

\* The step stops reading after a chunk, or its task is cancelled.
Abandon ==
  /\ pc = "call"
  /\ Close("abandoned")

Call == Chunk \/ Answer \/ ErrResponse \/ StreamEnds \/ EmptyOutput \/ Raises

Next == Reset \/ Ask \/ Call \/ Abandon

Spec == Init /\ [][Next]_vars

\* Providers return or raise and the wait between attempts ends; the step may
\* abandon a call or not, and asks again or not.
FairSpec == Spec /\ WF_vars(Call)

-----------------------------------------------------------------------------
(***************************************************************************)
(* Every field is in its range; attempts stay within their bound and the   *)
(* candidate that is asked exists.                                         *)
(***************************************************************************)
TypeOK ==
  /\ id \in [Providers -> Ids \cup {NoId}]
  /\ fallbacks \in Seq(Providers)
  /\ provider \in Providers
  /\ candidates \in Seq(Providers)
  /\ idx \in 1..(1 + Len(fallbacks))
  /\ attempt \in 1..Attempts
  /\ has \in BOOLEAN
  /\ failed \in SUBSET Nat
  /\ streamed \in BOOLEAN
  /\ outcome \in {"none", "answer", "err", "nothing", "abandoned"}
  /\ calls \in Nat
  /\ pc \in {"reset", "idle", "call"}

(***************************************************************************)
(* Until a fallback has taken over, a call asks nobody twice: the provider *)
(* itself is not among its fallbacks, named or not, and no two candidates  *)
(* have the same name (reset, SDK_REFERENCE.md:383).                       *)
(***************************************************************************)
OneOfAName ==
  candidates # <<>> /\ candidates[1] = Primary =>
    \A i, j \in DOMAIN candidates :
      i < j => /\ candidates[j] # Primary
               /\ id[candidates[i]] = id[candidates[j]] => id[candidates[i]] = NoId

(***************************************************************************)
(* An error ends a run (ToolLoop's ErrorResponse), so it may reach the     *)
(* step only when every candidate failed, or when the one that fails has   *)
(* already shown output.                                                   *)
(***************************************************************************)
EveryCandidateFailed ==
  outcome = "err" => has \/ failed = DOMAIN candidates

(***************************************************************************)
(* Once a fallback was asked the run never goes back to the provider it    *)
(* was reset with: the next call's candidates start with the fallback, and *)
(* the provider is not among the others.                                   *)
(***************************************************************************)
NoReturnToPrimary == [][provider # Primary => provider' # Primary]_vars

(***************************************************************************)
(* Candidates, attempts and the rest of their retries come to an end:      *)
(* whatever the providers do, the step gets its response.                  *)
(***************************************************************************)
CallEnds == pc = "call" ~> pc # "call"

(***************************************************************************)
(* tool_loop_agent_runner.py:531, "returned empty output after streaming   *)
(* started; skipping empty-output retry": no attempt follows one that has  *)
(* shown output.                                                           *)
(***************************************************************************)
NoRetryAfterOutput == [][attempt' = attempt + 1 => ~has]_vars

(* A call is what the step takes it for, whatever candidates it went       *)
(* through.                                                                *)
LlmCall == INSTANCE LlmCall WITH open <- pc = "call"
LlmCallSpec == LlmCall!Spec
=============================================================================
