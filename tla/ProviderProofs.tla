--------------------------- MODULE ProviderProofs ---------------------------
(***************************************************************************)
(* Theorems about the modules of an LLM call: ProviderFallback, for any    *)
(* providers, ids and lists of fallbacks; OpenAIChat, for any keys, number *)
(* of attempts and length of the conversation; and Media, for any formats. *)
(***************************************************************************)
EXTENDS ProviderFallback, OpenAIChat, Media, ListsProofs

-----------------------------------------------------------------------------
(***************************************************************************)
(* ProviderFallback.                                                       *)
(***************************************************************************)

(* TypeOK without its Boolean fields, which need the other prover.         *)
DataOK ==
  /\ id \in [Providers -> Ids \cup {NoId}]
  /\ fallbacks \in Seq(Providers)
  /\ provider \in Providers
  /\ candidates \in Seq(Providers)
  /\ idx \in 1..(1 + Len(fallbacks))
  /\ attempt \in 1..Attempts
  /\ failed \in SUBSET Nat
  /\ outcome \in {"none", "answer", "err", "nothing", "abandoned"}
  /\ calls \in Nat
  /\ pc \in {"reset", "idle", "call"}

FlagsOK ==
  /\ has \in BOOLEAN
  /\ streamed \in BOOLEAN

(* The candidates of a call are the provider it began with and, after it,  *)
(* the fallbacks; the runner's provider is the candidate asked last.       *)
Linked ==
  candidates # <<>> =>
    /\ Len(candidates) = 1 + Len(fallbacks)
    /\ \A i \in 1..Len(fallbacks) : candidates[i + 1] = fallbacks[i]
    /\ provider = candidates[idx]

(* What each phase has already settled.                                    *)
Phases ==
  /\ pc = "reset" => candidates = <<>>
  /\ candidates = <<>> => provider = Primary /\ outcome = "none" /\ pc # "call"
  /\ pc = "call" => outcome = "none" /\ failed = 1..(idx - 1)
  /\ has => streamed

(* What reset makes of the fallbacks it is given.                          *)
DistinctFallbacks ==
  \A i \in DOMAIN fallbacks :
    /\ fallbacks[i] # Primary
    /\ id[fallbacks[i]] = id[Primary] => id[fallbacks[i]] = NoId
    /\ \A j \in DOMAIN fallbacks :
         i < j /\ id[fallbacks[i]] = id[fallbacks[j]] => id[fallbacks[i]] = NoId

FallbackInv ==
  /\ DataOK
  /\ FlagsOK
  /\ Linked
  /\ Phases
  /\ DistinctFallbacks
  /\ EveryCandidateFailed

-----------------------------------------------------------------------------
(* What holds after __init__, before any fallback is looked at.            *)
LEMMA InitInv == Init => FallbackInv
  <1> SUFFICES ASSUME Init PROVE FallbackInv
    OBVIOUS
  <1>1. DataOK
    BY ProviderFallbackAssumption DEF Init, DataOK
  <1>2. FlagsOK
    BY DEF Init, FlagsOK
  <1>3. Linked /\ DistinctFallbacks
    BY DEF Init, Linked, DistinctFallbacks
  <1>4. Phases
    BY DEF Init, Phases
  <1>5. EveryCandidateFailed
    BY DEF Init, EveryCandidateFailed
  <1> QED BY <1>1, <1>2, <1>3, <1>4, <1>5 DEF FallbackInv

(* Asking the next candidate, or giving up after the last.                 *)
LEMMA AskNextStep ==
  ASSUME FallbackInv, pc = "call", AskNext
  PROVE  FallbackInv'
  <1> USE DEF setup
  <1>1. DataOK /\ FlagsOK /\ Linked /\ Phases
    BY DEF FallbackInv
  <1>2. Len(candidates) = 1 + Len(fallbacks) /\ Len(candidates) \in Nat
    BY <1>1 DEF Linked, Phases, DataOK
  <1>3. DataOK'
    BY <1>1, <1>2, ProviderFallbackAssumption DEF AskNext, IsLast, DataOK
  <1>4. FlagsOK'
    BY <1>1 DEF AskNext, FlagsOK
  <1>5. Linked'
    BY <1>1, <1>2 DEF AskNext, IsLast, Linked, Phases, DataOK
  <1>6. Phases'
    BY <1>1, <1>2 DEF AskNext, IsLast, Phases, DataOK
  <1>7. DistinctFallbacks'
    BY DEF FallbackInv, AskNext, DistinctFallbacks
  <1>8. EveryCandidateFailed'
    <2>1. CASE IsLast
      <3>1. failed' = 1..Len(candidates)
        BY <1>1, <1>2, <2>1 DEF AskNext, IsLast, Phases, DataOK
      <3>2. DOMAIN candidates = 1..Len(candidates) /\ candidates' = candidates
        BY <1>1 DEF AskNext, DataOK
      <3>3. failed' = DOMAIN candidates'
        BY <3>1, <3>2
      <3> QED BY <3>3 DEF EveryCandidateFailed
    <2>2. CASE ~IsLast
      BY <1>1, <2>2 DEF AskNext, Phases, EveryCandidateFailed
    <2> QED BY <2>1, <2>2
  <1> QED BY <1>3, <1>4, <1>5, <1>6, <1>7, <1>8 DEF FallbackInv

(* Ending the call, with an error only when output was shown.              *)
LEMMA CloseStep ==
  ASSUME FallbackInv, pc = "call",
         NEW how \in {"answer", "err", "nothing", "abandoned"}, Close(how),
         how = "err" => has
  PROVE  FallbackInv'
  <1> USE DEF setup, asking, Close
  <1>1. DataOK'
    BY DEF FallbackInv, DataOK
  <1>2. FlagsOK'
    BY DEF FallbackInv, FlagsOK
  <1>3. Linked'
    BY DEF FallbackInv, Linked
  <1>4. Phases'
    BY DEF FallbackInv, Phases
  <1>5. DistinctFallbacks'
    BY DEF FallbackInv, DistinctFallbacks
  <1>6. EveryCandidateFailed'
    BY DEF EveryCandidateFailed
  <1> QED BY <1>1, <1>2, <1>3, <1>4, <1>5, <1>6 DEF FallbackInv

(* The step begins a call.                                                 *)
LEMMA AskStep ==
  ASSUME FallbackInv, Ask
  PROVE  FallbackInv'
  <1> USE DEF setup, Ask
  <1>1. DataOK /\ DistinctFallbacks
    BY DEF FallbackInv
  <1>2. /\ candidates' \in Seq(Providers)
        /\ candidates' # <<>>
        /\ Len(candidates') = 1 + Len(fallbacks)
        /\ candidates'[1] = provider
        /\ \A i \in 1..Len(fallbacks) : candidates'[i + 1] = fallbacks[i]
    BY <1>1 DEF DataOK
  <1>3. DataOK'
    BY <1>1, <1>2, ProviderFallbackAssumption DEF DataOK
  <1>4. FlagsOK'
    BY DEF FlagsOK
  <1>5. Linked'
    BY <1>2 DEF Linked
  <1>6. Phases'
    BY <1>2 DEF Phases
  <1>7. DistinctFallbacks'
    BY <1>1 DEF DistinctFallbacks
  <1>8. EveryCandidateFailed'
    BY DEF EveryCandidateFailed
  <1> QED BY <1>3, <1>4, <1>5, <1>6, <1>7, <1>8 DEF FallbackInv

(* reset keeps one more of the fallbacks it is given.                      *)
LEMMA KeepStep ==
  ASSUME FallbackInv, NEW p \in Providers, Keep(p)
  PROVE  FallbackInv'
  <1> USE DEF setup, asking, Keep
  <1>1. DataOK /\ DistinctFallbacks /\ Phases
    BY DEF FallbackInv
  <1>2. /\ Len(fallbacks') = Len(fallbacks) + 1
        /\ fallbacks' \in Seq(Providers)
        /\ fallbacks'[Len(fallbacks) + 1] = p
        /\ \A i \in DOMAIN fallbacks : fallbacks'[i] = fallbacks[i]
    BY <1>1 DEF DataOK
  <1>3. /\ id[p] = id[Primary] => id[p] = NoId
        /\ \A i \in DOMAIN fallbacks : id[fallbacks[i]] = id[p] => id[p] = NoId
    BY DEF Seen, Range
  <1>4. DataOK'
    BY <1>1, <1>2 DEF DataOK
  <1>5. FlagsOK'
    BY DEF FallbackInv, FlagsOK
  <1>6. Linked' /\ Phases'
    BY <1>1 DEF Linked, Phases
  <1>7. DistinctFallbacks'
    <2>1. DOMAIN fallbacks' = DOMAIN fallbacks \cup {Len(fallbacks) + 1}
      BY <1>1, <1>2 DEF DataOK
    <2>2. \A i \in DOMAIN fallbacks : i < Len(fallbacks) + 1
      BY <1>1 DEF DataOK
    <2> QED BY <1>1, <1>2, <1>3, <2>1, <2>2, SMTT(30) DEF DistinctFallbacks, DataOK
  <1>8. EveryCandidateFailed'
    BY DEF FallbackInv, EveryCandidateFailed
  <1> QED BY <1>4, <1>5, <1>6, <1>7, <1>8 DEF FallbackInv

(* A chunk, or another attempt with the same candidate.                    *)
LEMMA SameCandidateStep ==
  ASSUME FallbackInv, pc = "call", has' \in BOOLEAN, streamed' \in BOOLEAN,
         attempt' \in 1..Attempts, has' => streamed',
         UNCHANGED <<setup, candidates, provider, idx, failed, outcome, calls, pc>>
  PROVE  FallbackInv'
  <1> USE DEF setup
  <1>1. DataOK'
    BY DEF FallbackInv, DataOK
  <1>2. FlagsOK'
    BY DEF FallbackInv, FlagsOK
  <1>3. Linked'
    BY DEF FallbackInv, Linked
  <1>4. Phases'
    BY DEF FallbackInv, Phases
  <1>5. DistinctFallbacks'
    BY DEF FallbackInv, DistinctFallbacks
  <1>6. EveryCandidateFailed'
    BY DEF FallbackInv, Phases, EveryCandidateFailed
  <1> QED BY <1>1, <1>2, <1>3, <1>4, <1>5, <1>6 DEF FallbackInv

-----------------------------------------------------------------------------
(* Every step keeps the invariant.                                         *)
LEMMA InvStep ==
  ASSUME FallbackInv, [Next]_vars
  PROVE  FallbackInv'
  <1>1. ASSUME NEW p \in Providers, Keep(p) PROVE FallbackInv'
    BY <1>1, KeepStep
  <1>2. CASE Prepared
    <2> USE <1>2 DEF Prepared, setup, asking
    <2>1. DataOK' /\ FlagsOK'
      BY DEF FallbackInv, DataOK, FlagsOK
    <2>2. Linked' /\ Phases'
      BY DEF FallbackInv, Linked, Phases
    <2>3. DistinctFallbacks' /\ EveryCandidateFailed'
      BY DEF FallbackInv, DistinctFallbacks, EveryCandidateFailed
    <2> QED BY <2>1, <2>2, <2>3 DEF FallbackInv
  <1>3. CASE Ask
    BY <1>3, AskStep
  <1>4. CASE Chunk
    <2>1. attempt' \in 1..Attempts
      BY <1>4 DEF Chunk, FallbackInv, DataOK
    <2> QED BY <1>4, <2>1, SameCandidateStep DEF Chunk
  <1>5. CASE Answer
    BY <1>5, CloseStep DEF Answer
  <1>6. CASE ErrResponse
    BY <1>6, CloseStep, AskNextStep DEF ErrResponse
  <1>7. CASE StreamEnds
    BY <1>7, CloseStep, AskNextStep DEF StreamEnds
  <1>8. CASE EmptyOutput
    <2>1. CASE attempt < Attempts
      <3>1. attempt' \in 1..Attempts /\ has' = FALSE
        BY <1>8, <2>1, ProviderFallbackAssumption DEF EmptyOutput, FallbackInv, DataOK
      <3>2. streamed' \in BOOLEAN
        BY <1>8, <2>1 DEF EmptyOutput, FallbackInv, FlagsOK
      <3> QED BY <1>8, <2>1, <3>1, <3>2, SameCandidateStep DEF EmptyOutput
    <2>2. CASE ~(attempt < Attempts)
      BY <1>8, <2>2, AskNextStep DEF EmptyOutput
    <2> QED BY <2>1, <2>2
  <1>9. CASE Raises
    BY <1>9, AskNextStep DEF Raises
  <1>10. CASE Abandon
    BY <1>10, CloseStep DEF Abandon
  <1>11. CASE UNCHANGED vars
    <2> USE <1>11 DEF vars, setup, asking
    <2>1. DataOK' /\ FlagsOK'
      BY DEF FallbackInv, DataOK, FlagsOK
    <2>2. Linked' /\ Phases'
      BY DEF FallbackInv, Linked, Phases
    <2>3. DistinctFallbacks' /\ EveryCandidateFailed'
      BY DEF FallbackInv, DistinctFallbacks, EveryCandidateFailed
    <2> QED BY <2>1, <2>2, <2>3 DEF FallbackInv
  <1> QED BY <1>1, <1>2, <1>3, <1>4, <1>5, <1>6, <1>7, <1>8, <1>9, <1>10, <1>11
             DEF Next, Reset, Call

(* The invariant holds in every state.                                     *)
LEMMA Invariance == Spec => []FallbackInv
  <1>1. FallbackInv /\ [Next]_vars => FallbackInv'
    BY InvStep
  <1> QED BY <1>1, InitInv, PTL DEF Spec

(***************************************************************************)
(* The candidate asked always exists and attempts stay within              *)
(* EMPTY_OUTPUT_RETRY_ATTEMPTS.                                            *)
(***************************************************************************)
THEOREM FallbackTypes == Spec => []TypeOK
  <1>1. FallbackInv => TypeOK
    BY DEF FallbackInv, DataOK, FlagsOK, TypeOK
  <1> QED BY <1>1, Invariance, PTL

(***************************************************************************)
(* An error reaches the step only when every candidate failed or output    *)
(* was shown, for any list of fallbacks.                                   *)
(***************************************************************************)
THEOREM ErrorsAreLast == Spec => []EveryCandidateFailed
  <1>1. FallbackInv => EveryCandidateFailed
    BY DEF FallbackInv
  <1> QED BY <1>1, Invariance, PTL

(***************************************************************************)
(* reset leaves one candidate of each name, and the provider once, for any *)
(* fallbacks given to it.                                                  *)
(***************************************************************************)
THEOREM NamesAreDistinct == Spec => []OneOfAName
  <1>1. ASSUME FallbackInv PROVE OneOfAName
    <2> SUFFICES ASSUME candidates # <<>>, candidates[1] = Primary,
                        NEW i \in DOMAIN candidates, NEW j \in DOMAIN candidates, i < j
                 PROVE  /\ candidates[j] # Primary
                        /\ id[candidates[i]] = id[candidates[j]] => id[candidates[i]] = NoId
      BY DEF OneOfAName
    <2>1. DataOK /\ Linked /\ DistinctFallbacks
      BY <1>1 DEF FallbackInv
    <2>2. DOMAIN candidates = 1..(1 + Len(fallbacks)) /\ DOMAIN fallbacks = 1..Len(fallbacks)
          /\ Len(fallbacks) \in Nat
      BY <2>1 DEF DataOK, Linked
    <2>3. j - 1 \in DOMAIN fallbacks /\ candidates[j] = fallbacks[j - 1]
      BY <2>1, <2>2 DEF Linked
    <2>4. CASE i = 1
      BY <2>1, <2>3, <2>4 DEF DistinctFallbacks
    <2>5. CASE i # 1
      <3>1. i - 1 \in DOMAIN fallbacks /\ candidates[i] = fallbacks[i - 1] /\ i - 1 < j - 1
        BY <2>1, <2>2, <2>5 DEF Linked
      <3> QED BY <2>1, <2>3, <3>1 DEF DistinctFallbacks
    <2> QED BY <2>4, <2>5
  <1> QED BY <1>1, Invariance, PTL

(***************************************************************************)
(* A run that has asked a fallback never asks its first provider again,    *)
(* over any number of calls.                                               *)
(***************************************************************************)
THEOREM FallbackForGood == Spec => NoReturnToPrimary
  <1>1. ASSUME FallbackInv, [Next]_vars, provider # Primary
        PROVE  provider' # Primary
    <2>1. ASSUME AskNext, pc = "call" PROVE provider' # Primary
      <3>1. DataOK /\ Linked /\ Phases /\ DistinctFallbacks
        BY <1>1 DEF FallbackInv
      <3>2. CASE IsLast
        BY <1>1, <2>1, <3>2 DEF AskNext
      <3>3. CASE ~IsLast
        <4>1. idx \in DOMAIN fallbacks /\ provider' = fallbacks[idx]
          BY <2>1, <3>1, <3>3 DEF AskNext, IsLast, Linked, Phases, DataOK
        <4> QED BY <3>1, <4>1 DEF DistinctFallbacks
      <3> QED BY <3>2, <3>3
    <2>2. UNCHANGED provider \/ (AskNext /\ pc = "call")
      BY <1>1 DEF Next, Reset, Keep, Prepared, Ask, Call, Chunk, Answer, ErrResponse,
                  StreamEnds, EmptyOutput, Raises, Abandon, Close, asking, setup, vars
    <2> QED BY <1>1, <2>1, <2>2
  <1>2. FallbackInv /\ [Next]_vars
          => [provider # Primary => provider' # Primary]_vars
    BY <1>1
  <1> QED BY <1>2, Invariance, PTL DEF Spec, NoReturnToPrimary

(***************************************************************************)
(* The call over all candidates is one call to the step that makes it.     *)
(***************************************************************************)
THEOREM CallRefinement == Spec => LlmCallSpec
  <1>1. Init => LlmCall!Init
    BY DEF Init, LlmCall!Init
  <1>2. ASSUME FallbackInv, [Next]_vars
        PROVE  [LlmCall!Next]_(LlmCall!callVars)
    <2> USE DEF LlmCall!Next, LlmCall!callVars, setup, asking
    <2>1. ASSUME AskNext, pc = "call" PROVE LlmCall!Close \/ UNCHANGED LlmCall!callVars
      BY <2>1 DEF AskNext, LlmCall!Close, LlmCall!Outcome
    <2>2. ASSUME NEW how \in {"answer", "err", "nothing", "abandoned"}, Close(how),
                 pc = "call", how = "nothing" => has
          PROVE  LlmCall!Close
      BY <1>2, <2>2 DEF FallbackInv, Phases, Close, LlmCall!Close, LlmCall!Outcome
    <2>3. CASE Reset
      BY <2>3 DEF Reset, Keep, Prepared
    <2>4. CASE Ask
      BY <2>4 DEF Ask, LlmCall!Ask
    <2>5. CASE Chunk
      BY <2>5 DEF Chunk, LlmCall!Chunk
    <2>6. CASE Answer \/ Abandon
      BY <2>2, <2>6 DEF Answer, Abandon
    <2>7. CASE ErrResponse
      BY <2>1, <2>2, <2>7 DEF ErrResponse
    <2>8. CASE StreamEnds
      BY <2>1, <2>2, <2>8 DEF StreamEnds
    <2>9. CASE EmptyOutput
      BY <2>1, <2>9 DEF EmptyOutput
    <2>10. CASE Raises
      BY <2>1, <2>10 DEF Raises
    <2>11. CASE UNCHANGED vars
      BY <2>11 DEF vars
    <2> QED BY <1>2, <2>3, <2>4, <2>5, <2>6, <2>7, <2>8, <2>9, <2>10, <2>11 DEF Next, Call
  <1> QED BY <1>1, <1>2, Invariance, PTL DEF Spec, LlmCallSpec, LlmCall!Spec

-----------------------------------------------------------------------------
(* What is left of a call: the attempts with this candidate and with those *)
(* after it, and whether this attempt may still show its first output.     *)
CandidatesLeft == Len(candidates) - idx
AttemptsLeft == Attempts * CandidatesLeft + (Attempts - attempt)
CallLeft == IF pc = "call" THEN 2 * AttemptsLeft + (IF has THEN 1 ELSE 2) ELSE 0

(***************************************************************************)
(* The safety half of CallEnds: whatever the providers do, each of their   *)
(* steps lowers a number, so that a call makes at most                     *)
(* EMPTY_OUTPUT_RETRY_ATTEMPTS attempts with each of its candidates.       *)
(***************************************************************************)
CallDescends ==
  /\ [](CallLeft \in Nat)
  /\ [][Call \/ Abandon => CallLeft' < CallLeft]_vars

LEMMA WithinCall ==
  ASSUME FallbackInv, pc = "call"
  PROVE  /\ Attempts \in Nat \ {0} /\ attempt \in 1..Attempts
         /\ idx \in Nat /\ Len(candidates) \in Nat /\ CandidatesLeft \in Nat
  <1>1. candidates # <<>> /\ idx \in 1..(1 + Len(fallbacks)) /\ fallbacks \in Seq(Providers)
    BY DEF FallbackInv, DataOK, Phases
  <1>2. Len(candidates) = 1 + Len(fallbacks) /\ Len(fallbacks) \in Nat
    BY <1>1 DEF FallbackInv, Linked
  <1>3. Attempts \in Nat \ {0} /\ attempt \in 1..Attempts
    BY ProviderFallbackAssumption DEF FallbackInv, DataOK
  <1> QED BY <1>1, <1>2, <1>3 DEF CandidatesLeft

(* One candidate fewer, with all its attempts, is at least one attempt     *)
(* fewer, whichever the last one was.                                      *)
LEMMA OneFewer ==
  ASSUME NEW a \in Nat, NEW n \in Nat \ {0}, NEW k \in 1..a
  PROVE  a * (n - 1) + (a - 1) \in Int /\ a * (n - 1) + (a - 1) < a * n + (a - k)
  <1>1. a * n \in Nat /\ a * (n - 1) = a * n - a
    OBVIOUS
  <1>2. ASSUME NEW all \in Nat
        PROVE  (all - a) + (a - 1) \in Int /\ (all - a) + (a - 1) < all + (a - k)
    OBVIOUS
  <1> QED BY <1>1, <1>2

LEMMA AttemptsCounted ==
  ASSUME FallbackInv, pc = "call"
  PROVE  AttemptsLeft \in Nat
  <1>1. ASSUME NEW a \in Nat, NEW n \in Nat PROVE a * n \in Nat
    OBVIOUS
  <1>2. Attempts * CandidatesLeft \in Nat /\ Attempts - attempt \in Nat
    BY <1>1, WithinCall
  <1>3. ASSUME NEW all \in Nat, NEW rest \in Nat PROVE all + rest \in Nat
    OBVIOUS
  <1> QED BY <1>2, <1>3 DEF AttemptsLeft

LEMMA CallLeftCounts ==
  ASSUME FallbackInv
  PROVE  CallLeft \in Nat /\ (pc = "call" => CallLeft > 0)
  <1>1. CASE pc = "call"
    BY <1>1, AttemptsCounted DEF CallLeft
  <1>2. CASE pc # "call"
    BY <1>2 DEF CallLeft
  <1> QED BY <1>1, <1>2

(* The end of the call leaves nothing.                                     *)
LEMMA CloseDescends ==
  ASSUME FallbackInv, pc = "call", pc' = "idle"
  PROVE  CallLeft' < CallLeft
  <1>1. CallLeft' = 0
    BY DEF CallLeft
  <1> QED BY <1>1, CallLeftCounts

LEMMA AttemptDescends ==
  ASSUME FallbackInv, pc = "call", pc' = "call",
         AttemptsLeft' \in Int, AttemptsLeft' < AttemptsLeft
  PROVE  CallLeft' < CallLeft
  <1>1. AttemptsLeft \in Nat
    BY AttemptsCounted
  <1>2. /\ CallLeft = 2 * AttemptsLeft + 1 \/ CallLeft = 2 * AttemptsLeft + 2
        /\ CallLeft' = 2 * AttemptsLeft' + 1 \/ CallLeft' = 2 * AttemptsLeft' + 2
    BY DEF CallLeft
  <1>3. ASSUME NEW m \in Nat, NEW n \in Int, n < m,
               NEW x, x = 2 * m + 1 \/ x = 2 * m + 2,
               NEW y, y = 2 * n + 1 \/ y = 2 * n + 2
        PROVE  y < x
    BY <1>3
  <1> QED BY <1>1, <1>2, <1>3

(* The next candidate has its own attempts, the one before none any more.  *)
LEMMA AskNextDescends ==
  ASSUME FallbackInv, pc = "call", AskNext
  PROVE  CallLeft' < CallLeft
  <1>1. CASE IsLast
    BY <1>1, CloseDescends DEF AskNext
  <1>2. CASE ~IsLast
    <2>1. pc' = "call" /\ idx' = idx + 1 /\ attempt' = 1 /\ candidates' = candidates
      BY <1>2 DEF AskNext
    <2>2. CandidatesLeft \in Nat \ {0} /\ CandidatesLeft' = CandidatesLeft - 1
      BY <1>2, <2>1, WithinCall DEF CandidatesLeft, IsLast
    <2>3. AttemptsLeft' \in Int /\ AttemptsLeft' < AttemptsLeft
      BY <2>1, <2>2, WithinCall, OneFewer DEF AttemptsLeft
    <2> QED BY <2>1, <2>3, AttemptDescends
  <1> QED BY <1>1, <1>2

LEMMA CallStepDescends ==
  ASSUME FallbackInv, Call \/ Abandon
  PROVE  CallLeft' < CallLeft
  <1>1. CASE Chunk
    <2>1. /\ pc = "call" /\ pc' = "call" /\ ~has /\ has'
          /\ AttemptsLeft' = AttemptsLeft
      BY <1>1 DEF Chunk, AttemptsLeft, CandidatesLeft
    <2>2. CallLeft' = 2 * AttemptsLeft + 1 /\ CallLeft = 2 * AttemptsLeft + 2
      BY <2>1 DEF CallLeft
    <2>3. AttemptsLeft \in Nat
      BY <2>1, AttemptsCounted
    <2> QED BY <2>2, <2>3
  <1>2. ASSUME NEW how, pc = "call", Close(how) PROVE CallLeft' < CallLeft
    BY <1>2, CloseDescends DEF Close
  <1>3. CASE Answer \/ Abandon
    BY <1>2, <1>3 DEF Answer, Abandon
  <1>4. CASE ErrResponse \/ StreamEnds
    BY <1>2, <1>4, AskNextDescends DEF ErrResponse, StreamEnds
  <1>5. CASE Raises
    BY <1>5, AskNextDescends DEF Raises
  <1>6. CASE EmptyOutput
    <2>1. CASE attempt < Attempts
      <3>1. /\ pc = "call" /\ pc' = "call" /\ attempt' = attempt + 1
            /\ CandidatesLeft' = CandidatesLeft
        BY <1>6, <2>1 DEF EmptyOutput, CandidatesLeft
      <3>2. ASSUME NEW all \in Nat
            PROVE  /\ all + (Attempts - attempt') \in Int
                   /\ all + (Attempts - attempt') < all + (Attempts - attempt)
        BY <3>1, WithinCall
      <3>3. Attempts * CandidatesLeft \in Nat
        BY <3>1, WithinCall
      <3>4. AttemptsLeft' \in Int /\ AttemptsLeft' < AttemptsLeft
        BY <3>1, <3>2, <3>3 DEF AttemptsLeft
      <3> QED BY <3>1, <3>4, AttemptDescends
    <2>2. CASE ~(attempt < Attempts)
      BY <1>6, <2>2, AskNextDescends DEF EmptyOutput
    <2> QED BY <2>1, <2>2
  <1> QED BY <1>1, <1>3, <1>4, <1>5, <1>6 DEF Call

(***************************************************************************)
(* A call is over after finitely many steps of its providers, for any      *)
(* number of candidates and attempts.  That these steps are taken is the   *)
(* fairness that CallEnds assumes.                                         *)
(***************************************************************************)
THEOREM CallsDescend == Spec => CallDescends
  <1>1. FallbackInv => CallLeft \in Nat
    BY CallLeftCounts
  <1>2. FallbackInv => (Call \/ Abandon => CallLeft' < CallLeft)
    BY CallStepDescends
  <1> QED BY <1>1, <1>2, Invariance, PTL DEF Spec, CallDescends

-----------------------------------------------------------------------------
(***************************************************************************)
(* OpenAIChat: the keys and the tools of a request, then its messages.     *)
(***************************************************************************)

(* The fields that decide which key and which tools a request has.         *)
ErrorDataOK ==
  /\ func_tool \in BOOLEAN
  /\ payload.tools \in BOOLEAN
  /\ chosen_key \in ApiKeys
  /\ available_api_keys \in SUBSET ApiKeys
  /\ retry \in 1..MaxRetries
  /\ reported \in SUBSET (ApiKeys \cup {"image", "tools"})
  /\ chat \in {"attempt", "sent"} \cup Ends

(* A key that was rate-limited is given up, and tools that were rejected   *)
(* are neither in the payload nor asked for again.                         *)
ErrorsKept ==
  /\ available_api_keys \cap reported = {}
  /\ "tools" \in reported => ~func_tool /\ ~payload.tools

(* While attempts are made, each has a key that was not given up, and the  *)
(* request in progress is the one the errors so far allow.                 *)
Underway ==
  /\ chat \in {"attempt", "sent"} => chosen_key \in available_api_keys
  /\ chat = "sent" => sent.key = chosen_key /\ sent.tools = payload.tools

ErrorInv == ErrorDataOK /\ ErrorsKept /\ Underway

-----------------------------------------------------------------------------
LEMMA InitErrors == ChatInit => ErrorInv
  <1> SUFFICES ASSUME ChatInit PROVE ErrorInv
    OBVIOUS
  <1> USE OpenAIChatAssumption DEF ChatInit
  <1>1. PICK options \in BOOLEAN :
          payload = [messages |-> context_query, tools |-> FALSE, choice |-> func_tool, options |-> options]
    OBVIOUS
  <1>2. ErrorDataOK
    BY <1>1 DEF ErrorDataOK
  <1>3. ErrorsKept
    BY DEF ErrorsKept
  <1>4. Underway
    BY DEF Underway
  <1> QED BY <1>2, <1>3, <1>4 DEF ErrorInv

(* The request has the tools of the payload and the key in use.            *)
LEMMA AttemptStep == ErrorInv /\ Attempt => ErrorInv'
  <1> SUFFICES ASSUME ErrorInv, Attempt PROVE ErrorInv'
    OBVIOUS
  <1> USE DEF ErrorInv, Attempt, errorState
  <1>1. payload'.tools = (payload.tools \/ func_tool)
    OBVIOUS
  <1>2. sent'.key = chosen_key /\ sent'.tools = payload'.tools
    OBVIOUS
  <1>3. ErrorDataOK'
    BY <1>1 DEF ErrorDataOK
  <1>4. ErrorsKept'
    BY <1>1 DEF ErrorsKept, ErrorDataOK
  <1>5. Underway'
    BY <1>2 DEF Underway
  <1> QED BY <1>3, <1>4, <1>5

(* What all the errors that lead to another attempt have in common.        *)
LEMMA Counted == ASSUME retry \in 1..MaxRetries, NextAttempt
                 PROVE  retry' \in 1..MaxRetries /\ chat' \in {"attempt", "raised"}
  BY OpenAIChatAssumption DEF NextAttempt

(* A key is given up with the error that reports it.                       *)
LEMMA RateLimitedStep == ErrorInv /\ RateLimited => ErrorInv'
  <1> SUFFICES ASSUME ErrorInv, RateLimited PROVE ErrorInv'
    OBVIOUS
  <1> USE DEF ErrorInv, RateLimited
  <1>1. /\ retry' \in 1..MaxRetries
        /\ chat' = "raised" \/ (chat' = "attempt" /\ chosen_key' \in available_api_keys')
        /\ chosen_key' \in ApiKeys
    <2>1. CASE available_api_keys' = {}
      BY <2>1 DEF ErrorDataOK
    <2>2. CASE available_api_keys' # {}
      BY <2>2, Counted DEF ErrorDataOK
    <2> QED BY <2>1, <2>2
  <1>2. ErrorDataOK'
    BY <1>1 DEF ErrorDataOK, Ends
  <1>3. ErrorsKept'
    BY OpenAIChatAssumption DEF ErrorsKept, ErrorDataOK
  <1>4. Underway'
    BY <1>1 DEF Underway
  <1> QED BY <1>2, <1>3, <1>4

(* The errors about the messages, and the one about the tools.             *)
LEMMA PayloadStep ==
  ErrorInv /\ (ContextTooLong \/ ImageRejected \/ ToolsRejected) => ErrorInv'
  <1> SUFFICES ASSUME ErrorInv, ContextTooLong \/ ImageRejected \/ ToolsRejected
               PROVE  ErrorInv'
    OBVIOUS
  <1> USE OpenAIChatAssumption DEF ErrorInv
  <1>1. CASE ContextTooLong
    <2>1. payload'.tools = payload.tools
      BY <1>1 DEF ContextTooLong
    <2>2. ErrorDataOK'
      BY <1>1, <2>1, Counted DEF ContextTooLong, ErrorDataOK, Ends
    <2>3. ErrorsKept' /\ Underway'
      BY <1>1, <2>1, Counted DEF ContextTooLong, ErrorDataOK, ErrorsKept, Underway
    <2> QED BY <2>2, <2>3
  <1>2. CASE ImageRejected
    <2>1. CASE image_fallback_used \/ ~ContainsImage(context_query)
      BY <1>2, <2>1 DEF ImageRejected, Return, errorState, ErrorDataOK, ErrorsKept, Underway, Ends
    <2>2. CASE ~(image_fallback_used \/ ~ContainsImage(context_query))
      <3> payload' = [payload EXCEPT !.messages = context_query']
        BY <1>2, <2>2 DEF ImageRejected
      <3>1. payload'.tools = payload.tools
        OBVIOUS
      <3>2. ErrorDataOK'
        BY <1>2, <2>2, <3>1, Counted DEF ImageRejected, ErrorDataOK, Ends
      <3>3. ErrorsKept' /\ Underway'
        BY <1>2, <2>2, <3>1, Counted DEF ImageRejected, ErrorDataOK, ErrorsKept, Underway
      <3> QED BY <3>2, <3>3
    <2> QED BY <2>1, <2>2
  <1>3. CASE ToolsRejected
    <2>1. payload'.tools = FALSE
      BY <1>3 DEF ToolsRejected
    <2>2. ErrorDataOK'
      BY <1>3, <2>1, Counted DEF ToolsRejected, ErrorDataOK, Ends
    <2>3. ErrorsKept' /\ Underway'
      BY <1>3, <2>1, Counted DEF ToolsRejected, ErrorDataOK, ErrorsKept, Underway
    <2> QED BY <2>2, <2>3
  <1> QED BY <1>1, <1>2, <1>3

(* An end of the call, a chunk, or nothing, changes none of the fields.    *)
LEMMA IdleStep ==
  ASSUME ErrorInv, UNCHANGED <<errorState, payload, retry, sent, reported>>,
         chat' = chat \/ chat' \in Ends
  PROVE  ErrorInv'
  BY DEF ErrorInv, ErrorDataOK, ErrorsKept, Underway, errorState, Ends

LEMMA NextInv == ErrorInv /\ [ChatNext]_chatVars => ErrorInv'
  <1> SUFFICES ASSUME ErrorInv, [ChatNext]_chatVars PROVE ErrorInv'
    OBVIOUS
  <1>1. CASE Attempt
    BY <1>1, AttemptStep
  <1>2. CASE HandleApiError
    <2>1. CASE Failed
      BY <2>1, IdleStep DEF Failed, Return, Ends
    <2> QED BY <1>2, <2>1, RateLimitedStep, PayloadStep DEF HandleApiError
  <1>3. CASE Answered \/ Unusable \/ Abandoned
    BY <1>3, IdleStep DEF Answered, Unusable, Abandoned, Return, Ends
  <1>4. CASE StreamChunk
    BY <1>4, IdleStep DEF StreamChunk
  <1>5. CASE UNCHANGED chatVars
    BY <1>5, IdleStep DEF chatVars
  <1> QED BY <1>1, <1>2, <1>3, <1>4, <1>5 DEF ChatNext, ChatCall

LEMMA ErrorInvariant == ChatSpec => []ErrorInv
  BY InitErrors, NextInv, PTL DEF ChatSpec

(* Whatever errors the attempts of a call meet, in whatever order, no      *)
(* request uses a key the API had rate-limited before in this call, and    *)
(* none has tools after they were rejected (_handle_api_error, line 953):  *)
(* the part of RequestHeedsErrors that is not about the messages.          *)
THEOREM KeysAndToolsHeedErrors == ChatSpec => [](chat = "sent" => KeyAndToolsHeedErrors)
  <1>1. ErrorInv => (chat = "sent" => KeyAndToolsHeedErrors)
    BY DEF ErrorInv, ErrorsKept, Underway, KeyAndToolsHeedErrors
  <1> QED BY <1>1, ErrorInvariant, PTL

-----------------------------------------------------------------------------
(* Messages.                                                               *)

(* What sanitising and popping leave are messages of the list.             *)
LEMMA SanitizedAgain ==
  ASSUME NEW s \in Seq(Message)
  PROVE  /\ Sanitized(s) \in Seq(Message)
         /\ Sanitized(Sanitized(s)) = Sanitized(s)
         /\ \A i \in DOMAIN Sanitized(s) : \E k \in DOMAIN s : Sanitized(s)[i] = s[k]
  <1> DEFINE HasContent(m) == m.role = "assistant" => m.parts # {} \/ m.calls \/ m.reasoning
             I == {i \in DOMAIN s : HasContent(s[i])}
             r == Sanitized(s)
             J == {i \in DOMAIN r : HasContent(r[i])}
  <1>1. r = Kept(s, I)
    BY DEF Sanitized
  <1>2. Sanitized(r) = Kept(r, J)
    BY DEF Sanitized
  <1> HIDE DEF r, HasContent
  <1>3. r \in Seq(At(s, I))
    BY <1>1, KeptAmong
  <1>4. \A x \in At(s, I) : x \in Message /\ HasContent(x) /\ \E k \in DOMAIN s : x = s[k]
    BY DEF At
  <1>5. r \in Seq(Message)
    BY <1>3, <1>4, SeqMonotonic
  <1>6. \A i \in DOMAIN r : r[i] \in At(s, I)
    BY <1>3
  <1>7. DOMAIN r \subseteq J
    BY <1>4, <1>6
  <1>8. Kept(r, J) = r
    BY <1>5, <1>7, KeptAll
  <1> QED BY <1>2, <1>4, <1>5, <1>6, <1>8 DEF r

LEMMA PoppedAmong ==
  ASSUME NEW s \in Seq(Message)
  PROVE  /\ Popped(s) \in Seq(Message)
         /\ \A i \in DOMAIN Popped(s) : \E k \in DOMAIN s : Popped(s)[i] = s[k]
  <1> DEFINE others == {i \in DOMAIN s : s[i].role # "system"}
             I == DOMAIN s \ {i \in others : Cardinality({j \in others : j < i}) < 2}
             r == Popped(s)
  <1>1. r = Kept(s, I)
    BY DEF Popped
  <1> HIDE DEF r, I
  <1>2. r \in Seq(At(s, I))
    BY <1>1, KeptAmong
  <1>3. \A x \in At(s, I) : x \in Message /\ \E k \in DOMAIN s : x = s[k]
    BY DEF At
  <1>4. r \in Seq(Message)
    BY <1>2, <1>3, SeqMonotonic
  <1>5. \A i \in DOMAIN r : r[i] \in At(s, I)
    BY <1>2
  <1> QED BY <1>3, <1>4, <1>5 DEF r

NoImages(s) == \A i \in DOMAIN s : "image" \notin s[i].parts

LEMMA ImagesGone ==
  ASSUME NEW s \in Seq(Message)
  PROVE  WithoutImages(s) \in Seq(Message) /\ NoImages(WithoutImages(s))
  <1> DEFINE r == WithoutImages(s)
  <1>1. Len(s) \in Nat /\ DOMAIN s = 1..Len(s)
    OBVIOUS
  <1>2. ASSUME NEW i \in 1..Len(s) PROVE r[i] \in Message /\ "image" \notin r[i].parts
    <2> DEFINE m == s[i]
    <2>1. m \in Message
      OBVIOUS
    <2>2. r[i] = IF "image" \notin m.parts THEN m
                 ELSE [m EXCEPT !.parts = IF @ = {"image"} THEN {"text"} ELSE @ \ {"image"}]
      BY <1>1 DEF WithoutImages
    <2> HIDE DEF m, r
    <2>3. m.parts \in SUBSET Parts /\ {"text"} \in SUBSET Parts
      BY <2>1 DEF Message, Parts
    <2>4. CASE "image" \notin m.parts
      BY <2>1, <2>2, <2>4
    <2>5. CASE "image" \in m.parts
      <3> DEFINE left == IF m.parts = {"image"} THEN {"text"} ELSE m.parts \ {"image"}
      <3>1. left \in SUBSET Parts /\ "image" \notin left
        BY <2>3
      <3>2. r[i] = [m EXCEPT !.parts = left]
        BY <2>2, <2>5
      <3> HIDE DEF left
      <3> QED BY <2>1, <3>1, <3>2 DEF Message
    <2> QED BY <2>4, <2>5
  <1>3. r \in [1..Len(s) -> Message]
    BY <1>1, <1>2 DEF WithoutImages
  <1> HIDE DEF r
  <1>4. r \in Seq(Message) /\ DOMAIN r = 1..Len(s)
    BY <1>1, <1>3, SeqDef
  <1> QED BY <1>2, <1>4 DEF NoImages, r

(***************************************************************************)
(* The invariant about the messages.  The list of the payload is the one   *)
(* of the context but for the empty assistant messages, of which either    *)
(* may have more; sanitised they are equal, and that is what is sent.      *)
(***************************************************************************)
MessageDataOK ==
  /\ stream \in BOOLEAN
  /\ func_tool \in BOOLEAN
  /\ context_query \in Seq(Message)
  /\ payload \in [messages: Seq(Message), tools: BOOLEAN, choice: BOOLEAN, options: BOOLEAN]
  /\ image_fallback_used \in BOOLEAN
  /\ sent \in [key: ApiKeys \cup {NoKey}, messages: Seq(Message), tools: BOOLEAN, choice: BOOLEAN, options: BOOLEAN]
  /\ shown \in BOOLEAN

SameMessages ==
  /\ Sanitized(payload.messages) = Sanitized(context_query)
  /\ chat = "sent" => sent.messages = Sanitized(context_query)

MessageInv ==
  /\ MessageDataOK
  /\ SameMessages
  /\ "image" \in reported => NoImages(context_query)

LEMMA FirstMessages ==
  ASSUME NEW s \in BoundedSeq(Said, MaxContext), NEW m \in Materialized(s)
  PROVE  Converted(m) \in Seq(Message)
  <1>1. s \in Seq(Message)
    <2>1. PICK n \in 0..MaxContext : s \in [1..n -> Said]
      BY DEF BoundedSeq, SeqOf
    <2>2. Said \subseteq Message
      <3>1. ASSUME NEW role \in Roles, NEW parts \in SUBSET Parts
            PROVE  /\ Plain(role, parts) \in Message
                   /\ [Plain(role, parts) EXCEPT !.calls = TRUE] \in Message
        BY DEF Plain, Message
      <3>2. /\ {"system", "user", "assistant", "tool"} \subseteq Roles
            /\ {{"text"}, {"image"}, {"text", "image"}, {"text", "audio"}, {"think"}, {}} \subseteq SUBSET Parts
        BY DEF Roles, Parts
      <3>3. /\ Plain("system", {"text"}) \in Message /\ Plain("user", {"text"}) \in Message
            /\ Plain("user", {"image"}) \in Message /\ Plain("user", {"text", "image"}) \in Message
            /\ Plain("user", {"text", "audio"}) \in Message /\ Plain("assistant", {"text"}) \in Message
            /\ Plain("assistant", {"think"}) \in Message /\ Plain("assistant", {}) \in Message
            /\ [Plain("assistant", {}) EXCEPT !.calls = TRUE] \in Message
            /\ Plain("tool", {"text"}) \in Message
        BY ONLY <3>1, <3>2
      <3> QED BY ONLY <3>3 DEF Said
    <2>3. s \in [1..n -> Message] /\ n \in Nat
      <3>1. n \in Nat
        BY OpenAIChatAssumption
      <3> QED BY ONLY <2>1, <2>2, <3>1
    <2> QED BY <2>3, SeqDef
  <1>2. m \in Seq(Message)
    <2>1. CASE m = s
      BY <1>1, <2>1
    <2>2. CASE m # s
      <3> DEFINE read(x) == IF "audio" \in x.parts
                            THEN [x EXCEPT !.parts = (@ \ {"audio"}) \cup {"input_audio"}] ELSE x
      <3>1. m = [i \in DOMAIN s |-> read(s[i])]
        BY <2>2 DEF Materialized
      <3>2. ASSUME NEW x \in Message PROVE read(x) \in Message
        <4>1. x.parts \in SUBSET Parts
          BY DEF Message
        <4>2. (x.parts \ {"audio"}) \cup {"input_audio"} \in SUBSET Parts
          BY <4>1 DEF Parts
        <4> QED BY <4>2 DEF Message
      <3>3. DOMAIN s = 1..Len(s) /\ Len(s) \in Nat /\ \A i \in 1..Len(s) : s[i] \in Message
        BY <1>1
      <3> HIDE DEF read
      <3>4. m \in [1..Len(s) -> Message]
        BY <3>1, <3>2, <3>3
      <3> QED BY <3>3, <3>4, SeqDef
    <2> QED BY <2>1, <2>2
  <1>3. Converted(m) \in Seq(Message)
    <2> DEFINE told(x) == IF x.role = "assistant"
                          THEN [x EXCEPT !.reasoning = "think" \in x.parts, !.parts = @ \ {"think"}]
                          ELSE x
    <2>1. Converted(m) = [i \in DOMAIN m |-> told(m[i])]
      BY DEF Converted
    <2>2. ASSUME NEW x \in Message PROVE told(x) \in Message
      <3>1. x.parts \ {"think"} \in SUBSET Parts /\ ("think" \in x.parts) \in BOOLEAN
        BY DEF Message
      <3> QED BY <3>1 DEF Message
    <2>3. DOMAIN m = 1..Len(m) /\ Len(m) \in Nat /\ \A i \in 1..Len(m) : m[i] \in Message
      BY <1>2
    <2> HIDE DEF told
    <2>4. Converted(m) \in [1..Len(m) -> Message]
      BY <2>1, <2>2, <2>3
    <2> QED BY <2>3, <2>4, SeqDef
  <1> QED BY <1>3

LEMMA InitMessages == ChatInit => MessageInv
  <1> SUFFICES ASSUME ChatInit PROVE MessageInv
    OBVIOUS
  <1>1. PICK s \in BoundedSeq(Said, MaxContext), options \in BOOLEAN :
          /\ \E m \in Materialized(s) : context_query = Converted(m)
          /\ payload = [messages |-> context_query, tools |-> FALSE, choice |-> func_tool, options |-> options]
    BY DEF ChatInit
  <1>2. context_query \in Seq(Message)
    BY <1>1, FirstMessages
  <1>3. sent \in [key: ApiKeys \cup {NoKey}, messages: Seq(Message), tools: BOOLEAN, choice: BOOLEAN, options: BOOLEAN]
    <2>1. <<>> \in Seq(Message)
      BY EmptySeq
    <2> QED BY <2>1 DEF ChatInit, NothingSent
  <1>4. MessageDataOK
    BY <1>1, <1>2, <1>3 DEF ChatInit, MessageDataOK
  <1> QED BY <1>1, <1>4 DEF ChatInit, MessageInv, SameMessages

LEMMA AttemptMessages == ErrorInv /\ MessageInv /\ Attempt => MessageInv'
  <1> SUFFICES ASSUME ErrorInv, MessageInv, Attempt PROVE MessageInv'
    OBVIOUS
  <1> DEFINE r == Sanitized(payload.messages)
  <1>1. r \in Seq(Message) /\ Sanitized(r) = r /\ r = Sanitized(context_query)
    BY SanitizedAgain DEF MessageInv, MessageDataOK, SameMessages
  <1>2. /\ payload' = [messages |-> r, tools |-> payload.tools \/ func_tool,
                       choice |-> payload.choice, options |-> FALSE]
        /\ sent' = [key |-> chosen_key, messages |-> payload'.messages, tools |-> payload'.tools,
                    choice |-> payload.choice, options |-> payload.options]
        /\ UNCHANGED <<stream, context_query, func_tool, image_fallback_used, reported, shown>>
    BY DEF Attempt, errorState
  <1> HIDE DEF r
  <1>3. payload'.messages = r /\ sent'.messages = r
    BY <1>2
  <1>4. /\ payload.tools \in BOOLEAN /\ payload.choice \in BOOLEAN /\ payload.options \in BOOLEAN
        /\ func_tool \in BOOLEAN /\ chosen_key \in ApiKeys
    BY DEF MessageInv, MessageDataOK, ErrorInv, ErrorDataOK
  <1>5. payload' \in [messages: Seq(Message), tools: BOOLEAN, choice: BOOLEAN, options: BOOLEAN]
    BY <1>1, <1>2, <1>4
  <1>6. sent' \in [key: ApiKeys \cup {NoKey}, messages: Seq(Message), tools: BOOLEAN, choice: BOOLEAN, options: BOOLEAN]
    BY <1>2, <1>4, <1>5
  <1>7. MessageDataOK'
    BY <1>2, <1>5, <1>6 DEF MessageInv, MessageDataOK
  <1>8. SameMessages'
    BY <1>1, <1>2, <1>3 DEF SameMessages
  <1> QED BY <1>2, <1>7, <1>8 DEF MessageInv, NoImages

(* A changed context is the payload's too, and the request is over.        *)
LEMMA ContextChanged ==
  ASSUME MessageInv, context_query' \in Seq(Message),
         payload' = [payload EXCEPT !.messages = context_query'],
         chat' # "sent",
         "image" \in reported' => NoImages(context_query'),
         image_fallback_used' \in BOOLEAN,
         UNCHANGED <<stream, func_tool, sent, shown>>
  PROVE  MessageInv'
  <1>1. payload' \in [messages: Seq(Message), tools: BOOLEAN, choice: BOOLEAN, options: BOOLEAN]
    BY DEF MessageInv, MessageDataOK
  <1>2. payload'.messages = context_query'
    BY DEF MessageInv, MessageDataOK
  <1>3. MessageDataOK'
    BY <1>1 DEF MessageInv, MessageDataOK
  <1>4. SameMessages'
    BY <1>2 DEF SameMessages
  <1>5. "image" \in reported' => NoImages(context_query)'
    BY DEF NoImages
  <1> QED BY <1>3, <1>4, <1>5 DEF MessageInv

LEMMA ContextTooLongMessages == ErrorInv /\ MessageInv /\ ContextTooLong => MessageInv'
  <1> SUFFICES ASSUME ErrorInv, MessageInv, ContextTooLong PROVE MessageInv'
    OBVIOUS
  <1>1. context_query \in Seq(Message) /\ context_query' = Popped(context_query)
    BY DEF MessageInv, MessageDataOK, ContextTooLong
  <1>2. /\ context_query' \in Seq(Message)
        /\ \A i \in DOMAIN context_query' : \E k \in DOMAIN context_query : context_query'[i] = context_query[k]
    BY <1>1, PoppedAmong
  <1>3. NoImages(context_query) => NoImages(context_query')
    BY <1>2 DEF NoImages
  <1>4. "image" \in reported' => NoImages(context_query')
    BY <1>3 DEF MessageInv, ContextTooLong
  <1>5. chat' # "sent"
    BY Counted DEF ContextTooLong, ErrorInv, ErrorDataOK
  <1> QED BY <1>2, <1>4, <1>5, ContextChanged DEF ContextTooLong, MessageInv, MessageDataOK

LEMMA ImageRejectedMessages ==
  /\ ErrorInv /\ MessageInv /\ ImageRejected
  /\ ~(image_fallback_used \/ ~ContainsImage(context_query))
  => MessageInv'
  <1> SUFFICES ASSUME ErrorInv, MessageInv, ImageRejected,
                      ~(image_fallback_used \/ ~ContainsImage(context_query))
               PROVE  MessageInv'
    OBVIOUS
  <1>1. context_query \in Seq(Message) /\ context_query' = WithoutImages(context_query)
    BY DEF MessageInv, MessageDataOK, ImageRejected
  <1>2. context_query' \in Seq(Message) /\ NoImages(context_query')
    BY <1>1, ImagesGone
  <1>3. chat' # "sent"
    BY Counted DEF ImageRejected, ErrorInv, ErrorDataOK
  <1> QED BY <1>2, <1>3, ContextChanged DEF ImageRejected

(* Whatever else changes leaves the messages alone.                        *)
LEMMA MessagesAlone ==
  ASSUME MessageInv,
         UNCHANGED <<stream, context_query, sent, image_fallback_used>>,
         payload' \in [messages: Seq(Message), tools: BOOLEAN, choice: BOOLEAN, options: BOOLEAN],
         payload'.messages = payload.messages,
         func_tool' \in BOOLEAN, shown' \in BOOLEAN,
         chat' = "sent" => chat = "sent",
         "image" \in reported' => "image" \in reported
  PROVE  MessageInv'
  BY DEF MessageInv, MessageDataOK, SameMessages, NoImages

LEMMA NextMessages == ErrorInv /\ MessageInv /\ [ChatNext]_chatVars => MessageInv'
  <1> SUFFICES ASSUME ErrorInv, MessageInv, [ChatNext]_chatVars PROVE MessageInv'
    OBVIOUS
  <1>0. /\ payload \in [messages: Seq(Message), tools: BOOLEAN, choice: BOOLEAN, options: BOOLEAN]
        /\ func_tool \in BOOLEAN /\ shown \in BOOLEAN
    BY DEF MessageInv, MessageDataOK
  <1>1. CASE Attempt
    BY <1>1, AttemptMessages
  <1>2. CASE RateLimited
    <2>1. "image" \in reported' => "image" \in reported
      BY <1>2, OpenAIChatAssumption DEF RateLimited, ErrorInv, ErrorDataOK
    <2>2. chat' # "sent"
      BY <1>2, Counted DEF RateLimited, ErrorInv, ErrorDataOK
    <2> QED BY <1>0, <1>2, <2>1, <2>2, MessagesAlone DEF RateLimited
  <1>3. CASE ContextTooLong
    BY <1>3, ContextTooLongMessages
  <1>4. CASE ToolsRejected
    <2>1. payload' = [payload EXCEPT !.tools = FALSE]
      BY <1>4 DEF ToolsRejected
    <2>2. /\ payload' \in [messages: Seq(Message), tools: BOOLEAN, choice: BOOLEAN, options: BOOLEAN]
          /\ payload'.messages = payload.messages
      BY <1>0, <2>1
    <2>3. chat' # "sent"
      BY <1>4, Counted DEF ToolsRejected, ErrorInv, ErrorDataOK
    <2> QED BY <1>0, <1>4, <2>2, <2>3, MessagesAlone DEF ToolsRejected
  <1>5. CASE ImageRejected /\ ~(image_fallback_used \/ ~ContainsImage(context_query))
    BY <1>5, ImageRejectedMessages
  <1>6. CASE \/ ImageRejected /\ (image_fallback_used \/ ~ContainsImage(context_query))
             \/ Failed \/ Answered \/ Unusable \/ Abandoned
    <2>1. PICK how \in Ends : Return(how)
      BY <1>6 DEF ImageRejected, Failed, Answered, Unusable, Abandoned, Ends
    <2>2. chat' # "sent"
      BY <2>1 DEF Return, Ends
    <2> QED BY <1>0, <2>1, <2>2, MessagesAlone DEF Return, errorState
  <1>7. CASE StreamChunk
    BY <1>0, <1>7, MessagesAlone DEF StreamChunk, errorState
  <1>8. CASE UNCHANGED chatVars
    BY <1>0, <1>8, MessagesAlone DEF chatVars, errorState
  <1> QED BY <1>1, <1>2, <1>3, <1>4, <1>5, <1>6, <1>7, <1>8 DEF ChatNext, ChatCall, HandleApiError

LEMMA MessageInvariant == ChatSpec => []MessageInv
  BY InitMessages, NextMessages, ErrorInvariant, PTL DEF ChatSpec

(***************************************************************************)
(* For any conversation, keys and number of attempts, and whatever errors  *)
(* follow each other (_handle_api_error, line 953): the request in         *)
(* progress has the conversation as the errors left it, no images or tools *)
(* once they were rejected, and no key that was rate-limited.              *)
(***************************************************************************)
THEOREM RequestsHeedErrors == ChatSpec => []RequestHeedsErrors
  <1>1. ErrorInv /\ MessageInv => ChatTypeOK
    BY DEF ErrorInv, ErrorDataOK, Underway, MessageInv, MessageDataOK, ChatTypeOK
  <1>2. ErrorInv /\ MessageInv => (chat = "sent" => MessagesHeedErrors)
    <2> SUFFICES ASSUME MessageInv, chat = "sent" PROVE MessagesHeedErrors
      OBVIOUS
    <2>1. sent.messages = Sanitized(context_query) /\ context_query \in Seq(Message)
      BY DEF MessageInv, SameMessages, MessageDataOK
    <2>2. \A i \in DOMAIN sent.messages : \E k \in DOMAIN context_query : sent.messages[i] = context_query[k]
      BY <2>1, SanitizedAgain
    <2>3. NoImages(context_query) => \A i \in DOMAIN sent.messages : "image" \notin sent.messages[i].parts
      BY <2>2 DEF NoImages
    <2> QED BY <2>1, <2>3 DEF MessageInv, MessagesHeedErrors
  <1>3. ErrorInv => (chat = "sent" => KeyAndToolsHeedErrors)
    BY DEF ErrorInv, ErrorsKept, Underway, KeyAndToolsHeedErrors
  <1>4. ErrorInv /\ MessageInv => RequestHeedsErrors
    BY <1>1, <1>2, <1>3 DEF RequestHeedsErrors
  <1> QED BY <1>4, ErrorInvariant, MessageInvariant, PTL

-----------------------------------------------------------------------------
(* What is left of a call: the attempts, each of which is prepared, sent,  *)
(* and may be the first to show a chunk.                                   *)
ChatLeft ==
  IF chat \in Ends THEN 0
  ELSE 4 * (MaxRetries - retry) + (IF chat = "attempt" THEN 2 ELSE 0) + (IF shown THEN 1 ELSE 2)

(***************************************************************************)
(* The safety half of ChatEnds: whatever the API answers, and although     *)
(* some errors can be met again and again (_handle_api_error), every step  *)
(* of a call lowers a number.                                              *)
(***************************************************************************)
ChatDescends == [](ChatLeft \in Nat) /\ [][ChatLeft' < ChatLeft]_chatVars

LEMMA ChatLeftCounts ==
  ASSUME ErrorInv
  PROVE  ChatLeft \in Nat /\ (chat \notin Ends => ChatLeft > 0)
  <1>1. MaxRetries \in Nat \ {0} /\ retry \in 1..MaxRetries
    BY OpenAIChatAssumption DEF ErrorInv, ErrorDataOK
  <1> QED BY <1>1 DEF ChatLeft

(* A call ends once.                                                       *)
LEMMA EndDescends ==
  ASSUME ErrorInv, chat \notin Ends, chat' \in Ends
  PROVE  ChatLeft' < ChatLeft
  <1>1. ChatLeft' = 0
    BY DEF ChatLeft
  <1> QED BY <1>1, ChatLeftCounts

LEMMA NextAttemptDescends ==
  ASSUME ErrorInv, chat = "sent", NextAttempt, UNCHANGED shown
  PROVE  ChatLeft' < ChatLeft
  <1>1. MaxRetries \in Nat \ {0} /\ retry \in 1..MaxRetries /\ chat \notin Ends
    BY OpenAIChatAssumption DEF ErrorInv, ErrorDataOK, Ends
  <1>2. CASE retry = MaxRetries
    <2>1. chat' \in Ends
      BY <1>2 DEF NextAttempt, Ends
    <2> QED BY <1>1, <2>1, EndDescends
  <1>3. CASE retry # MaxRetries
    <2>1. chat' = "attempt" /\ retry' = retry + 1 /\ chat' \notin Ends
      BY <1>3 DEF NextAttempt, Ends
    <2> DEFINE fresh == IF shown THEN 1 ELSE 2
    <2>2. /\ ChatLeft = 4 * (MaxRetries - retry) + fresh
          /\ ChatLeft' = 4 * (MaxRetries - (retry + 1)) + 2 + fresh
          /\ fresh \in Nat
      BY <1>1, <2>1 DEF ChatLeft
    <2> HIDE DEF fresh
    <2> QED BY <1>1, <2>2
  <1> QED BY <1>2, <1>3

LEMMA ChatStepDescends ==
  ASSUME ErrorInv, ChatNext
  PROVE  ChatLeft' < ChatLeft \/ UNCHANGED chatVars
  <1>1. MaxRetries \in Nat \ {0} /\ retry \in 1..MaxRetries
    BY OpenAIChatAssumption DEF ErrorInv, ErrorDataOK
  <1>2. ASSUME NEW how \in Ends, chat \in {"attempt", "sent"}, Return(how)
        PROVE  ChatLeft' < ChatLeft
    <2>1. chat \notin Ends /\ chat' \in Ends
      BY <1>2 DEF Return, Ends
    <2> QED BY <2>1, EndDescends
  <1>3. CASE Attempt
    <2>1. /\ chat = "attempt" /\ chat' = "sent" /\ retry' = retry /\ shown' = shown
          /\ chat \notin Ends /\ chat' \notin Ends
      BY <1>3 DEF Attempt, Ends
    <2> DEFINE fresh == IF shown THEN 1 ELSE 2
    <2>2. /\ ChatLeft = 4 * (MaxRetries - retry) + 2 + fresh
          /\ ChatLeft' = 4 * (MaxRetries - retry) + fresh
          /\ fresh \in Nat
      BY <1>1, <2>1 DEF ChatLeft
    <2> HIDE DEF fresh
    <2> QED BY <1>1, <2>2
  <1>4. CASE StreamChunk
    <2>1. chat = "sent" /\ chat' = chat /\ retry' = retry /\ shown' = TRUE /\ chat \notin Ends
      BY <1>4 DEF StreamChunk, Ends
    <2>2. CASE shown = TRUE
      BY <1>4, <2>2 DEF StreamChunk, chatVars, errorState
    <2>3. CASE ~shown
      <3>1. ChatLeft = 4 * (MaxRetries - retry) + 2 /\ ChatLeft' = 4 * (MaxRetries - retry) + 1
        BY <1>1, <2>1, <2>3 DEF ChatLeft
      <3> QED BY <1>1, <3>1
    <2> QED BY <2>2, <2>3
  <1>5. CASE Answered \/ Unusable \/ Failed \/ Abandoned
    BY <1>2, <1>5 DEF Answered, Unusable, Failed, Abandoned, Ends
  <1>6. CASE RateLimited
    <2>1. CASE available_api_keys' = {}
      <3>1. chat \notin Ends /\ chat' \in Ends
        BY <1>6, <2>1 DEF RateLimited, Ends
      <3> QED BY <3>1, EndDescends
    <2>2. CASE available_api_keys' # {}
      BY <1>6, <2>2, NextAttemptDescends DEF RateLimited
    <2> QED BY <2>1, <2>2
  <1>7. CASE ContextTooLong \/ ToolsRejected
    BY <1>7, NextAttemptDescends DEF ContextTooLong, ToolsRejected
  <1>8. CASE ImageRejected
    BY <1>2, <1>8, NextAttemptDescends DEF ImageRejected, Ends
  <1> QED BY <1>3, <1>4, <1>5, <1>6, <1>7, <1>8 DEF ChatNext, ChatCall, HandleApiError

(***************************************************************************)
(* A call of the API is over after finitely many steps, for any keys,      *)
(* max_retries and conversation.  That they are taken is the fairness that *)
(* ChatEnds assumes.                                                       *)
(***************************************************************************)
THEOREM ChatsDescend == ChatSpec => ChatDescends
  <1>1. ErrorInv => ChatLeft \in Nat
    BY ChatLeftCounts
  <1>2. ErrorInv /\ [ChatNext]_chatVars => [ChatLeft' < ChatLeft]_chatVars
    BY ChatStepDescends
  <1> QED BY <1>1, <1>2, ErrorInvariant, PTL DEF ChatSpec, ChatDescends

-----------------------------------------------------------------------------
(***************************************************************************)
(* Media: which temporary files a call leaves behind, and what the file it *)
(* hands out is.                                                           *)
(***************************************************************************)

(* The temporary files there are.                                          *)
Left == {f \in Temporary : disk[f] # NoFile}

(* Of these, the ones that outlive the conversion.                         *)
Remaining == IF format = "tencent_silk" THEN {"silk"} ELSE {"source", path}

(* Only a path can be one to nothing, and a path is never written to.      *)
CallerOK ==
  /\ ask.data = NoFile => ask.ref = "path"
  /\ ask.ref = "path" => disk["source"] = ask.data

(* Before there is a source, and while it is converted.                    *)
SourceOK ==
  /\ end # "none" => at = "over"
  /\ at \in {"materialize", "download"} => path = "source" /\ Left = {} /\ cleanup = {}
  /\ at = "download" => ask.ref = "http"
  /\ at \in {"convert", "decode", "ffmpeg", "encode"} =>
       /\ cleanup = {"source"} \cap Temporary
       /\ disk["source"] = NoFile => ask.ref = "path"
  /\ at \in {"convert", "decode", "ffmpeg"} => path = "source" /\ Left \subseteq {"source"}

(* While the WAV file at hand is encoded for Tencent.                      *)
EncodeOK ==
  /\ at \in {"decode", "ffmpeg", "encode"} => ask.media = "audio"
  /\ at = "decode" => ToWav
  /\ at = "encode" =>
       /\ AudioFormat = "tencent_silk"
       /\ path \in {"source", "converted"}
       /\ Left \subseteq {"source", path}
       /\ path = "converted" => disk["converted"] # NoFile

(* What is there when the file is handed out is to be removed, or stuck,   *)
(* and is kept by to_path, or stuck.                                       *)
InHandOK ==
  at = "inhand" => Left \subseteq (cleanup \cup stuck) \cap (Remaining \cup stuck)

MediaInv == NothingLeft /\ AsPromised /\ CallerOK /\ SourceOK /\ EncodeOK /\ InHandOK

-----------------------------------------------------------------------------
LEMMA FirstMedia == MediaInit => MediaInv
  <1> SUFFICES ASSUME MediaInit PROVE MediaInv
    OBVIOUS
  <1> USE MediaAssumption DEF MediaInit, Asks
  <1>1. MediaTypeOK
    BY DEF MediaTypeOK, Files, Data, Temporary, Awaits
  <1>2. CallerOK
    BY DEF CallerOK, Files
  <1>3. NothingLeft /\ AsPromised
    BY <1>1, <1>2 DEF NothingLeft, AsPromised, CallerOK
  <1>4. SourceOK /\ EncodeOK /\ InHandOK
    BY DEF SourceOK, EncodeOK, InHandOK, Left, Temporary, Files
  <1> QED BY <1>2, <1>3, <1>4 DEF MediaInv

(* _cleanup_paths leaves what it is not given, and of the others only what *)
(* is stuck from then on.                                                  *)
LEMMA CleanupRemoves ==
  ASSUME MediaTypeOK, ask' = ask,
         NEW S \in SUBSET Temporary,
         NEW d \in [Files -> Data \cup {NoFile}],
         Cleanup(S, d)
  PROVE  /\ disk' \in [Files -> Data \cup {NoFile}]
         /\ stuck' \in SUBSET Temporary
         /\ stuck \subseteq stuck'
         /\ \A f \in Files : IF f \in S THEN disk'[f] = NoFile \/ f \in stuck' ELSE disk'[f] = d[f]
  BY DEF Cleanup, MediaTypeOK, Temporary

(* A call that fails where its temporary files are all given to the        *)
(* clean-up.                                                               *)
LEMMA FailsTidily ==
  ASSUME MediaInv,
         NEW S \in SUBSET Temporary,
         NEW d \in [Files -> Data \cup {NoFile}],
         ask.ref = "path" => d["source"] = ask.data,
         {f \in Temporary : d[f] # NoFile} \subseteq S \cup stuck,
         Fails(S, d)
  PROVE  MediaInv'
  <1> USE MediaAssumption DEF MediaInv
  <1>1. MediaTypeOK /\ ask' = ask /\ Cleanup(S, d) /\ at' = "over" /\ end' = "raised"
    BY DEF NothingLeft, Fails, Over
  <1>2. /\ disk' \in [Files -> Data \cup {NoFile}]
        /\ stuck' \in SUBSET Temporary
        /\ stuck \subseteq stuck'
        /\ \A f \in Files : IF f \in S THEN disk'[f] = NoFile \/ f \in stuck' ELSE disk'[f] = d[f]
    BY <1>1, CleanupRemoves
  <1>3. MediaTypeOK'
    BY <1>1, <1>2 DEF MediaTypeOK, Fails, Temporary
  <1>4. CallerOK'
    BY <1>1, <1>2 DEF CallerOK, Temporary, Files
  <1>5. Left' \subseteq stuck'
    BY <1>1, <1>2 DEF Left, Temporary, Files
  <1>6. NothingLeft'
    BY <1>1, <1>3, <1>4, <1>5 DEF NothingLeft, Left, CallerOK
  <1>7. AsPromised' /\ SourceOK' /\ EncodeOK' /\ InHandOK'
    BY <1>1 DEF AsPromised, SourceOK, EncodeOK, InHandOK
  <1> QED BY <1>4, <1>6, <1>7

(* A step to another await changes no file.                                *)
LEMMA GotoStep ==
  ASSUME MediaInv, IsFile \/ StartDownload \/ StartDecode \/ StartFfmpeg
  PROVE  MediaInv'
  <1> USE MediaAssumption DEF MediaInv
  <1>1. /\ UNCHANGED <<ask, hook, disk, cleanup, path, format, end, stuck>>
        /\ \/ at = "materialize" /\ ask.ref = "path" /\ at' = "convert"
           \/ at = "materialize" /\ ask.ref = "http" /\ at' = "download"
           \/ at = "convert" /\ ask.media = "audio" /\ ToWav /\ at' = "decode"
           \/ at = "convert" /\ ask.media = "audio" /\ at' = "ffmpeg"
    BY DEF IsFile, StartDownload, StartDecode, StartFfmpeg, Goto, Audio
  <1>2. MediaTypeOK'
    BY <1>1 DEF NothingLeft, MediaTypeOK, Temporary, Awaits
  <1>3. CallerOK' /\ NothingLeft'
    BY <1>1, <1>2 DEF CallerOK, NothingLeft
  <1>4. AsPromised'
    BY <1>1 DEF AsPromised, SourceOK
  <1>5. SourceOK'
    BY <1>1 DEF SourceOK, NothingLeft, MediaTypeOK, Temporary, Left, CallerOK
  <1>6. EncodeOK' /\ InHandOK'
    BY <1>1 DEF EncodeOK, InHandOK, ToWav, AudioFormat
  <1> QED BY <1>3, <1>4, <1>5, <1>6

(* The source of a reference that is no path is written.                   *)
LEMMA WrittenStep ==
  ASSUME MediaInv, Decoded \/ Downloaded
  PROVE  MediaInv'
  <1> USE MediaAssumption DEF MediaInv
  <1>1. PICK data \in Data : Written(data) /\ at \in {"materialize", "download"} /\ ask.ref # "path"
    BY DEF Decoded, Downloaded, SourceOK, CallerOK, NothingLeft, MediaTypeOK, Asks, Data
  <1>2. MediaTypeOK'
    BY <1>1 DEF Written, NothingLeft, MediaTypeOK, Temporary, Files, Data
  <1>3. data # NoFile
    BY <1>1 DEF Data
  <1>4. CallerOK' /\ NothingLeft' /\ AsPromised'
    BY <1>1, <1>2 DEF Written, CallerOK, NothingLeft, AsPromised, SourceOK
  <1>5. Left' \subseteq {"source"}
    BY <1>1 DEF Written, Left, SourceOK, Temporary, NothingLeft, MediaTypeOK, Files
  <1>6. SourceOK' /\ EncodeOK' /\ InHandOK'
    BY <1>1, <1>3, <1>5 DEF Written, SourceOK, EncodeOK, InHandOK, NothingLeft, MediaTypeOK, Temporary, Files
  <1> QED BY <1>4, <1>6

(* No source: what there is of it is removed.                              *)
LEMMA NoSourceStep ==
  ASSUME MediaInv, NotDecoded \/ DownloadFails
  PROVE  MediaInv'
  <1> USE MediaAssumption DEF MediaInv
  <1>1. PICK data \in {NoFile, Junk} :
          /\ Fails({"source"}, [disk EXCEPT !["source"] = data])
          /\ at \in {"materialize", "download"}
          /\ ask.ref # "path"
    BY DEF NotDecoded, DownloadFails, SourceOK
  <1> DEFINE d == [disk EXCEPT !["source"] = data]
  <1>2. {"source"} \in SUBSET Temporary /\ d \in [Files -> Data \cup {NoFile}]
    BY <1>1 DEF Temporary, Files, NothingLeft, MediaTypeOK, Data
  <1>3. {f \in Temporary : d[f] # NoFile} \subseteq {"source"} \cup stuck
    BY <1>1 DEF SourceOK, Left, NothingLeft, MediaTypeOK, Temporary, Files
  <1> HIDE DEF d
  <1> QED BY <1>1, <1>2, <1>3, FailsTidily DEF d

(* A cancelled call is exempt.                                             *)
LEMMA CancelStep == ASSUME MediaInv, Cancel PROVE MediaInv'
  <1> USE MediaAssumption DEF MediaInv
  <1>1. PICK data \in {NoFile, Junk} :
          /\ disk' = [disk EXCEPT ![Begun] = data]
          /\ at \in Awaits /\ at' = "over" /\ end' = "cancelled"
          /\ UNCHANGED <<ask, hook, cleanup, path, format, stuck>>
    BY DEF Cancel, Over
  <1>2. Begun = "source" => ask.ref # "path"
    BY <1>1 DEF Begun, SourceOK
  <1>3. MediaTypeOK'
    BY <1>1 DEF NothingLeft, MediaTypeOK, Temporary, Data, Files, Begun
  <1>4. CallerOK' /\ NothingLeft'
    BY <1>1, <1>2, <1>3 DEF CallerOK, NothingLeft, MediaTypeOK, Files
  <1>5. AsPromised' /\ SourceOK' /\ EncodeOK' /\ InHandOK'
    BY <1>1 DEF AsPromised, SourceOK, EncodeOK, InHandOK
  <1> QED BY <1>4, <1>5

-----------------------------------------------------------------------------
(* A file is handed out: the files there are, are to be removed or stuck.  *)
LEMMA HandOut ==
  ASSUME MediaInv, ask' = ask, hook' = hook, end' = end, at # "over", at' = "inhand",
         MediaTypeOK',
         CallerOK',
         AsPromised',
         Left' \subseteq (cleanup' \cup stuck') \cap (Remaining' \cup stuck')
  PROVE  MediaInv'
  <1> USE DEF MediaInv
  <1>1. NothingLeft'
    BY DEF NothingLeft, CallerOK
  <1>2. SourceOK' /\ EncodeOK' /\ InHandOK'
    BY DEF SourceOK, EncodeOK, InHandOK
  <1> QED BY <1>1, <1>2

(* What is neither WAV nor audio is handed out as it is.                   *)
LEMMA InHandStep ==
  ASSUME MediaInv, NoAudio \/ KeepFormat
  PROVE  MediaInv'
  <1> USE MediaAssumption DEF MediaInv
  <1>1. /\ at = "convert" /\ path' = "source" /\ at' = "inhand"
        /\ format' = ask.suffix
        /\ ask.media = "audio" => format' \notin {"wav", "tencent_silk"}
        /\ UNCHANGED <<ask, hook, end, disk, cleanup, stuck>>
    BY DEF NoAudio, KeepFormat, Audio, Resolved, ToWav
  <1>2. MediaTypeOK'
    BY <1>1 DEF NothingLeft, MediaTypeOK, Asks, Temporary, Files
  <1>3. format' # "tencent_silk"
    BY <1>1 DEF NothingLeft, MediaTypeOK, Asks, Data
  <1>4. CallerOK' /\ AsPromised'
    BY <1>1 DEF CallerOK, AsPromised, SourceOK
  <1>5. Left' \subseteq (cleanup' \cup stuck') \cap (Remaining' \cup stuck')
    BY <1>1, <1>3 DEF SourceOK, Left, Remaining, Temporary
  <1> QED BY <1>1, <1>2, <1>4, <1>5, HandOut

(* The WAV file is the source or converted from it.                        *)
LEMMA WavStep ==
  ASSUME MediaInv,
         at \in {"convert", "decode", "ffmpeg"},
         ask.media = "audio",
         ToWav,
         NEW f \in {"source", "converted"},
         NEW d \in [Files -> Data \cup {NoFile}],
         IF f = "source" THEN d = disk /\ WavAlready
         ELSE d = [disk EXCEPT !["converted"] = "wav"],
         HasWav(f, d)
  PROVE  MediaInv'
  <1> USE MediaAssumption DEF MediaInv
  <1>1. path = "source" /\ Left \subseteq {"source"} /\ cleanup = {"source"} \cap Temporary
    BY DEF SourceOK
  <1>2. {g \in Temporary : d[g] # NoFile} \subseteq {"source", f}
    BY <1>1 DEF Left, Temporary, NothingLeft, MediaTypeOK, Files
  <1>3. d["source"] = disk["source"] /\ f \in Files /\ (f = "converted" => f \in Temporary)
    BY DEF NothingLeft, MediaTypeOK, Files, Temporary
  <1>4. f = "converted" => d[f] = "wav"
    BY DEF NothingLeft, MediaTypeOK, Files
  <1>5. CASE AudioFormat = "wav"
    <2>1. /\ path' = f /\ format' = "wav" /\ at' = "inhand" /\ disk' = d
          /\ cleanup' = cleanup \cup ({f} \ {"source"})
          /\ UNCHANGED <<ask, hook, end, stuck>>
      BY <1>5 DEF HasWav, Resolved
    <2>2. MediaTypeOK'
      BY <2>1, <1>1, <1>3 DEF NothingLeft, MediaTypeOK, Data, Temporary
    <2>3. CallerOK'
      BY <2>1, <1>3 DEF CallerOK
    <2>4. disk'[path'] = NoFile => path' = "source" /\ ask.ref = "path"
      BY <2>1, <1>3, <1>4 DEF SourceOK
    <2>5. f = "source" => \/ disk[f] \in {"wav", NoFile}
                         \/ ask.suffix = "wav" \/ (disk[f] = "silk" /\ ~hook)
      BY DEF WavAlready
    <2>6. AsPromised'
      BY <2>1, <2>4, <2>5, <1>4 DEF AsPromised
    <2>7. Left' \subseteq (cleanup' \cup stuck') \cap (Remaining' \cup stuck')
      BY <2>1, <1>1, <1>2 DEF Left, Remaining, Temporary
    <2> QED BY <2>1, <2>2, <2>3, <2>6, <2>7, HandOut
  <1>6. CASE AudioFormat # "wav" /\ hook
    <2>1. /\ path' = f /\ at' = "encode" /\ disk' = d
          /\ UNCHANGED <<ask, hook, cleanup, format, end, stuck>>
      BY <1>6 DEF HasWav
    <2>2. MediaTypeOK'
      BY <2>1, <1>3 DEF NothingLeft, MediaTypeOK, Awaits, Temporary
    <2>3. CallerOK' /\ NothingLeft' /\ AsPromised' /\ InHandOK'
      BY <2>1, <2>2, <1>3 DEF CallerOK, NothingLeft, AsPromised, InHandOK, SourceOK
    <2>4. AudioFormat' = "tencent_silk"
      BY <2>1, <1>6 DEF ToWav, AudioFormat
    <2>5. Left' \subseteq {"source", path'}
      BY <2>1, <1>2 DEF Left, Temporary
    <2>6. SourceOK'
      BY <2>1, <1>1, <1>3 DEF SourceOK, Temporary
    <2>7. EncodeOK'
      BY <2>1, <2>4, <2>5, <1>4 DEF EncodeOK
    <2> QED BY <2>3, <2>6, <2>7
  <1>7. CASE AudioFormat # "wav" /\ ~hook
    <2> DEFINE S == cleanup \cup ({f} \ {"source"})
    <2>1. Fails(S, d)
      BY <1>7 DEF HasWav
    <2>2. S \in SUBSET Temporary
      BY <1>1, <1>3
    <2>3. {g \in Temporary : d[g] # NoFile} \subseteq S \cup stuck
      BY <1>1, <1>2
    <2>4. ask.ref = "path" => d["source"] = ask.data
      BY <1>3 DEF CallerOK
    <2> HIDE DEF S
    <2> QED BY <2>1, <2>2, <2>3, <2>4, FailsTidily
  <1> QED BY <1>5, <1>6, <1>7

LEMMA KeepOrDecodeStep ==
  ASSUME MediaInv, KeepWav \/ DecodeEnds
  PROVE  MediaInv'
  <1>1. CASE KeepWav
    <2>1. HasWav("source", disk) /\ at = "convert" /\ ask.media = "audio" /\ ToWav /\ WavAlready
      BY <1>1 DEF KeepWav, Audio
    <2> QED BY <2>1, WavStep DEF MediaInv, NothingLeft, MediaTypeOK
  <1>2. CASE DecodeEnds
    <2> DEFINE d == [disk EXCEPT !["converted"] = "wav"]
    <2>1. HasWav("converted", d) /\ at = "decode" /\ ask.media = "audio" /\ ToWav
      BY <1>2 DEF DecodeEnds, MediaInv, EncodeOK
    <2>2. d \in [Files -> Data \cup {NoFile}]
      BY MediaAssumption DEF MediaInv, NothingLeft, MediaTypeOK, Data, Files
    <2> QED BY <2>1, <2>2, WavStep
  <1> QED BY <1>1, <1>2

(* ffmpeg converts to WAV, or to the format asked for.                     *)
LEMMA FfmpegStep ==
  ASSUME MediaInv, FfmpegEnds
  PROVE  MediaInv'
  <1> USE MediaAssumption DEF MediaInv
  <1>1. at = "ffmpeg" /\ ask.media = "audio"
    BY DEF FfmpegEnds, EncodeOK
  <1>2. CASE ToWav
    <2> DEFINE d == [disk EXCEPT !["converted"] = "wav"]
    <2>1. HasWav("converted", d)
      BY <1>2 DEF FfmpegEnds
    <2>2. d \in [Files -> Data \cup {NoFile}]
      BY DEF NothingLeft, MediaTypeOK, Data, Files
    <2> HIDE DEF MediaInv
    <2> QED BY <1>1, <1>2, <2>1, <2>2, WavStep
  <1>3. CASE ~ToWav
    <2>1. /\ disk' = [disk EXCEPT !["converted"] = AudioFormat]
          /\ cleanup' = cleanup \cup {"converted"}
          /\ path' = "converted" /\ format' = AudioFormat /\ at' = "inhand"
          /\ UNCHANGED <<ask, hook, end, stuck>>
      BY <1>3 DEF FfmpegEnds, Resolved
    <2>2. AudioFormat \in Formats
      BY <1>3 DEF ToWav, AudioFormat, NothingLeft, MediaTypeOK, Asks
    <2>3. format' \notin {"wav", "tencent_silk"} /\ disk'[path'] = format' /\ format' # NoFile
      BY <1>3, <2>1, <2>2 DEF ToWav, NothingLeft, MediaTypeOK, Files
    <2>4. MediaTypeOK'
      BY <2>1, <2>2 DEF NothingLeft, MediaTypeOK, Data, Files, Temporary
    <2>5. CallerOK' /\ AsPromised'
      BY <2>1, <2>3 DEF CallerOK, AsPromised, NothingLeft, MediaTypeOK, Files
    <2>6. Left' \subseteq (cleanup' \cup stuck') \cap (Remaining' \cup stuck')
      BY <1>1, <2>1, <2>3 DEF SourceOK, Left, Remaining, Temporary, NothingLeft, MediaTypeOK, Files
    <2> QED BY <1>1, <2>1, <2>4, <2>5, <2>6, HandOut
  <1> QED BY <1>2, <1>3

(* A conversion that fails: what it and the steps before it made goes.     *)
LEMMA ConversionFails ==
  ASSUME MediaInv, DecodeFails \/ FfmpegFails \/ EncodeFails
  PROVE  MediaInv'
  <1> USE MediaAssumption DEF MediaInv
  <1>1. CASE DecodeFails \/ FfmpegFails
    <2>1. PICK data \in {NoFile, Junk} :
            /\ Fails(cleanup \cup {"converted"}, [disk EXCEPT !["converted"] = data])
            /\ at \in {"decode", "ffmpeg"}
      BY <1>1 DEF DecodeFails, FfmpegFails
    <2> DEFINE d == [disk EXCEPT !["converted"] = data]
               S == cleanup \cup {"converted"}
    <2>2. S \in SUBSET Temporary /\ d \in [Files -> Data \cup {NoFile}]
      BY DEF NothingLeft, MediaTypeOK, Data, Files, Temporary
    <2>3. {f \in Temporary : d[f] # NoFile} \subseteq S \cup stuck
      BY <2>1 DEF SourceOK, Left, Temporary, NothingLeft, MediaTypeOK, Files
    <2>4. ask.ref = "path" => d["source"] = ask.data
      BY DEF CallerOK, NothingLeft, MediaTypeOK, Files
    <2>5. Fails(S, d)
      BY <2>1
    <2> HIDE DEF S, d
    <2> QED BY <2>2, <2>3, <2>4, <2>5, FailsTidily
  <1>2. CASE EncodeFails
    <2>1. PICK data \in {NoFile, Junk} :
            Fails(cleanup \cup ({path} \ {"source"}) \cup {"silk"}, [disk EXCEPT !["silk"] = data])
      BY <1>2 DEF EncodeFails
    <2> DEFINE d == [disk EXCEPT !["silk"] = data]
               S == cleanup \cup ({path} \ {"source"}) \cup {"silk"}
    <2>2. at = "encode" /\ path \in {"source", "converted"} /\ Left \subseteq {"source", path}
          /\ cleanup = {"source"} \cap Temporary
      BY <1>2 DEF EncodeFails, EncodeOK, SourceOK
    <2>3. S \in SUBSET Temporary /\ d \in [Files -> Data \cup {NoFile}]
      BY <2>2 DEF NothingLeft, MediaTypeOK, Data, Files, Temporary
    <2>4. {f \in Temporary : d[f] # NoFile} \subseteq S \cup stuck
      BY <2>2 DEF Left, Temporary, NothingLeft, MediaTypeOK, Files
    <2>5. ask.ref = "path" => d["source"] = ask.data
      BY DEF CallerOK, NothingLeft, MediaTypeOK, Files
    <2>6. Fails(S, d)
      BY <2>1
    <2> HIDE DEF S, d
    <2> QED BY <2>3, <2>4, <2>5, <2>6, FailsTidily
  <1> QED BY <1>1, <1>2

(* Of the files of the conversion to Tencent's format the output is left.  *)
LEMMA EncodeStep ==
  ASSUME MediaInv, EncodeEnds
  PROVE  MediaInv'
  <1> USE MediaAssumption DEF MediaInv
  <1> DEFINE d == [disk EXCEPT !["silk"] = "silk"]
             S == cleanup \cup ({path} \ {"source"})
  <1>1. /\ at = "encode" /\ path \in {"source", "converted"}
        /\ Left \subseteq {"source", path} /\ cleanup = {"source"} \cap Temporary
    BY DEF EncodeEnds, EncodeOK, SourceOK
  <1>2. S \in SUBSET Temporary /\ d \in [Files -> Data \cup {NoFile}]
    BY <1>1 DEF NothingLeft, MediaTypeOK, Data, Files, Temporary
  <1>3. /\ Cleanup(S, d) /\ cleanup' = {"silk"}
        /\ path' = "silk" /\ format' = "tencent_silk" /\ at' = "inhand"
        /\ UNCHANGED <<ask, hook, end>>
    BY DEF EncodeEnds, Resolved
  <1>4. "silk" \notin S /\ d["silk"] = "silk" /\ d["source"] = disk["source"]
    BY <1>1 DEF Temporary, NothingLeft, MediaTypeOK, Files
  <1>5. {f \in Temporary : d[f] # NoFile} \subseteq S \cup {"silk"}
    BY <1>1 DEF Left, Temporary, NothingLeft, MediaTypeOK, Files
  <1> HIDE DEF S, d
  <1>6. /\ disk' \in [Files -> Data \cup {NoFile}]
        /\ stuck' \in SUBSET Temporary
        /\ \A f \in Files : IF f \in S THEN disk'[f] = NoFile \/ f \in stuck' ELSE disk'[f] = d[f]
    BY <1>2, <1>3, CleanupRemoves DEF NothingLeft
  <1>7. MediaTypeOK'
    BY <1>3, <1>6 DEF NothingLeft, MediaTypeOK, Temporary, Files
  <1>8. CallerOK'
    BY <1>2, <1>3, <1>4, <1>6 DEF CallerOK, Temporary, Files
  <1>9. disk'["silk"] = "silk"
    BY <1>4, <1>6 DEF Files
  <1>10. AsPromised'
    BY <1>3, <1>9 DEF AsPromised
  <1>11. Left' \subseteq (cleanup' \cup stuck') \cap (Remaining' \cup stuck')
    BY <1>3, <1>5, <1>6 DEF Left, Remaining, Temporary
  <1> QED BY <1>1, <1>3, <1>7, <1>8, <1>10, <1>11, HandOut

-----------------------------------------------------------------------------
LEMMA UseStep ==
  ASSUME MediaInv, Use
  PROVE  MediaInv'
  <1> USE MediaAssumption DEF MediaInv
  <1>1. CASE Detach
    <2>1. /\ at = "inhand" /\ at' = "over" /\ end' = "path" /\ cleanup' = {}
          /\ UNCHANGED <<ask, hook, disk, path, format, stuck>>
      BY <1>1 DEF Detach, Over
    <2>2. MediaTypeOK'
      BY <2>1 DEF NothingLeft, MediaTypeOK, Temporary
    <2>3. CallerOK' /\ NothingLeft'
      BY <2>1, <2>2 DEF CallerOK, NothingLeft, InHandOK, Left, Remaining, HandedOver, Temporary
    <2>4. AsPromised' /\ SourceOK' /\ EncodeOK' /\ InHandOK'
      BY <2>1 DEF AsPromised, SourceOK, EncodeOK, InHandOK
    <2> QED BY <2>3, <2>4
  <1>2. CASE Leave \/ Read \/ Encode
    <2>1. PICK how \in {"left", "raised", "bytes", "nothing"} : at = "inhand" /\ Released(how)
      BY <1>2 DEF Leave, Read, Encode
    <2>2. /\ Cleanup(cleanup, disk) /\ at' = "over" /\ end' = how
          /\ UNCHANGED <<ask, hook, cleanup, path, format>>
      BY <2>1 DEF Released, Over
    <2>3. /\ disk' \in [Files -> Data \cup {NoFile}]
          /\ stuck' \in SUBSET Temporary
          /\ stuck \subseteq stuck'
          /\ \A f \in Files : IF f \in cleanup THEN disk'[f] = NoFile \/ f \in stuck' ELSE disk'[f] = disk[f]
      BY <2>2, CleanupRemoves DEF NothingLeft, MediaTypeOK
    <2>4. MediaTypeOK'
      BY <2>2, <2>3 DEF NothingLeft, MediaTypeOK, Temporary
    <2>5. CallerOK'
      BY <2>2, <2>3 DEF CallerOK, NothingLeft, MediaTypeOK, Temporary, Files
    <2>6. Left' \subseteq stuck'
      BY <2>1, <2>2, <2>3 DEF InHandOK, Left, Temporary, Files
    <2>7. NothingLeft'
      BY <2>2, <2>4, <2>5, <2>6 DEF NothingLeft, CallerOK, Left
    <2>8. AsPromised' /\ SourceOK' /\ EncodeOK' /\ InHandOK'
      BY <2>2 DEF AsPromised, SourceOK, EncodeOK, InHandOK
    <2> QED BY <2>5, <2>7, <2>8
  <1> QED BY <1>1, <1>2 DEF Use

LEMMA MediaStep == MediaInv /\ [MediaNext]_mediaVars => MediaInv'
  <1> SUFFICES ASSUME MediaInv, [MediaNext]_mediaVars PROVE MediaInv'
    OBVIOUS
  <1>1. CASE Materialize
    BY <1>1, GotoStep, WrittenStep, NoSourceStep DEF Materialize
  <1>2. CASE Convert
    BY <1>2, InHandStep, KeepOrDecodeStep, GotoStep, FfmpegStep, ConversionFails, EncodeStep DEF Convert
  <1>3. CASE Cancel
    BY <1>3, CancelStep
  <1>4. CASE Use
    BY <1>4, UseStep
  <1>5. CASE UNCHANGED mediaVars
    BY <1>5 DEF mediaVars, MediaInv, NothingLeft, MediaTypeOK, Temporary, HandedOver, AsPromised, CallerOK, SourceOK,
      EncodeOK, ToWav, AudioFormat, InHandOK, Left, Remaining
  <1> QED BY <1>1, <1>2, <1>3, <1>4, <1>5 DEF MediaNext

LEMMA MediaInvariant == MediaSpec => []MediaInv
  BY FirstMedia, MediaStep, PTL DEF MediaSpec

(***************************************************************************)
(* Whatever formats there are, wherever a call of the resolver fails: once *)
(* it is over, the temporary files that are left are the ones it hands     *)
(* over, unless it was cancelled or they cannot be removed; and a path of  *)
(* the caller's is untouched.                                              *)
(***************************************************************************)
THEOREM FilesAccountedFor == MediaSpec => []NothingLeft
  BY MediaInvariant, PTL DEF MediaInv

(***************************************************************************)
(* Whatever formats there are: the file handed out is there, unless the    *)
(* caller's path was one to nothing, and is what it is said to be, unless  *)
(* it was taken for WAV by its suffix or nothing could decode it.          *)
(***************************************************************************)
THEOREM FormatAsPromised == MediaSpec => []AsPromised
  BY MediaInvariant, PTL DEF MediaInv
=============================================================================
