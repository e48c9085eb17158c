--------------------------- MODULE ContextManager ---------------------------
(***************************************************************************)
(* What a run's messages become before each LLM call: ContextManager with  *)
(* its truncator and its two compressors (core/context/), and what of them *)
(* a provider gets that lacks a modality (provider/modalities.py).         *)
(*                                                                         *)
(* A message is its role, whether it has tool calls and whether results    *)
(* were recorded with them, its content, and its number in the             *)
(* conversation; the two messages of a summary have number 0.  A content   *)
(* is "none", "blocks", or "thought" for a ThinkPart alone that is empty   *)
(* or has no signature.  Token counts are abstracted: whether a list is    *)
(* over the limit, and how many recent rounds fit the budget, are choices. *)
(***************************************************************************)
EXTENDS Integers, Sequences, FiniteSetsExt, AnthropicPayload, AnthropicChat

CONSTANTS
  EnforceMaxTurns, \* values of enforce_max_turns
  NoLimit,         \* the value -1 of it
  TruncateTurns,   \* values of truncate_turns
  Compressors,     \* "turns", "summary": the compressors tried
  MaxBlocks,       \* content blocks of an answer (bound)
  MaxMessages      \* messages of the conversation (bound)

ASSUME ContextManagerAssumption ==
  /\ NoLimit \notin Nat
  /\ EnforceMaxTurns \subseteq Nat \cup {NoLimit}
  /\ TruncateTurns \subseteq Nat
  /\ Compressors \subseteq {"turns", "summary"}
  /\ MaxBlocks \in Nat
  /\ MaxMessages \in Nat \ {0, 1}   \* room for the first request

VARIABLES
  config,    \* the ContextConfig of the runs
  messages,  \* run_context.messages
  said,      \* messages of the conversation so far
  pc         \* "ask" between calls, "reply" while one is under way

vars == <<config, messages, said, pc>>

Message(role, calls, answered, content, n) ==
  [role |-> role, calls |-> calls, answered |-> answered, content |-> content, n |-> n]
Plain(role, n) == Message(role, FALSE, FALSE, "blocks", n)
Roles == {"system", "user", "assistant", "tool"}
Contents == {"none", "thought", "blocks"}

-----------------------------------------------------------------------------
(* ContextTruncator.                                                       *)

Positions(s, role) == {i \in DOMAIN s : s[i].role = role}

\* _split_system_rest; a list of system messages only has no leading ones.
LeadingSystem(s) ==
  LET others == DOMAIN s \ Positions(s, "system") IN
  IF others = {} THEN 0 ELSE Min(others) - 1

Upto(s, n) == SubSeq(s, 1, n)
After(s, n) == SubSeq(s, n + 1, Len(s))
System(s) == Upto(s, LeadingSystem(s))
Rest(s) == After(s, LeadingSystem(s))

FromUser(s) ==
  IF Positions(s, "user") = {} THEN s ELSE After(s, Min(Positions(s, "user")) - 1)

\* _ensure_user_message
EnsureUserMessage(s, kept) ==
  LET users == Positions(s, "user") IN
  IF users = {} \/ (kept # <<>> /\ kept[1].role = "user")
  THEN System(s) \o kept
  ELSE System(s) \o <<s[Min(users)]>> \o kept

Answered(s, i) == i < Len(s) /\ s[i + 1].role = "tool"
Called(s, i) ==
  \E j \in 1..(i - 1) : s[j].calls /\ \A k \in (j + 1)..i : s[k].role = "tool"

\* Mutant: only messages whose results were cut off are dropped.
FixCalls(s) == SelectSeq(s, LAMBDA m : m.calls => \E i \in DOMAIN s : s[i] = m /\ Answered(s, i))

\* fix_messages: a message with calls stays if a result follows it, a result
\* if it follows one of those or another result of theirs.
FixMessages(s) ==
  Kept(s, {i \in DOMAIN s : /\ s[i].role = "tool" => Called(s, i)
                            /\ s[i].calls => Answered(s, i)})

\* The end common to the three truncations: the last n of the others are kept.
KeepLast(s, n) ==
  LET rest == Rest(s)
      kept == IF n >= Len(rest) THEN rest ELSE After(rest, Len(rest) - n)
  IN FixMessages(EnsureUserMessage(s, FromUser(kept)))

TruncateByTurns(s, keep, drop) ==
  IF keep = NoLimit \/ Len(Rest(s)) \div 2 <= keep THEN s
  ELSE KeepLast(s, 2 * Max({keep - drop + 1, 0}))

TruncateByDroppingOldestTurns(s, drop) ==
  IF drop = 0 THEN s
  ELSE KeepLast(s, IF Len(Rest(s)) \div 2 <= drop THEN 0 ELSE Len(Rest(s)) - 2 * drop)

TruncateByHalving(s) ==
  LET n == Len(Rest(s)) IN
  IF Len(s) <= 2 \/ n \div 2 = 0 THEN s ELSE KeepLast(s, n - n \div 2)

-----------------------------------------------------------------------------
(* LLMSummaryCompressor.                                                   *)

Summary == <<Plain("user", 0), Plain("assistant", 0)>>

\* split_into_rounds: where rounds start.
RoundStarts(s) == {i \in DOMAIN s : i = 1 \/ s[i].role = "user"}

\* _split_recent_rounds_by_token_ratio: where the recent rounds start, beyond
\* the end when none is kept.
Splits(s) == RoundStarts(s) \cup {Len(s) + 1}

EndsWithUser(s) == s[Len(s)].role = "user"

\* The latest user message is never summarised while it is the last one.
RecentStart(s, split) ==
  IF EndsWithUser(s) /\ split > Len(s) THEN Len(s) ELSE split

OnlySystem(s) == \A i \in DOMAIN s : s[i].role = "system"

\* Mutant: the summary takes the place of everything before the split.
SummarisedFlat(s, split) == Summary \o After(s, RecentStart(s, split) - 1)

\* __call__ with a summary: with nothing to summarise before the recent
\* rounds, everything is summarised, or nothing before a request.
Summarised(s, split) ==
  LET start == RecentStart(s, split)
      lead == IF OnlySystem(s) THEN s ELSE System(s)
  IN
  IF ~OnlySystem(Upto(s, start - 1)) THEN lead \o Summary \o After(s, start - 1)
  ELSE IF EndsWithUser(s) \/ OnlySystem(s) THEN s
  ELSE lead \o Summary

\* The summary, or the messages as they are when the provider raises or
\* returns nothing.
Compressed(s) ==
  IF config.compressor = "turns"
  THEN {TruncateByDroppingOldestTurns(s, config.drop)}
  ELSE {s} \cup {Summarised(s, split) : split \in Splits(s)}

-----------------------------------------------------------------------------
(* sanitize_contexts_by_modalities, for a provider with or without tools.  *)
(* The parts an image or a sound is replaced in are abstracted.            *)

WithoutCalls(m) == Message(m.role, FALSE, FALSE, m.content, m.n)

\* A result becomes a user message, a call is left out of its message.
WithoutTools(s, tools) ==
  [i \in DOMAIN s |->
     IF tools THEN s[i]
     ELSE IF s[i].role = "tool" THEN Plain("user", s[i].n)
     ELSE WithoutCalls(s[i])]

\* Assistant messages with nothing left in them are dropped; an empty
\* ThinkPart is something.
Sanitized(s, tools) ==
  LET left == WithoutTools(s, tools) IN
  Kept(left, {i \in DOMAIN left : left[i].role = "assistant" => left[i].calls \/ left[i].content # "none"})

-----------------------------------------------------------------------------
(* The conversation.                                                       *)

\* The first run: a system prompt or none, and a request.
Init ==
  /\ config \in [keep: EnforceMaxTurns, drop: TruncateTurns, compressor: Compressors]
  /\ messages \in {<<Plain("user", 1)>>, <<Plain("system", 1), Plain("user", 2)>>}
  /\ said = Len(messages)
  /\ pc = "ask"

Enforced == TruncateByTurns(messages, config.keep, config.drop)

\* process and _run_compression: with no limit or the tokens under it, and
\* with the tokens over it; an exception leaves the messages alone.
Process ==
  /\ pc = "ask"
  /\ \/ UNCHANGED messages
     \/ messages' = Enforced
     \/ \E compressed \in Compressed(Enforced) :
          messages' \in {compressed, TruncateByHalving(compressed)}
  /\ pc' = "reply"
  /\ UNCHANGED <<config, said>>

\* What the LLM may answer.
Completions == UNION {[1..n -> BlockTypes] : n \in 0..MaxBlocks}
Responses == {Chat(blocks, streaming) : blocks \in Completions, streaming \in BOOLEAN}

\* The parts of the message a response is recorded in.
RecordedParts(response) ==
  (IF response.reasoning # <<>> /\ response.signature # <<>> THEN {"signed"}
   ELSE IF response.thought \/ response.signature # <<>> THEN {"thought"} ELSE {}) \cup
  (IF response.text # <<>> THEN {"text"} ELSE {})

\* What the steps tell apart of the usable responses.
Turn(response) ==
  [calls |-> response.calls # <<>>, content |-> Content(RecordedParts(response))]
Turns == {Turn(response) : response \in {r \in Responses : Usable(r)}}

\* A response with nothing in it, or an error: nothing is recorded.
Fail ==
  /\ pc = "reply"
  /\ pc' = "ask"
  /\ UNCHANGED <<config, messages, said>>

\* A response is recorded without calls: it has none, or the user stopped
\* the step before they were done.  A vetoed run asks again.
Answer(turn) ==
  /\ pc = "reply"
  /\ said < MaxMessages
  /\ turn.content # "none"
  /\ messages' = Append(messages, Message("assistant", FALSE, FALSE, turn.content, said + 1))
  /\ said' = said + 1
  /\ pc' = "ask"
  /\ UNCHANGED config

\* The LLM calls tools: the step records the calls with their results.  A
\* call has any number of them, and none when its tool says nothing or the
\* tools were taken away.
CallTools(turn) ==
  /\ pc = "reply"
  /\ turn.calls
  /\ \E results \in 0..(MaxMessages - said - 1) :
       /\ messages' = messages \o
            <<Message("assistant", TRUE, results > 0, turn.content, said + 1)>> \o
            [i \in 1..results |-> Plain("tool", said + 1 + i)]
       /\ said' = said + 1 + results
  /\ pc' = "ask"
  /\ UNCHANGED config

\* The next run's request, or a user message of this one: the reminder of a
\* veto, the images of the results, the prompt of the last step.
NewRequest ==
  /\ pc = "ask"
  /\ said < MaxMessages
  /\ messages' = Append(messages, Plain("user", said + 1))
  /\ said' = said + 1
  /\ UNCHANGED <<config, pc>>

Next ==
  \/ Process
  \/ Fail
  \/ \E turn \in Turns : Answer(turn) \/ CallTools(turn)
  \/ NewRequest

Spec == Init /\ [][Next]_vars

-----------------------------------------------------------------------------
(***************************************************************************)
(* Every field is in its range; there is always something to ask.          *)
(***************************************************************************)
TypeOK ==
  /\ config \in [keep: EnforceMaxTurns, drop: TruncateTurns, compressor: Compressors]
  /\ messages \in Seq([role: Roles, calls: BOOLEAN, answered: BOOLEAN, content: Contents, n: 0..MaxMessages])
  /\ messages # <<>>
  /\ said \in 0..MaxMessages
  /\ pc \in {"ask", "reply"}

\* Each result follows calls, and calls that had results one of them.
Paired(s) ==
  \A i \in DOMAIN s :
    /\ s[i].role = "tool" => Called(s, i)
    /\ s[i].answered => Answered(s, i)

StartsWithUser(s) ==
  \E i \in DOMAIN s : s[i].role = "user" /\ \A j \in 1..(i - 1) : s[j].role = "system"

(***************************************************************************)
(* Every field is in its range.  By fix_messages and _ensure_user_message  *)
(* (truncator.py:33 and 47), wherever a truncation or a summary cuts, and  *)
(* however often, no result is left without its call, no call without the  *)
(* results that were recorded with it, a user message follows the system   *)
(* messages, and what is left keeps its order and appears once: the user   *)
(* message put in front is never one kept anyway.  Calls recorded without  *)
(* a result (tool_loop_agent_runner.py:992) stay so until a truncation.    *)
(***************************************************************************)
WellFormed ==
  /\ TypeOK
  /\ Paired(messages)
  /\ StartsWithUser(messages)
  /\ \A i, j \in DOMAIN messages :
       i < j /\ messages[i].n > 0 /\ messages[j].n > 0 => messages[i].n < messages[j].n

(***************************************************************************)
(* extensions/skills/README.md:21: compression keeps the leading system    *)
(* messages word for word, so the list of skills in them is never lost.    *)
(***************************************************************************)
SystemKept == [][System(messages') = System(messages)]_vars

(***************************************************************************)
(* Whatever compaction made of the conversation and whatever the provider  *)
(* can do, it gets a list that starts with a user message after the system *)
(* messages, pairs calls and results, has no assistant message without     *)
(* calls or content, and no call or result without tool support; and       *)
(* Anthropic, with an API of its own, gets a call's results together,      *)
(* after it, no empty message but for answers of nothing but a thought it  *)
(* does not take, and the system message the conversation began with.      *)
(***************************************************************************)
ProviderAccepts ==
  \A tools \in BOOLEAN :
    LET s == Sanitized(messages, tools) IN
    /\ Paired(s)
    /\ StartsWithUser(s)
    /\ \A i \in DOMAIN s :
         /\ s[i].role = "assistant" => s[i].calls \/ s[i].content # "none"
         /\ ~tools => s[i].role # "tool" /\ ~s[i].calls
    /\ ValidForAnthropic(s)
    /\ SystemPrompt(s) = System(messages)

\* A stream without thinking is recorded with an empty ThinkPart.
RecordedAlike(blocks) ==
  LET whole == Whole(blocks)
      streamed == Streamed(blocks)
  IN
  Len(streamed.reasoning) <= 1 =>
    RecordedParts(streamed) = RecordedParts(whole) \cup (IF whole.thought THEN {} ELSE {"thought"})

AllAgree == \A blocks \in Completions : Agrees(blocks) /\ RecordedAlike(blocks)

(***************************************************************************)
(* An answer leads to the same step whether it was streamed or not, but    *)
(* for the calls without arguments (see Agrees), and is recorded with the  *)
(* same content, but for the empty ThinkPart of a stream without thinking. *)
(***************************************************************************)
StreamedAsWhole == pc = "reply" => AllAgree
=============================================================================
