-------------------------- MODULE AnthropicPayload --------------------------
(***************************************************************************)
(* ProviderAnthropic's _prepare_payload (provider/sources/                 *)
(* anthropic_source.py): the messages of the API that stand for the        *)
(* runtime's.  A block is its type and the number of the message it comes  *)
(* from; the contents of blocks are abstracted.  The use of a tool is a    *)
(* "lone_use" where no result was ever recorded with it.                   *)
(***************************************************************************)
EXTENDS Integers, Sequences, Lists

Block(type, n) == [type |-> type, n |-> n]
Said(role, blocks) == [role |-> role, blocks |-> blocks]

\* What the API takes of the parts of a message: its texts, and its thinking
\* if that has a signature; any other ThinkPart is left out.
Content(parts) ==
  IF parts \cap {"text", "signed"} # {} THEN "blocks"
  ELSE IF parts # {} THEN "thought" ELSE "none"

\* The content of a message, as one block, then its calls.
AssistantBlocks(m) ==
  (IF m.content = "blocks" THEN <<Block("text", m.n)>> ELSE <<>>) \o
  (IF m.calls THEN <<Block(IF m.answered THEN "tool_use" ELSE "lone_use", m.n)>> ELSE <<>>)

ResultsOnly(said) ==
  /\ said.role = "user"
  /\ said.blocks # <<>>
  /\ \A i \in DOMAIN said.blocks : said.blocks[i].type = "tool_result"

\* Mutant: each result becomes a message.
AddResultAlone(new, m) == Append(new, Said("user", <<Block("tool_result", m.n)>>))

\* A result joins the results before it.
AddResult(new, m) ==
  LET result == Block("tool_result", m.n)
      last == Len(new)
  IN
  IF last > 0 /\ ResultsOnly(new[last])
  THEN [new EXCEPT ![last].blocks = Append(@, result)]
  ELSE Append(new, Said("user", <<result>>))

NewMessages(s) ==
  LET New[i \in 0..Len(s)] ==
        IF i = 0 THEN <<>>
        ELSE CASE s[i].role = "system" -> New[i - 1]
               [] s[i].role = "assistant" -> Append(New[i - 1], Said("assistant", AssistantBlocks(s[i])))
               [] s[i].role = "tool" -> AddResult(New[i - 1], s[i])
               [] s[i].role = "user" -> Append(New[i - 1], Said("user", <<Block("text", s[i].n)>>))
  IN New[Len(s)]

\* The system messages themselves: the last one is the prompt.
SystemPrompt(s) ==
  LET prompts == Kept(s, {i \in DOMAIN s : s[i].role = "system"}) IN
  IF prompts = <<>> THEN <<>> ELSE <<prompts[Len(prompts)]>>

Has(said, types) == \E i \in DOMAIN said.blocks : said.blocks[i].type \in types
HasCalls(said) == Has(said, {"tool_use", "lone_use"})
HasAnswered(said) == Has(said, {"tool_use"})

\* Thinking that has no signature, or is empty, and nothing else.
OnlyThinks(m) == m.role = "assistant" /\ ~m.calls /\ m.content = "thought"

(***************************************************************************)
(* What the API asks for: no message is empty, but the answers that were   *)
(* nothing but a thought this API does not take, and the results of calls  *)
(* are all in the one message that follows them.                           *)
(***************************************************************************)
ValidForAnthropic(s) ==
  LET new == NewMessages(s) IN
  \A i \in DOMAIN new :
    /\ new[i].blocks = <<>> => new[i].role = "assistant" /\ \E j \in DOMAIN s : OnlyThinks(s[j])
    /\ HasAnswered(new[i]) => i < Len(new) /\ ResultsOnly(new[i + 1])
    /\ ResultsOnly(new[i]) => i > 1 /\ HasCalls(new[i - 1])
=============================================================================
