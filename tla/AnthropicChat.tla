---------------------------- MODULE AnthropicChat ----------------------------
(***************************************************************************)
(* ProviderAnthropic's answers (provider/sources/anthropic_source.py): the *)
(* response made of a completion that arrives whole (_query) and of one    *)
(* that is streamed (_query_stream).                                       *)
(*                                                                         *)
(* A completion is the sequence of its content blocks.  What a block holds *)
(* is abstracted to its position; "bare" is a tool_use block whose call    *)
(* has no arguments, "unsigned" a thinking block with an empty signature.  *)
(* Ids, usage and the surrounding white space of a text are left out.      *)
(***************************************************************************)
EXTENDS Integers, SequencesExt, Lists

BlockTypes == {"text", "thinking", "unsigned", "call", "bare"}
Calls == {"call", "bare"}
Thoughts == {"thinking", "unsigned"}

Call(i, input) == [block |-> i, input |-> input]
Input(type) == IF type = "bare" THEN "{}" ELSE "arguments"

\* thought: whether reasoning_content is not None; it may be empty.
Response(text, reasoning, thought, signature, calls) ==
  [text |-> text, reasoning |-> reasoning, thought |-> thought,
   signature |-> signature, calls |-> calls]

\* _ensure_usable_response: EmptyModelOutputError otherwise.
Usable(r) == r.text # <<>> \/ r.reasoning # <<>> \/ r.calls # <<>>

-----------------------------------------------------------------------------
(* _query: each text or thinking block replaces the one before it.         *)

PositionsOf(blocks, types) ==
  Kept([i \in DOMAIN blocks |-> i], {i \in DOMAIN blocks : blocks[i] \in types})

LastOf(positions) == IF positions = <<>> THEN <<>> ELSE <<Last(positions)>>

Whole(blocks) ==
  LET calls == PositionsOf(blocks, Calls)
      thought == LastOf(PositionsOf(blocks, Thoughts))
  IN
  Response(LastOf(PositionsOf(blocks, {"text"})),
           thought,
           thought # <<>>,
           IF thought # <<>> /\ blocks[thought[1]] = "thinking" THEN thought ELSE <<>>,
           [i \in DOMAIN calls |-> Call(calls[i], Input(blocks[calls[i]]))])

-----------------------------------------------------------------------------
(* The API's stream: the events of each block in turn.  The input of a     *)
(* call comes in pieces, the first of them empty.                          *)

Event(type, i, piece) == [type |-> type, index |-> i, piece |-> piece]

BlockEvents(i, type) ==
  LET start == Event("content_block_start", i, IF type \in Calls THEN "tool_use" ELSE "none")
      stop == Event("content_block_stop", i, "none")
  IN
  CASE type = "text" -> <<start, Event("text_delta", i, "words"), Event("text_delta", i, "more"), stop>>
    [] type = "thinking" ->
         <<start, Event("thinking_delta", i, "thought"), Event("signature_delta", i, "signature"), stop>>
    [] type = "unsigned" -> <<start, Event("thinking_delta", i, "thought"), stop>>
    [] type = "call" -> <<start, Event("input_json_delta", i, "empty"), Event("input_json_delta", i, "arguments"), stop>>
    [] type = "bare" -> <<start, Event("input_json_delta", i, "empty"), stop>>

-----------------------------------------------------------------------------
(* _query_stream: the buffer of the calls under way, what the final        *)
(* response has so far, and the chunks yielded.  reasoning_content starts  *)
(* as the empty string: it is never None.                                  *)

Opened == [buffer |-> << >>, final |-> Response(<<>>, <<>>, TRUE, <<>>, <<>>),
           shown |-> [text |-> <<>>, reasoning |-> <<>>, calls |-> <<>>]]

\* A text in several deltas is one text: its block counts once.
Grown(positions, i) == IF positions # <<>> /\ Last(positions) = i THEN positions ELSE Append(positions, i)

\* json.loads of the joined pieces: nothing but empty ones does not parse;
\* without a piece there is nothing to parse.
Joined(pieces) == IF "arguments" \in ToSet(pieces) THEN "arguments" ELSE IF pieces = <<>> THEN "{}" ELSE "invalid"

\* Mutant: the call is shown but not kept for the final response.
StoppedUnrecorded(st, i) ==
  LET call == Call(i, Joined(st.buffer[i]))
      closed == [st EXCEPT !.buffer = [j \in DOMAIN @ \ {i} |-> @[j]]]
  IN
  IF call.input = "invalid" THEN closed ELSE [closed EXCEPT !.shown.calls = Append(@, call)]

\* The end of a call's block: a call whose input does not parse is skipped.
Stopped(st, i) ==
  LET call == Call(i, Joined(st.buffer[i]))
      closed == [st EXCEPT !.buffer = [j \in DOMAIN @ \ {i} |-> @[j]]]
  IN
  IF call.input = "invalid" THEN closed
  ELSE [closed EXCEPT !.final.calls = Append(@, call), !.shown.calls = Append(@, call)]

\* The start of a call's block, and a delta of each type.
Started(st, i) ==
  [st EXCEPT !.buffer = [j \in DOMAIN @ \cup {i} |-> IF j = i THEN <<>> ELSE @[j]]]
TextGrown(st, i) == [st EXCEPT !.final.text = Grown(@, i), !.shown.text = Grown(@, i)]
ThoughtGrown(st, i) == [st EXCEPT !.final.reasoning = Grown(@, i), !.shown.reasoning = Grown(@, i)]
SignatureRead(st, i) == [st EXCEPT !.final.signature = <<i>>]
InputGrown(st, i, piece) == [st EXCEPT !.buffer[i] = Append(@, piece)]

Handled(st, e) ==
  CASE e.type = "content_block_start" /\ e.piece = "tool_use" -> Started(st, e.index)
    [] e.type = "text_delta" -> TextGrown(st, e.index)
    [] e.type = "thinking_delta" -> ThoughtGrown(st, e.index)
    [] e.type = "signature_delta" -> SignatureRead(st, e.index)
    [] e.type = "input_json_delta" /\ e.index \in DOMAIN st.buffer -> InputGrown(st, e.index, e.piece)
    [] e.type = "content_block_stop" /\ e.index \in DOMAIN st.buffer -> Stopped(st, e.index)
    [] OTHER -> st

Read(st, events) ==
  LET Now[k \in 0..Len(events)] == IF k = 0 THEN st ELSE Handled(Now[k - 1], events[k])
  IN Now[Len(events)]

Stream(blocks) ==
  LET Now[n \in 0..Len(blocks)] ==
        IF n = 0 THEN Opened ELSE Read(Now[n - 1], BlockEvents(n, blocks[n]))
  IN Now[Len(blocks)]

Streamed(blocks) == Stream(blocks).final

\* text_chat and text_chat_stream
Chat(blocks, streaming) == IF streaming THEN Streamed(blocks) ELSE Whole(blocks)

(***************************************************************************)
(* A completion gives the same calls and, with one text and one thinking   *)
(* block at most, the same texts and signature whether it is streamed or   *)
(* not, and the chunks of a stream show what its final response says.      *)
(* There are two exceptions: a streamed call without arguments is lost     *)
(* (anthropic_source.py:506), and without thinking the reasoning is the    *)
(* empty string of a stream and None otherwise (545).                      *)
(***************************************************************************)
Agrees(blocks) ==
  LET whole == Whole(blocks)
      stream == Stream(blocks)
  IN
  /\ \A part \in DOMAIN stream.shown : stream.shown[part] = stream.final[part]
  /\ DOMAIN stream.buffer = {}
  /\ stream.final.calls = Kept(whole.calls, {i \in DOMAIN whole.calls : whole.calls[i].input # "{}"})
  /\ Len(stream.final.text) <= 1 => stream.final.text = whole.text
  /\ Len(stream.final.reasoning) <= 1 =>
       /\ stream.final.reasoning = whole.reasoning
       /\ stream.final.signature = whole.signature
  /\ Usable(stream.final) => Usable(whole)
=============================================================================
