----------------------------- MODULE OpenAIChat -----------------------------
(***************************************************************************)
(* One call of text_chat or text_chat_stream of ProviderOpenAIOfficial     *)
(* (provider/sources/openai_source.py): up to MaxRetries attempts, each    *)
(* error of which may change the key, the messages or the tools of the     *)
(* next.                                                                   *)
(*                                                                         *)
(* A message is its role, the kinds of its content parts, and whether it   *)
(* has tool calls and reasoning.  context_query and the messages of the    *)
(* payload are two lists that share their messages, so they are two        *)
(* variables.  An error is the recovery its text selects.  Keys are chosen *)
(* at random; the wait after a rate limit is left out.                     *)
(***************************************************************************)
EXTENDS Integers, SequencesExt, Lists

CONSTANTS
  ApiKeys,     \* keys of the provider's configuration
  NoKey,       \* no request was sent yet
  MaxRetries,  \* max_retries
  MaxContext   \* messages of the conversation (bound)

ASSUME OpenAIChatAssumption ==
  /\ ApiKeys # {}
  /\ NoKey \notin ApiKeys
  /\ ApiKeys \cap {"image", "tools"} = {}   \* reported has both
  /\ MaxRetries \in Nat \ {0}
  /\ MaxContext \in Nat

VARIABLES
  stream,        \* text_chat_stream is called, and not text_chat
  func_tool,     \* the call has tools
  context_query,
  payload,       \* messages, tools and tool_choice, and options outside the API
  chosen_key,
  available_api_keys,
  retry,         \* number of the attempt
  image_fallback_used,
  sent,          \* the request in progress, with its key
  reported,      \* what the errors so far were about
  shown,         \* the host has had a chunk
  chat             \* "attempt", "sent", or how the call ended

errorState == <<context_query, chosen_key, available_api_keys, func_tool, image_fallback_used>>
chatVars == <<stream, errorState, payload, retry, sent, reported, shown, chat>>

Ends == {"answer", "nothing", "raised", "abandoned"}

-----------------------------------------------------------------------------
(* Messages.                                                               *)

Roles == {"system", "user", "assistant", "tool"}
Parts == {"text", "think", "image", "audio", "input_audio"}
Message == [role: Roles, parts: SUBSET Parts, calls: BOOLEAN, reasoning: BOOLEAN]

Plain(role, parts) == [role |-> role, parts |-> parts, calls |-> FALSE, reasoning |-> FALSE]

\* What is said in a conversation.
Said ==
  {Plain("system", {"text"}), Plain("user", {"text"}), Plain("user", {"image"}),
   Plain("user", {"text", "image"}), Plain("user", {"text", "audio"}),
   Plain("assistant", {"text"}), Plain("assistant", {"think"}), Plain("assistant", {}),
   [Plain("assistant", {}) EXCEPT !.calls = TRUE], Plain("tool", {"text"})}

\* _context_contains_image looks for references, of sounds too.
ContainsImage(s) == \E i \in DOMAIN s : s[i].parts \cap {"image", "audio"} # {}

\* _materialize_context_image_parts: an image stays one; a sound that can be
\* read becomes data, unless the whole conversation is left as it is.
Materialized(s) ==
  IF ~ContainsImage(s) THEN {s}
  ELSE {s, [i \in DOMAIN s |->
    IF "audio" \in s[i].parts
    THEN [s[i] EXCEPT !.parts = (@ \ {"audio"}) \cup {"input_audio"}] ELSE s[i]]}

\* _finally_convert_payload, on messages both lists share: thoughts become
\* reasoning.
Converted(s) ==
  [i \in DOMAIN s |->
    IF s[i].role = "assistant"
    THEN [s[i] EXCEPT !.reasoning = "think" \in s[i].parts, !.parts = @ \ {"think"}]
    ELSE s[i]]

\* _sanitize_assistant_messages makes a new list.
Sanitized(s) ==
  Kept(s, {i \in DOMAIN s :
    s[i].role = "assistant" => s[i].parts # {} \/ s[i].calls \/ s[i].reasoning})

\* _remove_image_from_context; a message of images only gets a text.
WithoutImages(s) ==
  [i \in DOMAIN s |->
    IF "image" \notin s[i].parts THEN s[i]
    ELSE [s[i] EXCEPT !.parts = IF @ = {"image"} THEN {"text"} ELSE @ \ {"image"}]]

\* pop_record: the first two messages that are no system messages go.
Popped(s) ==
  LET others == {i \in DOMAIN s : s[i].role # "system"}
      first == {i \in others : Cardinality({j \in others : j < i}) < 2}
  IN Kept(s, DOMAIN s \ first)

-----------------------------------------------------------------------------
(* The call.                                                               *)

NothingSent == [key |-> NoKey, messages |-> <<>>, tools |-> FALSE, choice |-> FALSE, options |-> FALSE]

\* _prepare_chat_payload, _apply_call_options and the first choice of a key.
ChatInit ==
  /\ stream \in BOOLEAN
  /\ func_tool \in BOOLEAN
  /\ \E s \in BoundedSeq(Said, MaxContext), options \in BOOLEAN :
       /\ s # <<>> /\ Last(s).role \in {"user", "tool"}
       /\ \E m \in Materialized(s) : context_query = Converted(m)
       /\ payload = [messages |-> context_query, tools |-> FALSE, choice |-> func_tool, options |-> options]
  /\ chosen_key \in ApiKeys
  /\ available_api_keys = ApiKeys
  /\ retry = 1
  /\ image_fallback_used = FALSE
  /\ sent = NothingSent
  /\ reported = {}
  /\ shown = FALSE
  /\ chat = "attempt"

\* _query and _query_stream up to the request.  Options the API does not know
\* leave the payload for extra_body, and are gone for the attempts that follow.
Attempt ==
  /\ chat = "attempt"
  /\ payload' = [messages |-> Sanitized(payload.messages), tools |-> payload.tools \/ func_tool,
                 choice |-> payload.choice, options |-> FALSE]
  /\ sent' = [key |-> chosen_key, messages |-> payload'.messages, tools |-> payload'.tools,
              choice |-> payload.choice, options |-> payload.options]
  /\ chat' = "sent"
  /\ UNCHANGED <<stream, errorState, retry, reported, shown>>

Return(how) ==
  /\ chat' = how
  /\ UNCHANGED <<stream, errorState, payload, retry, sent, reported, shown>>

StreamChunk ==
  /\ chat = "sent"
  /\ stream
  /\ shown' = TRUE
  /\ UNCHANGED <<stream, errorState, payload, retry, sent, reported, chat>>

\* An answer in the last attempt is taken for a failure: what is raised is the
\* error of the attempt before.
Answered ==
  /\ chat = "sent"
  /\ Return(IF retry = MaxRetries THEN "raised" ELSE "answer")

\* A completion without usable output, or one that was filtered, raises; a
\* stream has shown what it could and ends with no final response.
Unusable ==
  /\ chat = "sent"
  /\ Return(IF stream /\ retry < MaxRetries THEN "nothing" ELSE "raised")

\* Mutant: the attempts are not counted.
NextAttemptUncounted ==
  /\ chat' = "attempt"
  /\ UNCHANGED retry

\* The next attempt, or the end of all.
NextAttempt ==
  /\ chat' = IF retry = MaxRetries THEN "raised" ELSE "attempt"
  /\ retry' = IF retry = MaxRetries THEN retry ELSE retry + 1

\* "429": the key is given up, another one is chosen if there is one.
RateLimited ==
  /\ chat = "sent"
  /\ reported' = reported \cup {chosen_key}
  /\ available_api_keys' = available_api_keys \ {chosen_key}
  /\ IF available_api_keys' = {}
     THEN /\ chat' = "raised"
          /\ UNCHANGED <<chosen_key, retry>>
     ELSE /\ chosen_key' \in available_api_keys'
          /\ NextAttempt
  /\ UNCHANGED <<stream, context_query, func_tool, image_fallback_used, payload, sent, shown>>

\* Mutant: the records leave the context, the payload keeps its own list.
ContextTooLongForContext ==
  /\ chat = "sent"
  /\ context_query' = Popped(context_query)
  /\ NextAttempt
  /\ UNCHANGED <<stream, chosen_key, available_api_keys, func_tool, image_fallback_used, payload, sent, reported, shown>>

\* The context is too long: two records go, whatever they are, as often as
\* the API says so.
ContextTooLong ==
  /\ chat = "sent"
  /\ context_query' = Popped(context_query)
  /\ payload' = [payload EXCEPT !.messages = context_query']
  /\ NextAttempt
  /\ UNCHANGED <<stream, chosen_key, available_api_keys, func_tool, image_fallback_used, sent, reported, shown>>

\* No VLM, a moderated upload or an invalid attachment: the images go, once.
ImageRejected ==
  /\ chat = "sent"
  /\ IF image_fallback_used \/ ~ContainsImage(context_query)
     THEN Return("raised")
     ELSE /\ context_query' = WithoutImages(context_query)
          /\ payload' = [payload EXCEPT !.messages = context_query']
          /\ image_fallback_used' = TRUE
          /\ reported' = reported \cup {"image"}
          /\ NextAttempt
          /\ UNCHANGED <<stream, chosen_key, available_api_keys, func_tool, sent, shown>>

\* No function calling: the tools go, tool_choice does not.
ToolsRejected ==
  /\ chat = "sent"
  /\ payload' = [payload EXCEPT !.tools = FALSE]
  /\ func_tool' = FALSE
  /\ reported' = reported \cup {"tools"}
  /\ NextAttempt
  /\ UNCHANGED <<stream, context_query, chosen_key, available_api_keys, image_fallback_used, sent, shown>>

\* Any other error, connections' included.
Failed ==
  /\ chat = "sent"
  /\ Return("raised")

\* Whoever waits for the call stops.
Abandoned ==
  /\ chat \in {"attempt", "sent"}
  /\ Return("abandoned")

HandleApiError == RateLimited \/ ContextTooLong \/ ImageRejected \/ ToolsRejected \/ Failed

ChatCall == Attempt \/ Answered \/ Unusable \/ HandleApiError

ChatNext == ChatCall \/ StreamChunk \/ Abandoned

ChatSpec == ChatInit /\ [][ChatNext]_chatVars

\* A request is answered or fails; a stream does not go on for ever.
FairChatSpec == ChatSpec /\ WF_chatVars(ChatCall)

-----------------------------------------------------------------------------
(***************************************************************************)
(* Every field is in its range; attempts stay within their bound, and the  *)
(* key in use is one that was not given up unless none is left.            *)
(***************************************************************************)
ChatTypeOK ==
  /\ stream \in BOOLEAN
  /\ func_tool \in BOOLEAN
  /\ context_query \in Seq(Message)
  /\ payload \in [messages: Seq(Message), tools: BOOLEAN, choice: BOOLEAN, options: BOOLEAN]
  /\ chosen_key \in ApiKeys
  /\ available_api_keys \in SUBSET ApiKeys
  /\ chat \in {"attempt", "sent"} => chosen_key \in available_api_keys
  /\ retry \in 1..MaxRetries
  /\ image_fallback_used \in BOOLEAN
  /\ sent \in [key: ApiKeys \cup {NoKey}, messages: Seq(Message), tools: BOOLEAN, choice: BOOLEAN, options: BOOLEAN]
  /\ reported \in SUBSET (ApiKeys \cup {"image", "tools"})
  /\ shown \in BOOLEAN
  /\ chat \in {"attempt", "sent"} \cup Ends

\* The two parts of a request that errors change.
MessagesHeedErrors ==
  /\ sent.messages = Sanitized(context_query)
  /\ "image" \in reported => \A i \in DOMAIN sent.messages : "image" \notin sent.messages[i].parts

KeyAndToolsHeedErrors ==
  /\ sent.key \notin reported
  /\ "tools" \in reported => ~sent.tools

(***************************************************************************)
(* _handle_api_error (line 953): however the errors follow each other,     *)
(* each request heeds them all.  It holds the conversation as the errors   *)
(* have left it, no image or tools once they were rejected, and its key    *)
(* was never rate-limited.                                                 *)
(***************************************************************************)
RequestHeedsErrors ==
  /\ ChatTypeOK
  /\ chat = "sent" => MessagesHeedErrors /\ KeyAndToolsHeedErrors

(***************************************************************************)
(* Whatever the API answers, again and again, the call ends: also when     *)
(* there is no record left to drop from the context.                       *)
(***************************************************************************)
ChatEnds == <>(chat \in Ends)
=============================================================================
