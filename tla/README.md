# agent-runtime-template in TLA+

TLA+ modules of the agent runtime in `src/agent_runtime` and of the chatbot in
`src/examples/chatbot`, the TLC runs that check them on small instances, and proofs
for every value of the constants. `PROJECT.json` maps every definition to the source
lines it models, and lists the hazards at their lines with the properties aimed at them.

## 1. The system

The library runs LLM agents inside a host application. A host builds a runner,
calls `reset`, and iterates `step_until_done` (or `step`); it may queue
follow-up messages, request a stop, cancel its task or close the generator.
Everything runs on one asyncio event loop, so the interleavings are those
between awaits and yields. The exceptions are other processes: the platform that writes
skill files, and a process that takes up a session after a crash.

| component | state it keeps | operations |
|---|---|---|
| ToolLoopAgentRunner | AgentState, final response, abort signal, pending follow-ups, tool set, `run_context.messages` | reset, step, step_until_done, follow_up, request_stop |
| BaseAgentRunner | AgentState | `_transition_state` |
| PlanExecuteRunner | AgentState, `_Progress` (phase, plan, cursor, summaries, replan count), child runner, step count, two keys of the PluginStore | reset with recovery, step, persist |
| provider fallback (in ToolLoopAgentRunner) | current provider, candidates | try candidates, retry empty output |
| planning extension | plan in the PluginStore, reminder counts | write_todos, injection of the plan, on_before_complete veto |
| hooks and chain | none | sequential calls, veto |
| FunctionToolExecutor, handoff | none | run a tool, normalise its results, run a sub-agent |
| MCPClient | session, exit stacks, reconnect flag and lock | connect, reconnect, call with reconnect, cleanup |
| FunctionToolManager | tool list, MCP runtimes, lifecycle tasks, configuration file | add/remove/select, start/stop/initialise servers, shutdown |
| context compaction | none (messages in, messages out) | truncate, compress, halve |
| ToolSet, image cache, messages | tools by name; files; records | merge, normalise, cache, validate |
| providers (base, OpenAI, Anthropic) | API keys | chat, stream, retry; embeddings in batches |
| plugins | manager's table, registry, contributions | register, unload, reload; hooks and tools |
| skills | scan cache | scan, inventory in the prompt, load |
| fs tools, local runtime | none | read/write; put an agent together |
| media, foundation | files, configuration | convert, download, log |
| chatbot | histories, plan store, /plan store, tools | start-up, clean-up, chat turn, /plan turn |

**Interactions.** A runner calls the provider (await, or a stream of chunks),
the hooks (await; the verdict of `on_before_complete` decides the end), the
tool executor (async generator) and the context manager. PlanExecuteRunner
drives a ToolLoopAgentRunner as its child, one `step` at a time, and writes its
progress to the PluginStore, where the planning hook and a later process read
it. FunctionToolManager owns MCPClients; their tools end up in the tool set of a
request. Skills, plugins and planning write system messages through the hook chain before
each call. Follow-ups and the abort signal are state shared by host and runner; a
chatbot's turns share their session's history and plan.

**What is hard.** A stop racing the next result of a tool; follow-ups
accepted while the run is ending; tools that raise, yield several results, none
at all, or answer the user and end the run in the middle of a batch; a drive
that is cancelled at any await and taken up again; vetoing hooks at the step
limit; a crash between the two writes of `_persist` and recovery elsewhere; a
replan that changes the plan under indices taken from the older one; retries and
fallbacks that change what the next call sends; reconnects under a lock whose holder
may be cancelled; starts, start timeouts, stops and shutdown timeouts of servers that
share one table; compaction that cuts between a call and its result; files and plugins
that change between two hooks; turns of one session that overlap.

**What makes each component correct.**
- ToolLoopAgentRunner: no accepted follow-up is stranded or lost; while the request has tools, every tool
  call gets a tool message, in order; the end is reached once, announced once,
  stable, and consistent with the final response; the drive returns; a stop ends
  the run.
- PlanExecuteRunner: the cursor is on the first pending todo, in memory and in
  the store; between steps the store equals memory; recovery repeats no
  completed todo; DONE means all todos completed; the end is announced; the
  ceilings end every run.
- Provider fallback: candidates are tried in order and named ones once, errors surface
  only when all failed, a call always ends, nothing is repeated once output was shown.
- MCP: one reconnect at a time; runtime table, registered tools and lifecycle tasks
  agree; a name is "starting" only while a task starts it; no call and no operation hangs.
- Context: what is kept is a valid conversation (no tool message without its
  call, a user message first), in order, behind the system messages; every provider
  accepts it, whatever it lacks.
- OpenAI's attempts: a request leaves out what earlier errors were about and never uses
  a key that ran into its limit while another is left; the call ends.
- Anthropic: a streamed answer leads to the same step as a whole one, but for two cases that are stated.
- ToolSet: one tool per name, the later or the active one wins.
- Skills: a cached list names no removed skill and no disabled one as enabled, as far as the file system's times tell.
- Plugins: table, registry and contributions agree; a failing plugin changes
  nothing for the others.
- Prompt: each request carries the current inventory and plan, once.
- Planning hook: at most the cap's number of vetoes.
- Media: temporary files are removed or handed over, whatever fails; a file has the format it is said to have.
- Chatbot: a history is whole turns in order; the tools a turn finds are the ones that run.

## 2. The modules

| module | models |
|---|---|
| `AgentLifecycle` | what a runner of either kind promises its host (abstract) |
| `ToolLoop` | ToolLoopAgentRunner with its host; implements AgentLifecycle |
| `ToolLoopProofs` | theorems about ToolLoop |
| `PlanExecute` | PlanExecuteRunner with its store, crashes and recovery; a session of runs implements AgentLifecycle |
| `PlanExecuteProofs` | theorems about PlanExecute |
| `LlmCall` | one LLM call as a step of the tool loop relies on it (abstract) |
| `ProviderFallback` | the call over the provider and its fallbacks; implements LlmCall |
| `McpClient` | MCPClient: connections, calls, reconnects under the lock |
| `McpManager` | FunctionToolManager's servers, composed with their clients |
| `McpManagerProofs` | theorems about the composition |
| `Lists` | `Kept`, the elements of a list at some positions: what loops and comprehensions that filter a list have in common |
| `ListsProofs` | lemmas about it, and counting up |
| `AnthropicPayload`, `AnthropicChat` | what the Anthropic source makes of messages, and of an answer, whole and streamed (operators) |
| `ContextManager` | a conversation compacted before each call and continued after it; uses the two above |
| `ContextManagerProofs` | theorems about the three of them |
| `OpenAIChat` | the attempts of one call of the OpenAI source |
| `Skills` | SkillManager and the platform's writes to its files |
| `Plugins` | PluginManager and its registry |
| `LocalAgent` | the turns of a local agent: the hook chain over Skills, Plugins and the planning extension |
| `LocalAgentProofs` | theorems about that composition |
| `Media` | one use of a media reference through MediaResolver |
| `ProviderProofs` | theorems about what a call to a provider goes through: ProviderFallback, OpenAIChat and Media |
| `ToolSets` | ToolSet and the manager's function list (operators) |
| `Chatbot` | the chatbot's requests and turns; uses ToolSets |
| `ChatbotProofs` | theorems about both |

An action runs a coroutine from one await or yield to the next; sections without an await
are part of the action around them. Texts are left out unless a property is about them.

### AgentLifecycle

Three variables: `state` (AgentState), `final` (the kind of `final_llm_resp`) and
`doneCalls` (calls of `on_agent_done`). A run begins, ends at most once with an
answer, an error, or nothing (a tool answered the user itself), is announced at
most once and only with a response, and never runs again. The one thing that may
still happen to an ended run is that an interruption closes one that ended with
nothing. `SessionSpec` adds `Restart`, the next run of a session.

### ToolLoop

The runner is one coroutine. `pc` names the await or yield it is suspended at,
and an action runs it from there to the next one; host actions (`FollowUp`,
`RequestStop`, `Drive`, `Cancel`) interleave between any two. Which suspension
points are kept is decided by what can change there: `llm` stands for
`on_llm_request`, compaction and the provider's stream, because nothing between
them reads shared state; the veto poll, the done hook, the start of a tool, the
wait for its next result and the yields of a batch are points of their own.

| code | model |
|---|---|
| `_state`, `final_llm_resp`, `_aborted`, `_abort_signal` | `state`, `final` (its kind), `aborted`, `stop` |
| FollowUpTicket (`consumed`, `resolved`, `_pending_follow_ups`) | `ticket[t]`, with where a consumed notice has got to |
| `req.func_tool`, `tool_schema_mode` | `tools`, `skillsLike` |
| `step_count`, the step after the loop | `steps`, `forced` |
| `tools_call_name`, the loop over the calls, results of an executor, `tool_call_result_blocks` | `calls`, `k`, `results`, `answers` (call index of each block) |
| an exception or cancellation leaving `step_until_done` | `broken` |

The outcome of an LLM call, a hook's verdict and a tool's results are
nondeterministic choices. Names are `Tools` (in the tool set), `SilentTools` (those
whose executor is an async generator or an MCP call that may finish without a
result the runner turns into a block) and `Ghosts` (names a model invents).

`reset` in skills_like mode without tools returns early (lines 298-301), before
the statistics and the messages are set; no run can follow, so `Init` leaves that
combination out. `func_tool` may be empty from the start, and is emptied by the
forced step. A batch is over when every call is done or when there are no tools
(`BatchIsOver`): the code then returns at the first call (992-993), and `RecordTurn` records the
calls with no tool message.

### PlanExecute

The same convention. `PersistThen(next)` is the entry of `_persist`: `WriteSnapshot`
and `WriteMirror` are two actions because a crash or a cancellation may come
between them, and `next` is where the caller goes on. `CutShort` ends a step at any
await with memory and store as they are (an exception of the store, a cancelled
task, a host that closes the generator); `Crash` loses memory; `Reset` starts a run
from the store or, for the next turn, in the same process. A todo is its content;
`in_progress` is not told from `pending`, as in `_first_pending`. Planner and
replanner may submit any plan of up to `MaxPlan` todos, also one with todos
marked completed. The child is seen through the AgentState of its run; `LeaveChild` says in
which state a child can be when its step is abandoned. The kinds of `final` leave
the text out, so `Reset` of a finished session resumes in REPLAN as the code does.

### LlmCall and ProviderFallback

`LlmCall` is the contract between step() and `_iter_llm_responses_with_fallback`: chunks,
then at most one answer or error, and no end without a response unless chunks were
shown. `ToolLoop` assumes it (the guard of `NoResponse`); `ProviderFallback` implements it.

`Keep` and `Prepared` are the loop of `reset` over the fallbacks it is given, one kept
fallback per step; nothing runs between them in the code, and pc = "reset" keeps everything else
waiting. A fallback passed over changes nothing and is no step. A call is `Ask`, then the outcomes of
each attempt. `AskNext` is everything that happens once a candidate has failed, including the three
ways to report an error after the last, whose texts are left out. The provider is a
variable of the run: it stays what the last call made it.

| code | model |
|---|---|
| `self.provider`, `self.fallback_providers`, `provider_config["id"]` | `provider`, `fallbacks`, `id` |
| `candidates`, `enumerate`'s idx, the attempt number | `candidates`, `idx`, `attempt` |
| `has_stream_output` (of one attempt) | `has` |
| any chunk of the call; how the call ended | `streamed`, `outcome` |

### McpClient and McpManager

A client numbers its exit stacks, a new one for each reconnection; `session` is the stack whose
session `self.session` is, `live` the stacks whose connection is open. A call waits for the lock,
drops the session, closes the old stack, connects, lists the tools, and tries again. It may be
cancelled at any of these points; what it leaves then is what the code leaves, a client without
a session. The test of `_reconnecting` is left out: the flag is set only under the lock, so
whoever holds the lock finds it clear.

McpManager adds the host's tasks (start a server, stop one or all, initialise all) and the
lifecycle task of each client.

| code | model |
|---|---|
| `exit_stack` and its replacements, `self.session`, the open transports | `stack`, `session`, `live` |
| `connect_to_server`, `list_tools_and_save` | `link` |
| `_reconnect_lock`, a call of `call_tool_with_reconnect` | `lock`, `call` |
| `_mcp_starting`, `_mcp_server_runtime`, MCPTools of `func_list` | `starting`, `runtime`, `tools` (the client they belong to) |
| the lifecycle task, its `shutdown_event`, what `_terminate_mcp_client` looked up | `lifecycle`, `signalled`, `closing` |
| the host's operation, at the await it is suspended at | `task` |

A task's timeout is a choice at any point of its wait. `struck` records the one way in which the
tables come apart: `init_mcp_clients` removes by name the runtime of a server whose start failed
once all the others have ended, and by then another task may have started that server (line 431).

### ContextManager, AnthropicPayload and AnthropicChat

A message is its role, whether it has calls and whether results were recorded with them (`answered`), its
content (nothing, a thought that Anthropic does not take, or blocks) and its number in the conversation.
The configuration is chosen once. Whether a list is over the token limit and how many rounds fit the budget are
choices, and so is the outcome of the compressor's own LLM call. A conversation goes on with every
answer a completion can give, whole or streamed, as the step records it (`RecordedParts`); `CallTools` gives its calls
any number of results, also none (an executor that says nothing, a request without tools, 992-993) or
several for one call. It may also fail, or take a user message: the request of `reset`, the reminder of a veto, the
images of the results, the prompt of the last step.

`AnthropicPayload` is what `_prepare_payload` makes of messages; `AnthropicChat` is `_query` and
`_query_stream` over the same blocks: text, thinking, thinking with an empty signature ("unsigned"), a call with
arguments, and a call without any ("bare"). `thought` tells reasoning that is the empty string from none at all.
`Handled` is what the stream's loop does with one event. One external fact is taken from how the source uses the API:
the first piece of a call's arguments is empty. Modality sanitising is a list operator too.

What the properties leave out, because the code does it: calls recorded without results stay unanswered until a
truncation drops them; an assistant message that is nothing but thinking without a signature, or the empty ThinkPart of a
stream without thinking whose calls were interrupted or taken out, reaches Anthropic without blocks
(anthropic_source.py:186); and the two exceptions of `Agrees`.

### OpenAIChat

One call with its attempts. `context_query` and the messages of the payload are two variables,
because the code keeps two lists that share their messages and not all recoveries change both. An error is the
recovery its text selects in `_handle_api_error`. Keys are drawn at random; the wait after
a rate limit is left out.

### Skills, Plugins and LocalAgent

`Skills` has the directories, the SKILL.md files and the opt-outs, the modification time of each
root and of skills.json, and the cache; a scan is two actions, because another process may write
between the reading of the key and that of the directories. A write changes the time of its root or of skills.json, or
leaves it as it is when the file system's clock has not ticked since the last one (`Touch`); the history variable
`unseen` remembers what was written so, and CacheIsFresh exempts it, as tests/test_skill_manager.py:152 sets the time itself
"in case of coarse fs granularity". `Plugins` has the operations of the manager with the
awaits of `initialize` and `terminate` between their changes; `clashed` collects the names
that were registered while in use or whose operation was cancelled, where the tables rightly
may differ. `LocalAgent` composes both with the chain of hooks before a call: the inventory
of skills, the plugins' own system messages, the plan. `Escaping` are texts that `re.sub` does not
take as a replacement; the hook raises for them and the chain goes on.

### Media

A reference is a path, a URL, a data URI or base64, with the data it stands for and a suffix; a file is the
format of its data, which need not be the one of its suffix. `ask` holds what the caller wants: audio or an image, the
target format, and which method of the resolver it calls. `disk` has the three files a conversion may involve, the
source, what it is converted to and the output for Tencent; `cleanup` is `cleanup_paths`. A download, a run of ffmpeg
and the two operations of the codec hook are awaits, at which the call may be cancelled; each may fail with a part of its output
written. A file that cannot be removed is logged by the code and remembered in `stuck`. What the hook writes
before it fails is the hook's; if it leaves it, that is such a file too.

### ToolSets and Chatbot

`ToolSets` has add, remove, get and the merge of functions, as loops over lists. A server that starts has
all its tools in some order (`ServedLists`), one that does not has none. In `Chatbot`
a request is a record: `new`, `prepare` (its history is read, the response is being prepared), `run`,
`finish` (the run ended, its last event is being written), `over`. A run is seen through the messages it appends and
what it writes to a store; ToolLoop, PlanExecute and LocalAgent say how it gets there.
`phase` is the turn whose progress the /plan store holds. `saved` and `overlapped` are history
variables of the properties. web_search, which may be missing, is left out.

## 3. The runs

| run | specification | shows |
|---|---|---|
| `ToolLoop` | FairSpec | type, tickets, batches, end of the run, lifecycle, liveness |
| `PlanExecute` | FairSpec | type, cursor, durability, completion, announcement, child, ceilings, lifecycle |
| `PlanExecuteCut` | Spec | crashes in REPLAN, and timeouts of the replanner, turn the replan cap against a healthy plan |
| `PlanExecuteSummaries` | Spec | summaries move to other todos when the replanner reorders |
| `ProviderFallback` | FairSpec | candidates, errors, stickiness, end of the call, LlmCall |
| `ProviderFallbackRetry` | Spec | an empty output after chunks is retried all the same |
| `McpManager` | FairSpec | tables and tools, severed clients, nothing hangs |
| `ContextManager` | Spec | conversations stay well formed, every provider accepts them, what streaming changes |
| `OpenAIChat` | FairChatSpec | requests heed earlier errors, the call ends |
| `LocalAgent` | Spec | the skills cache, the plugins' tables, the prompt at each call |
| `Media` | MediaSpec | which temporary files a resolution leaves, and what the file it hands out is |
| `Chatbot` | Spec | histories, shared tools |

**Bounds.** `ToolLoop`: two tools, one of which may finish silently, one invented
name, batches of two, two results per tool, two follow-ups, two steps before the
forced one, two drives. Two of each are what the properties compare: order needs
two calls and two blocks; a follow-up that is consumed and one that is stranded can
coexist; the second drive exercises a run resumed after a cancellation, after the
forced step (without tools) and after its end. `PlanExecute`: plans of two todos, one
replan, one planner retry, five steps, two runs, one step cut short, one crash:
one todo to complete and one to remain, a resumed run, and a fault in each. The
step limit is `max_step` of the code, so the ceiling is reached inside the bound.
`ProviderFallback`: three providers with every choice of two names or none, two
fallbacks, two attempts, two calls: a duplicate in each position, a candidate between the
first and the last, a retry, and a call that begins after a fallback has taken over.

`McpManager`: one server, two clients, three tasks, two calls, one lost connection: a
stop and a start can overlap a start that times out, a second client takes the place of the first, and
one call waits for the lock that another holds. Servers share only the tables, by name, and the
theorems cover any number of them. `ContextManager`: conversations of six messages, answers of
three blocks, turn limits none, 0 and 1 with 0 or 1 dropped: more rounds than any limit keeps,
a batch of results to cut in, and each of the five kinds of block between two others. `OpenAIChat`: two
keys, three attempts (the code has ten), three messages: an error that the next recovery meets again, and a
key to rotate to. `LocalAgent`: one skill, two plans of which one is open and escaping,
two plugin objects of one name, two plugin tasks, three interventions from outside: a write, a registration and an edit between any two
hooks, or two writes around a scan, within one tick or not. `Chatbot`: two sessions, three requests, two steps, one reminder, an MCP server that
has a tool with a local one's name, before or behind its other one; a turn can overlap one and follow another. The sessions are symmetric, and the
run checks no liveness. `Media`: WAV, MP3, silk and a fourth format that no branch of the code
names, with data of no format at all; a call has no loop, so every reference, target, use and failure is covered.

The violation runs raise or lower exactly the bound their history needs (three runs and two crashes
for the cap, two contents for the summaries).

**Fairness.** The FairSpecs of `ToolLoop` and `PlanExecute` assume weak fairness of `Runner` as a whole: a ready
coroutine is resumed by the event loop, and providers, hooks, tools and the store
return. It is not assumed of the host: follow-ups, stops, cancellations, cuts, crashes
and resets may come or not. For `PlanExecute` it includes that the host keeps calling
`step`, as `step_until_done` does. Fairness of single outcomes (a model that
eventually answers, a hook that eventually admits) is not assumed: the ceilings and
the step limit must and do suffice. For `ProviderFallback` and `OpenAIChat` only `Call` (`ChatCall`) is fair: a provider that
is asked returns or raises; the step need neither abandon nor ask again. For `McpManager` it is `Work`: an awaited
session answers, fails or times out, and closing a stack ends or the timeout of who waits for it does; nobody has
to ask, cancel, set an event or lose a connection. The other runs check safety alone and assume no fairness.

Deadlock checking is off because a run, a call or a conversation that is
over, with its host's bounds used up, rightly has no step left.

**What the violations say.** Each is a place where the program and its
documentation disagree; `findings` in `PROJECT.json` quotes the lines. In
`PlanExecuteSummaries` the planner is as free as the code lets it; a replanner
that only reorders is enough: plan [a, b], a completed, replanned as [b, a], b
executed at position 0 over a's summary, replanned as [a, b]: a is shown with b's
summary. In `PlanExecuteCut` the raised count is stored with the revised plan while the phase is still REPLAN (432), and
only a harvest resets it (405). A session that crashes in EXEC recovers and harvests; one that crashes before EXEC is stored
(446), or whose replanner timed out, resumes in REPLAN with the count. The trace has one of each: an
empty plan is vetoed into REPLAN, the first replan times out, the second submits a pending todo and crashes,
and the resumed run is forced to completion with that todo pending.

**Disagreements met without a run.** These came up while the modules were written. The models do what the code does.
- A veto keeps the run going after the forced step, which "必然结束" (necessarily ends) the run: docs/SDK_REFERENCE.md:405.
- A tool that returns None ends the run without `on_agent_done`: SDK_REFERENCE.md:748.
- The model named by the request is sent to a fallback provider too (tool_loop_agent_runner.py:465, 509).
- A stop that timed out leaves the server's runtime in the table; a later stop finds its task done and removes
  nothing (func_tool_manager.py:683).
- Dropping turns may drop the newest request: [u1, a1, u2] less one turn is [u1] (manager.py:20, truncator.py:151).
- A streamed Anthropic call without arguments is lost (anthropic_source.py:506); `Agrees` leaves it out.
- The reasoning of a streamed Anthropic answer without thinking is the empty string (545), that of a whole one None; the step tests
  `is not None` (tool_loop_agent_runner.py:871), so it records an empty ThinkPart for the one only. `RecordedAlike` says so.
- An assistant message of which Anthropic takes nothing is sent without blocks (anthropic_source.py:186).
- A batch without tools records calls without tool messages (tool_loop_agent_runner.py:992). `fix_messages` drops them
  only when a truncation happens to run.
- Two writes within one tick of the file system's clock leave the key of the skills cache as it was (skill_manager.py:377).
- Of two overlapping turns of a chatbot session the later save wins (server.py:322); the chatbot's README.md:13 says that a session keeps its history.
- An answer to the OpenAI source's last attempt is discarded and the error before it raised
  (openai_source.py:1133).
- `remove_func` removes only the first tool of a name.
- A skill whose SKILL.md is written after its directory was made, with a `list_skills` between, is not found: the
  write changes neither of the times the cache key has (skill_manager.py:371). extensions/skills/README.md:67 says
  "下次 `list_skills` 扫到" (the next list_skills finds it).
- `to_path` detaches every temporary file (media_utils.py:680) but returns one path: a downloaded source that was
  converted stays on disk and nobody knows of it.
- Audio of another format under the suffix .wav, which is also the default suffix of audio, is said to be WAV and not
  converted (media_utils.py:1059); `ensure_wav` promises "otherwise the converted WAV path" (1170).
- A call cancelled while it resolves leaves its files: the clean-up is in `except Exception` (media_utils.py:451, 601, 628).

## 4. The proofs

TLC checks small instances; TLAPS proves the following for every value of the constants.

`ToolLoopProofs`, for arbitrary `Tools`, `Ghosts`, `SilentTools`, `Tickets`,
batch sizes and bounds, from `ToolLoopAssumption` alone:

| theorem | property |
|---|---|
| `TypeCorrect` | TypeOK |
| `TicketsResolved` | NoTicketStranded |
| `TicketsDelivered` | ConsumedIsDelivered |
| `EndsAgree` | EndIsConsistent |
| `EndsForGood` | EndIsStable, which no run checks |
| `CallsAnswered` | EveryCallAnswered |
| `Refinement` | LifecycleSpec |
| `DrivesDescend` | DriveDescends, the safety half of DriveReturns; no run checks it |
| `StopsNotMissed` | StopNotMissed, about request_stop; no run checks it |

None of the invariants is inductive alone. `RunInv` joins them with `StateAtSuspension`:
in which states the runner can be at each suspension point. It is what
shows that `BeginStep`, which sets RUNNING blindly, is never reached by an ended run
(`EndIsStable`), that a batch can be in progress in a DONE run only when no response was
kept (so an interruption may still announce it), and that the two hooks awaited around
the end are the only places where an ended run has tickets pending. For the batches,
`BatchInv` says that while the request has tools every call before the current one that is not silent is answered, that
without tools there is no block, and
that the blocks are in order and not beyond the current call; it is proved on top of the
type invariant. Each step lemma has one case per part of Next. TypeOK is proved in two parts,
Boolean fields and data, because they need different provers.

`PlanExecuteProofs`, for arbitrary `Todos` and bounds, from `PlanExecuteAssumption`:

| theorem | property |
|---|---|
| `PlanExecuteTypes` | TypeOK |
| `CursorOnFirstPending` | ExecAtFirstPending |
| `StoreFollowsMemory` | DurableAtBoundary |
| `AnnouncedOnce` | EndIsAnnounced |
| `HealthyPlansComplete` | UnbrokenRunCompletes, for `MaxReplan > 0` |
| `ChildrenEndOnce` | ChildNotRevived |
| `SessionRefinement` | LifecycleSpec |
| `RunsDescend` | RunDescends, the safety half of RunEnds; no run checks it |

`SessionInv` joins the type invariant with the sizes of the plans (the planner submits at
most `MaxPlan` todos, and a harvest only marks one), with `StateAt` and `PhaseAt` (the states
and phases possible at each suspension point) and with the cursor property. That
the cursor is on the first pending todo comes down to `FirstPendingIsFirst`: the least
element of a nonempty set of positions exists, which is the well-foundedness of `<` on the
naturals. On top of `SessionInv` are proved, each by one step lemma:

- `StoreInv` says where store and memory agree. The snapshot is current from `WriteSnapshot`
  on and the mirror from `WriteMirror` on; planner, replanner and veto work on memory
  alone, and the step's persist restores the agreement before the step returns.
- `EndInv` ties the announcement to the stored end. No end is announced at the two writes.
- `UnbrokenInv` carries the history that the replan cap depends on: without a cut, a replan
  after the first since the last harvest follows a veto, and only finished plans are put to
  the veto. A cap of zero would force the completion of a plan at its first replan, so the
  theorem assumes a positive cap; the code's default is 2.
- `ChildInv` and `FinalInv` are the remaining facts of the child's end and the refinement.

`ProviderProofs` has the theorems of three modules. Of ProviderFallback, for arbitrary `Providers`, ids and bounds, from
`ProviderFallbackAssumption`:

| theorem | property |
|---|---|
| `FallbackTypes` | TypeOK |
| `ErrorsAreLast` | EveryCandidateFailed |
| `NamesAreDistinct` | OneOfAName, which no run checks |
| `FallbackForGood` | NoReturnToPrimary |
| `CallRefinement` | LlmCallSpec |
| `CallsDescend` | CallDescends, the safety half of CallEnds; no run checks it |

`FallbackInv` says how the parts of a call are linked: the candidates are the provider the call began
with followed by the fallbacks, the runner's provider is the candidate asked last, and the failed
candidates are exactly those before it. `DistinctFallbacks` is what `reset` establishes; it is
inductive because `Seen` is computed from the fallbacks kept so far. That a run never returns to its
first provider needs all three: the provider changes only to `fallbacks[idx]`, which is not it.

`McpManagerProofs`, for any numbers of servers, clients, calls and tasks, from
`McpClientAssumption` and `McpManagerAssumption`:

| theorem | property |
|---|---|
| `McpTypeCorrect` | TypeOK |
| `OneReconnects` | LockHeld, which no run checks |
| `TablesAlwaysAgree` | TablesAgree |
| `SeveredStays` | SeveredForGood |

`McpInv` joins the types (of the client's part and of the manager's), `CallsOK` (a call under way is one of a client
that has a server), `LockHeld` (a lock is held exactly by the call that reconnects), `HomeOK` (a client without a
server is untouched), `TasksOK` (a task that starts a server has one client, of that server), `StartsOK` (one task at a
time starts a server, its name is taken and it has no runtime) and TablesAgree
itself. The last two depend on each other: a name being started has no runtime, so `Started` overwrites none. Both
hold until a summary has struck out a runtime.

`LocalAgentProofs`, for any skills, plugins, plans, instances, tasks and caps, from
`PluginsAssumption` and `LocalAgentAssumption`:

| theorem | property |
|---|---|
| `LocalTypeCorrect` | TypeOK |
| `CacheStaysFresh` | CacheIsFresh |
| `PluginsAlwaysAgree` | PluginsAgree |
| `PromptStaysCurrent` | PromptIsCurrent |

`AgentInv` is made of one invariant per part, since the parts share no variable: `PluginsInv` (an operation in progress has an instance of its own that no name stands for, and
registry and contributions are as its point of suspension says), `SkillsInv` (a part of a key that still fits was read
after the last change of its part that the time shows, so what was read or found since is what is there), `SessionDataOK`, `FlagOK` and
`PromptInv` (at each hook, what the message says agrees with what the hooks before it have read).

Of OpenAIChat, for any keys, number of attempts and length of the conversation, from `OpenAIChatAssumption`:

| theorem | property |
|---|---|
| `RequestsHeedErrors` | RequestHeedsErrors |
| `KeysAndToolsHeedErrors` | its conjunct about keys and tools, which needs no lists |
| `ChatsDescend` | ChatDescends, the safety half of ChatEnds; no run checks it |

`ErrorInv` says that a key that was rate-limited is no longer available, that rejected tools are neither in the payload
nor asked for again, and that the request under way has the key and the tools these leave. `MessageInv` adds the
messages: the two lists the code keeps, `context_query` and the payload's, are the same once sanitised, which is
what makes popping a record from one of them heed the error in both; and no image comes back once they were removed.

Of Media, for any formats, from `MediaAssumption`:

| theorem | property |
|---|---|
| `FilesAccountedFor` | NothingLeft |
| `FormatAsPromised` | AsPromised |

`MediaInv` says which temporary files there can be at each await and that those are in `cleanup`, or are the ones
the step at hand adds to it (`SourceOK`, `EncodeOK`); when the file is handed out, what there is must be both what will be
removed and what `to_path` would keep (`InHandOK`). `FailsTidily` is the one argument all failures share.

`ContextManagerProofs`, for conversations, answers and configurations of any size, from `ContextManagerAssumption`:

| theorem | property |
|---|---|
| `ContextWellFormed` | WellFormed |
| `SystemPromptKept` | SystemKept |
| `ProvidersAccept` | ProviderAccepts |
| `AnswersAgree` | StreamedAsWhole |

`ContextInv` says that the messages are a `Talk`: numbered in order, the system message in front, the first other
one the user's, no result without its call, and calls next to the results recorded with them. Truncation keeps some of the messages, and a proof about it
follows where each kept one comes from (`Embeds`, an increasing map of positions): what is in order stays so, and two
neighbours that are both kept stay neighbours. `Compacts` is what every truncation and the summary have in common and
composes (`CompactsTwice`), so the steps of `process` need one lemma each. Only `fix_messages` makes the pairs whole
again; `Fixed` shows that it does for any list in which only the assistant calls tools and a request of the user's comes
first. A summary is a new message, which counts as none of the old (`n = 0`).

`ProvidersAccept` follows the loop of `_prepare_payload` message by message: `Matched` says that every list of calls
so far that have results is followed by them, or is the last one and they are still to come. `AnswersAgree` follows the stream
block by block: between two blocks no call is being read, what was shown is what is final, and the calls are those of
the blocks so far that have arguments; with one thinking block at most, the signature is that block's (`SignedIn`).

`ChatbotProofs`, for any sessions, requests, budgets and tools of the server, from `ChatbotAssumption`:

| theorem | property |
|---|---|
| `Typed` | TypeOK |
| `Histories` | HistoryKept |
| `ToolsFound` | ToolsAgree |
| `GetFuncIsGetTool` | the first line of ToolsAgree, for every list of tools of any length |

`ChatbotInv` is `DataInv`, the ranges and what a handler may be at each point of a turn, and `HistoryInv`. `Keeps` says
of a session that its history is `Whole`: made of saved turns in their order, behind one system message. `Owns` says of a
handler under way that what it has read is whole, and that what it has added is its own turn behind that (`Under`). Both
hold though another turn is saved in between (`WholeMore`, `UnderMore`): a turn just saved is in no list read
before. `Alone` is what is left of them for a session whose requests never overlapped: one handler, whose list is
all the turns saved so far. For the tools, `Found` says which of the tools of a name a search from the end finds,
and `Holds` that the set filled from the front has exactly those after every step of the loop.

The operators of these two modules are loops over lists. `Lists.Kept` and the other loops are recursive functions
rather than SelectSeq, FoldLeft or RECURSIVE operators, of which the prover cannot use the definitions. `ListsProofs`
shows once that such a function exists, and what `Kept` returns (`Selects`, `KeptAppend`); `CountUp`, from the
well-foundedness of the naturals, takes the place of induction, whose theorems the prover cannot instantiate.

**Termination, as far as it can be proved.** That something ends has two halves: every step brings the end closer, and
the steps are taken. The second is fairness, which the prover cannot reason about; the first is an action property and
is proved, for any values of the bounds. In `ToolLoop` and `PlanExecute` what is left is a tuple of numbers, compared
lexicographically, and `LowerWellFounded` shows from the library's theorem on such orders that no chain of ever
lower tuples is infinite:

- `DrivesDescend`: steps of step_until_done, the way to the end of a step, calls of the batch, results of the
  executor. Follow-ups and stop requests, which can come at any time, leave it as it is. `MaxResults` stands here for a tool
  whose results end; the code sets no such limit.
- `RunsDescend`: steps below the ceiling, the way to the end of a step, attempts of the planner. A vetoed completion, a
  failed child and a replan all go back to an earlier phase; they descend because the next step is counted before anything
  else. Only the step that trips the ceiling is beyond it, and it ends the run (`LeftBounds`).
- `CallsDescend` and `ChatsDescend`: one number each, the attempts left with this candidate and the later ones, or with
  any key. The errors that change nothing else (a context with no record left to pop) still use an attempt up.

`StopsNotMissed` is what DriveReturns needs of a stop: between the request and the place that looks at it no step of
the batch forgets it.

**Only model-checked.** The liveness properties themselves (`DriveReturns`, `RunEnds`, `CallEnds`, `ChatEnds`,
`NothingHangs`) are out of the prover's reach: they rest on fairness. Every invariant and every action property of the
passing runs is a theorem.

## 5. Not modelled

- Texts (prompts, notices, previews of large results, logging) and statistics; the repeated
  tool-call guidance; the cached-image round trip; the executor task that a cancelled drive
  leaves behind.
- Of media: video, covers, JPEG and compression, the duration of a recording, which no resolver uses. File-system tools,
  logging and configuration: I/O without state that outlives the call.
- Message classes, tool schemas, the wire formats' remaining fields (images' bytes, usage,
  proxies, headers): data conversion.
- The MCP transports, the tests of a connection and the file of MCP configurations; importing
  plugins from directories; the parsing of front matter.
- Handoff to a sub-agent: a ToolLoop run inside a tool's result, of which the outer run sees the text.
- Embedding, speech and rerank providers and the provider registry. Embedding batches are collected in the order
  they complete (provider.py:377); the hazard is listed, no property is stated.
- The chatbot's page and the encoding of its events.

## 6. Plan

1. Core: `AgentLifecycle`, `ToolLoop`, `ToolLoopProofs`. Done.
2. `PlanExecute`, `PlanExecuteProofs`. Done.
3. `LlmCall`, `ProviderFallback`. Done.
4. `McpClient`, `McpManager`, `McpManagerProofs`. Done.
5. `ContextManager`, `AnthropicPayload`, `AnthropicChat`, `Lists`, `ListsProofs`, `ContextManagerProofs`. Done.
6. `OpenAIChat`, `Media`, `ProviderProofs`. Done; embeddings in batches are left.
7. `Skills`, `Plugins`, `LocalAgent`, `LocalAgentProofs`; `ToolSets`, `Chatbot`, `ChatbotProofs`. Done.
8. Left: handoff as a nested run; the file of MCP configurations.
