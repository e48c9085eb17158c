------------------------------ MODULE Chatbot ------------------------------
(***************************************************************************)
(* The chatbot (examples/chatbot/server.py): the application that hosts    *)
(* the runners.  Turns of several sessions run at once; what they share is *)
(* the history of their session, its todo plan, and the store of the /plan *)
(* turns.                                                                  *)
(*                                                                         *)
(* A message of a history is the turn it comes from and its kind.  A run   *)
(* is seen through what it leaves: the messages it appends, what it writes *)
(* to a store, and how it ends.  ToolLoop, PlanExecute and LocalAgent say  *)
(* how it gets there.                                                      *)
(***************************************************************************)
EXTENDS Integers, SequencesExt, ToolSets

CONSTANTS
  Sessions,      \* session ids
  Turns,         \* number of requests (bound)
  Served,        \* names of tools the MCP server may have
  MaxSteps,      \* _MAX_STEPS
  MaxReminders   \* max_reminders of PlanningHook

ASSUME ChatbotAssumption ==
  /\ Turns \in Nat
  /\ MaxSteps \in Nat
  /\ MaxReminders \in Nat
  /\ IsFiniteSet(Served)

VARIABLES
  up,          \* "down", "running", "stopped"
  tools,       \* app["tools"]
  planning,    \* app["plan_store"] exists
  histories,   \* app["histories"]
  plan,        \* plan_store: "open" with unfinished todos, or else "closed"
  phase,       \* plan_execute_store: the turn whose progress it has, or 0
  turn,        \* the handler of each request
  saved,       \* sessions' turns in the order they were saved (ghost)
  overlapped   \* sessions that had two requests at once (ghost)

app == <<up, tools, planning>>
ghosts == <<saved, overlapped>>
vars == <<up, tools, planning, histories, plan, phase, turn, saved, overlapped>>

Ids == 1..Turns
Symmetry == Permutations(Sessions)
Said(t, kind) == [turn |-> t, kind |-> kind]
Kinds == {"system", "user", "assistant", "tool"}

Idle == [at |-> "new", session |-> "none", route |-> "chat", messages |-> <<>>,
         steps |-> 0, reminders |-> 0, tools |-> <<>>]

Active(t) == turn[t].at \in {"prepare", "run", "finish"}
Runs(t, route) == turn[t].at = "run" /\ turn[t].route = route

\* The handler of the request returned.
Over(t) == [turn EXCEPT ![t] = [Idle EXCEPT !.at = "over"]]

-----------------------------------------------------------------------------
(* The server.                                                             *)

Local(name) == Tool(name, TRUE, "local")
FromServer(name) == Tool(name, TRUE, "server")

\* _build_tools: the tools of the server, none when it fails to start, then
\* the local ones; web_search, which may be missing, is left out.
BuildTools(served, withPlanning) ==
  LET local == IF withPlanning THEN <<Local("calculate"), Local("write_todos"), Local("Skill")>>
               ELSE <<Local("calculate"), Local("Skill")>>
  IN AddTools(GetFullToolSet(served), local)

\* A server that starts has all its tools, in any order.
ServedLists ==
  {<<>>} \cup {list \in [1..Cardinality(Served) -> {FromServer(name) : name \in Served}] : IsInjective(list)}

\* The executor of a /plan turn plans through submit_plan alone.
ExecutorTools == RemoveTool(tools, "write_todos")

Init ==
  /\ up = "down"
  /\ tools = <<>>
  /\ planning = FALSE
  /\ histories = [s \in Sessions |-> <<>>]
  /\ plan = [s \in Sessions |-> "closed"]
  /\ phase = [s \in Sessions |-> 0]
  /\ turn = [t \in Ids |-> Idle]
  /\ saved = [s \in Sessions |-> <<>>]
  /\ overlapped = {}

Startup ==
  /\ up = "down"
  /\ up' = "running"
  /\ planning' \in BOOLEAN
  /\ \E served \in ServedLists :
       tools' = BuildTools(served, planning')
  /\ UNCHANGED <<histories, plan, phase, turn, ghosts>>

\* aiohttp lets the handlers end before it cleans up.
Cleanup ==
  /\ up = "running"
  /\ \A t \in Ids : ~Active(t)
  /\ up' = "stopped"
  /\ UNCHANGED <<tools, planning, histories, plan, phase, turn, ghosts>>

-----------------------------------------------------------------------------
(* A request.                                                              *)

Commands == {"nothing", "/plan", "/plan task", "task"}

\* _parse_plan_command: the route and what is left of the message.
Parsed(message) ==
  CASE message = "/plan" -> [route |-> "plan", task |-> "nothing"]
    [] message = "/plan task" -> [route |-> "plan", task |-> "task"]
    [] OTHER -> [route |-> "chat", task |-> message]

\* The messages of the session are read before the response is prepared.
Receive(t, s, message) ==
  /\ up = "running"
  /\ turn[t].at = "new"
  /\ \A u \in 1..(t - 1) : turn[u].at # "new"
  /\ Parsed(message).task # "nothing"
  /\ turn' = [turn EXCEPT ![t] = [Idle EXCEPT !.at = "prepare", !.session = s,
                !.route = Parsed(message).route, !.messages = histories[s]]]
  /\ overlapped' = IF \E u \in Ids : Active(u) /\ turn[u].session = s
                   THEN overlapped \cup {s} ELSE overlapped
  /\ UNCHANGED <<app, histories, plan, phase, saved>>

\* No message, or no task after /plan.
Refuse(t, message) ==
  /\ up = "running"
  /\ turn[t].at = "new"
  /\ \A u \in 1..(t - 1) : turn[u].at # "new"
  /\ Parsed(message).task = "nothing"
  /\ turn' = Over(t)
  /\ UNCHANGED <<app, histories, plan, phase, ghosts>>

\* The client has gone: preparing the response or writing to it raises, and
\* so does writing the error.
Disconnect(t) ==
  /\ Active(t)
  /\ turn' = Over(t)
  /\ UNCHANGED <<app, histories, plan, phase, ghosts>>

\* The run raises: the client gets the error.
Raise(t) ==
  /\ turn[t].at = "run"
  /\ turn' = Over(t)
  /\ UNCHANGED <<app, histories, plan, phase, ghosts>>

-----------------------------------------------------------------------------
(* The rest of chat_handler.                                               *)

\* reset: the messages before and the request, behind the system prompt of the
\* session's first turn.  The hook counts its reminders from zero.
Begin(t) ==
  LET prior == turn[t].messages IN
  /\ turn[t].at = "prepare"
  /\ turn[t].route = "chat"
  /\ turn' = [turn EXCEPT ![t].at = "run",
                ![t].messages = (IF prior = <<>> THEN <<Said(t, "system")>> ELSE prior)
                                \o <<Said(t, "user")>>,
                ![t].tools = tools]
  /\ UNCHANGED <<app, histories, plan, phase, ghosts>>

\* A step of the run that appends these messages; the last step is forced,
\* with a request for a final answer and no tools.
Stepped(t, said) ==
  LET forced == IF turn[t].steps = MaxSteps THEN <<"user">> ELSE <<>>
      kinds == forced \o said
  IN [turn[t] EXCEPT !.steps = @ + 1,
        !.messages = @ \o [i \in DOMAIN kinds |-> Said(t, kinds[i])],
        !.at = IF turn[t].steps = MaxSteps THEN "finish" ELSE "run"]

CallTool(t) ==
  /\ Runs(t, "chat")
  /\ turn[t].steps < MaxSteps
  /\ turn' = [turn EXCEPT ![t] = Stepped(t, <<"assistant", "tool">>)]
  /\ UNCHANGED <<app, histories, plan, phase, ghosts>>

\* The handler of write_todos replaces the plan of the session.
WriteTodos(t) ==
  /\ Runs(t, "chat")
  /\ turn[t].steps < MaxSteps
  /\ "write_todos" \in Names(turn[t].tools)
  /\ plan' \in {[plan EXCEPT ![turn[t].session] = todos] : todos \in {"open", "closed"}}
  /\ turn' = [turn EXCEPT ![t] = Stepped(t, <<"assistant", "tool">>)]
  /\ UNCHANGED <<app, histories, phase, ghosts>>

\* Mutant: reminders without end.
VetoedUncapped(t) == planning /\ plan[turn[t].session] = "open"

\* PlanningHook.on_before_complete
Vetoed(t) ==
  /\ planning
  /\ plan[turn[t].session] = "open"
  /\ turn[t].reminders < MaxReminders

Answer(t) ==
  /\ Runs(t, "chat")
  /\ ~Vetoed(t)
  /\ turn' = [turn EXCEPT ![t] = [Stepped(t, <<"assistant">>) EXCEPT !.at = "finish"]]
  /\ UNCHANGED <<app, histories, plan, phase, ghosts>>

\* The answer is recorded, the reminder follows it and the run goes on.
Remind(t) ==
  /\ Runs(t, "chat")
  /\ Vetoed(t)
  /\ turn' = [turn EXCEPT ![t] = [Stepped(t, <<"assistant", "user">>) EXCEPT !.reminders = @ + 1]]
  /\ UNCHANGED <<app, histories, plan, phase, ghosts>>

\* The run ends in an error, which is a response like another.
Err(t) ==
  /\ Runs(t, "chat")
  /\ turn' = [turn EXCEPT ![t] = [Stepped(t, <<>>) EXCEPT !.at = "finish"]]
  /\ UNCHANGED <<app, histories, plan, phase, ghosts>>

\* Mutant: only the messages of this turn are kept.
SaveTurnOnly(t) ==
  /\ turn[t].at = "finish"
  /\ histories' = [histories EXCEPT ![turn[t].session] =
       SelectSeq(turn[t].messages, LAMBDA m : m.turn = t)]
  /\ saved' = [saved EXCEPT ![turn[t].session] = Append(@, t)]
  /\ turn' = Over(t)
  /\ UNCHANGED <<app, plan, phase, overlapped>>

\* The last event is written, the history replaced; nothing is between that
\* and the handler's end but the writing of "done".
Save(t) ==
  /\ turn[t].at = "finish"
  /\ histories' = [histories EXCEPT ![turn[t].session] = turn[t].messages]
  /\ saved' = [saved EXCEPT ![turn[t].session] = Append(@, t)]
  /\ turn' = Over(t)
  /\ UNCHANGED <<app, plan, phase, overlapped>>

-----------------------------------------------------------------------------
(* _stream_plan_execute.                                                   *)

\* The snapshot is deleted.  The store is in memory, so nothing else runs
\* before PlanExecuteRunner.reset looks for one, finds none and plans afresh.
BeginPlan(t) ==
  /\ turn[t].at = "prepare"
  /\ turn[t].route = "plan"
  /\ phase' = [phase EXCEPT ![turn[t].session] = 0]
  /\ turn' = [turn EXCEPT ![t].at = "run", ![t].messages = <<>>,
                ![t].tools = ExecutorTools]
  /\ UNCHANGED <<app, histories, plan, ghosts>>

\* A step of the runner persists its progress and the todos.
PlanStep(t) ==
  /\ Runs(t, "plan")
  /\ phase' = [phase EXCEPT ![turn[t].session] = t]
  /\ UNCHANGED <<app, histories, plan, turn, ghosts>>

\* The end, a ceiling or an error: "done" is written, the history is not.
EndPlan(t) ==
  /\ Runs(t, "plan")
  /\ turn' = Over(t)
  /\ UNCHANGED <<app, histories, plan, phase, ghosts>>

-----------------------------------------------------------------------------

Handle(t) ==
  \/ \E s \in Sessions, message \in Commands : Receive(t, s, message)
  \/ \E message \in Commands : Refuse(t, message)
  \/ Disconnect(t)
  \/ Raise(t)
  \/ Begin(t)
  \/ CallTool(t)
  \/ WriteTodos(t)
  \/ Answer(t)
  \/ Remind(t)
  \/ Err(t)
  \/ Save(t)
  \/ BeginPlan(t)
  \/ PlanStep(t)
  \/ EndPlan(t)

Next == Startup \/ Cleanup \/ \E t \in Ids : Handle(t)

Spec == Init /\ [][Next]_vars

-----------------------------------------------------------------------------
AnyTool ==
  {Local(name) : name \in {"calculate", "write_todos", "Skill"}} \cup {FromServer(name) : name \in Served}

Msg == [turn: Ids, kind: Kinds]

TurnRecords ==
  [at: {"new", "prepare", "run", "finish", "over"}, session: Sessions \cup {"none"},
   route: {"chat", "plan"}, messages: Seq(Msg), steps: 0..(MaxSteps + 1),
   reminders: 0..MaxReminders, tools: Seq(AnyTool)]

(***************************************************************************)
(* Every field is in its range.  No more reminders are given in a turn     *)
(* than its hook allows, whatever plan other turns left, and no run takes  *)
(* more than one step beyond its budget.                                   *)
(***************************************************************************)
TypeOK ==
  /\ up \in {"down", "running", "stopped"}
  /\ tools \in Seq(AnyTool)
  /\ planning \in BOOLEAN
  /\ histories \in [Sessions -> Seq(Msg)]
  /\ plan \in [Sessions -> {"open", "closed"}]
  /\ phase \in [Sessions -> 0..Turns]
  /\ turn \in [Ids -> TurnRecords]
  /\ saved \in [Sessions -> Seq(Ids)]
  /\ overlapped \subseteq Sessions

\* The turns a history is made of, in order.
TurnsOf(history) ==
  Kept([i \in DOMAIN history |-> history[i].turn],
       {i \in DOMAIN history : i = 1 \/ history[i].turn # history[i - 1].turn})

SystemMessages(history) == {i \in DOMAIN history : history[i].kind = "system"}

(***************************************************************************)
(* server.py:322, "Persist the full turn (prior history + this turn's new  *)
(* messages) for next time": with one request at a time, a session's       *)
(* history is all its finished turns, in their order.  When requests       *)
(* overlap turns are lost, but a history is always whole turns that were   *)
(* saved, each once, in their order, the last one saved among them, behind *)
(* one system prompt; and a turn without an end is never in it.            *)
(***************************************************************************)
HistoryKept ==
  \A s \in Sessions :
    LET turns == TurnsOf(histories[s]) IN
    /\ s \notin overlapped => turns = saved[s]
    /\ turns = Kept(saved[s], {i \in DOMAIN saved[s] : saved[s][i] \in ToSet(turns)})
    /\ saved[s] # <<>> => Last(turns) = Last(saved[s])
    /\ SystemMessages(histories[s]) = IF saved[s] = <<>> THEN {} ELSE {1}

\* Lists of tools as FunctionToolManager may have them.
ToolLists == UNION {[1..n -> {Tool(name, active, from) : name \in Served, active \in BOOLEAN, from \in 1..2}] :
                      n \in 0..3}

GetFuncAgrees ==
  \A list \in ToolLists :
    /\ \A name \in Served : GetFunc(list, name) = GetTool(GetFullToolSet(list), name)
    /\ Names(ActiveTools(GetFullToolSet(list))) = Names(ActiveTools(list))
    /\ \A name \in Served :
         LET func == Tool(name, TRUE, 0) IN GetFunc(AddFunc(list, func), name) = {func}

(***************************************************************************)
(* func_tool_manager.py:310: get_func finds what get_full_tool_set has     *)
(* under the name, whichever tools were loaded and deactivated, and a tool *)
(* just added though others of its name were left in the list.  The tools  *)
(* of the server that runs have each name once, and the local tools are    *)
(* among them though the MCP server may have tools of their names.         *)
(***************************************************************************)
ToolsAgree ==
  /\ up = "down" => GetFuncAgrees
  /\ up = "running" =>
       /\ \A name \in Names(tools) : Cardinality(Named(tools, name)) = 1
       /\ \A name \in {"calculate", "Skill"} : GetTool(tools, name) = {Local(name)}
=============================================================================
