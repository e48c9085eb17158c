----------------------------- MODULE McpManager -----------------------------
(***************************************************************************)
(* FunctionToolManager's MCP servers (tools/func_tool_manager.py): tasks   *)
(* of the host that start, stop and initialise servers while the clients   *)
(* of McpClient connect, lose their connections and serve calls.           *)
(*                                                                         *)
(* The sections under _runtime_lock contain no await, so each is part of   *)
(* the action around it.  The list of tools is abstracted to the client    *)
(* whose MCPTools it holds for each server.                                *)
(***************************************************************************)
EXTENDS McpClient

CONSTANTS
  Servers,   \* names of servers
  NoServer,  \* the home of a client not created yet
  NoClient,  \* no runtime, or no tools
  Tasks      \* start and stop operations, a task each, numbered as they come

ASSUME McpManagerAssumption ==
  /\ NoServer \notin Servers
  /\ NoClient \notin Clients
  /\ Tasks \subseteq Nat

VARIABLES
  starting,  \* _mcp_starting
  runtime,   \* client of _mcp_server_runtime[s]
  tools,     \* client of the MCPTools of s in func_list
  home,      \* server each client was created for
  lifecycle, \* where each client's lifecycle task is
  signalled, \* clients whose shutdown_event is set
  closing,   \* client and stack that the lifecycle task of a client closes
  task,      \* the host's operations
  struck     \* clients whose runtime an initialisation's summary removed

tables == <<starting, runtime, tools, home>>
ends == <<lifecycle, signalled, closing>>
vars == <<clientVars, tables, ends, task, struck>>

Idle == [pc |-> "idle", server |-> NoServer, clients |-> {}, how |-> "none"]
NothingClosing == [client |-> NoClient, stack |-> 0]
Running(c) == lifecycle[c] \in {"waiting", "closing"}
TheClient(t) == CHOOSE c \in task[t].clients : TRUE

Init ==
  /\ ClientInit
  /\ starting = {}
  /\ runtime = [s \in Servers |-> NoClient]
  /\ tools = [s \in Servers |-> NoClient]
  /\ home = [c \in Clients |-> NoServer]
  /\ lifecycle = [c \in Clients |-> "none"]
  /\ signalled = {}
  /\ closing = [c \in Clients |-> NothingClosing]
  /\ task = [t \in Tasks |-> Idle]
  /\ struck = {}

Goto(t, pc) == task' = [task EXCEPT ![t].pc = pc]
\* The operation is over; its result or error is the host's.
End(t) == task' = [task EXCEPT ![t] = [Idle EXCEPT !.pc = "ended"]]

-----------------------------------------------------------------------------
(* Starting a server: enable_mcp_server, or one of init_mcp_clients.       *)

\* A new MCPClient starts to connect.
Create(t, s, how) ==
  /\ starting' = starting \cup {s}
  /\ \E c \in Clients :
       /\ home[c] = NoServer
       /\ \A x \in Clients : x < c => home[x] # NoServer
       /\ home' = [home EXCEPT ![c] = s]
       /\ stack' = [stack EXCEPT ![c] = 1]
       /\ link' = [link EXCEPT ![c] = "opening"]
       /\ task' = [task EXCEPT ![t] =
            [pc |-> "connect", server |-> s, clients |-> {c}, how |-> how]]
  /\ UNCHANGED <<session, live, lock, call, deaths, runtime, tools, ends, struck>>

\* A server that runs or is being started is left as it is.
Start(t, s, how) ==
  /\ task[t].pc = "idle"
  /\ IF runtime[s] # NoClient \/ s \in starting
     THEN /\ End(t)
          /\ UNCHANGED <<clientVars, tables, ends, struck>>
     ELSE Create(t, s, how)

\* The tools are listed: tools, lifecycle task and runtime are registered.
Started(t) ==
  LET c == TheClient(t)
      s == task[t].server
  IN
  /\ task[t].pc = "connect"
  /\ Linked(c)
  /\ tools' = [tools EXCEPT ![s] = c]
  /\ runtime' = [runtime EXCEPT ![s] = c]
  /\ lifecycle' = [lifecycle EXCEPT ![c] = "waiting"]
  /\ starting' = starting \ {s}
  /\ End(t)
  /\ UNCHANGED <<stack, session, live, lock, call, deaths, home, signalled, closing, struck>>

\* An error, the timeout, or the host cancels.
StartFails(t) ==
  /\ task[t].pc = "connect"
  /\ LinkBroken(TheClient(t))
  /\ Goto(t, "cleanup")
  /\ UNCHANGED <<stack, session, live, lock, call, deaths, tables, ends, struck>>

\* The exit stack is closed; an error of that is only logged.
Close(c, n) == \E open \in {live[c], live[c] \ {n}} : live' = [live EXCEPT ![c] = open]

CleanedUp(t) ==
  LET c == TheClient(t) IN
  /\ task[t].pc = "cleanup"
  /\ Close(c, stack[c])
  /\ starting' = starting \ {task[t].server}
  /\ IF task[t].how = "init" THEN Goto(t, "gather") ELSE End(t)
  /\ UNCHANGED <<stack, session, link, lock, call, deaths, runtime, tools, home, ends, struck>>

\* init_mcp_clients, once the slowest server is there, removes the runtime of
\* each server that failed: by now it may have been started by another task.
Summarise(t) ==
  LET s == task[t].server IN
  /\ task[t].pc = "gather"
  /\ runtime' = [runtime EXCEPT ![s] = NoClient]
  /\ struck' = struck \cup ({runtime[s]} \ {NoClient})
  /\ End(t)
  /\ UNCHANGED <<clientVars, starting, tools, home, ends>>

-----------------------------------------------------------------------------
(* Stopping: disable_mcp_server(s), disable_mcp_server().                  *)

\* Nothing to wait for: no runtime, or its lifecycle task is done, maybe
\* cancelled before it removed the runtime.
Disable(t, S) ==
  LET cs == {runtime[s] : s \in S} \ {NoClient} IN
  /\ task[t].pc = "idle"
  /\ IF \E c \in cs : Running(c)
     THEN /\ signalled' = signalled \cup cs
          /\ task' = [task EXCEPT ![t] =
               [pc |-> "wait", server |-> NoServer, clients |-> cs, how |-> "stop"]]
     ELSE /\ End(t)
          /\ UNCHANGED signalled
  /\ UNCHANGED <<clientVars, tables, lifecycle, closing, struck>>

Stop(t) ==
  \/ \E s \in Servers : Disable(t, {s})
  \/ Disable(t, Servers)

\* Mutant: the runtime table is waited for and not the tasks.
AllRemoved(t) == \A c \in task[t].clients : \A s \in Servers : runtime[s] # c

AllEnded(t) == \A c \in task[t].clients : ~Running(c)

\* A shutdown_event given to enable_mcp_server is set by its owner.
HostSignals(c) ==
  /\ lifecycle[c] = "waiting"
  /\ c \notin signalled
  /\ signalled' = signalled \cup {c}
  /\ UNCHANGED <<clientVars, tables, lifecycle, closing, task, struck>>

\* _terminate_mcp_client looks the client up by the name of its server.
Terminate(c) ==
  LET s == home[c]
      r == runtime[s]
  IN
  /\ lifecycle[c] = "waiting"
  /\ c \in signalled
  /\ IF r = NoClient
     THEN /\ tools' = [tools EXCEPT ![s] = NoClient]
          /\ starting' = starting \ {s}
          /\ lifecycle' = [lifecycle EXCEPT ![c] = "done"]
          /\ UNCHANGED closing
     ELSE /\ lifecycle' = [lifecycle EXCEPT ![c] = "closing"]
          /\ closing' = [closing EXCEPT ![c] = [client |-> r, stack |-> stack[r]]]
          /\ UNCHANGED <<tools, starting>>
  /\ UNCHANGED <<clientVars, runtime, home, signalled, task, struck>>

\* Mutant: the tools of the stopped client stay in func_list.
TerminatedWithTools(c) ==
  LET s == home[c] IN
  /\ lifecycle[c] = "closing"
  /\ Close(closing[c].client, closing[c].stack)
  /\ closing' = [closing EXCEPT ![c] = NothingClosing]
  /\ runtime' = [runtime EXCEPT ![s] = NoClient]
  /\ starting' = starting \ {s}
  /\ lifecycle' = [lifecycle EXCEPT ![c] = "done"]
  /\ UNCHANGED <<stack, session, link, lock, call, deaths, tools, home, signalled, task, struck>>

\* The stack is closed: tools, runtime and name are removed.
Terminated(c) ==
  LET s == home[c] IN
  /\ lifecycle[c] = "closing"
  /\ Close(closing[c].client, closing[c].stack)
  /\ closing' = [closing EXCEPT ![c] = NothingClosing]
  /\ tools' = [tools EXCEPT ![s] = NoClient]
  /\ runtime' = [runtime EXCEPT ![s] = NoClient]
  /\ starting' = starting \ {s}
  /\ lifecycle' = [lifecycle EXCEPT ![c] = "done"]
  /\ UNCHANGED <<stack, session, link, lock, call, deaths, home, signalled, task, struck>>

\* wait_for cancels the lifecycle tasks: one that is closing its client is
\* left there, one that still waits closes it all the same.  Some of what it
\* was closing may be closed.
ShutdownTimesOut(t) ==
  /\ task[t].pc = "wait"
  /\ ~AllEnded(t)
  /\ signalled' = signalled \cup task[t].clients
  /\ lifecycle' = [c \in Clients |->
       IF c \in task[t].clients /\ lifecycle[c] = "closing" THEN "cancelled" ELSE lifecycle[c]]
  /\ \E closed \in SUBSET {c \in task[t].clients : lifecycle[c] = "closing"} :
       live' = [c \in Clients |-> live[c] \ {closing[x].stack : x \in {y \in closed : closing[y].client = c}}]
  /\ Goto(t, "cancelling")
  /\ UNCHANGED <<stack, session, link, lock, call, deaths, tables, closing, struck>>

\* Every lifecycle task waited for is done; after a timeout, the stop of one
\* server raises, and a later one finds nothing to wait for and does not.
ShutdownOver(t) ==
  /\ task[t].pc \in {"wait", "cancelling"}
  /\ AllEnded(t)
  /\ End(t)
  /\ UNCHANGED <<clientVars, tables, ends, struck>>

-----------------------------------------------------------------------------

ManagerTask(t) ==
  \/ Started(t)
  \/ StartFails(t)
  \/ CleanedUp(t)
  \/ Summarise(t)
  \/ ShutdownTimesOut(t)
  \/ ShutdownOver(t)

Lifecycle(c) == Terminate(c) \/ Terminated(c)

CallStep ==
  /\ \/ \E c \in Clients : Linking(c)
     \/ \E k \in Calls : CallRuns(k)
  /\ UNCHANGED <<tables, ends, task, struck>>

\* What a connection and the callers do to a client.
Environment ==
  /\ \/ \E c \in Clients : ConnectionLost(c)
     \/ \E k \in Calls : CancelCall(k)
     \/ \E k \in Calls, c \in Clients : lifecycle[c] # "none" /\ Send(k, c)
  /\ UNCHANGED <<tables, ends, task, struck>>

HostAsks(t) ==
  /\ \A u \in Tasks : u < t => task[u].pc # "idle"
  /\ Stop(t) \/ \E s \in Servers, how \in {"enable", "init"} : Start(t, s, how)

\* What goes on in the event loop once it is asked for.
Work ==
  \/ CallStep
  \/ \E t \in Tasks : ManagerTask(t)
  \/ \E c \in Clients : Lifecycle(c)

Next ==
  \/ Work
  \/ Environment
  \/ \E t \in Tasks : HostAsks(t)
  \/ \E c \in Clients : HostSignals(c)

Spec == Init /\ [][Next]_vars

\* The event loop goes on as long as anything it awaits can end: a session
\* answers, fails or times out; closing a stack ends, or the timeout of who
\* waits for it does.  Nobody has to ask, cancel, set an event or lose a
\* connection.
FairSpec == Spec /\ WF_vars(Work)

-----------------------------------------------------------------------------
(***************************************************************************)
(* Every field is in its range; a call makes at most Attempts attempts.    *)
(***************************************************************************)
TypeOK ==
  /\ stack \in [Clients -> Nat]
  /\ session \in [Clients -> Nat]
  /\ live \in [Clients -> SUBSET Nat]
  /\ link \in [Clients -> {"none", "opening", "initializing", "listing"}]
  /\ lock \in [Clients -> Calls \cup {NoCall}]
  /\ call \in [Calls -> [pc: {"over", "unsent", "calling", "locked", "reconnect", "sleep"},
                         client: Clients \cup {NoCall}, attempt: 0..Attempts, used: Nat]]
  /\ deaths \in 0..MaxDeaths
  /\ starting \in SUBSET Servers
  /\ runtime \in [Servers -> Clients \cup {NoClient}]
  /\ tools \in [Servers -> Clients \cup {NoClient}]
  /\ home \in [Clients -> Servers \cup {NoServer}]
  /\ lifecycle \in [Clients -> {"none", "waiting", "closing", "done", "cancelled"}]
  /\ signalled \in SUBSET Clients
  /\ closing \in [Clients -> [client: Clients \cup {NoClient}, stack: Nat]]
  /\ task \in [Tasks -> [pc: {"idle", "ended", "connect", "cleanup", "gather", "wait", "cancelling"},
                         server: Servers \cup {NoServer}, clients: SUBSET Clients,
                         how: {"none", "enable", "init", "stop"}]]
  /\ struck \in SUBSET Clients

IsStarting(t) == task[t].pc \in {"connect", "cleanup"}

(***************************************************************************)
(* The runtime table, the list of tools and _mcp_starting change under     *)
(* different steps of the host's tasks.  A name in _mcp_starting stands    *)
(* for a task that is starting the server, so a start that failed does not *)
(* keep it from being started.  As long as no initialisation's summary has *)
(* struck out a server started meanwhile (func_tool_manager.py:431), table *)
(* and tools agree, a client that runs, is being closed or was given up    *)
(* while being closed is the one in the table, and a lifecycle task closes *)
(* its own client.                                                         *)
(***************************************************************************)
TablesAgree ==
  /\ \A s \in starting : \E t \in Tasks : task[t].server = s /\ IsStarting(t)
  /\ struck = {} =>
       /\ tools = runtime
       /\ \A c \in Clients :
            /\ lifecycle[c] \in {"waiting", "closing", "cancelled"} => runtime[home[c]] = c
            /\ lifecycle[c] = "closing" => closing[c].client = c

(***************************************************************************)
(* A reconnection drops the session first (mcp_client.py:547), and one     *)
(* that fails or is cancelled does not restore it: a client that has no    *)
(* session, with no call that could still find it closed, never has one    *)
(* again, and serves no call, however often its tools are used.            *)
(***************************************************************************)
Severed(c) ==
  /\ stack[c] > 0
  /\ session[c] = 0
  /\ link[c] = "none"
  /\ \A k \in Calls : call[k].client = c => call[k].pc = "sleep"

SeveredForGood == [][\A c \in Clients : Severed(c) => Severed(c)']_vars

Busy(t) == task[t].pc \notin {"ended", "idle"}

(***************************************************************************)
(* No call waits for ever, not for the lock of a call that was cancelled   *)
(* nor from one attempt to the next; and every start and stop returns or   *)
(* raises, also when stops of the same server overlap and cancel each      *)
(* other's lifecycle tasks.                                                *)
(***************************************************************************)
NothingHangs ==
  /\ (\E k \in Calls : InFlight(k)) ~> (\A k \in Calls : ~InFlight(k))
  /\ (\E t \in Tasks : Busy(t)) ~> (\A t \in Tasks : ~Busy(t))
=============================================================================
