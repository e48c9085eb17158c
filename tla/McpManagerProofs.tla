-------------------------- MODULE McpManagerProofs --------------------------
(***************************************************************************)
(* Theorems about McpManager for any clients, calls, servers and tasks.    *)
(***************************************************************************)
EXTENDS McpManager, TLAPS

CallRecord ==
  [pc: {"over", "unsent", "calling", "locked", "reconnect", "sleep"},
   client: Clients \cup {NoCall}, attempt: 0..Attempts, used: Nat]

TaskRecord ==
  [pc: {"idle", "ended", "connect", "cleanup", "gather", "wait", "cancelling"},
   server: Servers \cup {NoServer}, clients: SUBSET Clients,
   how: {"none", "enable", "init", "stop"}]

(* TypeOK, the part of McpClient and the part of the tables.               *)
ClientTypeOK ==
  /\ stack \in [Clients -> Nat]
  /\ session \in [Clients -> Nat]
  /\ live \in [Clients -> SUBSET Nat]
  /\ link \in [Clients -> {"none", "opening", "initializing", "listing"}]
  /\ lock \in [Clients -> Calls \cup {NoCall}]
  /\ call \in [Calls -> CallRecord]
  /\ deaths \in 0..MaxDeaths

TablesTypeOK ==
  /\ starting \in SUBSET Servers
  /\ runtime \in [Servers -> Clients \cup {NoClient}]
  /\ tools \in [Servers -> Clients \cup {NoClient}]
  /\ home \in [Clients -> Servers \cup {NoServer}]
  /\ lifecycle \in [Clients -> {"none", "waiting", "closing", "done", "cancelled"}]
  /\ signalled \in SUBSET Clients
  /\ closing \in [Clients -> [client: Clients \cup {NoClient}, stack: Nat]]
  /\ task \in [Tasks -> TaskRecord]
  /\ struck \in SUBSET Clients

(* A call under way is a call of a client that has a server; one that      *)
(* waits for another attempt has one left.                                 *)
CallsOK ==
  \A k \in Calls :
    /\ InFlight(k) => call[k].client \in Clients /\ home[call[k].client] # NoServer
    /\ ~InFlight(k) => call[k].client = NoCall
    /\ call[k].pc = "sleep" => call[k].attempt < Attempts

(* _reconnect (mcp_client.py:515): one call at a time replaces the         *)
(* connection of a client, and it is the one that holds the lock.          *)
LockHeld ==
  \A c \in Clients, k \in Calls :
    lock[c] = k <=> call[k].pc = "reconnect" /\ call[k].client = c

(* Clients without a server are untouched; a lifecycle task that closes    *)
(* closes some client.                                                     *)
HomeOK ==
  \A c \in Clients :
    /\ home[c] = NoServer => stack[c] = 0 /\ lifecycle[c] = "none"
    /\ lifecycle[c] = "closing" => closing[c].client \in Clients

(* A task that starts a server has one client of that server.              *)
TasksOK ==
  \A t \in Tasks :
    /\ IsStarting(t) => \E c \in Clients :
         task[t].clients = {c} /\ home[c] = task[t].server
    /\ IsStarting(t) \/ task[t].pc = "gather" => task[t].server \in Servers

(* Until a summary has struck out a runtime, a server is started by one    *)
(* task at a time, its name is taken and it has no runtime.                *)
StartsOK ==
  struck = {} =>
    \A t \in Tasks : IsStarting(t) =>
      /\ task[t].server \in starting
      /\ runtime[task[t].server] = NoClient
      /\ \A u \in Tasks : IsStarting(u) /\ task[u].server = task[t].server => u = t

McpInv ==
  /\ ClientTypeOK
  /\ TablesTypeOK
  /\ CallsOK
  /\ LockHeld
  /\ HomeOK
  /\ TasksOK
  /\ StartsOK
  /\ TablesAgree

-----------------------------------------------------------------------------
(* At first nothing runs.                                                  *)
LEMMA InitInv == Init => McpInv
  <1> SUFFICES ASSUME Init PROVE McpInv
    OBVIOUS
  <1> USE McpClientAssumption, McpManagerAssumption DEF Init, ClientInit
  <1>1. ClientTypeOK
    BY DEF ClientTypeOK, CallRecord, Unsent, Attempts
  <1>2. TablesTypeOK
    BY DEF TablesTypeOK, TaskRecord, Idle, NothingClosing
  <1>3. CallsOK
    BY DEF CallsOK, InFlight, Unsent
  <1>4. LockHeld
    BY DEF LockHeld, Unsent
  <1>5. HomeOK
    BY DEF HomeOK
  <1>6. TasksOK /\ StartsOK
    BY DEF TasksOK, StartsOK, IsStarting, Idle
  <1>7. TablesAgree
    BY DEF TablesAgree
  <1> QED BY <1>1, <1>2, <1>3, <1>4, <1>5, <1>6, <1>7 DEF McpInv

-----------------------------------------------------------------------------
(* What calls and connections do leaves the tables alone.                  *)
LEMMA TablesKept ==
  ASSUME McpInv, UNCHANGED <<tables, ends, task, struck>>,
         \A c \in Clients : home[c] = NoServer => stack'[c] = stack[c]
  PROVE  TablesTypeOK' /\ HomeOK' /\ TasksOK' /\ StartsOK' /\ TablesAgree'
  <1> USE DEF tables, ends, McpInv
  <1>1. TablesTypeOK'
    BY DEF TablesTypeOK
  <1>2. HomeOK'
    BY DEF HomeOK
  <1>3. TasksOK' /\ StartsOK'
    BY DEF TasksOK, StartsOK, IsStarting
  <1>4. TablesAgree'
    BY DEF TablesAgree, IsStarting
  <1> QED BY <1>1, <1>2, <1>3, <1>4

(* What changes a connection leaves the calls alone.                       *)
LEMMA CallsKept ==
  ASSUME McpInv, UNCHANGED <<call, lock>>,
         \A c \in Clients : home[c] # NoServer => home'[c] # NoServer
  PROVE  CallsOK' /\ LockHeld'
  <1>1. CallsOK'
    BY DEF McpInv, CallsOK, InFlight
  <1>2. LockHeld'
    BY DEF McpInv, LockHeld
  <1> QED BY <1>1, <1>2

(* A call that changes outside _reconnect.                                 *)
LEMMA CallMoves ==
  ASSUME McpInv, NEW k \in Calls, NEW r \in CallRecord,
         call' = [call EXCEPT ![k] = r], home' = home,
         r.pc \in {"unsent", "over"} => r.client = NoCall,
         r.pc \notin {"unsent", "over"} => r.client \in Clients /\ home[r.client] # NoServer,
         r.pc = "sleep" => r.attempt < Attempts
  PROVE  CallsOK' /\ call' \in [Calls -> CallRecord]
  <1>1. call' \in [Calls -> CallRecord]
    BY DEF McpInv, ClientTypeOK
  <1>2. \A j \in Calls : call'[j] = IF j = k THEN r ELSE call[j]
    BY DEF McpInv, ClientTypeOK
  <1>3. CallsOK'
    BY <1>2 DEF McpInv, CallsOK, InFlight
  <1> QED BY <1>1, <1>3

(* A connection is entered, initialised or lost.                           *)
LEMMA ConnectionSteps ==
  ASSUME McpInv, NEW c \in Clients, Linking(c) \/ ConnectionLost(c),
         UNCHANGED <<tables, ends, task, struck>>
  PROVE  McpInv'
  <1>1. ClientTypeOK'
    <2> USE DEF McpInv, ClientTypeOK
    <2>1. CASE Opens(c)
      BY <2>1 DEF Opens
    <2>2. CASE Initialized(c)
      BY <2>2 DEF Initialized
    <2>3. CASE ConnectionLost(c)
      BY <2>3, McpClientAssumption DEF ConnectionLost
    <2> QED BY <2>1, <2>2, <2>3 DEF Linking
  <1>2. UNCHANGED <<call, lock, stack>>
    BY DEF Linking, Opens, Initialized, ConnectionLost
  <1>3. CallsOK' /\ LockHeld'
    BY <1>2, CallsKept DEF tables
  <1> QED BY <1>1, <1>2, <1>3, TablesKept DEF McpInv

(* A call begins or goes on with an attempt, or is over, without the lock. *)
LEMMA CallSteps ==
  ASSUME McpInv, NEW k \in Calls, UNCHANGED <<tables, ends, task, struck>>,
         \/ \E c \in Clients : lifecycle[c] # "none" /\ Send(k, c)
         \/ CallAnswered(k)
         \/ NextAttempt(k)
  PROVE  McpInv'
  <1> USE McpClientAssumption
  <1>1. UNCHANGED <<stack, session, live, link, lock, deaths>>
    BY DEF Send, CallAnswered, NextAttempt
  <1>2. \A c \in Clients : lifecycle[c] # "none" => home[c] # NoServer
    BY DEF McpInv, HomeOK
  <1>3. call[k].pc # "reconnect"
    BY DEF Send, CallAnswered, NextAttempt
  <1>4. call[k] \in CallRecord /\ session \in [Clients -> Nat]
    BY DEF McpInv, ClientTypeOK
  <1>5. PICK r \in CallRecord :
          /\ call' = [call EXCEPT ![k] = r]
          /\ r.pc \in {"over", "calling"}
          /\ r.pc = "over" => r.client = NoCall
          /\ r.pc = "calling" => r.client \in Clients /\ home[r.client] # NoServer
    <2> DEFINE Try(c, n) == IF session[c] = 0 THEN Over
                            ELSE [pc |-> "calling", client |-> c, attempt |-> n, used |-> session[c]]
    <2>1. Over \in CallRecord /\ Over.pc = "over" /\ Over.client = NoCall
      BY DEF Over, Unsent, CallRecord, Attempts
    <2>2. \A c \in Clients, n \in 0..Attempts :
            /\ Try(c, n) \in CallRecord
            /\ Try(c, n).pc \in {"over", "calling"}
            /\ Try(c, n).pc = "over" => Try(c, n).client = NoCall
            /\ Try(c, n).pc = "calling" => Try(c, n).client = c
      BY <1>4, <2>1 DEF CallRecord
    <2>3. CASE \E c \in Clients : lifecycle[c] # "none" /\ Send(k, c)
      <3>1. PICK c \in Clients : lifecycle[c] # "none" /\ Send(k, c)
        BY <2>3
      <3>2. call' = [call EXCEPT ![k] = Try(c, 1)]
        BY <3>1 DEF Send, Attempt
      <3>3. 1 \in 0..Attempts
        BY DEF Attempts
      <3>4. home[c] # NoServer
        BY <1>2, <3>1
      <3>5. /\ Try(c, 1) \in CallRecord
            /\ Try(c, 1).pc \in {"over", "calling"}
            /\ Try(c, 1).pc = "over" => Try(c, 1).client = NoCall
            /\ Try(c, 1).pc = "calling" =>
                 Try(c, 1).client \in Clients /\ home[Try(c, 1).client] # NoServer
        BY <2>2, <3>3, <3>4
      <3> HIDE DEF Try
      <3> USE <3>5
      <3> WITNESS Try(c, 1) \in CallRecord
      <3> QED BY <3>2
    <2>4. CASE CallAnswered(k)
      BY <2>1, <2>4 DEF CallAnswered
    <2>5. CASE NextAttempt(k)
      <3>1. call[k].client \in Clients /\ home[call[k].client] # NoServer /\ call[k].attempt < Attempts
        BY <2>5 DEF NextAttempt, McpInv, CallsOK, InFlight
      <3>2. call[k].attempt + 1 \in 0..Attempts
        BY <1>4, <3>1 DEF CallRecord, Attempts
      <3>3. call' = [call EXCEPT ![k] = Try(call[k].client, call[k].attempt + 1)]
        BY <2>5 DEF NextAttempt, Attempt
      <3> DEFINE n == call[k].attempt + 1
      <3>4. /\ Try(call[k].client, n) \in CallRecord
            /\ Try(call[k].client, n).pc \in {"over", "calling"}
            /\ Try(call[k].client, n).pc = "over" => Try(call[k].client, n).client = NoCall
            /\ Try(call[k].client, n).pc = "calling" =>
                 /\ Try(call[k].client, n).client \in Clients
                 /\ home[Try(call[k].client, n).client] # NoServer
        BY <2>2, <3>1, <3>2
      <3> HIDE DEF Try
      <3> USE <3>4
      <3> WITNESS Try(call[k].client, n) \in CallRecord
      <3> QED BY <3>3
    <2> QED BY <2>3, <2>4, <2>5
  <1>6. CallsOK' /\ call' \in [Calls -> CallRecord]
    BY <1>5, CallMoves DEF tables
  <1>7. ClientTypeOK'
    BY <1>1, <1>6 DEF McpInv, ClientTypeOK
  <1>8. LockHeld'
    BY <1>1, <1>3, <1>5 DEF McpInv, LockHeld, ClientTypeOK
  <1> QED BY <1>1, <1>6, <1>7, <1>8, TablesKept DEF McpInv

(* A call takes the lock and drops the session, or waits for the lock.     *)
LEMMA LockSteps ==
  ASSUME McpInv, NEW k \in Calls, UNCHANGED <<tables, ends, task, struck>>,
         CallFindsClosed(k) \/ LockAcquired(k)
  PROVE  McpInv'
  <1> USE McpClientAssumption
  <1> DEFINE c == call[k].client
             w == [call[k] EXCEPT !.pc = "locked", !.used = 0]
             r == [call[k] EXCEPT !.pc = "reconnect", !.used = 0]
  <1>1. call[k] \in CallRecord /\ call \in [Calls -> CallRecord] /\ call[k].pc \in {"calling", "locked"}
    BY DEF McpInv, ClientTypeOK, CallFindsClosed, LockAcquired
  <1>2. c \in Clients /\ home[c] # NoServer
    BY <1>1 DEF McpInv, CallsOK, InFlight
  <1>3. /\ w \in CallRecord /\ w.pc = "locked" /\ w.client = c
        /\ r \in CallRecord /\ r.pc = "reconnect" /\ r.client = c
    BY <1>1 DEF CallRecord
  <1>4. CASE Reconnect(k)
    <2>1. call' = [call EXCEPT ![k] = r]
      BY <1>1, <1>4 DEF Reconnect, Wait, CallRecord
    <2>2. CallsOK' /\ call' \in [Calls -> CallRecord]
      BY <1>2, <1>3, <2>1, CallMoves DEF tables
    <2>3. ClientTypeOK'
      BY <1>2, <1>4, <2>2 DEF McpInv, ClientTypeOK, Reconnect
    <2>4. \A j \in Calls : call'[j] = IF j = k THEN r ELSE call[j]
      BY <1>1, <2>1
    <2>5. \A d \in Clients : lock'[d] = IF d = c THEN k ELSE lock[d]
      BY <1>4 DEF Reconnect, McpInv, ClientTypeOK
    <2>6. LockHeld'
      <3> SUFFICES ASSUME NEW d \in Clients, NEW j \in Calls
                   PROVE  lock'[d] = j <=> call'[j].pc = "reconnect" /\ call'[j].client = d
        BY DEF LockHeld
      <3>1. lock[d] = j <=> call[j].pc = "reconnect" /\ call[j].client = d
        BY DEF McpInv, LockHeld
      <3>2. lock[c] = NoCall
        BY <1>4 DEF Reconnect
      <3> HIDE DEF r
      <3> QED BY <1>1, <1>3, <2>4, <2>5, <3>1, <3>2
    <2>7. \A d \in Clients : home[d] = NoServer => stack'[d] = stack[d]
      BY <1>2, <1>4 DEF Reconnect, McpInv, ClientTypeOK
    <2> QED BY <2>2, <2>3, <2>6, <2>7, TablesKept DEF McpInv
  <1>5. CASE CallFindsClosed(k) /\ ~Reconnect(k)
    <2>1. UNCHANGED <<stack, session, live, link, lock, deaths>>
      BY <1>5 DEF CallFindsClosed
    <2>2. call' = [call EXCEPT ![k] = w]
      BY <1>1, <1>5 DEF CallFindsClosed, Wait, CallRecord
    <2>3. CallsOK' /\ call' \in [Calls -> CallRecord]
      BY <1>2, <1>3, <2>2, CallMoves DEF tables
    <2>4. ClientTypeOK'
      BY <2>1, <2>3 DEF McpInv, ClientTypeOK
    <2>5. LockHeld'
      BY <1>1, <1>3, <2>1, <2>2 DEF McpInv, LockHeld
    <2> QED BY <2>1, <2>3, <2>4, <2>5, TablesKept DEF McpInv
  <1> QED BY <1>4, <1>5 DEF LockAcquired

(* A call gives the lock back, or is cancelled without it.                 *)
LEMMA ReleaseSteps ==
  ASSUME McpInv, NEW k \in Calls, UNCHANGED <<tables, ends, task, struck>>,
         Reconnected(k) \/ ReconnectFails(k) \/ CancelCall(k)
  PROVE  McpInv'
  <1> USE McpClientAssumption
  <1> DEFINE c == call[k].client
  <1>1. call[k] \in CallRecord /\ call \in [Calls -> CallRecord] /\ InFlight(k)
    BY DEF McpInv, ClientTypeOK, Reconnected, ReconnectFails, CancelCall, InFlight
  <1>2. c \in Clients /\ home[c] # NoServer
    BY <1>1 DEF McpInv, CallsOK
  <1>3. Over \in CallRecord /\ Over.pc = "over" /\ Over.client = NoCall
    BY DEF Over, Unsent, CallRecord, Attempts
  <1>4. /\ Retried(k) \in CallRecord
        /\ \/ Retried(k) = Over
           \/ Retried(k).pc = "sleep" /\ Retried(k).client = c /\ Retried(k).attempt < Attempts
    BY <1>1, <1>3 DEF Retried, CallRecord, Attempts
  <1>5. CASE \E next \in {Over, Retried(k)} : Release(k, next) /\ call[k].pc = "reconnect"
                                               /\ link' = [link EXCEPT ![c] = "none"]
    <2>1. PICK next \in {Over, Retried(k)} : Release(k, next)
      BY <1>5
    <2>2. call' = [call EXCEPT ![k] = next] /\ next \in CallRecord /\ next.pc \in {"over", "sleep"}
      BY <1>3, <1>4, <2>1 DEF Release
    <2>3. CallsOK' /\ call' \in [Calls -> CallRecord]
      BY <1>2, <1>3, <1>4, <2>2, CallMoves DEF tables
    <2>4. ClientTypeOK'
      BY <1>5, <2>1, <2>3 DEF McpInv, ClientTypeOK, Release
    <2>5. \A d \in Clients : lock'[d] = IF d = c THEN NoCall ELSE lock[d]
      BY <2>1 DEF Release, McpInv, ClientTypeOK
    <2>6. \A j \in Calls : call'[j] = IF j = k THEN next ELSE call[j]
      BY <1>1, <2>2
    <2>7. LockHeld'
      BY <1>2, <1>5, <2>2, <2>5, <2>6 DEF McpInv, LockHeld
    <2>8. stack' = stack
      BY <2>1 DEF Release
    <2> QED BY <2>3, <2>4, <2>7, <2>8, TablesKept DEF McpInv
  <1>6. CASE CancelCall(k) /\ call[k].pc # "reconnect"
    <2>1. UNCHANGED <<stack, session, live, link, lock, deaths>> /\ call' = [call EXCEPT ![k] = Over]
      BY <1>6 DEF CancelCall
    <2>2. CallsOK' /\ call' \in [Calls -> CallRecord]
      BY <1>3, <2>1, CallMoves DEF tables
    <2>3. ClientTypeOK'
      BY <2>1, <2>2 DEF McpInv, ClientTypeOK
    <2>4. LockHeld'
      BY <1>1, <1>3, <1>6, <2>1 DEF McpInv, LockHeld
    <2> QED BY <2>1, <2>2, <2>3, <2>4, TablesKept DEF McpInv
  <1> QED BY <1>5, <1>6 DEF Reconnected, ReconnectFails, CancelCall, Linked, LinkBroken

-----------------------------------------------------------------------------
(* A task that has one client is about that client.                        *)
LEMMA StartingClient ==
  ASSUME McpInv, NEW t \in Tasks, IsStarting(t)
  PROVE  /\ TheClient(t) \in Clients
         /\ task[t].clients = {TheClient(t)}
         /\ home[TheClient(t)] = task[t].server
         /\ task[t].server \in Servers
  BY DEF McpInv, TasksOK, TheClient

(* The record of an operation that is over.                                *)
LEMMA Ended ==
  LET e == [Idle EXCEPT !.pc = "ended"] IN e \in TaskRecord /\ e.pc = "ended"
  BY DEF Idle, TaskRecord

(* A new client is created for a server that nobody is starting.           *)
LEMMA CreateStep ==
  ASSUME McpInv, NEW t \in Tasks, NEW s \in Servers, NEW how \in {"enable", "init"},
         task[t].pc = "idle", runtime[s] = NoClient, s \notin starting, Create(t, s, how)
  PROVE  McpInv'
  <1> USE McpClientAssumption, McpManagerAssumption
  <1>1. PICK c \in Clients :
          /\ home[c] = NoServer
          /\ home' = [home EXCEPT ![c] = s]
          /\ stack' = [stack EXCEPT ![c] = 1]
          /\ link' = [link EXCEPT ![c] = "opening"]
          /\ task' = [task EXCEPT ![t] =
               [pc |-> "connect", server |-> s, clients |-> {c}, how |-> how]]
    BY DEF Create
  <1>2. /\ UNCHANGED <<session, live, lock, call, deaths, runtime, tools, ends, struck>>
        /\ starting' = starting \cup {s}
    BY DEF Create
  <1>3. task \in [Tasks -> TaskRecord] /\ home \in [Clients -> Servers \cup {NoServer}]
    BY DEF McpInv, TablesTypeOK
  <1>4. \A u \in Tasks : u # t => task'[u] = task[u]
    BY <1>1, <1>3
  <1>5. /\ task'[t].pc = "connect" /\ task'[t].server = s /\ task'[t].clients = {c}
        /\ task' \in [Tasks -> TaskRecord]
    BY <1>1, <1>3 DEF TaskRecord
  <1>6. \A d \in Clients : home'[d] = IF d = c THEN s ELSE home[d]
    BY <1>1, <1>3
  <1>7. ClientTypeOK'
    BY <1>1, <1>2 DEF McpInv, ClientTypeOK
  <1>8. TablesTypeOK'
    BY <1>1, <1>2, <1>5 DEF McpInv, TablesTypeOK, ends
  <1>9. CallsOK' /\ LockHeld'
    BY <1>2, <1>6, CallsKept
  <1>10. HomeOK'
    BY <1>1, <1>2, <1>6 DEF McpInv, HomeOK, ClientTypeOK, ends
  <1>11. \A u \in Tasks : u # t => (IsStarting(u)' <=> IsStarting(u))
    BY <1>4 DEF IsStarting
  <1>12. ~IsStarting(t)
    BY DEF IsStarting
  <1>13. TasksOK'
    <2> SUFFICES ASSUME NEW u \in Tasks
                 PROVE  /\ IsStarting(u)' => \E d \in Clients :
                             task'[u].clients = {d} /\ home'[d] = task'[u].server
                        /\ IsStarting(u)' \/ task'[u].pc = "gather" => task'[u].server \in Servers
      BY DEF TasksOK
    <2>1. CASE u = t
      BY <1>5, <1>6, <2>1
    <2>2. CASE u # t
      BY <1>1, <1>4, <1>6, <1>11, <2>2 DEF McpInv, TasksOK
    <2> QED BY <2>1, <2>2
  <1>14. StartsOK'
    BY <1>2, <1>4, <1>5, <1>11, <1>12 DEF McpInv, StartsOK
  <1>15. TablesAgree'
    <2>1. \A x \in starting' : \E u \in Tasks : task'[u].server = x /\ IsStarting(u)'
      <3> TAKE x \in starting'
      <3>1. CASE x = s
        BY <1>5, <3>1 DEF IsStarting
      <3>2. CASE x # s
        BY <1>2, <1>4, <1>11, <1>12, <3>2 DEF McpInv, TablesAgree
      <3> QED BY <3>1, <3>2
    <2>2. \A d \in Clients : lifecycle[d] \in {"waiting", "closing", "cancelled"} => home'[d] = home[d]
      BY <1>1, <1>6 DEF McpInv, HomeOK
    <2> QED BY <1>2, <2>1, <2>2 DEF McpInv, TablesAgree, ends
  <1> QED BY <1>7, <1>8, <1>9, <1>10, <1>13, <1>14, <1>15 DEF McpInv

(* The server is registered.                                               *)
LEMMA StartedStep ==
  ASSUME McpInv, NEW t \in Tasks, Started(t)
  PROVE  McpInv'
  <1> USE McpClientAssumption, McpManagerAssumption
  <1> DEFINE c == TheClient(t)
             s == task[t].server
             e == [Idle EXCEPT !.pc = "ended"]
  <1>1. IsStarting(t)
    BY DEF Started, IsStarting
  <1>2. c \in Clients /\ home[c] = s /\ s \in Servers
    BY <1>1, StartingClient
  <1>3. /\ UNCHANGED <<stack, session, live, lock, call, deaths, home, signalled, closing, struck>>
        /\ link' = [link EXCEPT ![c] = "none"]
        /\ tools' = [tools EXCEPT ![s] = c]
        /\ runtime' = [runtime EXCEPT ![s] = c]
        /\ lifecycle' = [lifecycle EXCEPT ![c] = "waiting"]
        /\ starting' = starting \ {s}
        /\ task' = [task EXCEPT ![t] = e]
    BY DEF Started, Linked, End
  <1>4. task \in [Tasks -> TaskRecord]
    BY DEF McpInv, TablesTypeOK
  <1>5. \A u \in Tasks : task'[u] = IF u = t THEN e ELSE task[u]
    BY <1>3, <1>4
  <1>6. ClientTypeOK'
    BY <1>2, <1>3 DEF McpInv, ClientTypeOK
  <1>7. TablesTypeOK'
    BY <1>2, <1>3, Ended DEF McpInv, TablesTypeOK
  <1>8. CallsOK' /\ LockHeld'
    BY <1>3, CallsKept
  <1>9. HomeOK'
    BY <1>2, <1>3 DEF McpInv, HomeOK, TablesTypeOK
  <1>10. \A u \in Tasks : /\ IsStarting(u)' => u # t /\ IsStarting(u) /\ task'[u] = task[u]
                          /\ u # t /\ IsStarting(u) => IsStarting(u)' /\ task'[u] = task[u]
    BY <1>5, Ended DEF IsStarting
  <1>11. TasksOK'
    BY <1>3, <1>5, <1>10, Ended DEF McpInv, TasksOK
  <1>12. StartsOK'
    <2> SUFFICES ASSUME struck = {}, NEW u \in Tasks, IsStarting(u)'
                 PROVE  /\ task'[u].server \in starting'
                        /\ runtime'[task'[u].server] = NoClient
                        /\ \A v \in Tasks : IsStarting(v)' /\ task'[v].server = task'[u].server => v = u
      BY <1>3 DEF StartsOK
    <2>1. task'[u] = task[u] /\ IsStarting(u) /\ u # t
      BY <1>10
    <2>2. task[u].server # s /\ task[u].server \in starting /\ runtime[task[u].server] = NoClient
      BY <1>1, <2>1 DEF McpInv, StartsOK
    <2>3. \A v \in Tasks : IsStarting(v) /\ task[v].server = task[u].server => v = u
      BY <2>1 DEF McpInv, StartsOK
    <2>4. runtime \in [Servers -> Clients \cup {NoClient}] /\ task[u].server \in Servers
      BY <2>2 DEF McpInv, TablesTypeOK
    <2> QED BY <1>3, <1>10, <2>1, <2>2, <2>3, <2>4
  <1>13. TablesAgree'
    <2>1. \A x \in starting' : \E u \in Tasks : task'[u].server = x /\ IsStarting(u)'
      BY <1>3, <1>10 DEF McpInv, TablesAgree
    <2>2. ASSUME struck' = {}
          PROVE  /\ tools' = runtime'
                 /\ \A d \in Clients :
                      /\ lifecycle'[d] \in {"waiting", "closing", "cancelled"} => runtime'[home'[d]] = d
                      /\ lifecycle'[d] = "closing" => closing'[d].client = d
      <3>1. runtime[s] = NoClient
        BY <1>1, <1>3, <2>2 DEF McpInv, StartsOK
      <3>2. tools' = runtime'
        BY <1>3, <2>2 DEF McpInv, TablesAgree
      <3> SUFFICES ASSUME NEW d \in Clients
                   PROVE  /\ lifecycle'[d] \in {"waiting", "closing", "cancelled"} => runtime'[home'[d]] = d
                          /\ lifecycle'[d] = "closing" => closing'[d].client = d
        BY <3>2
      <3>3. runtime \in [Servers -> Clients \cup {NoClient}] /\ lifecycle' = [lifecycle EXCEPT ![c] = "waiting"]
            /\ lifecycle \in [Clients -> {"none", "waiting", "closing", "done", "cancelled"}]
        BY <1>3 DEF McpInv, TablesTypeOK
      <3>4. CASE d = c
        BY <1>2, <1>3, <3>3, <3>4
      <3>5. CASE d # c
        <4>1. lifecycle'[d] = lifecycle[d]
          BY <3>3, <3>5
        <4>2. lifecycle[d] \in {"waiting", "closing", "cancelled"} =>
                runtime[home[d]] = d /\ home[d] # s
          BY <1>3, <2>2, <3>1 DEF McpInv, TablesAgree
        <4>3. lifecycle[d] = "closing" => closing[d].client = d
          BY <1>3, <2>2 DEF McpInv, TablesAgree
        <4>4. home[d] # s => runtime'[home[d]] = runtime[home[d]]
          BY <1>2, <1>3, <3>3
        <4> QED BY <1>3, <4>1, <4>2, <4>3, <4>4
      <3> QED BY <3>4, <3>5
    <2> QED BY <2>1, <2>2 DEF TablesAgree
  <1> QED BY <1>6, <1>7, <1>8, <1>9, <1>11, <1>12, <1>13 DEF McpInv

(* A start fails, and is cleaned up.                                       *)
LEMMA StartFailsStep ==
  ASSUME McpInv, NEW t \in Tasks, StartFails(t)
  PROVE  McpInv'
  <1> USE DEF tables, ends
  <1>1. IsStarting(t)
    BY DEF StartFails, IsStarting
  <1>2. TheClient(t) \in Clients
    BY <1>1, StartingClient
  <1>3. /\ UNCHANGED <<stack, session, live, lock, call, deaths, tables, ends, struck>>
        /\ link' = [link EXCEPT ![TheClient(t)] = "none"]
        /\ task' = [task EXCEPT ![t].pc = "cleanup"]
    BY DEF StartFails, LinkBroken, Goto
  <1>4. task \in [Tasks -> TaskRecord]
    BY DEF McpInv, TablesTypeOK
  <1>5. /\ task' \in [Tasks -> TaskRecord]
        /\ \A u \in Tasks : /\ IsStarting(u)' <=> IsStarting(u)
                            /\ task'[u].server = task[u].server
                            /\ task'[u].clients = task[u].clients
                            /\ task'[u].pc = "gather" => task[u].pc = "gather"
    BY <1>1, <1>3, <1>4 DEF TaskRecord, IsStarting
  <1>6. ClientTypeOK'
    BY <1>2, <1>3 DEF McpInv, ClientTypeOK
  <1>7. TablesTypeOK'
    BY <1>3, <1>5 DEF McpInv, TablesTypeOK
  <1>8. CallsOK' /\ LockHeld'
    BY <1>3, CallsKept
  <1>9. HomeOK'
    BY <1>3 DEF McpInv, HomeOK
  <1>10. TasksOK' /\ StartsOK'
    BY <1>3, <1>5 DEF McpInv, TasksOK, StartsOK
  <1>11. TablesAgree'
    BY <1>3, <1>5 DEF McpInv, TablesAgree
  <1> QED BY <1>6, <1>7, <1>8, <1>9, <1>10, <1>11 DEF McpInv

LEMMA CleanedUpStep ==
  ASSUME McpInv, NEW t \in Tasks, CleanedUp(t)
  PROVE  McpInv'
  <1> DEFINE c == TheClient(t)
             s == task[t].server
  <1>1. IsStarting(t)
    BY DEF CleanedUp, IsStarting
  <1>2. c \in Clients /\ s \in Servers
    BY <1>1, StartingClient
  <1>3. /\ UNCHANGED <<stack, session, link, lock, call, deaths, runtime, tools, home, ends, struck>>
        /\ starting' = starting \ {s}
        /\ \E open \in {live[c], live[c] \ {stack[c]}} : live' = [live EXCEPT ![c] = open]
    BY DEF CleanedUp, Close
  <1>4. task \in [Tasks -> TaskRecord]
    BY DEF McpInv, TablesTypeOK
  <1>5. /\ task' \in [Tasks -> TaskRecord]
        /\ task'[t].pc \in {"gather", "ended"}
        /\ task'[t].pc = "gather" => task'[t].server = s
        /\ \A u \in Tasks : u # t => task'[u] = task[u]
    BY <1>4, Ended DEF CleanedUp, Goto, End, TaskRecord
  <1>6. ClientTypeOK'
    BY <1>2, <1>3 DEF McpInv, ClientTypeOK
  <1>7. TablesTypeOK'
    BY <1>3, <1>5 DEF McpInv, TablesTypeOK, ends
  <1>8. CallsOK' /\ LockHeld'
    BY <1>3, CallsKept
  <1>9. HomeOK'
    BY <1>3 DEF McpInv, HomeOK, ends
  <1>10. \A u \in Tasks : /\ IsStarting(u)' => u # t /\ IsStarting(u) /\ task'[u] = task[u]
                          /\ u # t /\ IsStarting(u) => IsStarting(u)' /\ task'[u] = task[u]
    BY <1>5 DEF IsStarting
  <1>11. TasksOK'
    BY <1>2, <1>3, <1>5, <1>10 DEF McpInv, TasksOK
  <1>12. StartsOK'
    BY <1>1, <1>3, <1>10 DEF McpInv, StartsOK
  <1>13. TablesAgree'
    <2>1. \A x \in starting' : \E u \in Tasks : task'[u].server = x /\ IsStarting(u)'
      BY <1>3, <1>10 DEF McpInv, TablesAgree
    <2> QED BY <1>3, <2>1 DEF McpInv, TablesAgree, ends
  <1> QED BY <1>6, <1>7, <1>8, <1>9, <1>11, <1>12, <1>13 DEF McpInv

(* A task that starts nothing changes nothing but its record.              *)
LEMMA TaskMoves ==
  ASSUME McpInv, NEW t \in Tasks, NEW r \in TaskRecord,
         task[t].pc \notin {"connect", "cleanup"}, r.pc \notin {"connect", "cleanup", "gather"},
         task' = [task EXCEPT ![t] = r],
         UNCHANGED <<starting, home>>
  PROVE  /\ task' \in [Tasks -> TaskRecord]
         /\ TasksOK'
         /\ \A u \in Tasks : /\ IsStarting(u)' <=> IsStarting(u)
                             /\ IsStarting(u) => task'[u] = task[u]
  <1>1. task \in [Tasks -> TaskRecord]
    BY DEF McpInv, TablesTypeOK
  <1>2. \A u \in Tasks : task'[u] = IF u = t THEN r ELSE task[u]
    BY <1>1
  <1>3. \A u \in Tasks : /\ IsStarting(u)' <=> IsStarting(u)
                         /\ IsStarting(u) => task'[u] = task[u]
                         /\ task'[u].pc = "gather" => task'[u] = task[u]
    BY <1>2 DEF IsStarting
  <1>4. TasksOK'
    <2> SUFFICES ASSUME NEW u \in Tasks
                 PROVE  /\ IsStarting(u)' => \E d \in Clients :
                             task'[u].clients = {d} /\ home'[d] = task'[u].server
                        /\ IsStarting(u)' \/ task'[u].pc = "gather" => task'[u].server \in Servers
      BY DEF TasksOK
    <2> QED BY <1>3 DEF McpInv, TasksOK
  <1> QED BY <1>1, <1>3, <1>4

(* The summary of init_mcp_clients, which only without a runtime leaves    *)
(* the tables as they are.                                                 *)
LEMMA SummariseStep ==
  ASSUME McpInv, NEW t \in Tasks, Summarise(t)
  PROVE  McpInv'
  <1> USE DEF ends
  <1> DEFINE s == task[t].server
             e == [Idle EXCEPT !.pc = "ended"]
  <1>1. /\ task[t].pc = "gather"
        /\ UNCHANGED <<clientVars, starting, tools, home, ends>>
        /\ runtime' = [runtime EXCEPT ![s] = NoClient]
        /\ struck' = struck \cup ({runtime[s]} \ {NoClient})
        /\ task' = [task EXCEPT ![t] = e]
    BY DEF Summarise, End
  <1>2. s \in Servers /\ runtime \in [Servers -> Clients \cup {NoClient}]
    BY <1>1 DEF McpInv, TasksOK, TablesTypeOK
  <1>3. /\ task' \in [Tasks -> TaskRecord]
        /\ TasksOK'
        /\ \A u \in Tasks : /\ IsStarting(u)' <=> IsStarting(u)
                            /\ IsStarting(u) => task'[u] = task[u]
    BY <1>1, Ended, TaskMoves
  <1>4. ClientTypeOK'
    BY <1>1 DEF McpInv, ClientTypeOK, clientVars
  <1>5. TablesTypeOK'
    BY <1>1, <1>2, <1>3 DEF McpInv, TablesTypeOK
  <1>6. CallsOK' /\ LockHeld'
    BY <1>1, CallsKept DEF clientVars
  <1>7. HomeOK'
    BY <1>1 DEF McpInv, HomeOK, clientVars
  <1>8. struck' = {} => struck = {} /\ runtime' = runtime
    <2>1. struck' = {} => struck = {} /\ runtime[s] = NoClient
      BY <1>1
    <2> QED BY <1>1, <1>2, <2>1
  <1>9. StartsOK'
    <2> SUFFICES ASSUME struck' = {}, NEW u \in Tasks, IsStarting(u)'
                 PROVE  /\ task'[u].server \in starting'
                        /\ runtime'[task'[u].server] = NoClient
                        /\ \A v \in Tasks : IsStarting(v)' /\ task'[v].server = task'[u].server => v = u
      BY DEF StartsOK
    <2>1. struck = {} /\ runtime' = runtime /\ starting' = starting
      BY <1>1, <1>8
    <2>2. IsStarting(u) /\ task'[u] = task[u]
      BY <1>3
    <2>3. /\ task[u].server \in starting /\ runtime[task[u].server] = NoClient
          /\ \A v \in Tasks : IsStarting(v) /\ task[v].server = task[u].server => v = u
      BY <2>1, <2>2 DEF McpInv, StartsOK
    <2>4. \A v \in Tasks : IsStarting(v)' => IsStarting(v) /\ task'[v] = task[v]
      BY <1>3
    <2> QED BY <2>1, <2>2, <2>3, <2>4
  <1>10. TablesAgree'
    <2>1. \A x \in starting' : \E u \in Tasks : task'[u].server = x /\ IsStarting(u)'
      BY <1>1, <1>3 DEF McpInv, TablesAgree
    <2> QED BY <1>1, <1>8, <2>1 DEF McpInv, TablesAgree
  <1> QED BY <1>3, <1>4, <1>5, <1>6, <1>7, <1>9, <1>10 DEF McpInv

(* A stop asks, gives up on a timeout, or is over; a start finds nothing   *)
(* to do.  No runtime, name or tool changes.                               *)
LEMMA StopSteps ==
  ASSUME McpInv, NEW t \in Tasks, NEW r \in TaskRecord,
         task[t].pc \notin {"connect", "cleanup"}, r.pc \notin {"connect", "cleanup", "gather"},
         task' = [task EXCEPT ![t] = r],
         UNCHANGED <<stack, session, link, lock, call, deaths, tables, closing, struck>>,
         signalled' \in SUBSET Clients,
         live' \in [Clients -> SUBSET Nat],
         lifecycle' \in [Clients -> {"none", "waiting", "closing", "done", "cancelled"}],
         \A c \in Clients : lifecycle'[c] = lifecycle[c]
                            \/ (lifecycle[c] = "closing" /\ lifecycle'[c] = "cancelled")
  PROVE  McpInv'
  <1> USE DEF tables
  <1>1. /\ task' \in [Tasks -> TaskRecord]
        /\ TasksOK'
        /\ \A u \in Tasks : /\ IsStarting(u)' <=> IsStarting(u)
                            /\ IsStarting(u) => task'[u] = task[u]
    BY TaskMoves
  <1>2. ClientTypeOK' /\ TablesTypeOK'
    BY <1>1 DEF McpInv, ClientTypeOK, TablesTypeOK
  <1>3. CallsOK' /\ LockHeld'
    BY CallsKept
  <1>4. HomeOK'
    BY DEF McpInv, HomeOK
  <1>5. StartsOK'
    BY <1>1 DEF McpInv, StartsOK
  <1>6. TablesAgree'
    <2>1. \A x \in starting' : \E u \in Tasks : task'[u].server = x /\ IsStarting(u)'
      BY <1>1 DEF McpInv, TablesAgree
    <2> QED BY <2>1 DEF McpInv, TablesAgree
  <1> QED BY <1>1, <1>2, <1>3, <1>4, <1>5, <1>6 DEF McpInv

LEMMA DisableStep ==
  ASSUME McpInv, NEW t \in Tasks, NEW S \in SUBSET Servers, Disable(t, S)
  PROVE  McpInv'
  <1> DEFINE cs == {runtime[s] : s \in S} \ {NoClient}
             w == [pc |-> "wait", server |-> NoServer, clients |-> cs, how |-> "stop"]
  <1>1. task[t].pc = "idle" /\ UNCHANGED <<clientVars, tables, lifecycle, closing, struck>>
    BY DEF Disable
  <1>2. /\ live' \in [Clients -> SUBSET Nat]
        /\ lifecycle' \in [Clients -> {"none", "waiting", "closing", "done", "cancelled"}]
        /\ signalled \in SUBSET Clients
        /\ cs \in SUBSET Clients
    BY <1>1 DEF McpInv, ClientTypeOK, TablesTypeOK, clientVars
  <1>3. w \in TaskRecord /\ w.pc = "wait"
    BY <1>2 DEF TaskRecord
  <1>4. \/ task' = [task EXCEPT ![t] = w] /\ signalled' = signalled \cup cs
        \/ task' = [task EXCEPT ![t] = [Idle EXCEPT !.pc = "ended"]] /\ signalled' = signalled
    BY DEF Disable, End
  <1>5. UNCHANGED <<stack, session, link, lock, call, deaths, tables, closing, struck>>
    BY <1>1 DEF clientVars
  <1>6. \A c \in Clients : lifecycle'[c] = lifecycle[c]
    BY <1>1
  <1>7. signalled' \in SUBSET Clients
    BY <1>2, <1>4
  <1> HIDE DEF w, cs
  <1>8. CASE task' = [task EXCEPT ![t] = w]
    BY <1>1, <1>2, <1>3, <1>5, <1>6, <1>7, <1>8, StopSteps
  <1>9. CASE task' = [task EXCEPT ![t] = [Idle EXCEPT !.pc = "ended"]]
    BY <1>1, <1>2, <1>5, <1>6, <1>7, <1>9, Ended, StopSteps
  <1> QED BY <1>4, <1>8, <1>9

LEMMA ShutdownSteps ==
  ASSUME McpInv, NEW t \in Tasks, ShutdownTimesOut(t) \/ ShutdownOver(t)
  PROVE  McpInv'
  <1>1. CASE ShutdownTimesOut(t)
    <2> DEFINE r == [task[t] EXCEPT !.pc = "cancelling"]
    <2>1. task[t] \in TaskRecord /\ task[t].pc = "wait" /\ task' = [task EXCEPT ![t] = r]
      BY <1>1 DEF ShutdownTimesOut, Goto, McpInv, TablesTypeOK, TaskRecord
    <2>2. r \in TaskRecord /\ r.pc = "cancelling"
      BY <2>1 DEF TaskRecord
    <2>3. signalled' \in SUBSET Clients /\ live' \in [Clients -> SUBSET Nat]
      BY <1>1, <2>1 DEF ShutdownTimesOut, McpInv, ClientTypeOK, TablesTypeOK, TaskRecord
    <2>4. lifecycle' = [c \in Clients |->
            IF c \in task[t].clients /\ lifecycle[c] = "closing" THEN "cancelled" ELSE lifecycle[c]]
      BY <1>1 DEF ShutdownTimesOut
    <2>5. /\ lifecycle' \in [Clients -> {"none", "waiting", "closing", "done", "cancelled"}]
          /\ \A c \in Clients : lifecycle'[c] = lifecycle[c]
                                \/ (lifecycle[c] = "closing" /\ lifecycle'[c] = "cancelled")
      <3>1. lifecycle \in [Clients -> {"none", "waiting", "closing", "done", "cancelled"}]
        BY DEF McpInv, TablesTypeOK
      <3>2. \A c \in Clients : lifecycle'[c] =
              IF c \in task[t].clients /\ lifecycle[c] = "closing" THEN "cancelled" ELSE lifecycle[c]
        BY <2>4, Zenon
      <3>3. \A c \in Clients : lifecycle'[c] \in {"none", "waiting", "closing", "done", "cancelled"}
        BY <3>1, <3>2
      <3> QED BY <2>4, <3>2, <3>3
    <2>6. UNCHANGED <<stack, session, link, lock, call, deaths, tables, closing, struck>>
      BY <1>1 DEF ShutdownTimesOut
    <2> HIDE DEF r
    <2> QED BY <2>1, <2>2, <2>3, <2>5, <2>6, StopSteps
  <1>2. CASE ShutdownOver(t)
    <2>1. /\ task[t].pc \in {"wait", "cancelling"}
          /\ task' = [task EXCEPT ![t] = [Idle EXCEPT !.pc = "ended"]]
          /\ UNCHANGED <<clientVars, tables, ends, struck>>
      BY <1>2 DEF ShutdownOver, End
    <2>2. /\ signalled' \in SUBSET Clients /\ live' \in [Clients -> SUBSET Nat]
          /\ lifecycle' \in [Clients -> {"none", "waiting", "closing", "done", "cancelled"}]
      BY <2>1 DEF McpInv, ClientTypeOK, TablesTypeOK, clientVars, ends
    <2>3. UNCHANGED <<stack, session, link, lock, call, deaths, tables, closing, struck>>
      BY <2>1 DEF clientVars, ends
    <2>4. \A c \in Clients : lifecycle'[c] = lifecycle[c]
      BY <2>1 DEF ends
    <2> QED BY <2>1, <2>2, <2>3, <2>4, Ended, StopSteps
  <1> QED BY <1>1, <1>2

(* The shutdown event of a client is set.                                  *)
LEMMA SignalStep ==
  ASSUME McpInv, NEW c \in Clients, HostSignals(c)
  PROVE  McpInv'
  <1> USE DEF HostSignals, clientVars, tables
  <1>1. ClientTypeOK' /\ TablesTypeOK'
    BY DEF McpInv, ClientTypeOK, TablesTypeOK
  <1>2. CallsOK' /\ LockHeld'
    BY CallsKept
  <1>3. HomeOK'
    BY DEF McpInv, HomeOK
  <1>4. TasksOK' /\ StartsOK'
    BY DEF McpInv, TasksOK, StartsOK, IsStarting
  <1>5. TablesAgree'
    BY DEF McpInv, TablesAgree, IsStarting
  <1> QED BY <1>1, <1>2, <1>3, <1>4, <1>5 DEF McpInv

(* A client that is running is closed: what is removed under the name of   *)
(* its server is its own, as long as nothing was struck out.               *)
LEMMA TerminateStep ==
  ASSUME McpInv, NEW c \in Clients, Terminate(c)
  PROVE  McpInv'
  <1> USE McpManagerAssumption
  <1> DEFINE s == home[c]
             r == runtime[s]
  <1>1. /\ lifecycle[c] = "waiting"
        /\ UNCHANGED <<clientVars, runtime, home, signalled, task, struck>>
    BY DEF Terminate
  <1>2. /\ s \in Servers /\ r \in Clients \cup {NoClient}
        /\ stack \in [Clients -> Nat]
        /\ lifecycle \in [Clients -> {"none", "waiting", "closing", "done", "cancelled"}]
        /\ closing \in [Clients -> [client: Clients \cup {NoClient}, stack: Nat]]
    BY <1>1 DEF McpInv, HomeOK, TablesTypeOK, ClientTypeOK
  <1>3. struck = {} => r = c
    BY <1>1 DEF McpInv, TablesAgree
  <1>4. CASE r = NoClient
    <2>1. /\ tools' = [tools EXCEPT ![s] = NoClient]
          /\ starting' = starting \ {s}
          /\ lifecycle' = [lifecycle EXCEPT ![c] = "done"]
          /\ closing' = closing
      BY <1>4 DEF Terminate
    <2>2. struck # {}
      BY <1>3, <1>4
    <2>3. ClientTypeOK' /\ TablesTypeOK'
      BY <1>1, <1>2, <2>1 DEF McpInv, ClientTypeOK, TablesTypeOK, clientVars
    <2>4. CallsOK' /\ LockHeld'
      BY <1>1, CallsKept DEF clientVars
    <2>5. HomeOK'
      BY <1>1, <1>2, <2>1 DEF McpInv, HomeOK, clientVars
    <2>6. TasksOK' /\ StartsOK'
      BY <1>1, <2>2 DEF McpInv, TasksOK, StartsOK, IsStarting
    <2>7. TablesAgree'
      BY <1>1, <2>1, <2>2 DEF McpInv, TablesAgree, IsStarting
    <2> QED BY <2>3, <2>4, <2>5, <2>6, <2>7 DEF McpInv
  <1>5. CASE r # NoClient
    <2>1. /\ lifecycle' = [lifecycle EXCEPT ![c] = "closing"]
          /\ closing' = [closing EXCEPT ![c] = [client |-> r, stack |-> stack[r]]]
          /\ UNCHANGED <<tools, starting>>
      BY <1>5 DEF Terminate
    <2>2. r \in Clients
      BY <1>2, <1>5
    <2>3. ClientTypeOK' /\ TablesTypeOK'
      BY <1>1, <1>2, <2>1, <2>2 DEF McpInv, ClientTypeOK, TablesTypeOK, clientVars
    <2>4. CallsOK' /\ LockHeld'
      BY <1>1, CallsKept DEF clientVars
    <2>5. HomeOK'
      BY <1>1, <1>2, <2>1, <2>2 DEF McpInv, HomeOK, clientVars
    <2>6. TasksOK' /\ StartsOK'
      BY <1>1, <2>1 DEF McpInv, TasksOK, StartsOK, IsStarting
    <2>7. TablesAgree'
      BY <1>1, <1>2, <1>3, <2>1 DEF McpInv, TablesAgree, IsStarting
    <2> QED BY <2>3, <2>4, <2>5, <2>6, <2>7 DEF McpInv
  <1> QED BY <1>4, <1>5

LEMMA TerminatedStep ==
  ASSUME McpInv, NEW c \in Clients, Terminated(c)
  PROVE  McpInv'
  <1> USE McpManagerAssumption
  <1> DEFINE s == home[c]
             x == closing[c].client
  <1>1. /\ lifecycle[c] = "closing"
        /\ UNCHANGED <<stack, session, link, lock, call, deaths, home, signalled, task, struck>>
        /\ tools' = [tools EXCEPT ![s] = NoClient]
        /\ runtime' = [runtime EXCEPT ![s] = NoClient]
        /\ starting' = starting \ {s}
        /\ lifecycle' = [lifecycle EXCEPT ![c] = "done"]
        /\ closing' = [closing EXCEPT ![c] = NothingClosing]
        /\ \E open \in {live[x], live[x] \ {closing[c].stack}} : live' = [live EXCEPT ![x] = open]
    BY DEF Terminated, Close
  <1>2. s \in Servers /\ x \in Clients
    BY <1>1 DEF McpInv, HomeOK, TablesTypeOK
  <1>3. NothingClosing \in [client: Clients \cup {NoClient}, stack: Nat]
    BY DEF NothingClosing
  <1>4. ClientTypeOK'
    BY <1>1, <1>2 DEF McpInv, ClientTypeOK
  <1>5. TablesTypeOK'
    BY <1>1, <1>2, <1>3 DEF McpInv, TablesTypeOK
  <1>6. CallsOK' /\ LockHeld'
    BY <1>1, CallsKept
  <1>7. HomeOK'
    BY <1>1 DEF McpInv, HomeOK, TablesTypeOK
  <1>8. TasksOK'
    BY <1>1 DEF McpInv, TasksOK, IsStarting
  <1>9. struck = {} => runtime[s] = c
    BY <1>1 DEF McpInv, TablesAgree
  <1>10. \A u \in Tasks : IsStarting(u)' <=> IsStarting(u)
    BY <1>1 DEF IsStarting
  <1>11. struck = {} => \A u \in Tasks : IsStarting(u) => task[u].server # s
    BY <1>2, <1>9 DEF McpInv, StartsOK
  <1>12. StartsOK'
    <2> SUFFICES ASSUME struck = {}, NEW u \in Tasks, IsStarting(u)
                 PROVE  /\ task[u].server \in starting'
                        /\ runtime'[task[u].server] = NoClient
                        /\ \A v \in Tasks : IsStarting(v) /\ task[v].server = task[u].server => v = u
      BY <1>1, <1>10 DEF StartsOK
    <2>1. /\ task[u].server # s /\ task[u].server \in starting /\ runtime[task[u].server] = NoClient
          /\ \A v \in Tasks : IsStarting(v) /\ task[v].server = task[u].server => v = u
      BY <1>11 DEF McpInv, StartsOK
    <2>2. runtime \in [Servers -> Clients \cup {NoClient}] /\ task[u].server \in Servers
      BY <2>1 DEF McpInv, TablesTypeOK
    <2> QED BY <1>1, <2>1, <2>2
  <1>13. TablesAgree'
    <2>1. \A y \in starting' : \E u \in Tasks : task'[u].server = y /\ IsStarting(u)'
      BY <1>1, <1>10 DEF McpInv, TablesAgree
    <2>2. ASSUME struck' = {}, NEW d \in Clients
          PROVE  /\ lifecycle'[d] \in {"waiting", "closing", "cancelled"} => runtime'[home'[d]] = d
                 /\ lifecycle'[d] = "closing" => closing'[d].client = d
      <3>1. CASE d = c
        BY <1>1, <3>1 DEF McpInv, TablesTypeOK
      <3>2. CASE d # c
        <4>1. lifecycle'[d] = lifecycle[d] /\ closing'[d] = closing[d]
          BY <1>1, <3>2 DEF McpInv, TablesTypeOK
        <4>2. /\ lifecycle[d] \in {"waiting", "closing", "cancelled"} => runtime[home[d]] = d
              /\ lifecycle[d] = "closing" => closing[d].client = d
          BY <1>1, <2>2 DEF McpInv, TablesAgree
        <4>3. lifecycle[d] \in {"waiting", "closing", "cancelled"} => home[d] # s
          BY <1>1, <1>9, <2>2, <3>2, <4>2
        <4>4. home[d] # s => runtime'[home[d]] = runtime[home[d]]
          BY <1>1, <1>2 DEF McpInv, TablesTypeOK
        <4> QED BY <1>1, <4>1, <4>2, <4>3, <4>4
      <3> QED BY <3>1, <3>2
    <2>3. struck' = {} => tools' = runtime'
      BY <1>1 DEF McpInv, TablesAgree
    <2> QED BY <2>1, <2>2, <2>3 DEF TablesAgree
  <1> QED BY <1>4, <1>5, <1>6, <1>7, <1>8, <1>12, <1>13 DEF McpInv

-----------------------------------------------------------------------------
(* What the host asks for.                                                 *)
LEMMA HostStep ==
  ASSUME McpInv, NEW t \in Tasks, HostAsks(t)
  PROVE  McpInv'
  <1>1. CASE Stop(t)
    <2>1. CASE \E s \in Servers : Disable(t, {s})
      BY <2>1, DisableStep
    <2>2. CASE Disable(t, Servers)
      BY <2>2, DisableStep
    <2> QED BY <1>1, <2>1, <2>2 DEF Stop
  <1>2. ASSUME NEW s \in Servers, NEW how \in {"enable", "init"}, Start(t, s, how)
        PROVE  McpInv'
    <2>1. CASE runtime[s] # NoClient \/ s \in starting
      <3>1. /\ task[t].pc = "idle"
            /\ task' = [task EXCEPT ![t] = [Idle EXCEPT !.pc = "ended"]]
            /\ UNCHANGED <<clientVars, tables, ends, struck>>
        BY <1>2, <2>1 DEF Start, End
      <3>2. /\ signalled' \in SUBSET Clients /\ live' \in [Clients -> SUBSET Nat]
            /\ lifecycle' \in [Clients -> {"none", "waiting", "closing", "done", "cancelled"}]
        BY <3>1 DEF McpInv, ClientTypeOK, TablesTypeOK, clientVars, ends
      <3>3. UNCHANGED <<stack, session, link, lock, call, deaths, tables, closing, struck>>
        BY <3>1 DEF clientVars, ends
      <3>4. \A c \in Clients : lifecycle'[c] = lifecycle[c]
        BY <3>1 DEF ends
      <3> QED BY <3>1, <3>2, <3>3, <3>4, Ended, StopSteps
    <2>2. CASE ~(runtime[s] # NoClient \/ s \in starting)
      BY <1>2, <2>2, CreateStep DEF Start
    <2> QED BY <2>1, <2>2
  <1> QED BY <1>1, <1>2 DEF HostAsks

LEMMA NextInv == McpInv /\ [Next]_vars => McpInv'
  <1> SUFFICES ASSUME McpInv, [Next]_vars PROVE McpInv'
    OBVIOUS
  <1>1. CASE CallStep
    <2>1. UNCHANGED <<tables, ends, task, struck>>
      BY <1>1 DEF CallStep
    <2>2. ASSUME NEW c \in Clients, Linking(c) PROVE McpInv'
      BY <2>1, <2>2, ConnectionSteps
    <2>3. ASSUME NEW k \in Calls, CallRuns(k) PROVE McpInv'
      BY <2>1, <2>3, CallSteps, LockSteps, ReleaseSteps DEF CallRuns
    <2> QED BY <1>1, <2>2, <2>3 DEF CallStep
  <1>2. CASE Environment
    <2>1. UNCHANGED <<tables, ends, task, struck>>
      BY <1>2 DEF Environment
    <2>2. ASSUME NEW c \in Clients, ConnectionLost(c) PROVE McpInv'
      BY <2>1, <2>2, ConnectionSteps
    <2>3. ASSUME NEW k \in Calls, CancelCall(k) PROVE McpInv'
      BY <2>1, <2>3, ReleaseSteps
    <2>4. ASSUME NEW k \in Calls, \E c \in Clients : lifecycle[c] # "none" /\ Send(k, c) PROVE McpInv'
      BY <2>1, <2>4, CallSteps
    <2> QED BY <1>2, <2>2, <2>3, <2>4 DEF Environment
  <1>3. ASSUME NEW t \in Tasks, ManagerTask(t) PROVE McpInv'
    BY <1>3, StartedStep, StartFailsStep, CleanedUpStep, SummariseStep, ShutdownSteps DEF ManagerTask
  <1>4. ASSUME NEW c \in Clients, Lifecycle(c) PROVE McpInv'
    BY <1>4, TerminateStep, TerminatedStep DEF Lifecycle
  <1>5. ASSUME NEW t \in Tasks, HostAsks(t) PROVE McpInv'
    BY <1>5, HostStep
  <1>6. ASSUME NEW c \in Clients, HostSignals(c) PROVE McpInv'
    BY <1>6, SignalStep
  <1>7. CASE UNCHANGED vars
    <2>1. UNCHANGED <<clientVars, tables, ends, task, struck>>
      BY <1>7 DEF vars
    <2>2. ClientTypeOK' /\ TablesTypeOK' /\ HomeOK'
      BY <2>1 DEF McpInv, ClientTypeOK, TablesTypeOK, HomeOK, clientVars, tables, ends
    <2>3. CallsOK' /\ LockHeld'
      BY <2>1, CallsKept DEF clientVars, tables
    <2>4. TasksOK' /\ StartsOK'
      BY <2>1 DEF McpInv, TasksOK, StartsOK, IsStarting, tables
    <2>5. TablesAgree'
      BY <2>1 DEF McpInv, TablesAgree, IsStarting, tables, ends
    <2> QED BY <2>2, <2>3, <2>4, <2>5 DEF McpInv
  <1> QED BY <1>1, <1>2, <1>3, <1>4, <1>5, <1>6, <1>7 DEF Next, Work

LEMMA McpInvariant == Spec => []McpInv
  <1> QED BY InitInv, NextInv, PTL DEF Spec

-----------------------------------------------------------------------------
(* Every field of McpClient and McpManager keeps its range, and no call    *)
(* makes more than stop_after_attempt(2) allows.                           *)
THEOREM McpTypeCorrect == Spec => []TypeOK
  <1>1. McpInv => TypeOK
    BY DEF McpInv, ClientTypeOK, TablesTypeOK, CallRecord, TaskRecord, TypeOK
  <1> QED BY <1>1, McpInvariant, PTL

(* One call at a time reconnects a client, under its lock (mcp_client.py:  *)
(* 515), and the lock is held by nobody else.                              *)
THEOREM OneReconnects == Spec => []LockHeld
  <1>1. McpInv => LockHeld
    BY DEF McpInv
  <1> QED BY <1>1, McpInvariant, PTL

(* The runtime table, the tools and the names being started agree, however *)
(* starts, stops, timeouts and events of the host overlap.                 *)
THEOREM TablesAlwaysAgree == Spec => []TablesAgree
  <1>1. McpInv => TablesAgree
    BY DEF McpInv
  <1> QED BY <1>1, McpInvariant, PTL

(* A client whose reconnection failed serves no call ever again.           *)
LEMMA SeveredStep ==
  ASSUME McpInv, [Next]_vars, NEW c \in Clients, Severed(c)
  PROVE  Severed(c)'
  <1> USE McpClientAssumption
  <1>1. /\ stack[c] > 0 /\ session[c] = 0 /\ link[c] = "none"
        /\ \A k \in Calls : call[k].client = c => call[k].pc = "sleep"
    BY DEF Severed
  <1>2. /\ stack \in [Clients -> Nat] /\ session \in [Clients -> Nat]
        /\ link \in [Clients -> {"none", "opening", "initializing", "listing"}]
        /\ call \in [Calls -> CallRecord]
    BY DEF McpInv, ClientTypeOK
  <1>3. \A k \in Calls : InFlight(k) => call[k].client \in Clients
    BY DEF McpInv, CallsOK
  <1> DEFINE Same(d) == stack'[d] = stack[d] /\ session'[d] = session[d] /\ link'[d] = link[d]
  <1>4. CASE UNCHANGED call /\ Same(c)
    BY <1>1, <1>4 DEF Severed
  <1>5. ASSUME NEW k \in Calls, NEW r, call' = [call EXCEPT ![k] = r], r.client # c, Same(c)
        PROVE  Severed(c)'
    <2>1. \A j \in Calls : call'[j] = IF j = k THEN r ELSE call[j]
      BY <1>2, <1>5
    <2> QED BY <1>1, <1>5, <2>1 DEF Severed
  <1> HIDE DEF Same
  <1>6. Over.client # c
    BY DEF Over, Unsent
  <1>7. \A k \in Calls : InFlight(k) /\ call[k].pc # "sleep" => call[k].client \in Clients \ {c}
    BY <1>1, <1>3
  <1>8. ASSUME NEW d \in Clients, Linking(d) PROVE Severed(c)'
    <2>1. d # c
      BY <1>1, <1>8 DEF Linking, Opens, Initialized
    <2>2. UNCHANGED call
      BY <1>8 DEF Linking, Opens, Initialized
    <2>3. Same(c)
      BY <1>2, <1>8, <2>1 DEF Linking, Opens, Initialized, Same
    <2> QED BY <1>4, <2>2, <2>3
  <1>9. ASSUME NEW k \in Calls, NEW d \in Clients, NEW n, Attempt(k, d, n),
               UNCHANGED <<stack, session, link>>
        PROVE  Severed(c)'
    <2>1. CASE session[d] = 0
      <3>1. call' = [call EXCEPT ![k] = Over]
        BY <1>9, <2>1 DEF Attempt
      <3>2. Same(c)
        BY <1>9 DEF Same
      <3> QED BY <1>5, <1>6, <3>1, <3>2
    <2>2. CASE session[d] # 0
      <3>1. d # c
        BY <1>1, <2>2
      <3> DEFINE r == [pc |-> "calling", client |-> d, attempt |-> n, used |-> session[d]]
      <3>2. call' = [call EXCEPT ![k] = r]
        BY <1>9, <2>2 DEF Attempt
      <3>3. r.client # c
        BY <3>1
      <3> QED BY <1>5, <1>9, <3>2, <3>3 DEF Same
    <2> QED BY <2>1, <2>2
  <1>10. ASSUME NEW k \in Calls, CallRuns(k) \/ CancelCall(k) PROVE Severed(c)'
    <2> DEFINE d == call[k].client
    <2>1. CASE CallAnswered(k)
      BY <1>5, <1>6, <2>1 DEF CallAnswered, Same
    <2>2. CASE NextAttempt(k)
      <3>1. d \in Clients
        BY <1>3, <2>2 DEF NextAttempt, InFlight
      <3> QED BY <1>9, <2>2, <3>1 DEF NextAttempt
    <2>3. CASE CallFindsClosed(k) \/ LockAcquired(k)
      <3>1. call[k].pc \in {"calling", "locked"} /\ call[k] \in CallRecord
        BY <1>2, <2>3 DEF CallFindsClosed, LockAcquired
      <3>2. d # c
        BY <1>7, <3>1 DEF InFlight
      <3>3. PICK pc : call' = [call EXCEPT ![k].pc = pc, ![k].used = 0]
        BY <2>3 DEF CallFindsClosed, LockAcquired, Reconnect, Wait
      <3>4. call' = [call EXCEPT ![k] = [call[k] EXCEPT !.pc = pc, !.used = 0]]
        BY <1>2, <3>1, <3>3 DEF CallRecord
      <3>5. [call[k] EXCEPT !.pc = pc, !.used = 0].client # c
        BY <3>1, <3>2 DEF CallRecord
      <3>6. Same(c)
        BY <1>2, <2>3, <3>2 DEF CallFindsClosed, LockAcquired, Reconnect, Same
      <3> QED BY <1>5, <3>4, <3>5, <3>6
    <2>4. CASE Reconnected(k) \/ ReconnectFails(k)
      <3>1. call[k].pc = "reconnect" /\ call[k] \in CallRecord
        BY <1>2, <2>4 DEF Reconnected, ReconnectFails
      <3>2. d # c
        BY <1>7, <3>1 DEF InFlight
      <3>3. Retried(k).client # c
        BY <1>6, <3>1, <3>2 DEF Retried, CallRecord
      <3>4. PICK next \in {Over, Retried(k)} : call' = [call EXCEPT ![k] = next]
        BY <2>4 DEF Reconnected, ReconnectFails, Release
      <3>5. Same(c)
        BY <1>2, <2>4, <3>2 DEF Reconnected, ReconnectFails, Release, Linked, LinkBroken, Same
      <3> QED BY <1>5, <1>6, <3>3, <3>4, <3>5
    <2>5. CASE CancelCall(k)
      <3>1. call' = [call EXCEPT ![k] = Over]
        BY <2>5 DEF CancelCall, Release
      <3>2. call[k].pc = "reconnect" => d # c
        BY <1>7 DEF InFlight
      <3>3. Same(c)
        BY <1>2, <2>5, <3>2 DEF CancelCall, Release, LinkBroken, Same
      <3> QED BY <1>5, <1>6, <3>1, <3>3
    <2> QED BY <1>10, <2>1, <2>2, <2>3, <2>4, <2>5 DEF CallRuns
  <1>11. CASE CallStep
    BY <1>8, <1>10, <1>11 DEF CallStep
  <1>12. CASE Environment
    <2>1. ASSUME NEW d \in Clients, ConnectionLost(d) PROVE Severed(c)'
      BY <1>4, <2>1 DEF ConnectionLost, Same
    <2>2. ASSUME NEW k \in Calls, NEW d \in Clients, Send(k, d) PROVE Severed(c)'
      BY <1>9, <2>2 DEF Send
    <2> QED BY <1>10, <1>12, <2>1, <2>2 DEF Environment
  <1>13. ASSUME NEW t \in Tasks, ManagerTask(t) PROVE Severed(c)'
    <2>1. CASE Started(t)
      BY <1>1, <1>2, <1>4, <2>1 DEF Started, Linked, Same
    <2>2. CASE StartFails(t)
      BY <1>1, <1>2, <1>4, <2>2 DEF StartFails, LinkBroken, Same
    <2>3. CASE CleanedUp(t)
      BY <1>4, <2>3 DEF CleanedUp, Same
    <2>4. CASE Summarise(t)
      BY <1>4, <2>4 DEF Summarise, Same, clientVars
    <2>5. CASE ShutdownTimesOut(t)
      BY <1>4, <2>5 DEF ShutdownTimesOut, Same
    <2>6. CASE ShutdownOver(t)
      BY <1>4, <2>6 DEF ShutdownOver, Same, clientVars
    <2> QED BY <1>13, <2>1, <2>2, <2>3, <2>4, <2>5, <2>6 DEF ManagerTask
  <1>14. ASSUME NEW d \in Clients, Lifecycle(d) \/ HostSignals(d) PROVE Severed(c)'
    <2>1. UNCHANGED <<stack, session, link, call>>
      BY <1>14 DEF Lifecycle, Terminate, Terminated, HostSignals, clientVars
    <2> QED BY <1>4, <2>1 DEF Same
  <1>15. ASSUME NEW t \in Tasks, HostAsks(t) PROVE Severed(c)'
    <2>1. CASE UNCHANGED clientVars
      BY <1>4, <2>1 DEF clientVars, Same
    <2>2. ASSUME NEW s \in Servers, NEW how \in {"enable", "init"}, Create(t, s, how)
          PROVE  Severed(c)'
      <3>1. PICK d \in Clients : home[d] = NoServer /\ stack' = [stack EXCEPT ![d] = 1]
                                 /\ link' = [link EXCEPT ![d] = "opening"]
        BY <2>2 DEF Create
      <3>2. d # c
        BY <1>1, <3>1 DEF McpInv, HomeOK
      <3> QED BY <1>2, <1>4, <2>2, <3>1, <3>2 DEF Create, Same
    <2>3. CASE Stop(t)
      BY <2>1, <2>3 DEF Stop, Disable
    <2> QED BY <1>15, <2>1, <2>2, <2>3 DEF HostAsks, Start
  <1>16. CASE UNCHANGED vars
    BY <1>4, <1>16 DEF vars, clientVars, Same
  <1> QED BY <1>11, <1>12, <1>13, <1>14, <1>15, <1>16 DEF Next, Work

(* A client without a session, that no call can still find closed, is out  *)
(* of use for good.                                                        *)
THEOREM SeveredStays == Spec => SeveredForGood
  <1>1. McpInv /\ [Next]_vars => [\A c \in Clients : Severed(c) => Severed(c)']_vars
    BY SeveredStep
  <1> QED BY <1>1, McpInvariant, PTL DEF Spec, SeveredForGood
=============================================================================
