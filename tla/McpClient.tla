----------------------------- MODULE McpClient -----------------------------
(***************************************************************************)
(* MCPClient (core/mcp_client.py): the connection of each client, replaced *)
(* under a lock when a call finds it closed, and the tool calls that share *)
(* it.  A client numbers its exit stacks; session is the stack whose       *)
(* session self.session is, and a stack is live while the connection       *)
(* entered into it is open.  Who connects first, and who closes a client,  *)
(* is McpManager's business.                                               *)
(*                                                                         *)
(* A call runs from one await to the next in one action.  The test of      *)
(* _reconnecting in _reconnect is left out: the flag is set only while the *)
(* lock is held, so whoever holds the lock finds it clear.                 *)
(***************************************************************************)
EXTENDS Integers, FiniteSets

CONSTANTS
  Clients,   \* MCPClient objects, numbered as they are created
  Calls,     \* tool calls (call_tool_with_reconnect), numbered as they come
  NoCall,    \* the reconnect lock is free
  MaxDeaths  \* connections lost on the server's side (bound)

ASSUME McpClientAssumption ==
  /\ Clients \cup Calls \subseteq Nat
  /\ NoCall \notin Clients \cup Calls
  /\ MaxDeaths \in Nat

VARIABLES
  stack,     \* number of exit_stack, 0 before the first connection
  session,   \* number of the stack of self.session, 0 when None
  live,      \* stacks whose connection is open
  link,      \* where connect_to_server and list_tools_and_save are
  lock,      \* call that holds _reconnect_lock
  call,      \* state of each call
  deaths     \* connections lost so far

clientVars == <<stack, session, live, link, lock, call, deaths>>

Attempts == 2   \* stop_after_attempt(2)

Unsent == [pc |-> "unsent", client |-> NoCall, attempt |-> 0, used |-> 0]
Over == [Unsent EXCEPT !.pc = "over"]   \* what the caller gets is abstracted
InFlight(k) == call[k].pc \notin {"unsent", "over"}

ClientInit ==
  /\ stack = [c \in Clients |-> 0]
  /\ session = [c \in Clients |-> 0]
  /\ live = [c \in Clients |-> {}]
  /\ link = [c \in Clients |-> "none"]
  /\ lock = [c \in Clients |-> NoCall]
  /\ call = [k \in Calls |-> Unsent]
  /\ deaths = 0

-----------------------------------------------------------------------------
(* Connecting: the transport and the session are entered, the session is   *)
(* initialised, the tools are listed.                                      *)

\* The transport and the session are entered; others can use it from here on.
Opens(c) ==
  /\ link[c] = "opening"
  /\ live' = [live EXCEPT ![c] = @ \cup {stack[c]}]
  /\ session' = [session EXCEPT ![c] = stack[c]]
  /\ link' = [link EXCEPT ![c] = "initializing"]
  /\ UNCHANGED <<stack, lock, call, deaths>>

Initialized(c) ==
  /\ link[c] = "initializing"
  /\ stack[c] \in live[c]
  /\ link' = [link EXCEPT ![c] = "listing"]
  /\ UNCHANGED <<stack, session, live, lock, call, deaths>>

Linked(c) ==
  /\ link[c] = "listing"
  /\ stack[c] \in live[c]
  /\ link' = [link EXCEPT ![c] = "none"]

LinkBroken(c) ==
  /\ link[c] # "none"
  /\ link' = [link EXCEPT ![c] = "none"]

\* The server, or the network, closes the connection in use.
ConnectionLost(c) ==
  /\ deaths < MaxDeaths
  /\ stack[c] \in live[c]
  /\ deaths' = deaths + 1
  /\ live' = [live EXCEPT ![c] = @ \ {stack[c]}]
  /\ UNCHANGED <<stack, session, link, lock, call>>

-----------------------------------------------------------------------------
(* Calls.                                                                  *)

\* Mutant: an attempt without a session reconnects.
AttemptReconnects(k, c, n) ==
  call' = [call EXCEPT ![k] =
    [pc |-> IF session[c] = 0 THEN "locked" ELSE "calling",
     client |-> c, attempt |-> n, used |-> session[c]]]

\* One attempt of _call_with_retry up to its first await: without a session it
\* raises ValueError, which is not retried.
Attempt(k, c, n) ==
  call' = [call EXCEPT ![k] =
    IF session[c] = 0 THEN Over
    ELSE [pc |-> "calling", client |-> c, attempt |-> n, used |-> session[c]]]

Send(k, c) ==
  /\ call[k].pc = "unsent"
  /\ \A j \in Calls : j < k => call[j].pc # "unsent"
  /\ Attempt(k, c, 1)
  /\ UNCHANGED <<stack, session, live, link, lock, deaths>>

\* A result, any error but ClosedResourceError, or the read timeout.
CallAnswered(k) ==
  /\ call[k].pc = "calling"
  /\ call' = [call EXCEPT ![k] = Over]
  /\ UNCHANGED <<stack, session, live, link, lock, deaths>>

\* The call waits at pc; the session it used is forgotten.
Wait(k, pc) == call' = [call EXCEPT ![k].pc = pc, ![k].used = 0]

\* _reconnect, from the lock to its first await: whatever connection there is
\* gives way to a new one.  The old stack is kept, its connection not closed.
Reconnect(k) ==
  LET c == call[k].client IN
  /\ lock[c] = NoCall
  /\ lock' = [lock EXCEPT ![c] = k]
  /\ Wait(k, "reconnect")
  /\ stack' = [stack EXCEPT ![c] = @ + 1]
  /\ session' = [session EXCEPT ![c] = 0]
  /\ link' = [link EXCEPT ![c] = "opening"]
  /\ UNCHANGED <<live, deaths>>

\* ClosedResourceError: reconnect, at once or when the lock is free.
CallFindsClosed(k) ==
  /\ call[k].pc = "calling"
  /\ call[k].used \notin live[call[k].client]
  /\ \/ Reconnect(k)
     \/ /\ lock[call[k].client] # NoCall
        /\ Wait(k, "locked")
        /\ UNCHANGED <<stack, session, live, link, lock, deaths>>

LockAcquired(k) ==
  /\ call[k].pc = "locked"
  /\ Reconnect(k)

\* Mutant: one attempt too many.
RetriedOnceMore(k) == IF call[k].attempt <= Attempts THEN [call[k] EXCEPT !.pc = "sleep"] ELSE Over

\* Where ClosedResourceError leaves the call: the wait before the next attempt.
Retried(k) == IF call[k].attempt < Attempts THEN [call[k] EXCEPT !.pc = "sleep"] ELSE Over

Release(k, next) ==
  /\ lock' = [lock EXCEPT ![call[k].client] = NoCall]
  /\ call' = [call EXCEPT ![k] = next]
  /\ UNCHANGED <<stack, session, live, deaths>>

\* The error that led here is raised again after the reconnection.
Reconnected(k) ==
  /\ call[k].pc = "reconnect"
  /\ Linked(call[k].client)
  /\ Release(k, Retried(k))

\* The reconnection's own error takes its place; it is retried only if it is
\* a ClosedResourceError, too.
ReconnectFails(k) ==
  /\ call[k].pc = "reconnect"
  /\ LinkBroken(call[k].client)
  /\ \E next \in {Over, Retried(k)} : Release(k, next)

NextAttempt(k) ==
  /\ call[k].pc = "sleep"
  /\ Attempt(k, call[k].client, call[k].attempt + 1)
  /\ UNCHANGED <<stack, session, live, link, lock, deaths>>

\* Mutant: a cancelled reconnection keeps the lock.
CancelKeepsLock(k) ==
  /\ InFlight(k)
  /\ call' = [call EXCEPT ![k] = Over]
  /\ link' = IF call[k].pc = "reconnect" THEN [link EXCEPT ![call[k].client] = "none"]
                                         ELSE link
  /\ UNCHANGED <<stack, session, live, lock, deaths>>

\* The runner drops the call at its await: a stop, or a cancelled task.
CancelCall(k) ==
  /\ InFlight(k)
  /\ IF call[k].pc = "reconnect"
     THEN /\ LinkBroken(call[k].client)
          /\ Release(k, Over)
     ELSE /\ call' = [call EXCEPT ![k] = Over]
          /\ UNCHANGED <<stack, session, live, link, lock, deaths>>

CallRuns(k) ==
  \/ CallAnswered(k)
  \/ CallFindsClosed(k)
  \/ LockAcquired(k)
  \/ Reconnected(k)
  \/ ReconnectFails(k)
  \/ NextAttempt(k)

Linking(c) == Opens(c) \/ Initialized(c)
=============================================================================
