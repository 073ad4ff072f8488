------------------------------ MODULE PushClient ------------------------------
(***************************************************************************)
(* The generated WebSocket client (templates/sdk/client.py.j2).            *)
(*                                                                         *)
(* The client is one object whose methods run as asyncio tasks: between    *)
(* two awaits a method runs alone, at an await any other task may run.     *)
(* Each operator below is such a run between two awaits, as a function     *)
(* from the client to the client it leaves, so that a caller can chain the *)
(* synchronous calls the code makes in one step.                           *)
(***************************************************************************)
EXTENDS Integers, FiniteSets

CONSTANTS
  Sock,     \* sockets that can exist at once (a closed one is used again)
  NoSock,   \* None
  Task      \* the tasks that call connect() or disconnect()

Client == [
  sock: [Sock -> {"free", "open", "dead"}],  \* "dead": closed by either end
  listener: [Sock -> BOOLEAN],               \* a _listen task runs on it
  ws: Sock \cup {NoSock},                    \* _ws
  listenTask: Sock \cup {NoSock},            \* _listen_task, by its socket
  closing: BOOLEAN,                          \* _closing
  first: BOOLEAN,                            \* _first_state is set
  rejected: BOOLEAN,                         \* _auth_rejected is not None
  hasState: BOOLEAN,                         \* _state came from the device
  call: [Task -> {"idle", "opening", "pairing", "closing"}],
  woken: [Task -> BOOLEAN],                  \* its wait for the first state is over
  opened: [Task -> Sock \cup {NoSock}],      \* the socket its connect() opened, if it
                                             \* has not returned well
  resuming: BOOLEAN,                         \* tasks one event woke are running
  overlapped: BOOLEAN,                       \* a connect() ever began during
                                             \* another call
  abandoned: SUBSET Sock]                    \* open, but its listener raised

NewClient == [
  sock |-> [s \in Sock |-> "free"],
  listener |-> [s \in Sock |-> FALSE],
  ws |-> NoSock, listenTask |-> NoSock,
  closing |-> FALSE, first |-> FALSE, rejected |-> FALSE, hasState |-> FALSE,
  call |-> [t \in Task |-> "idle"],
  woken |-> [t \in Task |-> FALSE],
  opened |-> [t \in Task |-> NoSock],
  resuming |-> FALSE, overlapped |-> FALSE, abandoned |-> {}]

\* The `connected` property.
Connected(c) == c.ws # NoSock /\ c.sock[c.ws] = "open"

OpenSocks(c) == {s \in Sock : c.sock[s] = "open"}

-----------------------------------------------------------------------------
(* connect()                                                               *)

\* Up to the await of ws_connect, for a client that is not connected.
ConnectBegun(c, t) ==
  [c EXCEPT !.closing = FALSE, !.first = FALSE, !.rejected = FALSE,
            !.call[t] = "opening", !.opened[t] = NoSock,
            !.overlapped = c.overlapped \/ \E u \in Task : c.call[u] # "idle"]

\* A socket no task refers to any more.
Reusable(c) ==
  {s \in Sock : c.sock[s] # "open" /\ ~c.listener[s] /\ s \notin c.abandoned
                  /\ s \notin {c.ws, c.listenTask}}

\* ws_connect returned socket s: the listener is started, the pairing command
\* is sent, and the task waits for the first state.
SocketOpened(c, t, s) ==
  [c EXCEPT !.sock[s] = "open", !.listener[s] = TRUE,
            !.ws = s, !.listenTask = s,
            !.call[t] = "pairing", !.woken[t] = c.first,
            !.opened = [u \in Task |-> IF u = t THEN s
                                      ELSE IF c.opened[u] = s THEN NoSock
                                      ELSE c.opened[u]]]

CallEnded(c, t) == [c EXCEPT !.call[t] = "idle", !.woken[t] = FALSE]

\* connect() returns the state.
CallReturned(c, t) == [CallEnded(c, t) EXCEPT !.opened[t] = NoSock]

\* Nothing made ready earlier still has to run: the event loop runs that
\* before it looks at sockets and timers again.
Settled(c) ==
  /\ ~c.resuming
  /\ \A s \in Sock : ~(c.listener[s] /\ c.sock[s] = "dead")

\* Task t runs again after its wait.  The event loop made all tasks that
\* waited on the event ready at once: they run before anything else does.
Resumed(c, t) ==
  [c EXCEPT !.woken[t] = FALSE, !.resuming = \E u \in Task \ {t} : c.woken[u]]

-----------------------------------------------------------------------------
(* disconnect(), also run by a connect() that fails                        *)

\* Up to the await of ws.close(), which closes whatever _ws is by then; with
\* nothing to close it runs to its end.
DisconnectForgetsSocket(c, t) ==  \* it drops _ws without closing it
  CallEnded([c EXCEPT !.closing = TRUE, !.listenTask = NoSock, !.ws = NoSock,
                      !.listener = [s \in Sock |-> c.listener[s] /\ s # c.listenTask]], t)

DisconnectBegun(c, t) ==
  LET stopped == [c EXCEPT
        !.closing = TRUE,
        !.listener = [s \in Sock |-> c.listener[s] /\ s # c.listenTask],
        !.listenTask = NoSock]
  IN  IF Connected(c)
      THEN [stopped EXCEPT !.sock[c.ws] = "dead", !.call[t] = "closing",
                           !.woken[t] = FALSE, !.abandoned = c.abandoned \ {c.ws}]
      ELSE CallEnded([stopped EXCEPT !.ws = NoSock], t)

DisconnectEnded(c, t) == CallEnded([c EXCEPT !.ws = NoSock], t)

-----------------------------------------------------------------------------
(* _listen() and _dispatch()                                               *)

\* _first_state.set(): every task waiting on the event is made ready, and
\* stays so if the event is cleared before it runs.
FirstStateSet(c) ==
  [c EXCEPT !.first = TRUE,
            !.woken = [t \in Task |-> c.woken[t] \/ c.call[t] = "pairing"]]

StatePushed(c) == FirstStateSet([c EXCEPT !.hasState = TRUE])

PairingRejectedUnrecorded(c) == FirstStateSet(c)  \* it only wakes connect()

PairingRejected(c) == FirstStateSet([c EXCEPT !.rejected = TRUE])

\* The listener of s ends.  Unless disconnect() is behind it, the client
\* forgets its socket, whichever that is, and runs the callbacks.
ListenerEnded(c, s) ==
  [c EXCEPT !.listener[s] = FALSE,
            !.ws = IF c.closing THEN c.ws ELSE NoSock]

\* The socket is closed, by either end.
SocketDead(c, s) ==
  [c EXCEPT !.sock[s] = "dead", !.abandoned = c.abandoned \ {s}]
=============================================================================
