------------------------------- MODULE PushLink -------------------------------
(***************************************************************************)
(* The generated push integration at run time: the coordinator             *)
(* (templates/hacs/coordinator.py.j2) and the config entry's set-up and    *)
(* unload (templates/hacs/__init__.py.j2) over the WebSocket client of     *)
(* PushClient, with the part of Home Assistant's DataUpdateCoordinator     *)
(* and Debouncer they rely on.                                             *)
(*                                                                         *)
(* Two tasks can be inside the client: the set-up of the entry and one     *)
(* refresh, for Home Assistant runs refreshes under one lock.  A third,    *)
(* the unload, disconnects it.                                             *)
(***************************************************************************)
EXTENDS PushClient

ASSUME TaskAssumption ==
  /\ {"setup", "refresh", "unload"} \subseteq Task
  /\ NoSock \notin Sock

VARIABLES
  client,   \* the client object
  coord,    \* the coordinator
  entry     \* the life of the config entry

vars == <<client, coord, entry>>

Coord == [
  interval: BOOLEAN,   \* update_interval: RECONNECT_INTERVAL or None
  ok: BOOLEAN,         \* last_update_success: entities are available
  fromDevice: BOOLEAN, \* data is a state the device sent
  timer: BOOLEAN,      \* a scheduled refresh is pending
  debounce: {"ready", "cooling", "owed"},  \* the Debouncer's cooldown timer;
                       \* "owed": a refresh was requested during it
  running: {"none", "requested", "scheduled"},  \* the refresh holding the lock
  waiting: BOOLEAN,    \* a scheduled refresh waits for the lock
  absorbed: BOOLEAN]   \* a refresh was running when the last loss of the
                       \* connection requested one

NewCoord == [interval |-> FALSE, ok |-> TRUE, fromDevice |-> FALSE,
             timer |-> FALSE, debounce |-> "ready", running |-> "none",
             waiting |-> FALSE, absorbed |-> FALSE]

Entry == {"connecting", "refreshing", "refreshed", "loaded", "unloading",
          "unloaded", "failed"}

\* Entities listen to the coordinator from the set-up of the platforms to
\* their unload.
Listening == entry = "loaded"

\* The entry's coordinator is shut down.
Gone == entry \in {"failed", "unloaded"}

-----------------------------------------------------------------------------
(* Home Assistant: DataUpdateCoordinator and Debouncer.  These are         *)
(* functions from a pair of client c and coordinator k to the pair a       *)
(* synchronous run of the code leaves.                                     *)

State(c, k) == [c |-> c, k |-> k]

\* _schedule_refresh: with no update_interval an earlier timer is left alone.
Scheduled(k) == [k EXCEPT !.timer = k.timer \/ (k.interval /\ Listening)]

\* The end of _async_refresh; a requested refresh starts the cooldown.
RefreshEnded(k, ok) ==
  Scheduled([k EXCEPT
    !.ok = ok, !.running = "none",
    !.debounce = IF k.running = "requested" THEN "cooling" ELSE k.debounce])

\* _async_refresh up to its first await: _async_update_data of the generated
\* coordinator returns at once while connected, and reconnects otherwise.
RefreshBegun(c, k, how) ==
  LET held == [k EXCEPT !.timer = FALSE, !.debounce = "ready", !.running = how]
  IN  IF Connected(c)
      THEN State(c, RefreshEnded([held EXCEPT !.fromDevice = c.hasState], TRUE))
      ELSE State(ConnectBegun(c, "refresh"), held)

\* async_request_refresh, Debouncer.async_call: after the shutdown it is
\* ignored, during the cooldown owed, while a refresh runs "any call is good".
RefreshRequested(c, k) ==
  IF Gone THEN State(c, k)
  ELSE IF k.debounce # "ready"
  THEN State(c, [k EXCEPT !.debounce = "owed", !.absorbed = FALSE])
  ELSE IF k.running # "none" THEN State(c, [k EXCEPT !.absorbed = TRUE])
  ELSE RefreshBegun(c, [k EXCEPT !.absorbed = FALSE], "requested")

\* Shutdown of the coordinator and cancellation of the entry's background
\* tasks: a refresh is cancelled where it waits, with no clean-up of its own.
ShutDown(c, k) ==
  State(CallReturned(c, "refresh"),
        [k EXCEPT !.timer = FALSE, !.debounce = "ready", !.running = "none",
                  !.waiting = FALSE])

-----------------------------------------------------------------------------
(* The generated coordinator's callbacks.                                  *)

\* _handle_push -> async_set_updated_data: cancels the timer and an owed
\* request, and schedules by the interval in force.
HandlePush(k) ==
  Scheduled([k EXCEPT !.timer = FALSE, !.debounce = "ready", !.ok = TRUE,
                      !.fromDevice = TRUE])

\* _handle_disconnect
HandleDisconnectNoInterval(c, k) ==  \* it relies on the requested refresh alone
  RefreshRequested(c, [k EXCEPT !.ok = FALSE])

HandleDisconnect(c, k) ==
  RefreshRequested(c, [k EXCEPT !.interval = TRUE, !.ok = FALSE])

\* _async_update_data after a reconnect.
Reconnected(c, k) ==
  [k EXCEPT !.interval = FALSE, !.fromDevice = c.hasState]

-----------------------------------------------------------------------------
Init ==
  /\ client = ConnectBegun(NewClient, "setup")   \* _async_setup
  /\ coord = NewCoord
  /\ entry = "connecting"

Becomes(st) == client' = st.c /\ coord' = st.k

\* The outcome of a connect() made for the set-up.
SetupFailedStillRefreshing(c, k) ==  \* the coordinator is not shut down
  /\ entry' = "failed"
  /\ Becomes(State(c, k))

SetupFailed(c, k) ==
  /\ entry' = "failed"     \* ConfigEntryNotReady
  /\ Becomes(ShutDown(c, k))

SetupConnected(c, k) ==
  LET held == [k EXCEPT !.timer = FALSE, !.debounce = "ready"]
      Returned(j) == [j EXCEPT !.ok = TRUE, !.fromDevice = c.hasState]
  IN  \/ /\ entry = "connecting" /\ ~Connected(c)
         /\ entry' = "refreshing"
         /\ Becomes(State(ConnectBegun(c, "setup"), held))
      \/ /\ entry = "connecting" /\ Connected(c)
         /\ entry' = "refreshed"
         /\ Becomes(State(c, Returned(held)))
      \/ /\ entry = "refreshing"
         /\ entry' = "refreshed"
         /\ Becomes(State(c, Returned(Reconnected(c, k))))

\* A connect() of task t returned or raised, leaving client c.
Returned(t, c) ==
  IF t = "setup" THEN SetupConnected(c, coord)
  ELSE /\ Becomes(State(c, RefreshEnded(Reconnected(c, coord), TRUE)))
       /\ UNCHANGED entry

Raised(t, c) ==
  IF t = "setup" THEN SetupFailed(c, coord)
  ELSE /\ Becomes(State(c, RefreshEnded(coord, FALSE)))   \* UpdateFailed
       /\ UNCHANGED entry

-----------------------------------------------------------------------------
(* The steps of a connect() by task t.                                     *)

Opened(t) ==
  /\ Settled(client)
  /\ client.call[t] = "opening"
  /\ \E s \in Reusable(client) : client' = SocketOpened(client, t, s)
  /\ UNCHANGED <<coord, entry>>

\* ws_connect, the send or the wait for the first state fails.
FailedWithoutDisconnect(t) ==  \* connect() raises and cleans nothing up
  /\ Settled(client)
  /\ client.call[t] \in {"opening", "pairing"}
  /\ Raised(t, CallEnded(client, t))

Failed(t) ==
  /\ Settled(client)
  /\ client.call[t] \in {"opening", "pairing"}
  /\ LET c == DisconnectBegun(client, t) IN
     IF c.call[t] = "idle" THEN Raised(t, c)
     ELSE client' = c /\ UNCHANGED <<coord, entry>>

Paired(t) ==
  /\ client.call[t] = "pairing" /\ client.woken[t]
  /\ ~client.rejected
  /\ Returned(t, CallReturned(Resumed(client, t), t))

Refused(t) ==
  /\ client.call[t] = "pairing" /\ client.woken[t]
  /\ client.rejected
  /\ LET c == DisconnectBegun(Resumed(client, t), t) IN
     IF c.call[t] = "idle" THEN Raised(t, c)
     ELSE client' = c /\ UNCHANGED <<coord, entry>>

Closed(t) ==
  /\ Settled(client)
  /\ client.call[t] = "closing"
  /\ Raised(t, DisconnectEnded(client, t))

-----------------------------------------------------------------------------
(* The device and the listeners.                                           *)

\* The end of a connection as its listener sees it.
ListenerSeesEnd(c, k, s) ==
  Becomes(IF c.closing THEN State(ListenerEnded(c, s), k)
          ELSE HandleDisconnect(ListenerEnded(c, s), k))

\* What the listener may read before the end in the same run: messages that
\* arrived together are handled with no other task between them.
LastRead ==
  {State(client, coord), State(StatePushed(client), HandlePush(coord)),
   State(PairingRejected(client), coord)}

\* The device closes the connection, or it breaks: the listener reads that
\* and handles it in the same run.
PeerCloses(s) ==
  /\ Settled(client)
  /\ client.sock[s] = "open"
  /\ IF client.listener[s]
     THEN \E st \in LastRead : ListenerSeesEnd(SocketDead(st.c, s), st.k, s)
     ELSE Becomes(State(SocketDead(client, s), coord))
  /\ UNCHANGED entry

\* A missed pong closes the socket first and wakes the listener after.  The
\* first ping is sent 30 s after opening: no connect() is pairing on it then.
HeartbeatFails(s) ==
  /\ Settled(client)
  /\ client.sock[s] = "open"
  /\ \A t \in Task : client.call[t] = "pairing" => client.opened[t] # s
  /\ client' = SocketDead(client, s)
  /\ UNCHANGED <<coord, entry>>

HeartbeatSeen(s) ==
  /\ ~client.resuming
  /\ client.listener[s] /\ client.sock[s] = "dead"
  /\ ListenerSeesEnd(client, coord, s)
  /\ UNCHANGED entry

Push(s) ==
  /\ Settled(client)
  /\ client.listener[s] /\ client.sock[s] = "open"
  /\ Becomes(State(StatePushed(client), HandlePush(coord)))
  /\ UNCHANGED entry

Reject(s) ==
  /\ Settled(client)
  /\ client.listener[s] /\ client.sock[s] = "open"
  /\ client' = PairingRejected(client)
  /\ UNCHANGED <<coord, entry>>

\* _dispatch raises, on JSON that is no object or, the state being stored,
\* in an entity's update.  The listener takes that for the end of the
\* connection, which stays open.
ListenerRaises(s) ==
  /\ Settled(client)
  /\ client.listener[s] /\ client.sock[s] = "open"
  /\ \E st \in LastRead :
       ListenerSeesEnd([st.c EXCEPT !.abandoned = st.c.abandoned \cup {s}], st.k, s)
  /\ UNCHANGED entry

-----------------------------------------------------------------------------
(* Timers and the life of the entry.                                       *)

\* The scheduled refresh is due: it waits for a running one to end.
TimerFires ==
  /\ ~client.resuming
  /\ coord.timer
  /\ Becomes(IF coord.running = "none"
             THEN RefreshBegun(client, coord, "scheduled")
             ELSE State(client, [coord EXCEPT !.timer = FALSE, !.waiting = TRUE]))
  /\ UNCHANGED entry

LockAcquired ==
  /\ ~client.resuming
  /\ coord.waiting /\ coord.running = "none"
  /\ Becomes(RefreshBegun(client, [coord EXCEPT !.waiting = FALSE], "scheduled"))
  /\ UNCHANGED entry

CooldownEnds ==
  /\ ~client.resuming
  /\ coord.debounce # "ready"
  /\ LET k == [coord EXCEPT !.debounce = "ready"] IN
     Becomes(IF coord.debounce = "owed" /\ coord.running = "none"
             THEN RefreshBegun(client, k, "requested")
             ELSE State(client, k))
  /\ UNCHANGED entry

\* The platforms are set up: the first entity to listen schedules a refresh.
EntitiesAdded ==
  /\ ~client.resuming
  /\ entry = "refreshed"
  /\ entry' = "loaded"
  /\ coord' = [coord EXCEPT !.timer = coord.timer \/ coord.interval]
  /\ UNCHANGED client

\* async_unload_entry: the last listener to leave stops the timers, then
\* client.disconnect(); its end shuts the entry down.
Unload ==
  /\ ~client.resuming
  /\ entry = "loaded"
  /\ LET c == DisconnectBegun(client, "unload")
         k == [coord EXCEPT !.timer = FALSE, !.debounce = "ready"]
     IN  IF c.call["unload"] = "closing"
         THEN entry' = "unloading" /\ Becomes(State(c, k))
         ELSE entry' = "unloaded" /\ Becomes(ShutDown(c, k))

Unloaded ==
  /\ ~client.resuming
  /\ entry = "unloading" /\ client.call["unload"] = "closing"
  /\ entry' = "unloaded"
  /\ Becomes(ShutDown(DisconnectEnded(client, "unload"), coord))

Caller == {"setup", "refresh"}

Next ==
  \/ \E t \in Caller : Opened(t) \/ Failed(t) \/ Paired(t) \/ Refused(t) \/ Closed(t)
  \/ \E s \in Sock : PeerCloses(s) \/ HeartbeatFails(s) \/ HeartbeatSeen(s)
                       \/ Push(s) \/ Reject(s) \/ ListenerRaises(s)
  \/ TimerFires \/ LockAcquired \/ CooldownEnds
  \/ EntitiesAdded \/ Unload \/ Unloaded

\* Home Assistant runs what is due, and every call of the client ends: the
\* connection, the wait for a state and the close have timeouts.
Fairness ==
  /\ \A t \in Caller :
       WF_vars(Opened(t) \/ Failed(t) \/ Paired(t) \/ Refused(t) \/ Closed(t))
  /\ \A s \in Sock : WF_vars(HeartbeatSeen(s))
  /\ WF_vars(TimerFires) /\ WF_vars(LockAcquired) /\ WF_vars(CooldownEnds)

Spec == Init /\ [][Next]_vars /\ Fairness

-----------------------------------------------------------------------------
(* Properties.                                                             *)

\* Every variable keeps its type, and the three agree on who is inside the
\* client: a refresh while it holds the lock, the set-up and the unload in
\* their part of the entry's life, nobody once the entry is gone.
TypeOK ==
  /\ client \in Client
  /\ coord \in Coord
  /\ entry \in Entry
  /\ coord.running = "none" <=> client.call["refresh"] = "idle"
  /\ client.call["setup"] # "idle" <=> entry \in {"connecting", "refreshing"}
  /\ client.call["unload"] # "idle" <=> entry = "unloading"
  /\ Gone => coord.running = "none" /\ ~coord.timer

\* Something is under way that will see that the link is down.
RetryPending ==
  \/ coord.timer \/ coord.waiting \/ coord.debounce = "owed"
  \/ coord.running # "none"
  \/ \E s \in Sock : client.listener[s] /\ client.sock[s] = "dead" /\ ~client.closing

\* The coordinator's promise: while the device is disconnected its refresh
\* retries "until it succeeds", so a retry is always to come (calls
\* that overlapped aside).
RetriesUntilConnected ==
  Listening /\ ~Connected(client) => RetryPending \/ client.overlapped

\* Availability is true both ways.  Entities that are available show what the
\* device sent, never the default state a connect() returns before the first
\* push; and entities of a link that is up, with no refresh inside the client,
\* are available: neither a failed attempt nor the loss of an earlier connection
\* is reported over a connection that stands.
AvailabilityIsTrue ==
  Listening =>
    /\ coord.ok => coord.fromDevice \/ client.overlapped
    /\ Connected(client) /\ coord.running = "none" => coord.ok

\* Every open socket is the client's own, so the device sees one connection, and
\* an unloaded or failed entry leaves none open: the exceptions are a socket
\* whose listener raised and overlapping calls.
NoOrphanSocket ==
  ~client.overlapped =>
    OpenSocks(client) \subseteq client.abandoned \cup (IF Gone THEN {} ELSE {client.ws})

\* "Raises ConnectionError (and leaves nothing open) on failure": the socket
\* a connect() opened is closed once it has raised.
FailureLeavesNothingOpen ==
  \A t \in Caller :
    client.call[t] = "idle" /\ client.opened[t] # NoSock =>
      client.sock[client.opened[t]] # "open"

\* A lost connection is retried: unless the loss was absorbed or calls had
\* overlapped, a new attempt is made as long as the entry stays loaded.
LossIsRetried ==
  Listening /\ ~Connected(client) ~>
    \/ Connected(client) \/ client.call["refresh"] # "idle" \/ ~Listening
    \/ coord.absorbed \/ client.overlapped
=============================================================================
