------------------------------- MODULE BleLink -------------------------------
(***************************************************************************)
(* The Bluetooth half of a generated integration: the GATT client          *)
(* (templates/sdk/ble_client.py.j2), its coordinator                       *)
(* (templates/hacs/ble_coordinator.py.j2) and the set-up and unload of the *)
(* entry (templates/hacs/__init__.py.j2).                                  *)
(*                                                                         *)
(* A poll reads some characteristics, others are notified; a switch writes *)
(* one.  Each operation first connects if the link is down.  Nothing keeps *)
(* the poll, a write and the unload from doing so at once.  Operators from *)
(* a client b to a client are runs of the code between two awaits.         *)
(***************************************************************************)
EXTENDS Integers

CONSTANTS
  Link,         \* the links the adapter can hold, each with its BleakClient
  NoLink,       \* None
  Notify, Read, \* characteristics that are subscribed to, and polled
  Value, Absent,
  MaxAttempts,  \* _MAX_RECONNECT_ATTEMPTS (3)
  Interval      \* _POLL_INTERVAL, in ticks

ASSUME BleAssumption ==
  /\ NoLink \notin Link /\ Absent \notin Value
  /\ Notify # {} /\ Read # {}
  /\ MaxAttempts \in Nat \ {0} /\ Interval \in Nat \ {0}

VARIABLES
  ble,      \* the client
  coord,    \* the coordinator
  entry     \* the life of the config entry

vars == <<ble, coord, entry>>

Task == {"setup", "poll", "write", "unload"}
Char == Notify \cup Read
Idle == [at |-> "idle", on |-> NoLink, tries |-> 0]

Ble == [
  link: [Link -> {"down", "connecting", "open"}],
  subs: [Link -> SUBSET Notify],         \* start_notify succeeded on it
  cur: Link \cup {NoLink},               \* _client
  connected: BOOLEAN,                    \* _connected
  call: [Task -> [at: {"idle", "connect", "sleep", "use", "close"},
                  on: Link \cup {NoLink}, tries: 0..MaxAttempts]],
  refused: SUBSET Notify,                \* whose subscription failed at set-up
  overlapped: BOOLEAN]                   \* a connect() or disconnect() ever began
                                         \* inside another

Values == [Char -> Value \cup {Absent}]
Nothing == [c \in Char |-> Absent]
Off == -1

Coord == [
  data: Values,              \* what entities show
  chars: Values,             \* _char_data: the last value each notification had
  ok: BOOLEAN,               \* last_update_success
  timer: Off..Interval,      \* ticks to the scheduled poll
  waiting: BOOLEAN,          \* a due poll waits for the one that runs
  result: Values,            \* the poll's `result`
  todo: SUBSET Char]         \* what set-up or poll has yet to subscribe to or read

Entry == {"connecting", "subscribing", "reading", "refreshed", "loaded",
          "unloading", "closing", "unloaded", "failed", "stuck"}

Listening == entry = "loaded"

-----------------------------------------------------------------------------
(* The client.                                                             *)

\* The is_connected property.
IsConnected(b) == b.connected /\ b.cur # NoLink /\ b.link[b.cur] = "open"

\* The tasks inside connect() or disconnect().
Connecting(b) == {t \in Task : b.call[t].at \in {"connect", "sleep", "close"}}

\* The objects connect() may make: nobody refers to them.
Fresh(b) == {l \in Link : b.link[l] = "down" /\ l # b.cur
                            /\ \A t \in Task : b.call[t].on # l}

\* One round of the loop in connect(), up to its await.  With every link taken
\* it is bound to fail.
Attempt(b, t, n) ==
  LET inConnect(l) == [at |-> "connect", on |-> l, tries |-> n]
  IN  {[b EXCEPT !.cur = l, !.link[l] = "connecting", !.call[t] = inConnect(l)] :
         l \in Fresh(b)}
        \cup {[b EXCEPT !.cur = l, !.call[t] = inConnect(l)] :
                l \in {k \in {NoLink} : Fresh(b) = {}}}

ConnectBegun(b, t) ==
  Attempt([b EXCEPT !.overlapped = b.overlapped \/ Connecting(b) \ {t} # {}], t, 1)

\* The operation itself goes to whatever _client is by now.
Used(b, t) == [b EXCEPT !.call[t] = [at |-> "use", on |-> b.cur, tries |-> 0]]

\* An operation, up to its first await: ensure_connected, then itself.
Begun(b, t) == IF IsConnected(b) THEN {Used(b, t)} ELSE ConnectBegun(b, t)

Ended(b, t) == [b EXCEPT !.call[t] = Idle]

\* A link goes down, by either end; bleak calls _on_disconnect for it, which
\* does not ask whose link it was.
LinkDown(b, l) ==
  [b EXCEPT !.link[l] = "down", !.subs[l] = {}, !.connected = FALSE]

-----------------------------------------------------------------------------
(* The coordinator, and Home Assistant's DataUpdateCoordinator.            *)

\* _schedule_refresh, for entities that listen.
Scheduled(k) == [k EXCEPT !.timer = IF Listening THEN Interval ELSE Off]

\* _handle_notify: entities get the notified values and no others.
Notified(k, n, v) ==
  LET chars == [k.chars EXCEPT ![n] = v]
  IN  Scheduled([k EXCEPT !.chars = chars, !.data = chars, !.ok = TRUE])

\* _async_update_data up to its first await.
PollBegunFromShown(b, k, t) ==  \* it starts from what is shown
  /\ coord' = [k EXCEPT !.timer = Off, !.result = k.data, !.todo = Read]
  /\ ble' \in Begun(b, t)

PollBegun(b, k, t) ==
  /\ coord' = [k EXCEPT !.timer = Off, !.result = k.chars, !.todo = Read]
  /\ ble' \in Begun(b, t)

\* Its end.  The first poll is part of the set-up.
PollEndedUnscheduled(b, t, k, ok) ==  \* a poll that fails schedules no other
  /\ ble' = Ended(b, t)
  /\ coord' = [(IF ok THEN Scheduled(k) ELSE k) EXCEPT
                 !.ok = ok, !.todo = {}, !.data = IF ok THEN k.result ELSE k.data]
  /\ entry' = IF t = "poll" THEN entry ELSE IF ok THEN "refreshed" ELSE "failed"

PollEnded(b, t, k, ok) ==
  /\ ble' = Ended(b, t)
  /\ coord' = Scheduled([k EXCEPT !.ok = ok, !.todo = {},
                                  !.data = IF ok THEN k.result ELSE k.data])
  /\ entry' = IF t = "poll" THEN entry ELSE IF ok THEN "refreshed" ELSE "failed"

\* The next subscription of the set-up, or the first poll.
SetupGoesOn(b, todo) ==
  IF todo # {}
  THEN /\ entry' = "subscribing" /\ coord' = [coord EXCEPT !.todo = todo]
       /\ ble' \in Begun(b, "setup")
  ELSE entry' = "reading" /\ PollBegun(b, coord, "setup")

-----------------------------------------------------------------------------
Init ==
  /\ entry = "connecting"
  /\ ble \in ConnectBegun(
       [link |-> [l \in Link |-> "down"], subs |-> [l \in Link |-> {}],
        cur |-> NoLink, connected |-> FALSE, call |-> [t \in Task |-> Idle],
        refused |-> {}, overlapped |-> FALSE], "setup")
  /\ coord = [data |-> Nothing, chars |-> Nothing, ok |-> TRUE, timer |-> Off,
              waiting |-> FALSE, result |-> Nothing, todo |-> {}]

At(t, at) == ble.call[t].at = at
On(t) == ble.call[t].on

\* Task t's operation ends with an exception: BleakError, or another one.
Failed(b, t, bleak) ==
  \/ t = "write" /\ ble' = Ended(b, t) /\ UNCHANGED <<coord, entry>>
  \/ t = "poll" /\ PollEnded(b, t, coord, FALSE)
  \/ t = "setup" /\ entry = "subscribing" /\ bleak
       /\ \E n \in coord.todo :
            SetupGoesOn([b EXCEPT !.refused = b.refused \cup {n}], coord.todo \ {n})
  \/ t = "setup" /\ ~(entry = "subscribing" /\ bleak) /\ PollEnded(b, t, coord, FALSE)

\* BleakClient.connect() returns, and so does connect().
ConnectsUnflagged(t) ==  \* _connected is not set
  /\ At(t, "connect") /\ On(t) # NoLink
  /\ LET b == [ble EXCEPT !.link[On(t)] = "open"] IN
     IF entry = "connecting" THEN SetupGoesOn(b, Notify)
     ELSE ble' = Used(b, t) /\ UNCHANGED <<coord, entry>>

Connects(t) ==
  /\ At(t, "connect") /\ On(t) # NoLink
  /\ LET b == [ble EXCEPT !.link[On(t)] = "open", !.connected = TRUE] IN
     IF entry = "connecting" THEN SetupGoesOn(b, Notify)
     ELSE ble' = Used(b, t) /\ UNCHANGED <<coord, entry>>

Unlinked(b, l) ==
  [b EXCEPT !.link = [k \in Link |-> IF k = l THEN "down" ELSE b.link[k]]]

\* It raises: after a BleakError another attempt is made, while there are any.
ConnectFails(t) ==
  /\ At(t, "connect")
  /\ LET b == Unlinked(ble, On(t)) IN
     \/ ble.call[t].tries < MaxAttempts
          /\ ble' = [b EXCEPT !.call[t].at = "sleep"] /\ UNCHANGED <<coord, entry>>
     \/ ble.call[t].tries = MaxAttempts /\ Failed(b, t, TRUE)
     \/ Failed(b, t, FALSE)

Wakes(t) ==
  /\ At(t, "sleep")
  /\ ble' \in Attempt(ble, t, ble.call[t].tries + 1)
  /\ UNCHANGED <<coord, entry>>

Live(t) == At(t, "use") /\ On(t) # NoLink /\ ble.link[On(t)] = "open"

Subscribes ==
  /\ Live("setup") /\ entry = "subscribing"
  /\ \E n \in coord.todo :
       SetupGoesOn([ble EXCEPT !.subs[On("setup")] = @ \cup {n}], coord.todo \ {n})

Reads(t) ==
  /\ Live(t) /\ (t = "setup" => entry = "reading")
  /\ \E c \in coord.todo, v \in Value :
       LET k == [coord EXCEPT !.result[c] = v, !.todo = coord.todo \ {c}] IN
       IF k.todo = {} THEN PollEnded(ble, t, k, TRUE)
       ELSE coord' = k /\ ble' \in Begun(ble, t) /\ UNCHANGED entry

Writes == Live("write") /\ ble' = Ended(ble, "write") /\ UNCHANGED <<coord, entry>>

OperationFails(t) == At(t, "use") /\ \E bleak \in BOOLEAN : Failed(ble, t, bleak)

-----------------------------------------------------------------------------
(* The device.                                                             *)

Lost(l) ==
  /\ ble.link[l] = "open"
  /\ ble' = LinkDown(ble, l)
  /\ UNCHANGED <<coord, entry>>

Notifies(l, n) ==
  /\ ble.link[l] = "open" /\ n \in ble.subs[l]
  /\ \E v \in Value : coord' = Notified(coord, n, v)
  /\ UNCHANGED <<ble, entry>>

-----------------------------------------------------------------------------
(* Timers, the user, and the life of the entry.                            *)

Tick ==
  /\ coord.timer > 0
  /\ coord' = [coord EXCEPT !.timer = coord.timer - 1]
  /\ UNCHANGED <<ble, entry>>

\* The scheduled poll, which waits for one that runs.
Due ==
  /\ coord.timer = 0
  /\ IF At("poll", "idle") THEN PollBegun(ble, coord, "poll")
     ELSE coord' = [coord EXCEPT !.timer = Off, !.waiting = TRUE] /\ UNCHANGED ble
  /\ UNCHANGED entry

PollTurn ==
  /\ coord.waiting /\ At("poll", "idle")
  /\ PollBegun(ble, [coord EXCEPT !.waiting = FALSE], "poll")
  /\ UNCHANGED entry

\* A switch is turned: write_char.
Turned ==
  /\ Listening /\ At("write", "idle")
  /\ ble' \in Begun(ble, "write")
  /\ UNCHANGED <<coord, entry>>

EntitiesAdded ==
  /\ entry = "refreshed"
  /\ entry' = "loaded"
  /\ coord' = [coord EXCEPT !.timer = Interval]
  /\ UNCHANGED ble

\* async_unload_entry: the entities go, then the WebSocket client disconnects.
Unload ==
  /\ entry = "loaded"
  /\ entry' = "unloading"
  /\ coord' = [coord EXCEPT !.timer = Off]
  /\ UNCHANGED ble

\* The entry is gone: the coordinator is shut down and a poll is cancelled.
GoneKeepsPoll(b) ==  \* the poll goes on
  /\ entry' = "unloaded"
  /\ coord' = [coord EXCEPT !.timer = Off, !.waiting = FALSE]
  /\ ble' = b

Gone(b) ==
  LET poll == b.call["poll"] IN
  /\ entry' = "unloaded"
  /\ coord' = [coord EXCEPT !.timer = Off, !.waiting = FALSE, !.todo = {}]
  /\ ble' = Ended(IF poll.at = "connect" THEN Unlinked(b, poll.on) ELSE b, "poll")

\* disconnect()
DisconnectForgets ==  \* it drops _client without closing its link
  /\ entry = "unloading"
  /\ Gone([ble EXCEPT !.connected = FALSE, !.cur = NoLink])

Disconnect ==
  /\ entry = "unloading"
  /\ LET b == [ble EXCEPT !.connected = FALSE,
                          !.overlapped = ble.overlapped \/ Connecting(ble) # {}] IN
     IF b.cur # NoLink /\ b.link[b.cur] = "open"
     THEN /\ entry' = "closing"
          /\ ble' = [b EXCEPT !.call["unload"] = [at |-> "close", on |-> b.cur, tries |-> 0]]
          /\ UNCHANGED coord
     ELSE Gone([b EXCEPT !.cur = NoLink])

\* bleak's disconnect() returns, or raises: then so does the unload.
Disconnected ==
  /\ entry = "closing"
  /\ LET b == Ended(ble, "unload") IN
     \/ Gone([LinkDown(b, On("unload")) EXCEPT !.cur = NoLink])
     \/ entry' = "stuck" /\ ble' = b /\ UNCHANGED coord

Caller == {"setup", "poll", "write"}

Call(t) ==
  \/ Connects(t) \/ ConnectFails(t) \/ Wakes(t) \/ OperationFails(t)
  \/ t = "setup" /\ Subscribes
  \/ t \in {"setup", "poll"} /\ Reads(t)
  \/ t = "write" /\ Writes

Next ==
  \/ \E t \in Caller : Call(t)
  \/ \E l \in Link : Lost(l) \/ \E n \in Notify : Notifies(l, n)
  \/ Tick \/ Due \/ PollTurn \/ Turned \/ EntitiesAdded
  \/ Unload \/ Disconnect \/ Disconnected

\* Calls of bleak end, time passes, and Home Assistant runs what is due.
Fairness ==
  /\ \A t \in Caller : WF_vars(Call(t))
  /\ WF_vars(Tick) /\ WF_vars(Due) /\ WF_vars(PollTurn)

Spec == Init /\ [][Next]_vars /\ Fairness

-----------------------------------------------------------------------------
(* Properties.                                                             *)

OpenLinks == {l \in Link : ble.link[l] = "open"}

\* Every variable keeps its type, and the entry's life agrees with who is
\* inside the client.
TypeOK ==
  /\ ble \in Ble /\ coord \in Coord /\ entry \in Entry
  /\ ble.call["setup"].at # "idle" <=> entry \in {"connecting", "subscribing", "reading"}
  /\ ble.call["unload"].at = "close" <=> entry = "closing"
  /\ entry = "unloaded" => ble.call["poll"].at = "idle"

\* No two tasks were ever inside connect() or disconnect() at once, and no
\* disconnect() raised.
Orderly == ~ble.overlapped /\ entry # "stuck"

\* For as long as calls are orderly every open link is the client's own, so that
\* a lost connection is replaced and not added to; it is known to stand, so that
\* no callback for an earlier link makes the next operation connect again; and an
\* unloaded entry has left none open.
NoOrphanLink ==
  Orderly =>
    /\ OpenLinks \subseteq IF entry = "unloaded" THEN {} ELSE {ble.cur}
    /\ ble.cur \in OpenLinks /\ Connecting(ble) = {} => ble.connected

\* What an entity shows of a notified characteristic is the last value
\* received, but for a while: a poll that began before it arrived overwrites
\* it with the older one, and the next poll or notification sets it right.
StaleIsTransient ==
  \A n \in Notify \ Read :
    Listening /\ coord.ok /\ coord.data[n] # coord.chars[n] ~>
      coord.data[n] = coord.chars[n] \/ ~coord.ok \/ ~Listening

\* "Notify characteristics push data immediately via callbacks": a loaded
\* entry whose link is up is subscribed to what it could subscribe to at first.
NotifiedWhileConnected ==
  Listening /\ IsConnected(ble) => Notify \subseteq ble.subs[ble.cur] \cup ble.refused
=============================================================================
