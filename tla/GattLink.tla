------------------------------- MODULE GattLink -------------------------------
(***************************************************************************)
(* A device whose state is read and written over GATT: the generated       *)
(* client (templates/sdk/ble_gatt/client.py.j2), its coordinator and the   *)
(* entities that write (templates/hacs/ble_gatt/).                         *)
(*                                                                         *)
(* Each operation takes the client's lock, connects, exchanges what it has *)
(* to and disconnects, under a timeout.  A poll reads every key; a write   *)
(* that succeeded is shown without reading it back.  Meanwhile the device  *)
(* can be operated by hand.                                                *)
(***************************************************************************)
EXTENDS Integers

CONSTANTS
  Key, Value,    \* what the device reports, and what a key can be
  Writer,        \* the keys that can be written: their entities make the calls,
                 \* one at a time (PARALLEL_UPDATES)
  Poll,          \* the coordinator's task: set-up and polls
  Nobody,
  Unread, Absent \* not read yet; read as None

Task == Writer \cup {Poll}

ASSUME GattAssumption ==
  /\ Writer \subseteq Key /\ Poll \notin Key /\ Nobody \notin Task
  /\ Unread # Absent /\ {Unread, Absent} \cap Value = {}

VARIABLES
  device,  \* the values on the device
  byHand,  \* the keys operated by hand while the lock is held
  at,      \* where each task is in its operation
  holder,  \* who holds the client's lock
  link,    \* whether the holder's connection is up (one that a failed disconnect()
           \* leaves behind is never used again)
  done,    \* the tasks whose exchange succeeded, until the operation ends
  got,     \* what the poll read so far
  want,    \* what each writer is to write
  data,    \* coordinator.data
  ok,      \* last_update_success
  entry,   \* the life of the config entry
  unsure   \* the keys changed behind the coordinator's back: by hand, or by a
           \* write that was reported as failed

op == <<at, holder, link, done>>
shown == <<data, ok, entry, unsure>>
vars == <<device, byHand, op, got, want, shown>>

Nothing == [k \in Key |-> Absent]
NothingRead == [k \in Key |-> Unread]

Init ==
  /\ device \in [Key -> Value]
  /\ byHand = {}
  /\ at = [t \in Task |-> IF t = Poll THEN "waiting" ELSE "idle"]
  /\ holder = Nobody /\ link = "down" /\ done = {}
  /\ got = NothingRead
  /\ want \in [Writer -> Value]
  /\ data = Nothing /\ ok = TRUE
  /\ entry = "info"      \* _async_setup reads the device information
  /\ unsure = {}

Goto(t, l) == at' = [at EXCEPT ![t] = l]

-----------------------------------------------------------------------------
(* _connected(): the way in and the way out of every operation.            *)

\* The lock is taken; establish_connection begins.
AcquireUnlocked(t) ==  \* there is no lock
  /\ at[t] = "waiting"
  /\ holder' = t
  /\ Goto(t, "connecting")
  /\ UNCHANGED <<device, byHand, link, done, got, want, shown>>

Acquire(t) ==
  /\ at[t] = "waiting" /\ holder = Nobody
  /\ holder' = t
  /\ Goto(t, "connecting")
  /\ UNCHANGED <<device, byHand, link, done, got, want, shown>>

Connect(t) ==
  /\ at[t] = "connecting"
  /\ link' = "up" /\ Goto(t, "exchanging")
  /\ UNCHANGED <<device, byHand, holder, done, got, want, shown>>

\* The lock is released and the caller goes on, with nothing in between.
Released(t) ==
  /\ holder' = Nobody /\ link' = "down" /\ done' = done \ {t}
  /\ byHand' = {} /\ got' = NothingRead

\* A poll's end: its state is shown, or entities become unavailable.  The
\* device information, read by the set-up, comes first.
PollEnds(success) ==
  /\ Released(Poll)
  /\ \/ /\ entry = "info" /\ success
        /\ entry' = "first" /\ Goto(Poll, "waiting")
        /\ UNCHANGED <<data, ok, unsure>>
     \/ /\ entry \in {"info", "first"} /\ ~success
        /\ entry' = "failed" /\ Goto(Poll, "idle") /\ ok' = FALSE
        /\ UNCHANGED <<data, unsure>>
     \/ /\ entry \in {"first", "loaded"} /\ success
        /\ entry' = "loaded" /\ Goto(Poll, "idle")
        /\ data' = got /\ ok' = TRUE /\ unsure' = unsure \cap byHand
     \/ /\ entry = "loaded" /\ ~success
        /\ Goto(Poll, "idle") /\ ok' = FALSE
        /\ UNCHANGED <<data, unsure, entry>>
     \/ /\ entry = "unloaded"
        /\ Goto(Poll, "idle") /\ UNCHANGED shown

\* A write's end: _send shows the value, or reports the failure.
WriteEnds(w, success) ==
  /\ Released(w)
  /\ Goto(w, "idle")
  /\ IF success
     THEN /\ data' = [data EXCEPT ![w] = want[w]] /\ ok' = TRUE
          /\ unsure' = unsure \ ({w} \ byHand)
     ELSE /\ unsure' = unsure \cup ({w} \cap done)
          /\ UNCHANGED <<data, ok>>
  /\ UNCHANGED entry

Ends(t, success) == IF t = Poll THEN PollEnds(success) ELSE WriteEnds(t, success)

\* establish_connection fails, or the timeout cancels it.
ConnectFails(t) ==
  /\ at[t] = "connecting"
  /\ Ends(t, FALSE)
  /\ UNCHANGED <<device, want>>

\* The exchange is over: `finally: await client.disconnect()`.
Disconnect(t) ==
  /\ at[t] \in {"closing", "late"}
  /\ Ends(t, t \in done)
  /\ UNCHANGED <<device, want>>

\* That raises, or the timeout cancels it (once: not if it was used up, and
\* "late" is waited for without end).
DisconnectFailsUnheeded(t) ==  \* it counts as a success
  /\ at[t] \in {"closing", "late"}
  /\ Ends(t, TRUE)
  /\ UNCHANGED <<device, want>>

DisconnectFailsLocked(t) ==  \* the lock is not released
  /\ at[t] \in {"closing", "late"}
  /\ link' = "down" /\ Goto(t, "idle") /\ done' = done \ {t}
  /\ UNCHANGED <<device, byHand, holder, got, want, shown>>

DisconnectFails(t) ==
  /\ at[t] \in {"closing", "late"}
  /\ Ends(t, FALSE)
  /\ UNCHANGED <<device, want>>

-----------------------------------------------------------------------------
(* The exchanges.                                                          *)

\* A key is read: its value, or None where the device has none to give.
ReadOnce(k) ==  \* a value that is known is not read again
  /\ at[Poll] = "exchanging" /\ link = "up" /\ entry # "info"
  /\ got[k] = Unread
  /\ got' \in {[got EXCEPT ![k] = v] :
                v \in {IF data[k] = Absent THEN device[k] ELSE data[k], Absent}}
  /\ UNCHANGED <<device, byHand, op, want, shown>>

Read(k) ==
  /\ at[Poll] = "exchanging" /\ link = "up" /\ entry # "info"
  /\ got[k] = Unread
  /\ got' \in {[got EXCEPT ![k] = v] : v \in {device[k], Absent}}
  /\ UNCHANGED <<device, byHand, op, want, shown>>

ReadAll ==
  /\ at[Poll] = "exchanging"
  /\ entry = "info" \/ \A k \in Key : got[k] # Unread
  /\ done' = done \cup {Poll} /\ Goto(Poll, "closing")
  /\ UNCHANGED <<device, byHand, holder, link, got, want, shown>>

Taken(w) == device' = [device EXCEPT ![w] = want[w]]

Write(w) ==
  /\ at[w] = "exchanging" /\ link = "up"
  /\ Taken(w)
  /\ done' = done \cup {w} /\ Goto(w, "closing")
  /\ UNCHANGED <<byHand, holder, link, got, want, shown>>

\* The exchange breaks off; a write may have been taken all the same.
BreaksOffTo(t, l) ==
  /\ at[t] = "exchanging"
  /\ \/ UNCHANGED <<device, unsure>>
     \/ t \in Writer /\ link = "up" /\ Taken(t) /\ unsure' = unsure \cup {t}
  /\ Goto(t, l)
  /\ UNCHANGED <<byHand, holder, link, done, got, want, data, ok, entry>>

BreaksOff(t) == BreaksOffTo(t, "closing")

\* The timeout ends the exchange and is used up by it.
TimesOut(t) == BreaksOffTo(t, "late")

-----------------------------------------------------------------------------
(* The device, and Home Assistant.                                         *)

LinkLost(t) ==
  /\ holder = t /\ link = "up"
  /\ link' = "down"
  /\ UNCHANGED <<device, byHand, at, holder, done, got, want, shown>>

OperatedByHand(k) ==
  /\ \E v \in Value : device' = [device EXCEPT ![k] = v]
  /\ byHand' = byHand \cup {x \in {k} : holder # Nobody}
  /\ unsure' = unsure \cup {k}
  /\ UNCHANGED <<op, got, want, data, ok, entry>>

\* Every POLL_INTERVAL.
PollDue ==
  /\ entry = "loaded" /\ at[Poll] = "idle"
  /\ Goto(Poll, "waiting")
  /\ UNCHANGED <<device, byHand, holder, link, done, got, want, shown>>

\* A call of an entity that is available (Home Assistant skips others).
Call(w) ==
  /\ entry = "loaded" /\ at[w] = "idle"
  /\ ok /\ data[w] # Absent
  /\ \E v \in Value : want' = [want EXCEPT ![w] = v]
  /\ Goto(w, "waiting")
  /\ UNCHANGED <<device, byHand, holder, link, done, got, shown>>

\* The entry goes and its poll is cancelled; calls go on.
Unload ==
  /\ entry = "loaded"
  /\ entry' = "unloaded"
  /\ Goto(Poll, IF at[Poll] = "exchanging" THEN "closing" ELSE "idle")
  /\ IF holder = Poll /\ at[Poll] # "exchanging"
     THEN Released(Poll)
     ELSE UNCHANGED <<holder, link, done, byHand, got>>
  /\ UNCHANGED <<device, want, data, ok, unsure>>

\* What the client itself waits for, the timeout around it included.
Bounded(t) ==
  ConnectFails(t) \/ TimesOut(t) \/ (at[t] = "closing" /\ DisconnectFails(t))

Next ==
  \/ \E t \in Task : \/ Acquire(t) \/ Connect(t) \/ ConnectFails(t)
                     \/ Disconnect(t) \/ DisconnectFails(t)
                     \/ BreaksOff(t) \/ TimesOut(t) \/ LinkLost(t)
  \/ \E k \in Key : Read(k) \/ OperatedByHand(k)
  \/ ReadAll \/ PollDue \/ Unload
  \/ \E w \in Writer : Write(w) \/ Call(w)

\* The timeout expires, and asyncio hands a lock on in the order it was asked
\* for.  bleak and the device are obliged to nothing.
Fairness == \A t \in Task : SF_vars(Acquire(t)) /\ WF_vars(Bounded(t)) /\ WF_vars(PollDue)

Spec == Init /\ [][Next]_vars /\ Fairness

-----------------------------------------------------------------------------
(* Properties.                                                             *)

At == {"idle", "waiting", "connecting", "exchanging", "closing", "late"}
Inside == {"connecting", "exchanging", "closing", "late"}

\* Every variable keeps its type; entities are never given a value that was
\* not read, and the holder of the lock is the one task inside an operation.
TypeOK ==
  /\ device \in [Key -> Value] /\ byHand \subseteq Key
  /\ at \in [Task -> At] /\ holder \in Task \cup {Nobody}
  /\ link \in {"up", "down"} /\ done \subseteq Task
  /\ got \in [Key -> Value \cup {Unread, Absent}]
  /\ want \in [Writer -> Value]
  /\ data \in [Key -> Value \cup {Absent}] /\ ok \in BOOLEAN
  /\ entry \in {"info", "first", "loaded", "unloaded", "failed"}
  /\ unsure \subseteq Key
  /\ \A t \in Task : at[t] \in Inside <=> holder = t

\* What is shown of a key is what the device has, whatever polls and writes
\* were under way together, unless the key was changed behind the
\* coordinator's back and not polled since, or a write of it has been taken
\* and is yet to disconnect: "safe to share, operations are serialised".
ShownIsDevice ==
  \A k \in Key :
    \/ data[k] \in {device[k], Absent}
    \/ k \in unsure
    \/ k \in done

\* Once the device is left as it is, polls that succeed set right whatever
\* was changed by hand or by a write reported as failed.
ShownCatchesUp ==
  /\ <>[][device' = device]_vars
  /\ []<><<Poll \in done /\ Disconnect(Poll)>>_vars
  => <>[](\A k \in Key : data[k] \in {device[k], Absent})

\* Every operation ends, though bleak may not, unless a disconnect() that
\* came after the timeout hangs: no timeout bounds that one, and the lock it
\* holds keeps every other operation waiting.
EndsOrHangsLate ==
  \A t \in Task : at[t] # "idle" ~> at[t] = "idle" \/ \E u \in Task : at[u] = "late"
=============================================================================
