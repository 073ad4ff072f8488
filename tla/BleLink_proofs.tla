---------------------------- MODULE BleLink_proofs ----------------------------
(***************************************************************************)
(* The Bluetooth link for any number of links, characteristics and         *)
(* attempts: orderly calls leave one link open at most, the client's own.  *)
(*                                                                         *)
(* The code makes several calls of the client in one step, so the parts of *)
(* the invariant are predicates of a client b, a coordinator k and an      *)
(* entry e.                                                                *)
(***************************************************************************)
EXTENDS BleLink, TLAPS

-----------------------------------------------------------------------------
(* The client alone.                                                       *)

Opened(b) == {l \in Link : b.link[l] = "open"}

\* Only the unload is ever in disconnect(), of a link; a task sleeps before
\* another attempt only.
Typed(b) ==
  /\ b \in Ble
  /\ \A t \in Task : b.call[t].at = "sleep" => b.call[t].tries < MaxAttempts
  /\ \A t \in Caller : b.call[t].at # "close"
  /\ b.call["unload"].at \in {"idle", "close"}
  /\ b.call["unload"].at = "close" => b.call["unload"].on \in Link

\* While task u connects nothing is open, and it works on the client's own link.
Bound(b, u) ==
  /\ b.call[u].at \in {"connect", "sleep"} => Opened(b) = {}
  /\ b.call[u].at \in {"connect", "close"} => b.call[u].on = b.cur

\* The links of orderly calls, leaving task t out of account, which is about to
\* go on.
Apart(b, e, t) ==
  ~b.overlapped /\ e # "stuck" =>
    /\ Opened(b) \subseteq IF e = "unloaded" THEN {} ELSE {b.cur}
    /\ b.cur \in Opened(b) /\ Connecting(b) \ {t} = {} => b.connected
    /\ \A u, v \in Connecting(b) \ {t} : u = v
    /\ \A u \in Connecting(b) \ {t} : Bound(b, u)
    /\ e = "unloaded" => Connecting(b) \ {t} = {}

Sound(b, e, t) == Typed(b) /\ Apart(b, e, t)

\* Nobody is left out of account.
Noone == "noone"

\* Only task t went on, to `ats`.
Moved(b, d, t, ats) ==
  /\ \A u \in Task \ {t} : d.call[u] = b.call[u]
  /\ d.call[t].at \in ats

CallState == [at: {"idle", "connect", "sleep", "use", "close"},
            on: Link \cup {NoLink}, tries: 0..MaxAttempts]

\* A task that leaves connect() and disconnect() leaves the rest as it was.
LEMMA LeftSound ==
  ASSUME NEW b, NEW e, NEW t \in Caller, Sound(b, e, t),
         NEW at \in {"idle", "use"}, NEW on \in Link \cup {NoLink}
  PROVE  LET d == [b EXCEPT !.call[t] = [at |-> at, on |-> on, tries |-> 0]] IN
         Sound(d, e, Noone) /\ Moved(b, d, t, {at})
<1> DEFINE step == [at |-> at, on |-> on, tries |-> 0]
           d == [b EXCEPT !.call[t] = step]
<1>0. b \in Ble /\ t \in Task /\ b.call \in [Task -> CallState]
  BY DEF Sound, Typed, Caller, Task, Ble, CallState
<1>1. step \in CallState /\ step.at = at
  BY BleAssumption DEF CallState
<1> HIDE DEF step
<1>2. /\ d \in Ble /\ d.call = [b.call EXCEPT ![t] = step]
      /\ d.link = b.link /\ d.cur = b.cur /\ d.connected = b.connected
      /\ d.overlapped = b.overlapped
  BY <1>0, <1>1 DEF Ble, CallState
<1> HIDE DEF d
<1>3. /\ \A u \in Task \ {t} : d.call[u] = b.call[u]
      /\ d.call[t].at = at
  BY <1>0, <1>1, <1>2
<1>4. Typed(d)
  BY <1>2, <1>3 DEF Sound, Typed, Caller, Task
<1>5. Connecting(d) \ {Noone} = Connecting(b) \ {t} /\ Opened(d) = Opened(b)
  BY <1>2, <1>3 DEF Connecting, Opened, Noone, Task
<1>6. \A u \in Connecting(b) \ {t} : Bound(d, u) = Bound(b, u)
  BY <1>2, <1>3, <1>5 DEF Bound, Connecting
<1>7. Apart(d, e, Noone)
  BY <1>2, <1>5, <1>6 DEF Sound, Apart
<1> QED
  BY <1>3, <1>4, <1>7 DEF Sound, Moved, d, step

\* One attempt of a connect() that is alone, with nothing open.
LEMMA AttemptSound ==
  ASSUME NEW b, NEW e, NEW t \in Caller, NEW n \in 1..MaxAttempts, Typed(b),
         ~b.overlapped /\ e # "stuck" =>
           e # "unloaded" /\ Opened(b) = {} /\ Connecting(b) \ {t} = {}
  PROVE  \A d \in Attempt(b, t, n) : Sound(d, e, Noone) /\ Moved(b, d, t, {"connect"})
<1> SUFFICES ASSUME NEW d \in Attempt(b, t, n)
             PROVE  Sound(d, e, Noone) /\ Moved(b, d, t, {"connect"})
  OBVIOUS
<1>0. b \in Ble /\ t \in Task /\ b.call \in [Task -> CallState]
      /\ b.link \in [Link -> {"down", "connecting", "open"}]
  BY DEF Typed, Caller, Task, Ble, CallState
<1>1. PICK l \in Link \cup {NoLink} :
        \/ /\ l \in Fresh(b)
           /\ d = [b EXCEPT !.cur = l, !.link[l] = "connecting",
                            !.call[t] = [at |-> "connect", on |-> l, tries |-> n]]
        \/ /\ l = NoLink
           /\ d = [b EXCEPT !.cur = l,
                            !.call[t] = [at |-> "connect", on |-> l, tries |-> n]]
  BY DEF Attempt, Fresh
<1> DEFINE step == [at |-> "connect", on |-> l, tries |-> n]
<1>2. step \in CallState /\ step.at = "connect" /\ step.on = l
  BY BleAssumption DEF CallState
<1>3. /\ d \in Ble /\ d.call = [b.call EXCEPT ![t] = step]
      /\ d.cur = l /\ d.connected = b.connected /\ d.overlapped = b.overlapped
      /\ \A m \in Link : d.link[m] = "open" => b.link[m] = "open"
  <2> HIDE DEF step
  <2>1. CASE l \in Fresh(b) /\ d = [b EXCEPT !.cur = l, !.link[l] = "connecting",
                                             !.call[t] = step]
    <3>1. l \in Link
      BY <2>1 DEF Fresh
    <3> QED
      BY <1>0, <1>2, <2>1, <3>1 DEF Ble, CallState
  <2>2. CASE l = NoLink /\ d = [b EXCEPT !.cur = l, !.call[t] = step]
    BY <1>0, <1>2, <2>2 DEF Ble, CallState
  <2> QED
    BY <1>1, <2>1, <2>2 DEF step
<1> HIDE DEF step
<1>4. (\A u \in Task \ {t} : d.call[u] = b.call[u]) /\ d.call[t] = step
  BY <1>0, <1>2, <1>3
<1>5. Typed(d)
  BY <1>2, <1>3, <1>4 DEF Typed, Caller, Task
<1>6. ASSUME ~d.overlapped, e # "stuck"
      PROVE  /\ Opened(d) = {} /\ Connecting(d) = {t} /\ Bound(d, t)
             /\ e # "unloaded"
  <2>1. Opened(d) = {}
    BY <1>3, <1>6 DEF Opened
  <2>2. Connecting(d) = {t}
    BY <1>0, <1>2, <1>3, <1>4, <1>6 DEF Connecting
  <2> QED
    BY <1>2, <1>3, <1>4, <1>6, <2>1, <2>2 DEF Bound
<1>7. Apart(d, e, Noone)
  BY <1>6 DEF Apart
<1> QED
  BY <1>2, <1>4, <1>5, <1>7 DEF Sound, Moved

\* An operation begins, or goes on.
LEMMA BegunSound ==
  ASSUME NEW b, NEW e, NEW t \in Caller, Sound(b, e, t), e # "unloaded"
  PROVE  \A d \in Begun(b, t) :
           Sound(d, e, Noone) /\ Moved(b, d, t, {"use", "connect"})
<1>0. b \in Ble
  BY DEF Sound, Typed
<1>1. CASE IsConnected(b)
  <2> DEFINE d == [b EXCEPT !.call[t] = [at |-> "use", on |-> b.cur, tries |-> 0]]
  <2>1. Begun(b, t) = {d}
    BY <1>1 DEF Begun, Used
  <2>2. b.cur \in Link \cup {NoLink}
    BY <1>0 DEF Ble
  <2>3. Sound(d, e, Noone) /\ Moved(b, d, t, {"use"})
    BY <2>2, LeftSound
  <2> HIDE DEF d
  <2> QED
    BY <2>1, <2>3 DEF Moved
<1>2. CASE ~IsConnected(b)
  <2> DEFINE c == [b EXCEPT !.overlapped = b.overlapped \/ Connecting(b) \ {t} # {}]
  <2>1. Begun(b, t) = Attempt(c, t, 1)
    BY <1>2 DEF Begun, ConnectBegun
  <2>2. /\ c \in Ble /\ c.call = b.call /\ c.link = b.link /\ c.cur = b.cur
        /\ c.overlapped = (b.overlapped \/ Connecting(b) \ {t} # {})
    BY <1>0 DEF Ble
  <2> HIDE DEF c
  <2>3. Typed(c)
    BY <2>2 DEF Sound, Typed
  <2>4. Opened(c) = Opened(b) /\ Connecting(c) = Connecting(b)
    BY <2>2 DEF Opened, Connecting
  <2>5. ASSUME ~c.overlapped, e # "stuck"
        PROVE  Opened(c) = {} /\ Connecting(c) \ {t} = {}
    <3>1. Connecting(b) \ {t} = {} /\ ~b.overlapped
      BY <2>2, <2>5
    <3>2. b.cur \in Opened(b) => b.connected /\ b.cur # NoLink /\ b.link[b.cur] = "open"
      BY <2>5, <3>1, BleAssumption DEF Sound, Apart, Opened
    <3>3. Opened(b) = {}
      BY <1>2, <2>5, <3>1, <3>2 DEF Sound, Apart, IsConnected
    <3> QED
      BY <2>4, <3>1, <3>3
  <2>6. 1 \in 1..MaxAttempts
    BY BleAssumption
  <2>7. \A d \in Attempt(c, t, 1) :
          Sound(d, e, Noone) /\ Moved(c, d, t, {"connect"})
    BY <2>3, <2>5, <2>6, AttemptSound
  <2> QED
    BY <2>1, <2>2, <2>7 DEF Moved
<1> QED
  BY <1>1, <1>2

\* What a step changes of the links, all calls staying as they are: nothing new
\* is open, and the flag falls only with the client's own link.
LEMMA ClosedSound ==
  ASSUME NEW b, NEW d, NEW e, NEW t, Sound(b, e, t), d \in Ble,
         d.call = b.call, d.cur = b.cur, d.overlapped = b.overlapped,
         Opened(d) \subseteq Opened(b),
         b.cur \in Opened(d) /\ b.connected => d.connected
  PROVE  Sound(d, e, t)
<1>1. Typed(d)
  BY DEF Sound, Typed
<1>2. Connecting(d) = Connecting(b)
  BY DEF Connecting
<1>3. \A u \in Connecting(b) : Bound(b, u) => Bound(d, u)
  BY DEF Bound
<1> QED
  BY <1>1, <1>2, <1>3 DEF Sound, Apart

LEMMA UnlinkedSound ==
  ASSUME NEW b, NEW l, NEW e, NEW t, Sound(b, e, t)
  PROVE  /\ Sound(Unlinked(b, l), e, t) /\ Unlinked(b, l).call = b.call
         /\ Opened(Unlinked(b, l)) \subseteq Opened(b)
         /\ Unlinked(b, l).overlapped = b.overlapped
<1> DEFINE d == Unlinked(b, l)
<1>0. b \in Ble
  BY DEF Sound, Typed
<1>1. /\ d \in Ble /\ d.call = b.call /\ d.cur = b.cur /\ d.overlapped = b.overlapped
      /\ d.connected = b.connected
      /\ d.link = [k \in Link |-> IF k = l THEN "down" ELSE b.link[k]]
  BY <1>0 DEF Unlinked, Ble
<1> HIDE DEF d
<1>2. Opened(d) \subseteq Opened(b)
  BY <1>1 DEF Opened
<1> QED
  BY <1>1, <1>2, ClosedSound DEF d

LEMMA LinkDownSound ==
  ASSUME NEW b, NEW l \in Link, NEW e, NEW t, Sound(b, e, t),
         ~b.overlapped /\ e # "stuck" => l = b.cur \/ Opened(b) = {}
  PROVE  Sound(LinkDown(b, l), e, t) /\ LinkDown(b, l).call = b.call
<1> DEFINE d == LinkDown(b, l)
<1>0. b \in Ble
  BY DEF Sound, Typed
<1>1. /\ d \in Ble /\ d.call = b.call /\ d.cur = b.cur /\ d.overlapped = b.overlapped
      /\ d.link = [b.link EXCEPT ![l] = "down"]
  BY <1>0 DEF LinkDown, Ble
<1> HIDE DEF d
<1>2. Opened(d) = Opened(b) \ {l}
  BY <1>0, <1>1 DEF Opened, Ble
<1>3. Typed(d) /\ Connecting(d) = Connecting(b)
  BY <1>1 DEF Sound, Typed, Connecting
<1>4. \A u \in Connecting(b) : Bound(b, u) => Bound(d, u)
  BY <1>1, <1>2 DEF Bound
<1>5. Apart(d, e, t)
  BY <1>1, <1>2, <1>3, <1>4 DEF Sound, Apart
<1> QED
  BY <1>1, <1>3, <1>5 DEF Sound, d

\* BleakClient.connect() returns to task t.
LEMMA LinkOpensSound ==
  ASSUME NEW b, NEW e, NEW t \in Caller, Sound(b, e, Noone),
         b.call[t].at = "connect", b.call[t].on # NoLink
  PROVE  LET d == [b EXCEPT !.link[b.call[t].on] = "open", !.connected = TRUE] IN
         Sound(d, e, t) /\ d.call = b.call
<1> DEFINE l == b.call[t].on
           d == [b EXCEPT !.link[l] = "open", !.connected = TRUE]
<1>0. b \in Ble /\ t \in Task /\ l \in Link
  BY DEF Sound, Typed, Caller, Task, Ble
<1>1. /\ d \in Ble /\ d.call = b.call /\ d.cur = b.cur /\ d.overlapped = b.overlapped
      /\ d.link = [b.link EXCEPT ![l] = "open"] /\ d.connected = TRUE
  BY <1>0 DEF Ble
<1>2. t \in Connecting(b) /\ Connecting(b) \ {Noone} = Connecting(b)
  BY <1>0 DEF Connecting, Noone, Task
<1> HIDE DEF d
<1>3. Typed(d) /\ Connecting(d) = Connecting(b)
  BY <1>1 DEF Sound, Typed, Connecting
<1>4. ASSUME ~b.overlapped, e # "stuck"
      PROVE  Opened(b) = {} /\ l = b.cur /\ Connecting(b) = {t} /\ e # "unloaded"
  <2>1. /\ \A u, v \in Connecting(b) : u = v
        /\ \A u \in Connecting(b) : Bound(b, u)
        /\ e = "unloaded" => Connecting(b) = {}
    BY <1>2, <1>4 DEF Sound, Apart
  <2> QED
    BY <1>2, <2>1 DEF Bound
<1>5. Opened(d) \subseteq Opened(b) \cup {l}
  BY <1>0, <1>1 DEF Opened, Ble
<1>6. Apart(d, e, t)
  BY <1>1, <1>3, <1>4, <1>5 DEF Apart
<1> QED
  BY <1>1, <1>3, <1>6 DEF Sound, d

\* A failed attempt is slept over.
LEMMA SleepSound ==
  ASSUME NEW b, NEW e, NEW t \in Caller, Sound(b, e, Noone),
         b.call[t].at = "connect", b.call[t].tries < MaxAttempts
  PROVE  LET d == [b EXCEPT !.call[t].at = "sleep"] IN
         Sound(d, e, Noone) /\ Moved(b, d, t, {"sleep"})
<1> DEFINE step == [b.call[t] EXCEPT !.at = "sleep"]
           d == [b EXCEPT !.call[t].at = "sleep"]
<1>0. b \in Ble /\ t \in Task /\ b.call \in [Task -> CallState]
  BY DEF Sound, Typed, Caller, Task, Ble, CallState
<1>1. step \in CallState /\ step.at = "sleep" /\ step.tries = b.call[t].tries
  BY <1>0 DEF CallState
<1>2. d = [b EXCEPT !.call[t] = step]
  BY <1>0 DEF Ble
<1> HIDE DEF step, d
<1>3. /\ d \in Ble /\ d.call = [b.call EXCEPT ![t] = step]
      /\ d.link = b.link /\ d.cur = b.cur /\ d.connected = b.connected
      /\ d.overlapped = b.overlapped
  BY <1>0, <1>1, <1>2 DEF Ble, CallState
<1>4. (\A u \in Task \ {t} : d.call[u] = b.call[u]) /\ d.call[t] = step
  BY <1>0, <1>1, <1>3
<1>5. Typed(d)
  BY <1>1, <1>3, <1>4 DEF Sound, Typed, Caller, Task
<1>6. Connecting(d) = Connecting(b) /\ Opened(d) = Opened(b)
  BY <1>0, <1>1, <1>3, <1>4 DEF Connecting, Opened
<1>7. \A u \in Connecting(b) : Bound(b, u) => Bound(d, u)
  BY <1>1, <1>3, <1>4, <1>6 DEF Bound, Connecting
<1>8. Apart(d, e, Noone)
  BY <1>3, <1>6, <1>7 DEF Sound, Apart
<1> QED
  BY <1>1, <1>4, <1>5, <1>8 DEF Sound, Moved, d

\* A task outside connect() and disconnect() need not be left out of account.
LEMMA UsingSound ==
  ASSUME NEW b, NEW e, NEW t, Sound(b, e, Noone), t \notin Connecting(b)
  PROVE  Sound(b, e, t)
<1>1. Connecting(b) \ {Noone} = Connecting(b) \ {t}
  BY DEF Connecting, Noone, Task
<1> QED
  BY <1>1 DEF Sound, Apart

\* The names of the entry's life matter to the links in two cases only.
LEMMA EntrySound ==
  ASSUME NEW b, NEW e, NEW f, NEW t, Sound(b, e, t),
         e \notin {"unloaded", "stuck"}, f # "unloaded"
  PROVE  Sound(b, f, t)
  BY DEF Sound, Apart

-----------------------------------------------------------------------------
(* The client with the coordinator and the entry.                          *)

\* The entry's life agrees with who is inside the client; polls and writes begin
\* once it is loaded, and none is scheduled when it is gone.
Life(b, k, e) ==
  /\ k \in Coord /\ e \in Entry
  /\ b.call["setup"].at # "idle" <=> e \in {"connecting", "subscribing", "reading"}
  /\ b.call["unload"].at # "idle" <=> e = "closing"
  /\ e \notin {"loaded", "unloading", "closing", "unloaded", "stuck"} =>
       /\ b.call["poll"].at = "idle" /\ b.call["write"].at = "idle"
       /\ k.timer = Off /\ ~k.waiting
  /\ e = "unloaded" => b.call["poll"].at = "idle" /\ k.timer = Off /\ ~k.waiting
  /\ e = "subscribing" => k.todo # {} /\ k.todo \subseteq Notify

IInv == Sound(ble, entry, Noone) /\ Life(ble, coord, entry)

\* The other tasks are where they were.
Others(b, t) == \A u \in Task \ {t} : b.call[u] = ble.call[u]

LEMMA OffTyped == Off \in Off..Interval
  BY BleAssumption DEF Off

LEMMA ScheduledTyped ==
  ASSUME NEW k \in Coord
  PROVE  LET j == Scheduled(k) IN
         /\ j \in Coord /\ j.waiting = k.waiting /\ j.todo = k.todo
         /\ ~Listening => j.timer = Off
  BY BleAssumption DEF Scheduled, Coord, Off

\* A task that goes on in the client while the entry stays what it is.
LEMMA GoesOn ==
  ASSUME IInv, NEW t \in Caller, NEW k, NEW d,
         Sound(d, entry, Noone), Others(d, t),
         d.call[t].at = "idle" <=> ble.call[t].at = "idle",
         k \in Coord, entry = "subscribing" => k.todo = coord.todo,
         k.timer = coord.timer \/ k.timer = Off, k.waiting = coord.waiting,
         ble' = d, coord' = k, entry' = entry
  PROVE  IInv'
<1>1. Life(d, k, entry)
  BY DEF IInv, Life, Others, Caller, Task
<1> QED
  BY <1>1 DEF IInv

LEMMA PollBegunStep ==
  ASSUME IInv, NEW b, NEW k \in Coord, NEW t \in {"setup", "poll"},
         NEW e \in Entry \ {"unloaded"}, Sound(b, e, t), Others(b, t), entry' = e,
         t = "setup" => e = "reading" /\ entry \in {"connecting", "subscribing"},
         t = "poll" => e = entry /\ (coord.timer # Off \/ coord.waiting),
         ~k.waiting \/ k.waiting = coord.waiting, PollBegun(b, k, t)
  PROVE  IInv'
<1> DEFINE j == [k EXCEPT !.timer = Off, !.result = k.chars, !.todo = Read]
<1>1. coord' = j /\ ble' \in Begun(b, t)
  BY DEF PollBegun
<1>2. j \in Coord /\ j.timer = Off /\ j.waiting = k.waiting
  <2>1. Read \subseteq Char /\ Off \in Off..Interval
    BY BleAssumption DEF Char, Off
  <2> QED
    BY <2>1 DEF Coord
<1> HIDE DEF j
<1>3. Sound(ble', e, Noone) /\ Moved(b, ble', t, {"use", "connect"})
  BY <1>1, BegunSound DEF Caller
<1>4. \A u \in Task \ {t} : ble'.call[u] = ble.call[u]
  BY <1>3 DEF Moved, Others
<1>5. CASE t = "setup"
  BY <1>1, <1>2, <1>3, <1>4, <1>5 DEF IInv, Life, Moved, Task, Entry
<1>6. CASE t = "poll"
  <2>1. entry \in {"loaded", "unloading", "closing", "stuck"}
    BY <1>6 DEF IInv, Life, Entry
  <2> QED
    BY <1>1, <1>2, <1>3, <1>4, <1>6, <2>1 DEF IInv, Life, Moved, Task, Entry
<1> QED
  BY <1>5, <1>6

LEMMA PollEndedStep ==
  ASSUME IInv, NEW b, NEW k \in Coord, NEW t \in {"setup", "poll"},
         NEW ok \in BOOLEAN, Sound(b, entry, t), Others(b, t),
         ble.call[t].at # "idle", k.waiting = coord.waiting, PollEnded(b, t, k, ok)
  PROVE  IInv'
<1> DEFINE i == [k EXCEPT !.ok = ok, !.todo = {},
                          !.data = IF ok THEN k.result ELSE k.data]
           d == Ended(b, t)
<1>1. /\ coord' = Scheduled(i) /\ ble' = d
      /\ entry' = IF t = "poll" THEN entry ELSE IF ok THEN "refreshed" ELSE "failed"
  BY DEF PollEnded
<1>2. i \in Coord /\ i.waiting = k.waiting
  BY DEF Coord
<1> HIDE DEF i
<1>3. /\ Scheduled(i) \in Coord /\ Scheduled(i).waiting = coord.waiting
      /\ entry # "loaded" => Scheduled(i).timer = Off
  BY <1>2, ScheduledTyped DEF Listening
<1>4. Sound(d, entry, Noone) /\ Moved(b, d, t, {"idle"})
  BY LeftSound DEF Ended, Idle, Caller
<1> HIDE DEF d
<1>5. (\A u \in Task \ {t} : d.call[u] = ble.call[u]) /\ d.call[t].at = "idle"
  BY <1>4 DEF Moved, Others
<1>6. CASE t = "setup"
  <2>1. entry \in {"connecting", "subscribing", "reading"}
    BY <1>6 DEF IInv, Life
  <2>2. Sound(d, entry', Noone)
    BY <1>1, <1>4, <1>6, <2>1, EntrySound
  <2>3. Life(d, Scheduled(i), entry')
    BY <1>1, <1>3, <1>5, <1>6, <2>1 DEF IInv, Life, Task, Entry
  <2> QED
    BY <1>1, <2>2, <2>3 DEF IInv
<1>7. CASE t = "poll"
  <2>1. entry \in {"loaded", "unloading", "closing", "stuck"}
    BY <1>7 DEF IInv, Life, Entry
  <2>2. Life(d, Scheduled(i), entry)
    BY <1>3, <1>5, <1>7, <2>1 DEF IInv, Life, Task, Entry
  <2> QED
    BY <1>1, <1>4, <1>7, <2>2 DEF IInv
<1> QED
  BY <1>6, <1>7

\* The set-up goes on to the next subscription, or to the first poll.
LEMMA SetupGoesOnStep ==
  ASSUME IInv, NEW b, NEW todo \in SUBSET Notify, Sound(b, entry, "setup"),
         Others(b, "setup"), entry \in {"connecting", "subscribing"},
         SetupGoesOn(b, todo)
  PROVE  IInv'
<1>0. coord \in Coord
  BY DEF IInv, Life
<1>1. CASE todo # {}
  <2>1. /\ entry' = "subscribing" /\ coord' = [coord EXCEPT !.todo = todo]
        /\ ble' \in Begun(b, "setup")
    BY <1>1 DEF SetupGoesOn
  <2>2. /\ coord' \in Coord /\ coord'.todo = todo /\ coord'.timer = coord.timer
        /\ coord'.waiting = coord.waiting
    BY <1>0, <2>1 DEF Coord, Char
  <2>3. Sound(b, "subscribing", "setup")
    BY EntrySound
  <2>4. /\ Sound(ble', "subscribing", Noone)
        /\ Moved(b, ble', "setup", {"use", "connect"})
    BY <2>1, <2>3, BegunSound DEF Caller
  <2>5. (\A u \in Task \ {"setup"} : ble'.call[u] = ble.call[u])
        /\ ble'.call["setup"].at # "idle"
    BY <2>4 DEF Moved, Others
  <2>6. Life(ble', coord', "subscribing")
    BY <1>1, <2>2, <2>5 DEF IInv, Life, Task, Entry
  <2> QED
    BY <2>1, <2>4, <2>6 DEF IInv
<1>2. CASE todo = {}
  <2>1. entry' = "reading" /\ PollBegun(b, coord, "setup")
    BY <1>2 DEF SetupGoesOn
  <2>2. Sound(b, "reading", "setup")
    BY EntrySound
  <2> QED
    BY <1>0, <2>1, <2>2, PollBegunStep DEF Entry
<1> QED
  BY <1>1, <1>2

LEMMA RefusedSound ==
  ASSUME NEW b, NEW n \in Notify, NEW e, NEW t, Sound(b, e, t)
  PROVE  LET d == [b EXCEPT !.refused = b.refused \cup {n}] IN
         Sound(d, e, t) /\ d.call = b.call
<1> DEFINE d == [b EXCEPT !.refused = b.refused \cup {n}]
<1>1. /\ d \in Ble /\ d.call = b.call /\ d.cur = b.cur /\ d.overlapped = b.overlapped
      /\ d.link = b.link /\ d.connected = b.connected
  BY DEF Sound, Typed, Ble
<1> HIDE DEF d
<1>2. Opened(d) = Opened(b)
  BY <1>1 DEF Opened
<1> QED
  BY <1>1, <1>2, ClosedSound DEF d

\* An operation of task t ends with an exception.
LEMMA FailedStep ==
  ASSUME IInv, NEW t \in Caller, ble.call[t].at # "idle", NEW b, NEW bleak \in BOOLEAN,
         Sound(b, entry, t), Others(b, t), Failed(b, t, bleak)
  PROVE  IInv'
<1>0. coord \in Coord
  BY DEF IInv, Life
<1>1. CASE t = "write" /\ ble' = Ended(b, t) /\ UNCHANGED <<coord, entry>>
  <2> DEFINE d == Ended(b, t)
  <2>1. Sound(d, entry, Noone) /\ Moved(b, d, t, {"idle"})
    BY LeftSound DEF Ended, Idle
  <2> HIDE DEF d
  <2>2. (\A u \in Task \ {"write"} : d.call[u] = ble.call[u]) /\ d.call["write"].at = "idle"
    BY <1>1, <2>1 DEF Moved, Others
  <2>3. Life(d, coord, entry)
    BY <2>2 DEF IInv, Life, Task
  <2> QED
    BY <1>1, <2>1, <2>3 DEF IInv, d
<1>2. CASE t = "poll" /\ PollEnded(b, t, coord, FALSE)
  BY <1>0, <1>2, PollEndedStep
<1>3. CASE /\ t = "setup" /\ entry = "subscribing" /\ bleak
           /\ \E n \in coord.todo :
                SetupGoesOn([b EXCEPT !.refused = b.refused \cup {n}], coord.todo \ {n})
  <2>1. PICK n \in coord.todo :
          SetupGoesOn([b EXCEPT !.refused = b.refused \cup {n}], coord.todo \ {n})
    BY <1>3
  <2>2. n \in Notify /\ coord.todo \ {n} \in SUBSET Notify
    BY <1>3, <2>1 DEF IInv, Life
  <2> DEFINE d == [b EXCEPT !.refused = b.refused \cup {n}]
  <2>3. Sound(d, entry, "setup") /\ d.call = b.call
    BY <1>3, <2>2, RefusedSound
  <2>4. SetupGoesOn(d, coord.todo \ {n})
    BY <2>1
  <2> HIDE DEF d
  <2>5. Others(d, "setup")
    BY <1>3, <2>3 DEF Others
  <2> QED
    BY <1>3, <2>2, <2>3, <2>4, <2>5, SetupGoesOnStep
<1>4. CASE t = "setup" /\ PollEnded(b, t, coord, FALSE)
  BY <1>0, <1>4, PollEndedStep
<1> QED
  BY <1>1, <1>2, <1>3, <1>4 DEF Failed

-----------------------------------------------------------------------------
(* The steps.                                                              *)

LEMMA ConnectsStep == ASSUME IInv, NEW t \in Caller, Connects(t) PROVE IInv'
<1> DEFINE b == [ble EXCEPT !.link[ble.call[t].on] = "open", !.connected = TRUE]
<1>0. ble.call[t].at = "connect" /\ ble.call[t].on # NoLink /\ coord \in Coord
  BY DEF Connects, At, On, IInv, Life
<1>1. Sound(b, entry, t) /\ b.call = ble.call
  BY <1>0, LinkOpensSound DEF IInv
<1>2. IF entry = "connecting" THEN SetupGoesOn(b, Notify)
      ELSE ble' = Used(b, t) /\ UNCHANGED <<coord, entry>>
  BY DEF Connects, On
<1>3. b.cur \in Link \cup {NoLink}
  BY <1>1 DEF Sound, Typed, Ble
<1> HIDE DEF b
<1>4. Others(b, t)
  BY <1>1 DEF Others
<1>5. CASE entry = "connecting"
  <2>1. t = "setup"
    BY <1>0, <1>5 DEF IInv, Life, Caller
  <2> QED
    BY <1>1, <1>2, <1>4, <1>5, <2>1, SetupGoesOnStep
<1>6. CASE entry # "connecting"
  <2> DEFINE d == Used(b, t)
  <2>1. Sound(d, entry, Noone) /\ Moved(b, d, t, {"use"})
    BY <1>1, <1>3, LeftSound DEF Used
  <2>2. ble' = d /\ coord' = coord /\ entry' = entry
    BY <1>2, <1>6
  <2> HIDE DEF d
  <2>3. Others(d, t) /\ d.call[t].at = "use"
    BY <1>4, <2>1 DEF Others, Moved
  <2> QED
    BY <1>0, <2>1, <2>2, <2>3, GoesOn
<1> QED
  BY <1>5, <1>6

LEMMA ConnectFailsStep == ASSUME IInv, NEW t \in Caller, ConnectFails(t) PROVE IInv'
<1> DEFINE b == Unlinked(ble, On(t))
<1>0. ble.call[t].at = "connect" /\ coord \in Coord /\ t \in Task
  BY DEF ConnectFails, At, IInv, Life, Caller, Task
<1>1. /\ Sound(b, entry, Noone) /\ b.call = ble.call
      /\ Opened(b) \subseteq Opened(ble) /\ b.overlapped = ble.overlapped
  BY UnlinkedSound DEF IInv
<1>2. \/ /\ ble.call[t].tries < MaxAttempts
         /\ ble' = [b EXCEPT !.call[t].at = "sleep"] /\ UNCHANGED <<coord, entry>>
      \/ \E bleak \in BOOLEAN : Failed(b, t, bleak)
  BY DEF ConnectFails
<1> HIDE DEF b
<1>3. Others(b, t)
  BY <1>1 DEF Others
<1>4. CASE /\ ble.call[t].tries < MaxAttempts
           /\ ble' = [b EXCEPT !.call[t].at = "sleep"] /\ UNCHANGED <<coord, entry>>
  <2> DEFINE d == [b EXCEPT !.call[t].at = "sleep"]
  <2>1. Sound(d, entry, Noone) /\ Moved(b, d, t, {"sleep"})
    BY <1>0, <1>1, <1>4, SleepSound
  <2>2. ble' = d /\ coord' = coord /\ entry' = entry
    BY <1>4
  <2> HIDE DEF d
  <2>3. Others(d, t) /\ d.call[t].at = "sleep"
    BY <1>3, <2>1 DEF Others, Moved
  <2> QED
    BY <1>0, <2>1, <2>2, <2>3, GoesOn
<1>5. CASE \E bleak \in BOOLEAN : Failed(b, t, bleak)
  <2>1. Connecting(b) \ {Noone} = Connecting(b) /\ t \in Connecting(b)
    BY <1>0, <1>1 DEF Connecting, Noone, Task
  <2>2. Typed(b)
    BY <1>1 DEF Sound
  <2>3. Apart(b, entry, t)
    <3> SUFFICES ASSUME ~b.overlapped, entry # "stuck" PROVE Apart(b, entry, t)
      BY DEF Apart
    <3>1. /\ \A u, v \in Connecting(b) : u = v
          /\ \A u \in Connecting(b) : Bound(b, u)
          /\ entry = "unloaded" => Connecting(b) = {}
      BY <1>1, <2>1 DEF Sound, Apart
    <3>2. Opened(b) = {} /\ Connecting(b) = {t}
      BY <1>0, <1>1, <2>1, <3>1 DEF Bound
    <3> QED
      BY <3>2 DEF Apart
  <2> QED
    BY <1>0, <1>3, <1>5, <2>2, <2>3, FailedStep DEF Sound
<1> QED
  BY <1>2, <1>4, <1>5

LEMMA WakesStep == ASSUME IInv, NEW t \in Caller, Wakes(t) PROVE IInv'
<1>0. /\ ble.call[t].at = "sleep" /\ coord \in Coord /\ t \in Task
      /\ coord' = coord /\ entry' = entry /\ Typed(ble)
      /\ ble' \in Attempt(ble, t, ble.call[t].tries + 1)
  BY DEF Wakes, At, IInv, Life, Caller, Task, Sound
<1>1. ble.call[t].tries + 1 \in 1..MaxAttempts
  <2>1. ble.call[t].tries \in 0..MaxAttempts /\ ble.call[t].tries < MaxAttempts
    BY <1>0 DEF Typed, Ble
  <2> QED
    BY <2>1, BleAssumption
<1>2. ASSUME ~ble.overlapped, entry # "stuck"
      PROVE  entry # "unloaded" /\ Opened(ble) = {} /\ Connecting(ble) \ {t} = {}
  <2>1. t \in Connecting(ble) /\ Connecting(ble) \ {Noone} = Connecting(ble)
    BY <1>0 DEF Connecting, Noone, Task
  <2>2. /\ \A u, v \in Connecting(ble) : u = v
        /\ \A u \in Connecting(ble) : Bound(ble, u)
        /\ entry = "unloaded" => Connecting(ble) = {}
    BY <1>2, <2>1 DEF IInv, Sound, Apart
  <2> QED
    BY <1>0, <2>1, <2>2 DEF Bound
<1>3. Sound(ble', entry, Noone) /\ Moved(ble, ble', t, {"connect"})
  BY <1>0, <1>1, <1>2, AttemptSound
<1>4. Others(ble', t) /\ ble'.call[t].at = "connect"
  BY <1>3 DEF Moved, Others
<1> QED
  BY <1>0, <1>3, <1>4, GoesOn

\* A task that uses the client is not inside connect() or disconnect().
LEMMA Using ==
  ASSUME IInv, NEW t \in Caller, ble.call[t].at = "use"
  PROVE  Sound(ble, entry, t) /\ Others(ble, t) /\ coord \in Coord /\ t \in Task
<1>1. t \notin Connecting(ble) /\ t \in Task
  BY DEF Connecting, Caller, Task
<1> QED
  BY <1>1, UsingSound DEF IInv, Life, Others

LEMMA SubscribesStep == ASSUME IInv, Subscribes PROVE IInv'
<1> DEFINE l == ble.call["setup"].on
<1>0. /\ ble.call["setup"].at = "use" /\ l # NoLink /\ entry = "subscribing"
      /\ "setup" \in Caller
  BY DEF Subscribes, Live, At, On, Caller
<1>1. PICK n \in coord.todo :
        SetupGoesOn([ble EXCEPT !.subs[l] = @ \cup {n}], coord.todo \ {n})
  BY DEF Subscribes, On
<1>2. n \in Notify /\ coord.todo \ {n} \in SUBSET Notify
  BY <1>0, <1>1 DEF IInv, Life
<1>3. Sound(ble, "subscribing", "setup") /\ Others(ble, "setup")
  BY <1>0, Using
<1>4. ble \in Ble /\ l \in Link
  BY <1>0 DEF IInv, Sound, Typed, Ble, Task
<1> DEFINE d == [ble EXCEPT !.subs[l] = @ \cup {n}]
<1>5. /\ d \in Ble /\ d.call = ble.call /\ d.cur = ble.cur /\ d.link = ble.link
      /\ d.overlapped = ble.overlapped /\ d.connected = ble.connected
  BY <1>2, <1>4 DEF Ble
<1>6. SetupGoesOn(d, coord.todo \ {n})
  BY <1>1
<1> HIDE DEF d
<1>7. Opened(d) = Opened(ble)
  BY <1>5 DEF Opened
<1>8. Sound(d, "subscribing", "setup") /\ Others(d, "setup")
  BY <1>3, <1>5, <1>7, ClosedSound DEF Others
<1> QED
  BY <1>0, <1>2, <1>6, <1>8, SetupGoesOnStep

LEMMA ReadsStep ==
  ASSUME IInv, NEW t \in {"setup", "poll"}, Reads(t) PROVE IInv'
<1>0. /\ ble.call[t].at = "use" /\ t \in Caller
      /\ t = "setup" => entry = "reading"
  BY DEF Reads, Live, At, Caller
<1>1. PICK c \in coord.todo, v \in Value :
        LET k == [coord EXCEPT !.result[c] = v, !.todo = coord.todo \ {c}] IN
        IF k.todo = {} THEN PollEnded(ble, t, k, TRUE)
        ELSE coord' = k /\ ble' \in Begun(ble, t) /\ UNCHANGED entry
  BY DEF Reads
<1> DEFINE k == [coord EXCEPT !.result[c] = v, !.todo = coord.todo \ {c}]
<1>2. Sound(ble, entry, t) /\ Others(ble, t) /\ coord \in Coord
  BY <1>0, Using
<1>3. /\ k \in Coord /\ k.timer = coord.timer /\ k.waiting = coord.waiting
  BY <1>1, <1>2 DEF Coord, Values
<1>4. IF k.todo = {} THEN PollEnded(ble, t, k, TRUE)
      ELSE coord' = k /\ ble' \in Begun(ble, t) /\ entry' = entry
  BY <1>1
<1> HIDE DEF k
<1>5. CASE k.todo = {}
  BY <1>0, <1>2, <1>3, <1>4, <1>5, PollEndedStep
<1>6. CASE k.todo # {}
  <2>1. entry # "unloaded" /\ entry # "subscribing"
    <3>1. CASE t = "setup"
      BY <1>0, <3>1
    <3>2. CASE t = "poll"
      BY <1>0, <3>2 DEF IInv, Life
    <3> QED
      BY <3>1, <3>2
  <2>2. Sound(ble', entry, Noone) /\ Moved(ble, ble', t, {"use", "connect"})
    BY <1>0, <1>2, <1>4, <1>6, <2>1, BegunSound
  <2>3. Others(ble', t) /\ ble'.call[t].at # "idle"
    BY <2>2 DEF Moved, Others
  <2> QED
    BY <1>0, <1>3, <1>4, <1>6, <2>1, <2>2, <2>3, GoesOn
<1> QED
  BY <1>5, <1>6

LEMMA OperationFailsStep ==
  ASSUME IInv, NEW t \in Caller, OperationFails(t) PROVE IInv'
<1>1. ble.call[t].at = "use"
  BY DEF OperationFails, At
<1>2. PICK bleak \in BOOLEAN : Failed(ble, t, bleak)
  BY DEF OperationFails
<1> QED
  BY <1>1, <1>2, Using, FailedStep

LEMMA WritesStep == ASSUME IInv, Writes PROVE IInv'
<1>1. /\ ble.call["write"].at = "use" /\ ble' = Ended(ble, "write")
      /\ coord' = coord /\ entry' = entry /\ "write" \in Caller
  BY DEF Writes, Live, At, Caller
<1>2. Sound(ble, entry, "write")
  BY <1>1, Using
<1>3. Sound(ble', entry, Noone) /\ Moved(ble, ble', "write", {"idle"})
  BY <1>1, <1>2, LeftSound DEF Ended, Idle
<1>4. Life(ble', coord, entry)
  BY <1>3 DEF IInv, Life, Moved, Task
<1> QED
  BY <1>1, <1>3, <1>4 DEF IInv

LEMMA LostStep == ASSUME IInv, NEW l \in Link, Lost(l) PROVE IInv'
<1>1. /\ ble.link[l] = "open" /\ ble' = LinkDown(ble, l)
      /\ coord' = coord /\ entry' = entry
  BY DEF Lost
<1>2. ~ble.overlapped /\ entry # "stuck" => l = ble.cur
  BY <1>1 DEF IInv, Sound, Apart, Opened
<1>3. Sound(ble', entry, Noone) /\ ble'.call = ble.call
  BY <1>1, <1>2, LinkDownSound DEF IInv
<1>4. Life(ble', coord, entry)
  BY <1>3 DEF IInv, Life
<1> QED
  BY <1>1, <1>3, <1>4 DEF IInv

LEMMA NotifiesStep ==
  ASSUME IInv, NEW l \in Link, NEW n \in Notify, Notifies(l, n) PROVE IInv'
<1>1. PICK v \in Value : coord' = Notified(coord, n, v) /\ ble' = ble /\ entry' = entry
  BY DEF Notifies
<1> DEFINE chars == [coord.chars EXCEPT ![n] = v]
           k == [coord EXCEPT !.chars = chars, !.data = chars, !.ok = TRUE]
<1>2. coord \in Coord /\ n \in Char
  BY DEF IInv, Life, Char
<1>3. k \in Coord /\ k.waiting = coord.waiting /\ k.todo = coord.todo
  BY <1>2 DEF Coord, Values
<1>4. coord' = Scheduled(k)
  BY <1>1 DEF Notified
<1> HIDE DEF k
<1>5. /\ coord' \in Coord /\ coord'.waiting = coord.waiting /\ coord'.todo = coord.todo
      /\ entry # "loaded" => coord'.timer = Off
  BY <1>3, <1>4, ScheduledTyped DEF Listening
<1>6. Life(ble, coord', entry)
  BY <1>5 DEF IInv, Life
<1> QED
  BY <1>1, <1>6 DEF IInv

LEMMA TickStep == ASSUME IInv, Tick PROVE IInv'
<1>1. /\ coord.timer > 0 /\ coord' = [coord EXCEPT !.timer = coord.timer - 1]
      /\ ble' = ble /\ entry' = entry /\ coord \in Coord
  BY DEF Tick, IInv, Life
<1>2. /\ coord' \in Coord /\ coord'.waiting = coord.waiting /\ coord'.todo = coord.todo
      /\ coord.timer # Off
  BY <1>1, BleAssumption DEF Coord, Off
<1>3. Life(ble, coord', entry)
  BY <1>2 DEF IInv, Life
<1> QED
  BY <1>1, <1>3 DEF IInv

LEMMA PollStep == ASSUME IInv, Due \/ PollTurn PROVE IInv'
<1>0. /\ coord \in Coord /\ entry' = entry /\ entry \in Entry
      /\ coord.timer # Off \/ coord.waiting
  BY DEF IInv, Life, Due, PollTurn, Off
<1>1. entry \in {"loaded", "unloading", "closing", "stuck"}
  BY <1>0 DEF IInv, Life, Entry
<1>2. ASSUME ble.call["poll"].at = "idle"
      PROVE  Sound(ble, entry, "poll") /\ Others(ble, "poll")
  BY <1>2, UsingSound DEF IInv, Connecting, Others
<1>3. ASSUME ble.call["poll"].at = "idle", NEW k \in Coord, ~k.waiting \/ k = coord,
             PollBegun(ble, k, "poll")
      PROVE  IInv'
  BY <1>0, <1>1, <1>2, <1>3, PollBegunStep
<1>4. CASE Due /\ ble.call["poll"].at = "idle"
  BY <1>0, <1>3, <1>4 DEF Due, At
<1>5. CASE Due /\ ble.call["poll"].at # "idle"
  <2>1. coord' = [coord EXCEPT !.timer = Off, !.waiting = TRUE] /\ ble' = ble
    BY <1>5 DEF Due, At
  <2>2. coord' \in Coord
    BY <1>0, <2>1, OffTyped DEF Coord
  <2>3. Life(ble, coord', entry)
    BY <1>1, <2>2 DEF IInv, Life
  <2> QED
    BY <1>0, <2>1, <2>3 DEF IInv
<1>6. CASE PollTurn
  <2> DEFINE k == [coord EXCEPT !.waiting = FALSE]
  <2>1. k \in Coord /\ ~k.waiting
    BY <1>0 DEF Coord
  <2>2. PollBegun(ble, k, "poll") /\ ble.call["poll"].at = "idle"
    BY <1>6 DEF PollTurn, At
  <2> HIDE DEF k
  <2> QED
    BY <1>3, <2>1, <2>2
<1> QED
  BY <1>4, <1>5, <1>6

LEMMA TurnedStep == ASSUME IInv, Turned PROVE IInv'
<1>1. /\ entry = "loaded" /\ ble.call["write"].at = "idle" /\ ble' \in Begun(ble, "write")
      /\ coord' = coord /\ entry' = entry /\ "write" \in Caller
  BY DEF Turned, Listening, At, Caller
<1>2. Sound(ble, entry, "write")
  BY <1>1, UsingSound DEF IInv, Connecting
<1>3. Sound(ble', entry, Noone) /\ Moved(ble, ble', "write", {"use", "connect"})
  BY <1>1, <1>2, BegunSound
<1>4. Life(ble', coord, entry)
  BY <1>1, <1>3 DEF IInv, Life, Moved, Task
<1> QED
  BY <1>1, <1>3, <1>4 DEF IInv

LEMMA EntityStep == ASSUME IInv, EntitiesAdded \/ Unload PROVE IInv'
<1>0. /\ coord \in Coord /\ ble' = ble
      /\ entry \in {"refreshed", "loaded"} /\ entry' \in {"loaded", "unloading"}
      /\ coord' \in {[coord EXCEPT !.timer = Interval], [coord EXCEPT !.timer = Off]}
  BY DEF IInv, Life, EntitiesAdded, Unload
<1>1. coord' \in Coord
  BY <1>0, BleAssumption DEF Coord, Off
<1>2. Life(ble, coord', entry')
  BY <1>0, <1>1 DEF IInv, Life, Entry
<1>3. Sound(ble, entry', Noone)
  BY <1>0, EntrySound DEF IInv
<1> QED
  BY <1>0, <1>2, <1>3 DEF IInv

\* The entry is gone, with nothing open unless calls overlapped.
LEMMA GoneStep ==
  ASSUME IInv, NEW b, Typed(b), ~b.overlapped => Opened(b) = {} /\ Connecting(b) = {},
         b.call["setup"].at = "idle", b.call["unload"].at = "idle", Gone(b)
  PROVE  IInv'
<1> DEFINE poll == b.call["poll"]
           c == IF poll.at = "connect" THEN Unlinked(b, poll.on) ELSE b
           d == Ended(c, "poll")
<1>1. /\ entry' = "unloaded" /\ ble' = d
      /\ coord' = [coord EXCEPT !.timer = Off, !.waiting = FALSE, !.todo = {}]
  BY DEF Gone
<1>2. /\ coord' \in Coord /\ coord'.timer = Off /\ ~coord'.waiting
  <2>1. coord \in Coord
    BY DEF IInv, Life
  <2> QED
    BY <1>1, <2>1, OffTyped DEF Coord
<1>3. Sound(b, "unloaded", Noone)
  BY DEF Sound, Apart
<1>4. Sound(c, "unloaded", Noone) /\ c.call = b.call
  BY <1>3, UnlinkedSound
<1> HIDE DEF c
<1>5. Sound(c, "unloaded", "poll")
  BY <1>4 DEF Sound, Apart, Noone, Task, Connecting
<1>6. Sound(d, "unloaded", Noone) /\ Moved(c, d, "poll", {"idle"})
  BY <1>5, LeftSound DEF Ended, Idle, Caller
<1> HIDE DEF d
<1>7. Life(d, coord', "unloaded")
  BY <1>2, <1>4, <1>6 DEF Life, Moved, Task, Entry
<1> QED
  BY <1>1, <1>6, <1>7 DEF IInv

LEMMA DisconnectStep == ASSUME IInv, Disconnect PROVE IInv'
<1> DEFINE b == [ble EXCEPT !.connected = FALSE,
                            !.overlapped = ble.overlapped \/ Connecting(ble) # {}]
<1>0. entry = "unloading" /\ ble \in Ble /\ coord \in Coord /\ Typed(ble)
  BY DEF Disconnect, IInv, Sound, Typed, Life
<1>1. /\ b \in Ble /\ b.call = ble.call /\ b.cur = ble.cur /\ b.link = ble.link
      /\ b.overlapped = (ble.overlapped \/ Connecting(ble) # {})
  BY <1>0 DEF Ble
<1>2. IF b.cur # NoLink /\ b.link[b.cur] = "open"
      THEN /\ entry' = "closing" /\ coord' = coord
           /\ ble' = [b EXCEPT !.call["unload"] = [at |-> "close", on |-> b.cur, tries |-> 0]]
      ELSE Gone([b EXCEPT !.cur = NoLink])
  BY DEF Disconnect
<1> HIDE DEF b
<1>3. Connecting(b) = Connecting(ble) /\ Opened(b) = Opened(ble)
  BY <1>1 DEF Connecting, Opened
<1>4. /\ ble.call["setup"].at = "idle" /\ ble.call["unload"].at = "idle"
  BY <1>0 DEF IInv, Life
<1>5. ~b.overlapped => Connecting(ble) = {} /\ Opened(ble) \subseteq {ble.cur}
  BY <1>0, <1>1 DEF IInv, Sound, Apart
<1>6. CASE b.cur # NoLink /\ b.link[b.cur] = "open"
  <2> DEFINE step == [at |-> "close", on |-> b.cur, tries |-> 0]
             d == [b EXCEPT !.call["unload"] = step]
  <2>1. b.cur \in Link /\ b.call \in [Task -> CallState] /\ "unload" \in Task
    BY <1>1, <1>6 DEF Ble, Task, CallState
  <2>2. step \in CallState /\ step.at = "close" /\ step.on = b.cur
    BY <2>1, BleAssumption DEF CallState
  <2> HIDE DEF step
  <2>3. /\ d \in Ble /\ d.call = [b.call EXCEPT !["unload"] = step] /\ d.cur = b.cur
        /\ d.link = b.link /\ d.overlapped = b.overlapped
    BY <1>1, <2>1, <2>2 DEF Ble, CallState
  <2>4. entry' = "closing" /\ ble' = d /\ coord' = coord
    BY <1>2, <1>6 DEF step
  <2> HIDE DEF d
  <2>5. (\A u \in Task \ {"unload"} : d.call[u] = ble.call[u]) /\ d.call["unload"] = step
    BY <1>1, <2>1, <2>3
  <2>6. Typed(d)
    BY <1>0, <2>1, <2>2, <2>3, <2>5 DEF Typed, Caller, Task
  <2>7. ASSUME ~d.overlapped
        PROVE  Connecting(d) = {"unload"} /\ Opened(d) \subseteq {d.cur} /\ Bound(d, "unload")
    <3>1. Connecting(d) = {"unload"}
      BY <1>5, <2>1, <2>2, <2>3, <2>5, <2>7 DEF Connecting
    <3>2. Opened(d) \subseteq {d.cur}
      BY <1>1, <1>3, <1>5, <2>3, <2>7 DEF Opened
    <3> QED
      BY <2>2, <2>3, <2>5, <3>1, <3>2 DEF Bound
  <2>8. Apart(d, "closing", Noone)
    BY <2>7 DEF Apart, Noone
  <2>9. Life(d, coord, "closing")
    BY <1>0, <1>4, <2>2, <2>5 DEF IInv, Life, Task, Entry
  <2> QED
    BY <2>4, <2>6, <2>8, <2>9 DEF IInv, Sound
<1>7. CASE ~(b.cur # NoLink /\ b.link[b.cur] = "open")
  <2> DEFINE d == [b EXCEPT !.cur = NoLink]
  <2>1. /\ d \in Ble /\ d.call = b.call /\ d.link = b.link /\ d.overlapped = b.overlapped
    BY <1>1 DEF Ble
  <2>2. Gone(d)
    BY <1>2, <1>7
  <2> HIDE DEF d
  <2>3. Typed(d) /\ Connecting(d) = Connecting(b) /\ Opened(d) = Opened(b)
    BY <1>0, <1>1, <2>1 DEF Typed, Connecting, Opened
  <2>4. ~d.overlapped => Opened(d) = {} /\ Connecting(d) = {}
    BY <1>1, <1>3, <1>5, <1>7, <2>1, <2>3, BleAssumption DEF Opened
  <2> QED
    BY <1>1, <1>4, <2>1, <2>2, <2>3, <2>4, GoneStep
<1> QED
  BY <1>6, <1>7

LEMMA DisconnectedStep == ASSUME IInv, Disconnected PROVE IInv'
<1> DEFINE b == Ended(ble, "unload")
           l == ble.call["unload"].on
           c == LinkDown(b, l)
           d == [c EXCEPT !.cur = NoLink]
<1>0. /\ entry = "closing" /\ ble \in Ble /\ coord \in Coord /\ Typed(ble)
      /\ ble.call["unload"].at = "close" /\ ble.call["setup"].at = "idle"
      /\ "unload" \in Task
      /\ ble.call \in [Task -> CallState]
  BY DEF Disconnected, IInv, Sound, Typed, Life, Task, Ble, CallState
<1>1. Idle \in CallState /\ Idle.at = "idle"
  BY BleAssumption DEF Idle, CallState
<1>2. /\ b \in Ble /\ b.call = [ble.call EXCEPT !["unload"] = Idle] /\ b.cur = ble.cur
      /\ b.link = ble.link /\ b.overlapped = ble.overlapped
  BY <1>0, <1>1 DEF Ended, Ble, CallState
<1>3. Gone(d) \/ (entry' = "stuck" /\ ble' = b /\ coord' = coord)
  BY DEF Disconnected, On
<1> HIDE DEF b
<1>4. (\A u \in Task \ {"unload"} : b.call[u] = ble.call[u]) /\ b.call["unload"] = Idle
  BY <1>0, <1>1, <1>2
<1>5. Typed(b)
  BY <1>0, <1>1, <1>2, <1>4 DEF Typed, Caller, Task
<1>6. CASE Gone(d)
  <2>1. ASSUME ~ble.overlapped
        PROVE  Connecting(ble) = {"unload"} /\ Opened(ble) \subseteq {l}
    <3>1. Connecting(ble) \ {Noone} = Connecting(ble) /\ "unload" \in Connecting(ble)
      BY <1>0 DEF Connecting, Noone, Task
    <3>2. /\ \A u, v \in Connecting(ble) : u = v
          /\ \A u \in Connecting(ble) : Bound(ble, u)
          /\ Opened(ble) \subseteq {ble.cur}
      BY <1>0, <2>1, <3>1 DEF IInv, Sound, Apart
    <3> QED
      BY <1>0, <3>1, <3>2 DEF Bound
  <2>2. l \in Link
    BY <1>0 DEF Typed
  <2> QED
    <3>1. /\ c \in Ble /\ c.call = b.call /\ c.overlapped = b.overlapped
          /\ c.link = [b.link EXCEPT ![l] = "down"]
      BY <1>2, <2>2 DEF LinkDown, Ble
    <3> HIDE DEF c
    <3>2. d \in Ble /\ d.call = c.call /\ d.link = c.link /\ d.overlapped = c.overlapped
      BY <3>1 DEF Ble
    <3> HIDE DEF d
    <3>3. Typed(d)
      BY <1>5, <3>1, <3>2 DEF Typed
    <3>4. ~d.overlapped => Opened(d) = {} /\ Connecting(d) = {}
      BY <1>0, <1>1, <1>2, <1>4, <2>1, <2>2, <3>1, <3>2 DEF Opened, Connecting, Ble
    <3> QED
      BY <1>0, <1>1, <1>4, <1>6, <3>1, <3>2, <3>3, <3>4, GoneStep DEF Task
<1>7. CASE entry' = "stuck" /\ ble' = b /\ coord' = coord
  <2>1. Life(b, coord, "stuck")
    BY <1>0, <1>1, <1>4 DEF IInv, Life, Task, Entry
  <2>2. Sound(b, "stuck", Noone)
    BY <1>5 DEF Sound, Apart
  <2> QED
    BY <1>7, <2>1, <2>2 DEF IInv
<1> QED
  BY <1>3, <1>6, <1>7

LEMMA IInvInit == Init => IInv
<1> SUFFICES ASSUME Init PROVE IInv
  OBVIOUS
<1> DEFINE b == [link |-> [l \in Link |-> "down"], subs |-> [l \in Link |-> {}],
                 cur |-> NoLink, connected |-> FALSE, call |-> [t \in Task |-> Idle],
                 refused |-> {}, overlapped |-> FALSE]
<1>0. ble \in ConnectBegun(b, "setup") /\ entry = "connecting"
  BY DEF Init
<1>1. Idle \in CallState /\ Idle.at = "idle"
  BY BleAssumption DEF Idle, CallState
<1>2. /\ b \in Ble /\ b.connected = FALSE /\ b.link = [l \in Link |-> "down"]
      /\ \A t \in Task : b.call[t] = Idle
  BY <1>1 DEF Ble, CallState
<1> HIDE DEF b
<1>3. Connecting(b) = {} /\ Opened(b) = {} /\ ~IsConnected(b)
  BY <1>1, <1>2 DEF Connecting, Opened, IsConnected
<1>4. Typed(b)
  BY <1>1, <1>2 DEF Typed, Caller, Task
<1>5. Sound(b, "connecting", "setup")
  BY <1>3, <1>4 DEF Sound, Apart
<1>6. ble \in Begun(b, "setup")
  BY <1>0, <1>3 DEF Begun
<1>7. Sound(ble, "connecting", Noone) /\ Moved(b, ble, "setup", {"use", "connect"})
  BY <1>5, <1>6, BegunSound DEF Caller
<1>8. coord \in Coord /\ coord.timer = Off /\ ~coord.waiting
  BY OffTyped DEF Init, Coord, Values, Nothing
<1>9. Life(ble, coord, "connecting")
  BY <1>1, <1>2, <1>7, <1>8 DEF Life, Moved, Task, Entry
<1> QED
  BY <1>0, <1>7, <1>9 DEF IInv

LEMMA IInvInvariant == Spec => []IInv
<1>1. IInv /\ [Next]_vars => IInv'
  <2> SUFFICES ASSUME IInv, [Next]_vars PROVE IInv'
    OBVIOUS
  <2>1. CASE UNCHANGED vars
    BY <2>1 DEF vars, IInv
  <2>2. CASE Next
    BY <2>2, ConnectsStep, ConnectFailsStep, WakesStep, OperationFailsStep, SubscribesStep,
       ReadsStep, WritesStep, LostStep, NotifiesStep, TickStep, PollStep, TurnedStep,
       EntityStep, DisconnectStep, DisconnectedStep
    DEF Next, Call
  <2> QED
    BY <2>1, <2>2
<1> QED
  BY IInvInit, <1>1, PTL DEF Spec

\* Every variable keeps its type, and the entry's life agrees with who is inside
\* the client, whatever links there are and however calls overlap.
THEOREM TypeCorrect == Spec => []TypeOK
<1>1. IInv => TypeOK
  BY DEF IInv, Sound, Typed, Life, TypeOK
<1> QED
  BY IInvInvariant, <1>1, PTL

\* For as long as no two calls connect or disconnect at once, the only open link
\* is the client's own, it is known to stand, and an unloaded entry leaves none.
THEOREM NoLinkOrphaned == Spec => []NoOrphanLink
<1>1. IInv => NoOrphanLink
  <2>1. Connecting(ble) \ {Noone} = Connecting(ble) /\ Opened(ble) = OpenLinks
    BY DEF Connecting, Noone, Task, Opened, OpenLinks
  <2> QED
    BY <2>1 DEF IInv, Sound, Apart, NoOrphanLink, Orderly
<1> QED
  BY IInvInvariant, <1>1, PTL
=============================================================================
