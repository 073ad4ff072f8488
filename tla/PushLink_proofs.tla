---------------------------- MODULE PushLink_proofs ----------------------------
(***************************************************************************)
(* The push link for any number of sockets: what the client and the        *)
(* coordinator keep true of each other, proved one synchronous run of the  *)
(* code at a time.                                                         *)
(*                                                                         *)
(* The parts of the invariant are predicates of a client c, a coordinator  *)
(* k and an entry e, for the code changes them within one step.            *)
(***************************************************************************)
EXTENDS PushLink, TLAPS

Over(e) == e \in {"failed", "unloaded"}

-----------------------------------------------------------------------------
(* The client alone.                                                       *)

\* Whoever was woken waits for the first state, which has come, unless a later
\* connect() cleared it.
Waits(c) ==
  \A t \in Task :
    c.woken[t] => c.call[t] = "pairing" /\ (c.overlapped \/ c.first)

\* The first state is the device's, or the pairing was rejected.
FirstState(c) == c.first => c.rejected \/ c.hasState

\* With no overlapping calls: an open socket is the client's or was abandoned,
\* a listener runs on the client's socket only, and a call that opens or closes
\* finds no connection.
Links(c, over) ==
  /\ OpenSocks(c) \subseteq c.abandoned \cup (IF over THEN {} ELSE {c.ws})
  /\ \A s \in Sock :
       c.listener[s] => s = c.ws /\ s = c.listenTask /\ c.sock[s] # "free"
  /\ \A t \in Task : c.call[t] = "opening" =>
       ~Connected(c) /\ \A u \in Task \ {t} : c.call[u] = "idle"
  /\ \A t \in Task : c.call[t] = "closing" =>
       ~Connected(c) /\ \A s \in Sock : ~c.listener[s]

Sound(c, over) ==
  /\ c \in Client /\ Waits(c) /\ FirstState(c)
  /\ ~c.overlapped => Links(c, over)

\* What no later step takes back.
Later(c, d) == (c.hasState => d.hasState) /\ (c.overlapped => d.overlapped)

LEMMA Disconnected ==
  ASSUME NEW c, NEW over, Sound(c, over), ~Connected(c), ~c.overlapped
  PROVE  OpenSocks(c) \subseteq c.abandoned
  BY TaskAssumption DEF Sound, Links, OpenSocks, Connected

LEMMA ConnectBegunSound ==
  ASSUME NEW c, NEW t \in Task, Sound(c, FALSE), ~Connected(c), c.call[t] = "idle"
  PROVE  LET d == ConnectBegun(c, t) IN
         /\ Sound(d, FALSE) /\ Later(c, d) /\ ~Connected(d)
         /\ d.call = [c.call EXCEPT ![t] = "opening"]
<1> DEFINE d == ConnectBegun(c, t)
<1>0. c \in Client
  BY DEF Sound
<1>1. /\ d \in Client
      /\ d.call = [c.call EXCEPT ![t] = "opening"] /\ d.sock = c.sock /\ d.ws = c.ws
      /\ d.listener = c.listener /\ d.listenTask = c.listenTask /\ d.woken = c.woken
      /\ d.abandoned = c.abandoned /\ d.first = FALSE /\ d.hasState = c.hasState
      /\ d.overlapped = (c.overlapped \/ \E u \in Task : c.call[u] # "idle")
  BY <1>0 DEF ConnectBegun, Client
<1> HIDE DEF d
<1>2. Waits(d) /\ FirstState(d)
  BY <1>0, <1>1 DEF Sound, Waits, FirstState, Client
<1>3. ~Connected(d) /\ Later(c, d)
  BY <1>1 DEF Connected, Later
<1>4. ASSUME ~d.overlapped PROVE Links(d, FALSE)
  BY <1>0, <1>1, <1>3, <1>4 DEF Sound, Links, OpenSocks, Client
<1> QED
  BY <1>1, <1>2, <1>3, <1>4 DEF Sound, d

LEMMA CallEndedSound ==
  ASSUME NEW c, NEW t \in Task, NEW over, Sound(c, over)
  PROVE  LET d == CallEnded(c, t) IN
         /\ Sound(d, over) /\ Later(c, d)
         /\ Connected(d) = Connected(c) /\ d.ws = c.ws
         /\ d.call = [c.call EXCEPT ![t] = "idle"]
<1> DEFINE d == CallEnded(c, t)
<1>0. c \in Client
  BY DEF Sound
<1>1. /\ d \in Client
      /\ d.call = [c.call EXCEPT ![t] = "idle"] /\ d.woken = [c.woken EXCEPT ![t] = FALSE]
      /\ d.sock = c.sock /\ d.ws = c.ws /\ d.rejected = c.rejected
      /\ d.listener = c.listener /\ d.listenTask = c.listenTask
      /\ d.abandoned = c.abandoned /\ d.first = c.first /\ d.hasState = c.hasState
      /\ d.overlapped = c.overlapped
  BY <1>0 DEF CallEnded, Client
<1> HIDE DEF d
<1>2. Connected(d) = Connected(c) /\ OpenSocks(d) = OpenSocks(c)
  BY <1>1 DEF Connected, OpenSocks
<1>3. Waits(d) /\ FirstState(d) /\ Later(c, d)
  BY <1>0, <1>1 DEF Sound, Waits, FirstState, Client, Later
<1>4. ASSUME ~d.overlapped PROVE Links(d, over)
  BY <1>0, <1>1, <1>2, <1>4 DEF Sound, Links, Client
<1> QED
  BY <1>1, <1>2, <1>3, <1>4 DEF Sound, d

LEMMA CallReturnedSound ==
  ASSUME NEW c, NEW t \in Task, NEW over, Sound(c, over)
  PROVE  LET d == CallReturned(c, t) IN
         /\ Sound(d, over) /\ Later(c, d)
         /\ Connected(d) = Connected(c) /\ d.ws = c.ws
         /\ d.call = [c.call EXCEPT ![t] = "idle"]
<1> DEFINE d == CallEnded(c, t)
           e == CallReturned(c, t)
<1>0. Sound(d, over) /\ Later(c, d) /\ Connected(d) = Connected(c) /\ d.ws = c.ws
      /\ d.call = [c.call EXCEPT ![t] = "idle"]
  BY CallEndedSound
<1> HIDE DEF d
<1>1. d \in Client /\ e = [d EXCEPT !.opened[t] = NoSock]
  BY <1>0 DEF Sound, CallReturned, d
<1>2. /\ e \in Client
      /\ e.call = d.call /\ e.woken = d.woken /\ e.rejected = d.rejected
      /\ e.sock = d.sock /\ e.ws = d.ws
      /\ e.listener = d.listener /\ e.listenTask = d.listenTask
      /\ e.abandoned = d.abandoned /\ e.first = d.first /\ e.hasState = d.hasState
      /\ e.overlapped = d.overlapped
  BY <1>1 DEF Client
<1> HIDE DEF e
<1>3. Connected(e) = Connected(d) /\ OpenSocks(e) = OpenSocks(d)
  BY <1>2 DEF Connected, OpenSocks
<1>4. Waits(e) /\ FirstState(e) /\ Later(c, e)
  BY <1>0, <1>2 DEF Sound, Waits, FirstState, Later
<1>5. ~e.overlapped => Links(e, over)
  BY <1>0, <1>2, <1>3 DEF Sound, Links
<1> QED
  BY <1>0, <1>2, <1>3, <1>4, <1>5 DEF Sound, e

LEMMA ResumedSound ==
  ASSUME NEW c, NEW t \in Task, NEW over, Sound(c, over)
  PROVE  LET d == Resumed(c, t) IN
         /\ Sound(d, over) /\ d.call = c.call /\ Connected(d) = Connected(c)
         /\ d.hasState = c.hasState /\ d.overlapped = c.overlapped
<1> DEFINE d == Resumed(c, t)
<1>0. c \in Client
  BY DEF Sound
<1>1. /\ d \in Client
      /\ d.call = c.call /\ d.woken = [c.woken EXCEPT ![t] = FALSE]
      /\ d.sock = c.sock /\ d.ws = c.ws /\ d.rejected = c.rejected
      /\ d.listener = c.listener /\ d.listenTask = c.listenTask
      /\ d.abandoned = c.abandoned /\ d.first = c.first /\ d.hasState = c.hasState
      /\ d.overlapped = c.overlapped
  BY <1>0 DEF Resumed, Client
<1> HIDE DEF d
<1>2. Connected(d) = Connected(c) /\ OpenSocks(d) = OpenSocks(c)
  BY <1>1 DEF Connected, OpenSocks
<1>3. Waits(d) /\ FirstState(d)
  BY <1>0, <1>1 DEF Sound, Waits, FirstState, Client
<1>4. ~d.overlapped => Links(d, over)
  BY <1>1, <1>2 DEF Sound, Links
<1> QED
  BY <1>1, <1>2, <1>3, <1>4 DEF Sound, d

LEMMA SocketOpenedSound ==
  ASSUME NEW c, NEW t \in Task, NEW s \in Reusable(c), Sound(c, FALSE),
         Settled(c), c.call[t] = "opening"
  PROVE  LET d == SocketOpened(c, t, s) IN
         /\ Sound(d, FALSE) /\ d.call = [c.call EXCEPT ![t] = "pairing"]
         /\ Later(c, d)
<1> DEFINE d == SocketOpened(c, t, s)
<1>0. c \in Client /\ s \in Sock
  BY DEF Sound, Reusable
<1>1. /\ d \in Client
      /\ d.call = [c.call EXCEPT ![t] = "pairing"]
      /\ d.woken = [c.woken EXCEPT ![t] = c.first]
      /\ d.sock = [c.sock EXCEPT ![s] = "open"] /\ d.ws = s /\ d.rejected = c.rejected
      /\ d.listener = [c.listener EXCEPT ![s] = TRUE] /\ d.listenTask = s
      /\ d.abandoned = c.abandoned /\ d.first = c.first /\ d.hasState = c.hasState
      /\ d.overlapped = c.overlapped
  BY <1>0 DEF SocketOpened, Client
<1> HIDE DEF d
<1>2. Waits(d) /\ FirstState(d) /\ Later(c, d)
  BY <1>0, <1>1 DEF Sound, Waits, FirstState, Client, Later
<1>3. ASSUME ~d.overlapped PROVE Links(d, FALSE)
  <2>1. Links(c, FALSE) /\ ~Connected(c) /\ \A u \in Task \ {t} : c.call[u] = "idle"
    BY <1>1, <1>3 DEF Sound, Links
  <2>2. OpenSocks(c) \subseteq c.abandoned
    BY <1>1, <1>3, <2>1, Disconnected
  <2>3. OpenSocks(d) \subseteq d.abandoned \cup {d.ws}
    BY <1>0, <1>1, <2>2 DEF OpenSocks, Client
  <2>4. \A r \in Sock : ~c.listener[r]
    <3>1. SUFFICES ASSUME NEW r \in Sock, c.listener[r] PROVE FALSE
      OBVIOUS
    <3>2. r = c.ws /\ c.sock[r] \notin {"free", "dead"}
      BY <2>1, <3>1 DEF Links, Settled
    <3>3. c.sock[r] = "open"
      BY <1>0, <3>2 DEF Client
    <3> QED
      BY <2>1, <3>2, <3>3, TaskAssumption DEF Connected
  <2>5. \A r \in Sock : d.listener[r] => r = s
    BY <1>0, <1>1, <2>4 DEF Client
  <2>6. \A u \in Task : d.call[u] \notin {"opening", "closing"}
    BY <1>0, <1>1, <2>1 DEF Client
  <2>7. d.sock[s] = "open"
    BY <1>0, <1>1 DEF Client
  <2> QED
    BY <1>1, <2>3, <2>5, <2>6, <2>7 DEF Links
<1> QED
  BY <1>1, <1>2, <1>3 DEF Sound, d

LEMMA DisconnectBegunSound ==
  ASSUME NEW c, NEW t \in Task, Sound(c, FALSE)
  PROVE  LET d == DisconnectBegun(c, t) IN
         /\ Sound(d, FALSE) /\ Later(c, d) /\ ~Connected(d)
         /\ Connected(c) => d.call = [c.call EXCEPT ![t] = "closing"]
         /\ ~Connected(c) => d.call = [c.call EXCEPT ![t] = "idle"] /\ Sound(d, TRUE)
<1> DEFINE stopped == [c EXCEPT
             !.closing = TRUE,
             !.listener = [s \in Sock |-> c.listener[s] /\ s # c.listenTask],
             !.listenTask = NoSock]
           d == DisconnectBegun(c, t)
<1>0. c \in Client
  BY DEF Sound
<1>1. /\ stopped \in Client
      /\ stopped.listener = [s \in Sock |-> c.listener[s] /\ s # c.listenTask]
      /\ stopped.listenTask = NoSock
      /\ stopped.call = c.call /\ stopped.woken = c.woken /\ stopped.sock = c.sock
      /\ stopped.ws = c.ws /\ stopped.abandoned = c.abandoned /\ stopped.first = c.first
      /\ stopped.rejected = c.rejected /\ stopped.hasState = c.hasState
      /\ stopped.overlapped = c.overlapped
  BY <1>0 DEF Client
<1>2. d = IF Connected(c)
          THEN [stopped EXCEPT !.sock[c.ws] = "dead", !.call[t] = "closing",
                               !.woken[t] = FALSE, !.abandoned = c.abandoned \ {c.ws}]
          ELSE CallEnded([stopped EXCEPT !.ws = NoSock], t)
  BY DEF DisconnectBegun
<1> HIDE DEF stopped, d
<1>3. ~c.overlapped => \A s \in Sock : ~stopped.listener[s]
  BY <1>1 DEF Sound, Links
<1>4. CASE Connected(c)
  <2>0. c.ws \in Sock
    BY <1>0, <1>4 DEF Connected, Client
  <2>1. /\ d \in Client
        /\ d.call = [c.call EXCEPT ![t] = "closing"]
        /\ d.woken = [c.woken EXCEPT ![t] = FALSE]
        /\ d.sock = [c.sock EXCEPT ![c.ws] = "dead"] /\ d.ws = c.ws
        /\ d.rejected = c.rejected /\ d.abandoned = c.abandoned \ {c.ws}
        /\ d.listener = stopped.listener /\ d.first = c.first
        /\ d.hasState = c.hasState /\ d.overlapped = c.overlapped
    BY <1>1, <1>2, <1>4, <2>0 DEF Client
  <2>2. Waits(d) /\ FirstState(d) /\ Later(c, d)
    BY <1>0, <2>1 DEF Sound, Waits, FirstState, Client, Later
  <2>3. ~Connected(d)
    BY <1>0, <2>0, <2>1 DEF Connected, Client
  <2>4. ASSUME ~d.overlapped PROVE Links(d, FALSE)
    <3>1. Links(c, FALSE)
      BY <2>1, <2>4 DEF Sound
    <3>2. OpenSocks(d) \subseteq d.abandoned
      BY <1>0, <2>0, <2>1, <3>1 DEF Links, OpenSocks, Client
    <3>3. \A u \in Task : d.call[u] # "opening"
      BY <1>0, <1>4, <2>1, <3>1 DEF Links, Client
    <3> QED
      BY <1>3, <2>1, <2>3, <2>4, <3>2, <3>3 DEF Links
  <2> QED
    BY <1>4, <2>1, <2>2, <2>3, <2>4 DEF Sound, d
<1>5. CASE ~Connected(c)
  <2> DEFINE e == [stopped EXCEPT !.ws = NoSock]
  <2>1. /\ e \in Client
        /\ e.call = c.call /\ e.woken = c.woken /\ e.sock = c.sock /\ e.ws = NoSock
        /\ e.rejected = c.rejected /\ e.abandoned = c.abandoned
        /\ e.listener = stopped.listener /\ e.first = c.first
        /\ e.hasState = c.hasState /\ e.overlapped = c.overlapped
    BY <1>1 DEF Client
  <2> HIDE DEF e
  <2>2. Waits(e) /\ FirstState(e) /\ ~Connected(e)
    BY <2>1 DEF Sound, Waits, FirstState, Connected
  <2>3. ASSUME ~e.overlapped, NEW o \in BOOLEAN PROVE Links(e, o)
    <3>1. Links(c, FALSE) /\ OpenSocks(c) \subseteq c.abandoned
      BY <1>5, <2>1, <2>3, Disconnected DEF Sound
    <3>2. OpenSocks(e) \subseteq e.abandoned
      BY <2>1, <3>1 DEF OpenSocks
    <3> QED
      BY <1>3, <2>1, <2>2, <2>3, <3>1, <3>2 DEF Links
  <2>4. Sound(e, FALSE) /\ Sound(e, TRUE)
    BY <2>1, <2>2, <2>3 DEF Sound
  <2>5. d = CallEnded(e, t)
    BY <1>2, <1>5 DEF e
  <2>6. Later(c, e) /\ e.call = c.call
    BY <2>1 DEF Later
  <2>7. /\ Sound(d, FALSE) /\ Later(e, d) /\ Connected(d) = Connected(e)
        /\ d.call = [e.call EXCEPT ![t] = "idle"]
    BY <2>4, <2>5, CallEndedSound
  <2>8. Sound(d, TRUE)
    BY <2>4, <2>5, CallEndedSound
  <2> QED
    BY <1>5, <2>2, <2>6, <2>7, <2>8 DEF Later, d
<1> QED
  BY <1>4, <1>5

LEMMA DisconnectEndedSound ==
  ASSUME NEW c, NEW t \in Task, Sound(c, FALSE), c.call[t] = "closing"
  PROVE  LET d == DisconnectEnded(c, t) IN
         /\ Sound(d, FALSE) /\ Sound(d, TRUE) /\ Later(c, d) /\ ~Connected(d)
         /\ d.call = [c.call EXCEPT ![t] = "idle"]
<1> DEFINE e == [c EXCEPT !.ws = NoSock]
           d == DisconnectEnded(c, t)
<1>0. c \in Client
  BY DEF Sound
<1>1. /\ e \in Client
      /\ e.call = c.call /\ e.woken = c.woken /\ e.sock = c.sock /\ e.ws = NoSock
      /\ e.rejected = c.rejected /\ e.abandoned = c.abandoned
      /\ e.listener = c.listener /\ e.first = c.first
      /\ e.hasState = c.hasState /\ e.overlapped = c.overlapped
  BY <1>0 DEF Client
<1>2. d = CallEnded(e, t)
  BY DEF DisconnectEnded
<1> HIDE DEF e, d
<1>3. Waits(e) /\ FirstState(e) /\ ~Connected(e) /\ Later(c, e)
  BY <1>1 DEF Sound, Waits, FirstState, Connected, Later
<1>4. ASSUME ~e.overlapped, NEW o \in BOOLEAN PROVE Links(e, o)
  <2>1. Links(c, FALSE) /\ ~Connected(c)
    BY <1>1, <1>4 DEF Sound, Links
  <2>2. OpenSocks(c) \subseteq c.abandoned
    BY <1>1, <1>4, <2>1, Disconnected
  <2>3. OpenSocks(e) \subseteq e.abandoned
    BY <1>1, <2>2 DEF OpenSocks
  <2> QED
    BY <1>1, <1>3, <2>1, <2>3 DEF Links
<1>5. Sound(e, FALSE) /\ Sound(e, TRUE)
  BY <1>1, <1>3, <1>4 DEF Sound
<1>6. /\ Sound(d, FALSE) /\ Later(e, d) /\ Connected(d) = Connected(e)
      /\ d.call = [e.call EXCEPT ![t] = "idle"]
  BY <1>2, <1>5, CallEndedSound
<1>7. Sound(d, TRUE)
  BY <1>2, <1>5, CallEndedSound
<1> QED
  BY <1>1, <1>3, <1>6, <1>7 DEF Later, d

\* What the device sends sets the first state, with a state or a rejection.
LEMMA FirstStateSetSound ==
  ASSUME NEW c, NEW over, Sound(c, over)
  PROVE  \A d \in {StatePushed(c), PairingRejected(c)} :
           /\ Sound(d, over) /\ Later(c, d) /\ Connected(d) = Connected(c)
           /\ d.call = c.call /\ d.sock = c.sock /\ d.ws = c.ws
           /\ d.listener = c.listener /\ d.closing = c.closing
<1> SUFFICES ASSUME NEW d \in {StatePushed(c), PairingRejected(c)}
             PROVE  /\ Sound(d, over) /\ Later(c, d) /\ Connected(d) = Connected(c)
                    /\ d.call = c.call /\ d.sock = c.sock /\ d.ws = c.ws
                    /\ d.listener = c.listener /\ d.closing = c.closing
  OBVIOUS
<1>0. c \in Client
  BY DEF Sound
<1>1. /\ d \in Client
      /\ d.call = c.call /\ d.sock = c.sock /\ d.ws = c.ws /\ d.first = TRUE
      /\ d.woken = [t \in Task |-> c.woken[t] \/ c.call[t] = "pairing"]
      /\ d.abandoned = c.abandoned /\ d.closing = c.closing
      /\ d.listener = c.listener /\ d.listenTask = c.listenTask
      /\ d.overlapped = c.overlapped
      /\ (c.hasState => d.hasState) /\ (d.rejected \/ d.hasState)
  <2>1. CASE d = StatePushed(c)
    BY <1>0, <2>1 DEF StatePushed, FirstStateSet, Client
  <2>2. CASE d = PairingRejected(c)
    BY <1>0, <2>2 DEF PairingRejected, FirstStateSet, Client
  <2> QED
    BY <2>1, <2>2
<1>2. Connected(d) = Connected(c) /\ OpenSocks(d) = OpenSocks(c)
  BY <1>1 DEF Connected, OpenSocks
<1>3. Waits(d) /\ FirstState(d) /\ Later(c, d)
  BY <1>1 DEF Sound, Waits, FirstState, Later
<1>4. ~d.overlapped => Links(d, over)
  BY <1>1, <1>2 DEF Sound, Links
<1> QED
  BY <1>1, <1>2, <1>3, <1>4 DEF Sound

LEMMA SocketDeadSound ==
  ASSUME NEW c, NEW s \in Sock, NEW over, Sound(c, over)
  PROVE  LET d == SocketDead(c, s) IN
         /\ Sound(d, over) /\ Later(c, d) /\ (Connected(d) => Connected(c))
         /\ d.call = c.call /\ d.sock[s] = "dead"
         /\ d.listener = c.listener /\ d.closing = c.closing
<1> DEFINE d == SocketDead(c, s)
<1>0. c \in Client
  BY DEF Sound
<1>1. /\ d \in Client
      /\ d.call = c.call /\ d.sock = [c.sock EXCEPT ![s] = "dead"] /\ d.ws = c.ws
      /\ d.first = c.first /\ d.woken = c.woken /\ d.rejected = c.rejected
      /\ d.abandoned = c.abandoned \ {s} /\ d.closing = c.closing
      /\ d.listener = c.listener /\ d.listenTask = c.listenTask
      /\ d.overlapped = c.overlapped /\ d.hasState = c.hasState
  BY <1>0 DEF SocketDead, Client
<1> HIDE DEF d
<1>2. Connected(d) => Connected(c)
  BY <1>0, <1>1 DEF Connected, Client
<1>3. Waits(d) /\ FirstState(d) /\ Later(c, d)
  BY <1>1 DEF Sound, Waits, FirstState, Later
<1>4. OpenSocks(d) = OpenSocks(c) \ {s}
  BY <1>0, <1>1 DEF OpenSocks, Client
<1>5. ~d.overlapped => Links(d, over)
  BY <1>0, <1>1, <1>2, <1>4 DEF Sound, Links, Client
<1>6. d.sock[s] = "dead"
  BY <1>0, <1>1 DEF Client
<1> QED
  BY <1>1, <1>2, <1>3, <1>5, <1>6 DEF Sound, d

\* The listener of a closed or abandoned socket ends.
LEMMA ListenerEndedSound ==
  ASSUME NEW c, NEW s \in Sock, NEW over, Sound(c, over), c.listener[s],
         c.sock[s] = "dead" \/ s \in c.abandoned
  PROVE  LET d == ListenerEnded(c, s) IN
         /\ Sound(d, over) /\ Later(c, d) /\ (Connected(d) => Connected(c))
         /\ d.call = c.call /\ (~c.closing => ~Connected(d))
<1> DEFINE d == ListenerEnded(c, s)
<1>0. c \in Client
  BY DEF Sound
<1>1. /\ d \in Client
      /\ d.call = c.call /\ d.sock = c.sock
      /\ d.ws = (IF c.closing THEN c.ws ELSE NoSock)
      /\ d.first = c.first /\ d.woken = c.woken /\ d.rejected = c.rejected
      /\ d.abandoned = c.abandoned
      /\ d.listener = [c.listener EXCEPT ![s] = FALSE] /\ d.listenTask = c.listenTask
      /\ d.overlapped = c.overlapped /\ d.hasState = c.hasState
  BY <1>0 DEF ListenerEnded, Client
<1> HIDE DEF d
<1>2. Connected(d) => Connected(c) /\ c.closing
  BY <1>0, <1>1 DEF Connected, Client
<1>3. Waits(d) /\ FirstState(d) /\ Later(c, d)
  BY <1>1 DEF Sound, Waits, FirstState, Later
<1>4. ASSUME ~d.overlapped PROVE Links(d, over)
  <2>1. Links(c, over) /\ s = c.ws
    BY <1>1, <1>4 DEF Sound, Links
  <2>2. OpenSocks(c) \subseteq c.abandoned
    BY <2>1 DEF Links, OpenSocks
  <2>3. OpenSocks(d) \subseteq d.abandoned
    BY <1>1, <2>2 DEF OpenSocks
  <2>4. \A r \in Sock : ~d.listener[r]
    BY <1>0, <1>1, <2>1 DEF Links, Client
  <2> QED
    BY <1>1, <1>2, <2>1, <2>3, <2>4 DEF Links
<1> QED
  BY <1>1, <1>2, <1>3, <1>4 DEF Sound, d

LEMMA AbandonedSound ==
  ASSUME NEW c, NEW s \in Sock, NEW over, Sound(c, over)
  PROVE  LET d == [c EXCEPT !.abandoned = c.abandoned \cup {s}] IN
         /\ Sound(d, over) /\ Later(c, d) /\ Connected(d) = Connected(c)
         /\ d.call = c.call /\ d.listener = c.listener /\ d.closing = c.closing
         /\ s \in d.abandoned
<1> DEFINE d == [c EXCEPT !.abandoned = c.abandoned \cup {s}]
<1>0. c \in Client
  BY DEF Sound
<1>1. /\ d \in Client
      /\ d.call = c.call /\ d.sock = c.sock /\ d.ws = c.ws
      /\ d.first = c.first /\ d.woken = c.woken /\ d.rejected = c.rejected
      /\ d.abandoned = c.abandoned \cup {s} /\ d.closing = c.closing
      /\ d.listener = c.listener /\ d.listenTask = c.listenTask
      /\ d.overlapped = c.overlapped /\ d.hasState = c.hasState
  BY <1>0 DEF Client
<1> HIDE DEF d
<1>2. Connected(d) = Connected(c) /\ OpenSocks(d) = OpenSocks(c)
  BY <1>1 DEF Connected, OpenSocks
<1>3. Waits(d) /\ FirstState(d) /\ Later(c, d)
  BY <1>1 DEF Sound, Waits, FirstState, Later
<1>4. ~d.overlapped => Links(d, over)
  BY <1>1, <1>2 DEF Sound, Links
<1> QED
  BY <1>1, <1>2, <1>3, <1>4 DEF Sound, d

-----------------------------------------------------------------------------
(* The client with the coordinator and the entry.                          *)

\* A refresh is inside the client while it holds the lock; a coordinator that
\* is shut down starts nothing.
Agree(c, k, e) ==
  /\ k \in Coord
  /\ k.running = "none" <=> c.call["refresh"] = "idle"
  /\ Over(e) => /\ k.running = "none" /\ ~k.timer /\ ~k.waiting
                /\ k.debounce = "ready"

\* The set-up and the unload are inside it in their part of the entry's life.
Calls(c, e) ==
  /\ e \in Entry
  /\ c.call["setup"] # "idle" <=> e \in {"connecting", "refreshing"}
  /\ c.call["unload"] # "idle" <=> e = "unloading"
  /\ \A t \in Task \ {"setup", "refresh", "unload"} : c.call[t] = "idle"

\* From the first connect() on the state is the device's.
FromDevice(c, k, e) ==
  /\ e \in {"refreshing", "refreshed", "loaded"} => c.hasState \/ c.overlapped
  /\ e \in {"refreshed", "loaded"} => k.fromDevice \/ c.overlapped

\* Nothing is reported over a connection that stands.
Answers(c, k, e) ==
  e \in {"refreshed", "loaded"} /\ Connected(c) /\ k.running = "none" => k.ok

Whole(c, k, e) ==
  /\ Sound(c, Over(e)) /\ Agree(c, k, e) /\ Calls(c, e)
  /\ FromDevice(c, k, e) /\ Answers(c, k, e)

LEMMA GoneIsOver == Gone <=> Over(entry)
  BY DEF Gone, Over

LEMMA NotOver == ASSUME ~Over(entry) PROVE Over(entry) = FALSE
  BY DEF Over

LEMMA RefreshEndedWhole ==
  ASSUME NEW c, NEW k \in Coord, NEW ok \in BOOLEAN, ~Over(entry), Sound(c, FALSE),
         c.call["refresh"] = "idle", Calls(c, entry), FromDevice(c, k, entry),
         Connected(c) => ok
  PROVE  Whole(c, RefreshEnded(k, ok), entry)
<1> DEFINE j == RefreshEnded(k, ok)
<1>1. j \in Coord /\ j.running = "none" /\ j.fromDevice = k.fromDevice /\ j.ok = ok
  BY DEF RefreshEnded, Scheduled, Coord, Listening
<1> HIDE DEF j
<1>2. Agree(c, j, entry) /\ FromDevice(c, j, entry) /\ Answers(c, j, entry)
  BY <1>1 DEF Agree, FromDevice, Answers
<1>3. Over(entry) = FALSE
  BY NotOver
<1> QED
  BY <1>2, <1>3 DEF Whole, j

\* Any refresh that starts when none runs.
LEMMA RefreshBegunWhole ==
  ASSUME NEW c, NEW k \in Coord, NEW how \in {"requested", "scheduled"}, ~Over(entry),
         Sound(c, FALSE), c.call["refresh"] = "idle", Calls(c, entry),
         FromDevice(c, k, entry)
  PROVE  LET st == RefreshBegun(c, k, how) IN Whole(st.c, st.k, entry)
<1> DEFINE held == [k EXCEPT !.timer = FALSE, !.debounce = "ready", !.running = how]
           st == RefreshBegun(c, k, how)
<1>1. /\ held \in Coord /\ held.running = how /\ held.fromDevice = k.fromDevice
  BY DEF Coord
<1>2. CASE Connected(c)
  <2> DEFINE shown == [held EXCEPT !.fromDevice = c.hasState]
  <2>1. st.c = c /\ st.k = RefreshEnded(shown, TRUE)
    BY <1>2 DEF RefreshBegun, State
  <2>2. c.hasState \in BOOLEAN
    BY DEF Sound, Client
  <2>3. shown \in Coord /\ shown.fromDevice = c.hasState
    BY <1>1, <2>2 DEF Coord
  <2>4. FromDevice(c, shown, entry)
    BY <2>3 DEF FromDevice
  <2> HIDE DEF st, shown, held
  <2>5. Whole(c, RefreshEnded(shown, TRUE), entry)
    BY <2>3, <2>4, RefreshEndedWhole
  <2> QED
    BY <2>1, <2>5 DEF st
<1>3. CASE ~Connected(c)
  <2> DEFINE d == ConnectBegun(c, "refresh")
  <2>1. st.c = d /\ st.k = held
    BY <1>3 DEF RefreshBegun, State
  <2>2. "refresh" \in Task
    BY TaskAssumption
  <2>3. /\ Sound(d, FALSE) /\ Later(c, d) /\ ~Connected(d)
        /\ d.call = [c.call EXCEPT !["refresh"] = "opening"]
    BY <1>3, <2>2, ConnectBegunSound
  <2> HIDE DEF st, held, d
  <2>4. c.call \in [Task -> {"idle", "opening", "pairing", "closing"}]
    BY DEF Sound, Client
  <2>5. Agree(d, held, entry) /\ Calls(d, entry)
    BY <1>1, <2>2, <2>3, <2>4, TaskAssumption DEF Agree, Calls
  <2>6. FromDevice(d, held, entry) /\ Answers(d, held, entry)
    BY <1>1, <2>3 DEF FromDevice, Answers, Later
  <2>7. Over(entry) = FALSE
    BY NotOver
  <2> QED
    BY <2>1, <2>3, <2>5, <2>6, <2>7 DEF Whole, st
<1> QED
  BY <1>2, <1>3

\* The listener reports the loss of the connection.
LEMMA HandleDisconnectWhole ==
  ASSUME NEW c, NEW k, Sound(c, Over(entry)), Agree(c, k, entry), Calls(c, entry),
         FromDevice(c, k, entry), ~Connected(c)
  PROVE  LET st == HandleDisconnect(c, k) IN Whole(st.c, st.k, entry)
<1> DEFINE lost == [k EXCEPT !.interval = TRUE, !.ok = FALSE]
           st == HandleDisconnect(c, k)
<1>1. st = RefreshRequested(c, lost)
  BY DEF HandleDisconnect
<1>2. /\ lost \in Coord /\ lost.fromDevice = k.fromDevice /\ lost.running = k.running
      /\ lost.timer = k.timer /\ lost.waiting = k.waiting /\ lost.debounce = k.debounce
  BY DEF Agree, Coord
<1> HIDE DEF lost, st
<1>3. Agree(c, lost, entry) /\ FromDevice(c, lost, entry)
  BY <1>2 DEF Agree, FromDevice
<1>4. CASE Gone
  <2>1. st.c = c /\ st.k = lost
    BY <1>1, <1>4 DEF RefreshRequested, State
  <2> QED
    BY <1>3, <2>1 DEF Whole, Answers, st
<1>5. CASE ~Gone /\ lost.debounce # "ready"
  <2> DEFINE j == [lost EXCEPT !.debounce = "owed", !.absorbed = FALSE]
  <2>1. st.c = c /\ st.k = j
    BY <1>1, <1>5 DEF RefreshRequested, State
  <2>2. j \in Coord /\ j.fromDevice = lost.fromDevice /\ j.running = lost.running
    BY <1>2 DEF Coord
  <2> HIDE DEF j
  <2>3. Agree(c, j, entry) /\ FromDevice(c, j, entry) /\ Answers(c, j, entry)
    BY <1>3, <1>5, <2>2, GoneIsOver DEF Agree, FromDevice, Answers
  <2> QED
    BY <2>1, <2>3 DEF Whole, st
<1>6. CASE ~Gone /\ lost.debounce = "ready" /\ lost.running # "none"
  <2> DEFINE j == [lost EXCEPT !.absorbed = TRUE]
  <2>1. st.c = c /\ st.k = j
    BY <1>1, <1>6 DEF RefreshRequested, State
  <2>2. j \in Coord /\ j.fromDevice = lost.fromDevice /\ j.running = lost.running
    BY <1>2 DEF Coord
  <2> HIDE DEF j
  <2>3. Agree(c, j, entry) /\ FromDevice(c, j, entry) /\ Answers(c, j, entry)
    BY <1>3, <1>6, <2>2, GoneIsOver DEF Agree, FromDevice, Answers
  <2> QED
    BY <2>1, <2>3 DEF Whole, st
<1>7. CASE ~Gone /\ lost.debounce = "ready" /\ lost.running = "none"
  <2> DEFINE j == [lost EXCEPT !.absorbed = FALSE]
  <2>1. st = RefreshBegun(c, j, "requested")
    BY <1>1, <1>7 DEF RefreshRequested
  <2>2. j \in Coord /\ j.fromDevice = lost.fromDevice
    BY <1>2 DEF Coord
  <2> HIDE DEF j
  <2>3. FromDevice(c, j, entry) /\ c.call["refresh"] = "idle"
    BY <1>3, <1>7, <2>2 DEF FromDevice, Agree
  <2>4. ~Over(entry)
    BY <1>7, GoneIsOver
  <2>5. Sound(c, FALSE)
    BY <2>4, NotOver
  <2> QED
    BY <2>1, <2>2, <2>3, <2>4, <2>5, RefreshBegunWhole DEF st
<1> QED
  BY <1>4, <1>5, <1>6, <1>7

\* A state arrives.
LEMMA PushWhole ==
  ASSUME NEW c, NEW k, Whole(c, k, entry)
  PROVE  Whole(StatePushed(c), HandlePush(k), entry)
<1> DEFINE d == StatePushed(c)
           j == HandlePush(k)
<1>1. /\ Sound(d, Over(entry)) /\ Later(c, d) /\ d.call = c.call
  BY FirstStateSetSound DEF Whole
<1>2. k \in Coord
  BY DEF Whole, Agree
<1>3. /\ j \in Coord /\ j.running = k.running /\ j.waiting = k.waiting
      /\ j.fromDevice = TRUE /\ j.ok = TRUE /\ j.debounce = "ready"
      /\ j.timer => Listening
  BY <1>2 DEF HandlePush, Scheduled, Coord, Listening
<1> HIDE DEF d, j
<1>4. Listening => ~Over(entry)
  BY DEF Listening, Over
<1> QED
  BY <1>1, <1>3, <1>4 DEF Whole, Agree, Calls, FromDevice, Answers, Later, d, j

LEMMA RejectWhole ==
  ASSUME NEW c, NEW k, Whole(c, k, entry)
  PROVE  Whole(PairingRejected(c), k, entry)
<1> DEFINE d == PairingRejected(c)
<1>1. /\ Sound(d, Over(entry)) /\ Later(c, d) /\ d.call = c.call
      /\ Connected(d) = Connected(c)
  BY FirstStateSetSound DEF Whole
<1> HIDE DEF d
<1> QED
  BY <1>1 DEF Whole, Agree, Calls, FromDevice, Answers, Later, d

LEMMA LastReadWhole ==
  ASSUME Whole(client, coord, entry), NEW st \in LastRead
  PROVE  /\ Whole(st.c, st.k, entry)
         /\ st.c.listener = client.listener /\ st.c.sock = client.sock
<1>1. CASE st = State(client, coord)
  BY <1>1 DEF State
<1>2. CASE st = State(StatePushed(client), HandlePush(coord))
  <2>1. st.c = StatePushed(client) /\ st.k = HandlePush(coord)
    BY <1>2 DEF State
  <2> QED
    BY <2>1, PushWhole, FirstStateSetSound DEF Whole
<1>3. CASE st = State(PairingRejected(client), coord)
  <2>1. st.c = PairingRejected(client) /\ st.k = coord
    BY <1>3 DEF State
  <2> QED
    BY <2>1, RejectWhole, FirstStateSetSound DEF Whole
<1> QED
  BY <1>1, <1>2, <1>3 DEF LastRead

LEMMA LaterKept ==
  ASSUME NEW c, NEW d, NEW k, NEW e, Agree(c, k, e), Calls(c, e), FromDevice(c, k, e),
         Later(c, d), d.call = c.call
  PROVE  Agree(d, k, e) /\ Calls(d, e) /\ FromDevice(d, k, e)
  BY DEF Agree, Calls, FromDevice, Later

LEMMA SocketDeadWhole ==
  ASSUME NEW c, NEW k, NEW s \in Sock, Whole(c, k, entry)
  PROVE  Whole(SocketDead(c, s), k, entry)
<1> DEFINE d == SocketDead(c, s)
<1>1. /\ Sound(d, Over(entry)) /\ Later(c, d) /\ d.call = c.call
      /\ Connected(d) => Connected(c)
  BY SocketDeadSound DEF Whole
<1> HIDE DEF d
<1> QED
  BY <1>1, LaterKept DEF Whole, Answers, d

LEMMA AbandonedWhole ==
  ASSUME NEW c, NEW k, NEW s \in Sock, Whole(c, k, entry)
  PROVE  Whole([c EXCEPT !.abandoned = c.abandoned \cup {s}], k, entry)
<1> DEFINE d == [c EXCEPT !.abandoned = c.abandoned \cup {s}]
<1>1. /\ Sound(d, Over(entry)) /\ Later(c, d) /\ d.call = c.call
      /\ Connected(d) = Connected(c)
  BY AbandonedSound DEF Whole
<1> HIDE DEF d
<1> QED
  BY <1>1, LaterKept DEF Whole, Answers, d

\* A listener sees its socket closed, or raises.
LEMMA ListenerSeesEndWhole ==
  ASSUME NEW c, NEW k, NEW s \in Sock, Whole(c, k, entry), c.listener[s],
         c.sock[s] = "dead" \/ s \in c.abandoned, ListenerSeesEnd(c, k, s)
  PROVE  Whole(client', coord', entry)
<1> DEFINE d == ListenerEnded(c, s)
<1>1. /\ Sound(d, Over(entry)) /\ Later(c, d) /\ d.call = c.call
      /\ Connected(d) => Connected(c)
      /\ ~c.closing => ~Connected(d)
  BY ListenerEndedSound DEF Whole
<1>2. client' = (IF c.closing THEN State(d, k) ELSE HandleDisconnect(d, k)).c
      /\ coord' = (IF c.closing THEN State(d, k) ELSE HandleDisconnect(d, k)).k
  BY DEF ListenerSeesEnd, Becomes
<1> HIDE DEF d
<1>3. Agree(d, k, entry) /\ Calls(d, entry) /\ FromDevice(d, k, entry)
  BY <1>1, LaterKept DEF Whole
<1>4. CASE c.closing
  BY <1>1, <1>2, <1>3, <1>4 DEF State, Whole, Answers
<1>5. CASE ~c.closing
  BY <1>1, <1>2, <1>3, <1>5, HandleDisconnectWhole
<1> QED
  BY <1>4, <1>5

\* The entry fails or is unloaded: the refresh is cancelled where it waits.
LEMMA ShutDownWhole ==
  ASSUME NEW c, NEW k \in Coord, NEW e \in {"failed", "unloaded"}, Sound(c, TRUE),
         \A t \in Task \ {"refresh"} : c.call[t] = "idle"
  PROVE  LET st == ShutDown(c, k) IN Whole(st.c, st.k, e)
<1> DEFINE d == CallReturned(c, "refresh")
           j == [k EXCEPT !.timer = FALSE, !.debounce = "ready", !.running = "none",
                          !.waiting = FALSE]
           st == ShutDown(c, k)
<1>0. {"setup", "refresh", "unload"} \subseteq Task
  BY TaskAssumption
<1>1. st.c = d /\ st.k = j
  BY DEF ShutDown, State
<1>2. /\ Sound(d, TRUE) /\ Later(c, d) /\ d.call = [c.call EXCEPT !["refresh"] = "idle"]
  BY <1>0, CallReturnedSound
<1>3. /\ j \in Coord /\ j.running = "none" /\ ~j.timer /\ ~j.waiting
      /\ j.debounce = "ready"
  BY DEF Coord
<1>4. c.call \in [Task -> {"idle", "opening", "pairing", "closing"}]
  BY DEF Sound, Client
<1> HIDE DEF d, j, st
<1>5. \A t \in Task : d.call[t] = "idle"
  BY <1>0, <1>2, <1>4
<1>6. Over(e) = TRUE
  BY DEF Over
<1>7. Agree(d, j, e) /\ Calls(d, e) /\ FromDevice(d, j, e) /\ Answers(d, j, e)
  BY <1>0, <1>3, <1>5 DEF Agree, Calls, Entry, FromDevice, Answers
<1> QED
  BY <1>1, <1>2, <1>6, <1>7 DEF Whole, st

-----------------------------------------------------------------------------
(* The steps.                                                              *)

IInv == Whole(client, coord, entry)

\* What IInv says while task t of the two callers is in a call.
LEMMA InCall ==
  ASSUME IInv, NEW t \in Caller, client.call[t] # "idle"
  PROVE  /\ t \in Task /\ ~Over(entry) /\ Sound(client, FALSE) /\ coord \in Coord
         /\ t = "setup" => /\ entry \in {"connecting", "refreshing"}
                           /\ client.call["unload"] = "idle"
<1>1. t \in Task
  BY TaskAssumption DEF Caller
<1>2. ~Over(entry)
  BY DEF IInv, Whole, Agree, Calls, Over, Caller
<1>3. Sound(client, FALSE)
  BY <1>2, NotOver DEF IInv, Whole
<1> QED
  BY <1>1, <1>2, <1>3 DEF IInv, Whole, Agree, Calls, Caller

\* A call of the client only by a refresh changes nobody else's part.
LEMMA RefreshCalls ==
  ASSUME NEW c, NEW d, NEW e, NEW x, c \in Client, Calls(c, e),
         d.call = [c.call EXCEPT !["refresh"] = x]
  PROVE  Calls(d, e)
<1>1. c.call \in [Task -> {"idle", "opening", "pairing", "closing"}]
  BY DEF Client
<1> QED
  BY <1>1, TaskAssumption DEF Calls

LEMMA RaisedStep ==
  ASSUME IInv, NEW t \in Caller, client.call[t] # "idle", NEW c,
         Sound(c, FALSE), Sound(c, TRUE), ~Connected(c), Later(client, c),
         c.call = [client.call EXCEPT ![t] = "idle"], Raised(t, c)
  PROVE  IInv'
<1>0. /\ t \in Task /\ ~Over(entry) /\ coord \in Coord /\ client \in Client
      /\ client.call \in [Task -> {"idle", "opening", "pairing", "closing"}]
  BY InCall DEF Sound, Client
<1>1. CASE t = "setup"
  <2>1. /\ entry' = "failed" /\ client' = ShutDown(c, coord).c
        /\ coord' = ShutDown(c, coord).k
    BY <1>1 DEF Raised, SetupFailed, Becomes
  <2>2. \A u \in Task \ {"refresh"} : c.call[u] = "idle"
    BY <1>0, <1>1, InCall, TaskAssumption DEF IInv, Whole, Calls
  <2>3. Whole(ShutDown(c, coord).c, ShutDown(c, coord).k, "failed")
    BY <1>0, <2>2, ShutDownWhole
  <2> QED
    BY <2>1, <2>3 DEF IInv
<1>2. CASE t = "refresh"
  <2>1. client' = c /\ coord' = RefreshEnded(coord, FALSE) /\ entry' = entry
    BY <1>2 DEF Raised, Becomes, State
  <2>2. Calls(c, entry) /\ FromDevice(c, coord, entry) /\ c.call["refresh"] = "idle"
    BY <1>0, <1>2, RefreshCalls DEF IInv, Whole, FromDevice, Later
  <2> QED
    BY <1>0, <2>1, <2>2, RefreshEndedWhole DEF IInv
<1> QED
  BY <1>1, <1>2 DEF Caller

LEMMA ReturnedStep ==
  ASSUME IInv, NEW t \in Caller, client.call[t] # "idle", NEW c,
         Sound(c, FALSE), Later(client, c), c.hasState \/ c.overlapped,
         c.call = [client.call EXCEPT ![t] = "idle"], Returned(t, c)
  PROVE  IInv'
<1>0. /\ t \in Task /\ ~Over(entry) /\ coord \in Coord /\ client \in Client
      /\ client.call \in [Task -> {"idle", "opening", "pairing", "closing"}]
      /\ c.call \in [Task -> {"idle", "opening", "pairing", "closing"}]
      /\ c.hasState \in BOOLEAN
      /\ {"setup", "refresh", "unload"} \subseteq Task
  BY InCall, TaskAssumption DEF Sound, Client
<1>1. CASE t = "refresh"
  <2> DEFINE k == Reconnected(c, coord)
  <2>1. client' = c /\ coord' = RefreshEnded(k, TRUE) /\ entry' = entry
    BY <1>1 DEF Returned, Becomes, State
  <2>2. k \in Coord /\ k.fromDevice = c.hasState
    BY <1>0 DEF Reconnected, Coord
  <2> HIDE DEF k
  <2>3. Calls(c, entry) /\ FromDevice(c, k, entry) /\ c.call["refresh"] = "idle"
    BY <1>0, <1>1, <2>2, RefreshCalls DEF IInv, Whole, FromDevice
  <2> QED
    BY <1>0, <2>1, <2>2, <2>3, RefreshEndedWhole DEF IInv
<1>2. CASE t = "setup"
  <2>0. /\ entry \in {"connecting", "refreshing"} /\ SetupConnected(c, coord)
        /\ client.call["unload"] = "idle"
        /\ \A u \in Task \ {"refresh"} : c.call[u] = "idle"
        /\ c.call["refresh"] = client.call["refresh"]
    BY <1>0, <1>2, InCall DEF Returned, IInv, Whole, Calls
  <2> DEFINE held == [coord EXCEPT !.timer = FALSE, !.debounce = "ready"]
  <2>1. /\ held \in Coord /\ held.running = coord.running
    BY <1>0 DEF Coord
  <2> HIDE DEF held
  <2>2. coord.running = "none" <=> c.call["refresh"] = "idle"
    BY <2>0 DEF IInv, Whole, Agree
  <2>3. CASE entry = "connecting" /\ ~Connected(c)
    <3> DEFINE d == ConnectBegun(c, "setup")
    <3>1. entry' = "refreshing" /\ client' = d /\ coord' = held
      BY <2>0, <2>3 DEF SetupConnected, Becomes, State, held
    <3>2. /\ Sound(d, FALSE) /\ Later(c, d) /\ ~Connected(d)
          /\ d.call = [c.call EXCEPT !["setup"] = "opening"]
      BY <1>0, <2>0, <2>3, ConnectBegunSound
    <3> HIDE DEF d
    <3>3. Agree(d, held, "refreshing") /\ Calls(d, "refreshing")
      BY <1>0, <2>0, <2>1, <2>2, <3>2 DEF Agree, Calls, Entry, Over
    <3>4. FromDevice(d, held, "refreshing") /\ Answers(d, held, "refreshing")
      BY <3>2 DEF FromDevice, Answers, Later
    <3>5. Over("refreshing") = FALSE
      BY DEF Over
    <3> QED
      BY <3>1, <3>2, <3>3, <3>4, <3>5 DEF IInv, Whole
  <2>4. ASSUME NEW k \in Coord, k.running = coord.running, entry' = "refreshed",
               client' = c,
               coord' = [k EXCEPT !.ok = TRUE, !.fromDevice = c.hasState]
        PROVE  IInv'
    <3> DEFINE j == [k EXCEPT !.ok = TRUE, !.fromDevice = c.hasState]
    <3>1. /\ j \in Coord /\ j.ok = TRUE /\ j.fromDevice = c.hasState
          /\ j.running = coord.running
      BY <1>0, <2>4 DEF Coord
    <3>2. coord' = j
      BY <2>4
    <3> HIDE DEF j
    <3>3. Agree(c, j, "refreshed") /\ Calls(c, "refreshed")
      BY <1>0, <2>0, <2>2, <3>1 DEF Agree, Calls, Entry, Over
    <3>4. FromDevice(c, j, "refreshed") /\ Answers(c, j, "refreshed")
      BY <3>1 DEF FromDevice, Answers
    <3>5. Over("refreshed") = FALSE
      BY DEF Over
    <3> QED
      BY <2>4, <3>2, <3>3, <3>4, <3>5 DEF IInv, Whole
  <2>5. CASE entry = "connecting" /\ Connected(c)
    BY <2>0, <2>1, <2>4, <2>5 DEF SetupConnected, Becomes, State, held
  <2>6. CASE entry = "refreshing"
    <3> DEFINE k == Reconnected(c, coord)
    <3>1. k \in Coord /\ k.running = coord.running
      BY <1>0 DEF Reconnected, Coord
    <3>2. /\ entry' = "refreshed" /\ client' = c
          /\ coord' = [k EXCEPT !.ok = TRUE, !.fromDevice = c.hasState]
      BY <2>0, <2>6 DEF SetupConnected, Becomes, State
    <3> HIDE DEF k
    <3> QED
      BY <2>4, <3>1, <3>2
  <2> QED
    BY <2>0, <2>3, <2>5, <2>6
<1> QED
  BY <1>1, <1>2 DEF Caller

\* A connect() that fails disconnects, and raises at once when there is nothing
\* to close.
LEMMA DisconnectStep ==
  ASSUME IInv, NEW t \in Caller, client.call[t] # "idle", NEW c,
         Sound(c, FALSE), Later(client, c), c.call = client.call,
         IF DisconnectBegun(c, t).call[t] = "idle" THEN Raised(t, DisconnectBegun(c, t))
         ELSE client' = DisconnectBegun(c, t) /\ UNCHANGED <<coord, entry>>
  PROVE  IInv'
<1> DEFINE d == DisconnectBegun(c, t)
<1>0. /\ t \in Task /\ ~Over(entry) /\ coord \in Coord
      /\ client.call \in [Task -> {"idle", "opening", "pairing", "closing"}]
  BY InCall DEF Sound, Client
<1>1. /\ Sound(d, FALSE) /\ Later(c, d) /\ ~Connected(d)
      /\ Connected(c) => d.call = [c.call EXCEPT ![t] = "closing"]
      /\ ~Connected(c) => d.call = [c.call EXCEPT ![t] = "idle"] /\ Sound(d, TRUE)
  BY <1>0, DisconnectBegunSound
<1>2. IF d.call[t] = "idle" THEN Raised(t, d)
      ELSE client' = d /\ UNCHANGED <<coord, entry>>
  OBVIOUS
<1> HIDE DEF d
<1>3. Later(client, d)
  BY <1>1 DEF Later
<1>4. CASE Connected(c)
  <2>1. client' = d /\ coord' = coord /\ entry' = entry
    BY <1>0, <1>1, <1>2, <1>4
  <2>2. Agree(d, coord, entry) /\ Calls(d, entry)
    <3>1. d.call = [client.call EXCEPT ![t] = "closing"]
      BY <1>1, <1>4
    <3> QED
      BY <1>0, <3>1, TaskAssumption DEF IInv, Whole, Agree, Calls, Caller
  <2>3. FromDevice(d, coord, entry) /\ Answers(d, coord, entry)
    BY <1>1, <1>3 DEF IInv, Whole, FromDevice, Answers, Later
  <2> QED
    BY <1>0, <1>1, <2>1, <2>2, <2>3, NotOver DEF IInv, Whole
<1>5. CASE ~Connected(c)
  BY <1>0, <1>1, <1>2, <1>3, <1>5, RaisedStep
<1> QED
  BY <1>4, <1>5

LEMMA OpenedStep == ASSUME IInv, NEW t \in Caller, Opened(t) PROVE IInv'
<1>0. /\ client.call[t] = "opening" /\ t \in Task /\ ~Over(entry)
      /\ Sound(client, FALSE)
      /\ client.call \in [Task -> {"idle", "opening", "pairing", "closing"}]
  BY InCall DEF Opened, Sound, Client
<1>1. PICK s \in Reusable(client) :
        client' = SocketOpened(client, t, s) /\ coord' = coord /\ entry' = entry
  BY DEF Opened
<1> DEFINE d == SocketOpened(client, t, s)
<1>2. Sound(d, FALSE) /\ d.call = [client.call EXCEPT ![t] = "pairing"] /\ Later(client, d)
  BY <1>0, SocketOpenedSound DEF Opened
<1> HIDE DEF d
<1>3. Agree(d, coord, entry) /\ Calls(d, entry)
  BY <1>0, <1>2 DEF IInv, Whole, Agree, Calls, Caller
<1>4. entry \in {"refreshed", "loaded"} => coord.running # "none"
  BY <1>0 DEF IInv, Whole, Agree, Calls, Caller
<1>5. FromDevice(d, coord, entry) /\ Answers(d, coord, entry)
  BY <1>2, <1>4 DEF IInv, Whole, FromDevice, Answers, Later
<1> QED
  BY <1>0, <1>1, <1>2, <1>3, <1>5, NotOver DEF IInv, Whole, d

LEMMA FailedStep == ASSUME IInv, NEW t \in Caller, Failed(t) PROVE IInv'
<1>1. client.call[t] # "idle" /\ Sound(client, FALSE) /\ Later(client, client)
  BY InCall DEF Failed, Later
<1>2. IF DisconnectBegun(client, t).call[t] = "idle"
      THEN Raised(t, DisconnectBegun(client, t))
      ELSE client' = DisconnectBegun(client, t) /\ UNCHANGED <<coord, entry>>
  BY DEF Failed
<1> QED
  BY <1>1, <1>2, DisconnectStep

LEMMA RefusedStep == ASSUME IInv, NEW t \in Caller, Refused(t) PROVE IInv'
<1> DEFINE c == Resumed(client, t)
<1>1. client.call[t] # "idle" /\ Sound(client, FALSE) /\ t \in Task
  BY InCall DEF Refused
<1>2. Sound(c, FALSE) /\ c.call = client.call /\ Later(client, c)
  BY <1>1, ResumedSound DEF Later
<1>3. IF DisconnectBegun(c, t).call[t] = "idle" THEN Raised(t, DisconnectBegun(c, t))
      ELSE client' = DisconnectBegun(c, t) /\ UNCHANGED <<coord, entry>>
  BY DEF Refused
<1> HIDE DEF c
<1> QED
  BY <1>1, <1>2, <1>3, DisconnectStep

LEMMA PairedStep == ASSUME IInv, NEW t \in Caller, Paired(t) PROVE IInv'
<1> DEFINE c == Resumed(client, t)
           d == CallReturned(c, t)
<1>1. client.call[t] # "idle" /\ Sound(client, FALSE) /\ t \in Task
  BY InCall DEF Paired
<1>2. client.hasState \/ client.overlapped
  BY <1>1 DEF Paired, Sound, Waits, FirstState
<1>3. /\ Sound(c, FALSE) /\ c.call = client.call
      /\ c.hasState = client.hasState /\ c.overlapped = client.overlapped
  BY <1>1, ResumedSound
<1>4. Sound(d, FALSE) /\ Later(c, d) /\ d.call = [c.call EXCEPT ![t] = "idle"]
  BY <1>1, <1>3, CallReturnedSound
<1>5. Returned(t, d)
  BY DEF Paired
<1> HIDE DEF c, d
<1>6. Later(client, d) /\ (d.hasState \/ d.overlapped)
  BY <1>2, <1>3, <1>4 DEF Later
<1> QED
  BY <1>1, <1>3, <1>4, <1>5, <1>6, ReturnedStep

LEMMA ClosedStep == ASSUME IInv, NEW t \in Caller, Closed(t) PROVE IInv'
<1> DEFINE d == DisconnectEnded(client, t)
<1>1. client.call[t] = "closing" /\ Sound(client, FALSE) /\ t \in Task
  BY InCall DEF Closed
<1>2. /\ Sound(d, FALSE) /\ Sound(d, TRUE) /\ Later(client, d) /\ ~Connected(d)
      /\ d.call = [client.call EXCEPT ![t] = "idle"]
  BY <1>1, DisconnectEndedSound
<1>3. Raised(t, d)
  BY DEF Closed
<1> HIDE DEF d
<1> QED
  BY <1>1, <1>2, <1>3, RaisedStep

\* What the device does, and what its listener makes of it.
LEMMA DeviceStep ==
  ASSUME IInv, NEW s \in Sock,
         PeerCloses(s) \/ HeartbeatFails(s) \/ HeartbeatSeen(s)
           \/ Push(s) \/ Reject(s) \/ ListenerRaises(s)
  PROVE  IInv'
<1>0. Whole(client, coord, entry) /\ entry' = entry
  BY DEF IInv, PeerCloses, HeartbeatFails, HeartbeatSeen, Push, Reject, ListenerRaises
<1> SUFFICES Whole(client', coord', entry)
  BY <1>0 DEF IInv
<1>1. CASE PeerCloses(s)
  <2>1. CASE client.listener[s]
    <3>1. PICK st \in LastRead : ListenerSeesEnd(SocketDead(st.c, s), st.k, s)
      BY <1>1, <2>1 DEF PeerCloses
    <3>2. Whole(st.c, st.k, entry) /\ st.c.listener = client.listener
      BY <1>0, LastReadWhole
    <3>3. /\ SocketDead(st.c, s).sock[s] = "dead"
          /\ SocketDead(st.c, s).listener = st.c.listener
      BY <3>2, SocketDeadSound DEF Whole
    <3>4. Whole(SocketDead(st.c, s), st.k, entry)
      BY <3>2, SocketDeadWhole
    <3> QED
      BY <2>1, <3>1, <3>2, <3>3, <3>4, ListenerSeesEndWhole
  <2>2. CASE ~client.listener[s]
    BY <1>0, <1>1, <2>2, SocketDeadWhole DEF PeerCloses, Becomes, State
  <2> QED
    BY <2>1, <2>2
<1>2. CASE HeartbeatFails(s)
  BY <1>0, <1>2, SocketDeadWhole DEF HeartbeatFails
<1>3. CASE HeartbeatSeen(s)
  BY <1>0, <1>3, ListenerSeesEndWhole DEF HeartbeatSeen
<1>4. CASE Push(s)
  BY <1>0, <1>4, PushWhole DEF Push, Becomes, State
<1>5. CASE Reject(s)
  BY <1>0, <1>5, RejectWhole DEF Reject
<1>6. CASE ListenerRaises(s)
  <2>1. PICK st \in LastRead :
          ListenerSeesEnd([st.c EXCEPT !.abandoned = st.c.abandoned \cup {s}], st.k, s)
    BY <1>6 DEF ListenerRaises
  <2>2. Whole(st.c, st.k, entry) /\ st.c.listener = client.listener
    BY <1>0, LastReadWhole
  <2> DEFINE d == [st.c EXCEPT !.abandoned = st.c.abandoned \cup {s}]
  <2>3. s \in d.abandoned /\ d.listener = st.c.listener
    BY <2>2, AbandonedSound DEF Whole
  <2>4. Whole(d, st.k, entry)
    BY <2>2, AbandonedWhole
  <2>5. ListenerSeesEnd(d, st.k, s) /\ client.listener[s]
    BY <1>6, <2>1 DEF ListenerRaises
  <2> HIDE DEF d
  <2> QED
    BY <2>2, <2>3, <2>4, <2>5, ListenerSeesEndWhole
<1> QED
  BY <1>1, <1>2, <1>3, <1>4, <1>5, <1>6

\* Timers, and a refresh that waited for the lock.
LEMMA RefreshStep ==
  ASSUME IInv, TimerFires \/ LockAcquired \/ CooldownEnds
  PROVE  IInv'
<1>0. /\ Whole(client, coord, entry) /\ entry' = entry /\ coord \in Coord
      /\ Agree(client, coord, entry)
  BY DEF IInv, Whole, Agree, TimerFires, LockAcquired, CooldownEnds
<1>1. SUFFICES Whole(client', coord', entry)
  BY <1>0 DEF IInv
<1>2. ~Over(entry)
  BY <1>0 DEF Agree, TimerFires, LockAcquired, CooldownEnds
<1>3. Sound(client, FALSE)
  BY <1>0, <1>2, NotOver DEF Whole
<1>4. ASSUME NEW k \in Coord, k.fromDevice = coord.fromDevice, coord.running = "none",
             NEW how \in {"requested", "scheduled"}, Becomes(RefreshBegun(client, k, how))
      PROVE  Whole(client', coord', entry)
  <2>1. client.call["refresh"] = "idle" /\ FromDevice(client, k, entry)
        /\ Calls(client, entry)
    BY <1>0, <1>4 DEF Whole, Agree, FromDevice
  <2> QED
    BY <1>2, <1>3, <1>4, <2>1, RefreshBegunWhole DEF Becomes
<1>5. ASSUME NEW k \in Coord, k.fromDevice = coord.fromDevice, k.ok = coord.ok,
             k.running = coord.running, Becomes(State(client, k))
      PROVE  Whole(client', coord', entry)
  BY <1>0, <1>2, <1>5 DEF Whole, Agree, FromDevice, Answers, Becomes, State
<1>6. CASE TimerFires
  <2>1. CASE coord.running = "none"
    BY <1>0, <1>4, <1>6, <2>1 DEF TimerFires
  <2>2. CASE coord.running # "none"
    <3> DEFINE k == [coord EXCEPT !.timer = FALSE, !.waiting = TRUE]
    <3>1. /\ k \in Coord /\ k.fromDevice = coord.fromDevice /\ k.ok = coord.ok
          /\ k.running = coord.running
      BY <1>0 DEF Coord
    <3>2. Becomes(State(client, k))
      BY <1>6, <2>2 DEF TimerFires
    <3> HIDE DEF k
    <3> QED
      BY <1>5, <3>1, <3>2
  <2> QED
    BY <2>1, <2>2
<1>7. CASE LockAcquired
  <2> DEFINE k == [coord EXCEPT !.waiting = FALSE]
  <2>1. k \in Coord /\ k.fromDevice = coord.fromDevice
    BY <1>0 DEF Coord
  <2>2. coord.running = "none" /\ Becomes(RefreshBegun(client, k, "scheduled"))
    BY <1>7 DEF LockAcquired
  <2> HIDE DEF k
  <2> QED
    BY <1>4, <2>1, <2>2
<1>8. CASE CooldownEnds
  <2> DEFINE k == [coord EXCEPT !.debounce = "ready"]
  <2>1. /\ k \in Coord /\ k.fromDevice = coord.fromDevice /\ k.ok = coord.ok
        /\ k.running = coord.running
    BY <1>0 DEF Coord
  <2>2. Becomes(IF coord.debounce = "owed" /\ coord.running = "none"
                THEN RefreshBegun(client, k, "requested") ELSE State(client, k))
    BY <1>8 DEF CooldownEnds
  <2> HIDE DEF k
  <2>3. CASE coord.debounce = "owed" /\ coord.running = "none"
    BY <1>4, <2>1, <2>2, <2>3
  <2>4. CASE ~(coord.debounce = "owed" /\ coord.running = "none")
    BY <1>5, <2>1, <2>2, <2>4
  <2> QED
    BY <2>3, <2>4
<1> QED
  BY <1>6, <1>7, <1>8

LEMMA EntitiesAddedStep == ASSUME IInv, EntitiesAdded PROVE IInv'
<1> DEFINE k == [coord EXCEPT !.timer = coord.timer \/ coord.interval]
<1>1. /\ entry = "refreshed" /\ entry' = "loaded" /\ client' = client /\ coord' = k
      /\ coord \in Coord
  BY DEF EntitiesAdded, IInv, Whole, Agree
<1>2. /\ k \in Coord /\ k.fromDevice = coord.fromDevice /\ k.ok = coord.ok
      /\ k.running = coord.running
  BY <1>1 DEF Coord
<1> HIDE DEF k
<1>3. Over("refreshed") = FALSE /\ Over("loaded") = FALSE
  BY DEF Over
<1>4. Sound(client, FALSE)
  BY <1>1, <1>3 DEF IInv, Whole
<1> QED
  BY <1>1, <1>2, <1>3, <1>4 DEF IInv, Whole, Agree, Calls, Entry, FromDevice, Answers

LEMMA UnloadStep == ASSUME IInv, Unload PROVE IInv'
<1> DEFINE d == DisconnectBegun(client, "unload")
           k == [coord EXCEPT !.timer = FALSE, !.debounce = "ready"]
<1>0. /\ {"setup", "refresh", "unload"} \subseteq Task
      /\ entry = "loaded" /\ ~Over(entry) /\ coord \in Coord
  BY TaskAssumption DEF Unload, IInv, Whole, Agree, Over
<1>1. Sound(client, FALSE)
      /\ client.call \in [Task -> {"idle", "opening", "pairing", "closing"}]
  BY <1>0, NotOver DEF IInv, Whole, Sound, Client
<1>2. /\ Sound(d, FALSE) /\ Later(client, d) /\ ~Connected(d)
      /\ Connected(client) => d.call = [client.call EXCEPT !["unload"] = "closing"]
      /\ ~Connected(client) =>
           d.call = [client.call EXCEPT !["unload"] = "idle"] /\ Sound(d, TRUE)
  BY <1>0, <1>1, DisconnectBegunSound
<1>3. k \in Coord /\ k.running = coord.running
  BY <1>0 DEF Coord
<1>4. IF d.call["unload"] = "closing"
      THEN entry' = "unloading" /\ Becomes(State(d, k))
      ELSE entry' = "unloaded" /\ Becomes(ShutDown(d, k))
  BY DEF Unload
<1> HIDE DEF d, k
<1>5. CASE Connected(client)
  <2>1. entry' = "unloading" /\ client' = d /\ coord' = k
    BY <1>0, <1>1, <1>2, <1>4, <1>5 DEF Becomes, State
  <2>2. Over("unloading") = FALSE
    BY DEF Over
  <2>3. Agree(d, k, "unloading") /\ Calls(d, "unloading")
    BY <1>0, <1>1, <1>2, <1>3, <1>5, <2>2 DEF IInv, Whole, Agree, Calls, Entry
  <2>4. FromDevice(d, k, "unloading") /\ Answers(d, k, "unloading")
    BY DEF FromDevice, Answers
  <2> QED
    BY <1>2, <2>1, <2>2, <2>3, <2>4 DEF IInv, Whole
<1>6. CASE ~Connected(client)
  <2>1. entry' = "unloaded" /\ client' = ShutDown(d, k).c /\ coord' = ShutDown(d, k).k
    BY <1>0, <1>1, <1>2, <1>4, <1>6 DEF Becomes
  <2>2. \A t \in Task \ {"refresh"} : d.call[t] = "idle"
    BY <1>0, <1>1, <1>2, <1>6 DEF IInv, Whole, Calls
  <2>3. Whole(ShutDown(d, k).c, ShutDown(d, k).k, "unloaded")
    BY <1>2, <1>3, <1>6, <2>2, ShutDownWhole
  <2> QED
    BY <2>1, <2>3 DEF IInv
<1> QED
  BY <1>5, <1>6

LEMMA UnloadedStep == ASSUME IInv, Unloaded PROVE IInv'
<1> DEFINE d == DisconnectEnded(client, "unload")
<1>0. /\ {"setup", "refresh", "unload"} \subseteq Task
      /\ entry = "unloading" /\ ~Over(entry) /\ coord \in Coord
      /\ client.call["unload"] = "closing"
  BY TaskAssumption DEF Unloaded, IInv, Whole, Agree, Over
<1>1. Sound(client, FALSE)
      /\ client.call \in [Task -> {"idle", "opening", "pairing", "closing"}]
  BY <1>0, NotOver DEF IInv, Whole, Sound, Client
<1>2. Sound(d, TRUE) /\ d.call = [client.call EXCEPT !["unload"] = "idle"]
  BY <1>0, <1>1, DisconnectEndedSound
<1>3. /\ entry' = "unloaded" /\ client' = ShutDown(d, coord).c
      /\ coord' = ShutDown(d, coord).k
  BY DEF Unloaded, Becomes
<1> HIDE DEF d
<1>4. \A t \in Task \ {"refresh"} : d.call[t] = "idle"
  BY <1>0, <1>1, <1>2 DEF IInv, Whole, Calls
<1>5. Whole(ShutDown(d, coord).c, ShutDown(d, coord).k, "unloaded")
  BY <1>0, <1>2, <1>4, ShutDownWhole
<1> QED
  BY <1>3, <1>5 DEF IInv

LEMMA IInvInit == Init => IInv
<1> SUFFICES ASSUME Init PROVE IInv
  OBVIOUS
<1> DEFINE d == ConnectBegun(NewClient, "setup")
<1>0. {"setup", "refresh", "unload"} \subseteq Task /\ NoSock \notin Sock
  BY TaskAssumption
<1>1. /\ NewClient \in Client /\ NewClient.ws = NoSock
      /\ \A s \in Sock : NewClient.sock[s] = "free" /\ ~NewClient.listener[s]
      /\ \A t \in Task : ~NewClient.woken[t]
      /\ NewClient.call = [t \in Task |-> "idle"]
      /\ NewClient.first = FALSE /\ NewClient.overlapped = FALSE
  BY DEF NewClient, Client
<1>2. ~Connected(NewClient) /\ OpenSocks(NewClient) = {}
  BY <1>1 DEF Connected, OpenSocks
<1>3. Sound(NewClient, FALSE)
  BY <1>1, <1>2 DEF Sound, Waits, FirstState, Links
<1>4. /\ Sound(d, FALSE) /\ d.call = [NewClient.call EXCEPT !["setup"] = "opening"]
  BY <1>0, <1>1, <1>2, <1>3, ConnectBegunSound
<1>5. client = d /\ coord = NewCoord /\ entry = "connecting"
  BY DEF Init
<1> HIDE DEF d
<1>6. NewCoord \in Coord /\ NewCoord.running = "none"
  BY DEF NewCoord, Coord
<1>7. Over("connecting") = FALSE
  BY DEF Over
<1>8. Agree(d, NewCoord, "connecting") /\ Calls(d, "connecting")
  BY <1>0, <1>1, <1>4, <1>6, <1>7 DEF Agree, Calls, Entry
<1>9. FromDevice(d, NewCoord, "connecting") /\ Answers(d, NewCoord, "connecting")
  BY DEF FromDevice, Answers
<1> QED
  BY <1>4, <1>5, <1>7, <1>8, <1>9 DEF IInv, Whole

LEMMA IInvInvariant == Spec => []IInv
<1>1. IInv /\ [Next]_vars => IInv'
  <2> SUFFICES ASSUME IInv, [Next]_vars PROVE IInv'
    OBVIOUS
  <2>1. CASE UNCHANGED vars
    BY <2>1 DEF vars, IInv
  <2>2. CASE Next
    BY <2>2, OpenedStep, FailedStep, PairedStep, RefusedStep, ClosedStep, DeviceStep,
       RefreshStep, EntitiesAddedStep, UnloadStep, UnloadedStep
    DEF Next
  <2> QED
    BY <2>1, <2>2
<1> QED
  BY IInvInit, <1>1, PTL DEF Spec

\* Every variable keeps its type, and client, coordinator and entry agree on who
\* is inside the client: whatever sockets there are, however calls overlap.
THEOREM TypeCorrect == Spec => []TypeOK
<1>1. IInv => TypeOK
  <2> SUFFICES ASSUME IInv PROVE TypeOK
    OBVIOUS
  <2>1. client \in Client /\ coord \in Coord
    BY DEF IInv, Whole, Sound, Agree
  <2> QED
    BY <2>1, GoneIsOver DEF TypeOK, IInv, Whole, Agree, Calls
<1> QED
  BY IInvInvariant, <1>1, PTL

\* Availability is true both ways: what is shown is the device's, and a link that
\* stands is not reported as lost.
THEOREM AvailabilityTrue == Spec => []AvailabilityIsTrue
<1>1. IInv => AvailabilityIsTrue
  BY DEF IInv, Whole, FromDevice, Answers, AvailabilityIsTrue, Listening
<1> QED
  BY IInvInvariant, <1>1, PTL

\* Unless calls overlap, an open socket is the client's own or one whose listener
\* raised, and an entry that failed or was unloaded leaves none of its own.
THEOREM NoSocketOrphaned == Spec => []NoOrphanSocket
<1>1. IInv => NoOrphanSocket
  <2> SUFFICES ASSUME IInv, ~client.overlapped
               PROVE  OpenSocks(client) \subseteq
                        client.abandoned \cup (IF Gone THEN {} ELSE {client.ws})
    BY DEF NoOrphanSocket
  <2> QED
    BY GoneIsOver DEF IInv, Whole, Sound, Links
<1> QED
  BY IInvInvariant, <1>1, PTL
=============================================================================
