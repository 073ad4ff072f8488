--------------------------- MODULE GattLink_proofs ---------------------------
(***************************************************************************)
(* GattLink is type-correct and shows what the device has, for every set   *)
(* of keys, values and writers: no two operations overlap, so that what an *)
(* operation read or wrote is still true when its end publishes it.        *)
(***************************************************************************)
EXTENDS GattLink, TLAPS

\* A task whose exchange succeeded has only to disconnect.
DoneIsClosing == \A t \in done : at[t] = "closing"

\* A poll that succeeded read every key, before the poll that shows them
\* nothing else was exchanged, and nobody else reads.
PollIsComplete ==
  /\ Poll \in done /\ entry # "info" => \A k \in Key : got[k] # Unread
  /\ holder # Poll => got = NothingRead

\* What was read or written in an operation is on the device until its end,
\* but for what is operated by hand meanwhile.
ExchangedIsDevice ==
  /\ \A k \in Key : got[k] \in {Unread, Absent, device[k]} \/ k \in byHand
  /\ \A w \in Writer : w \in done => device[w] = want[w] \/ w \in byHand
  /\ byHand \subseteq unsure

IInv ==
  /\ TypeOK
  /\ DoneIsClosing
  /\ PollIsComplete
  /\ ExchangedIsDevice
  /\ ShownIsDevice

USE GattAssumption

LEMMA InitIInv == Init => IInv
  BY DEF Init, IInv, TypeOK, DoneIsClosing, PollIsComplete, ExchangedIsDevice,
         ShownIsDevice, Task, At, Inside, NothingRead, Nothing

\* While a task is in an operation no other is.
LEMMA OnlyHolder ==
  ASSUME IInv, NEW t \in Task, at[t] \in Inside
  PROVE  /\ holder = t
         /\ \A u \in Task : u # t => at[u] \notin Inside /\ u \notin done
  BY DEF IInv, TypeOK, DoneIsClosing, Inside

\* The end of a poll keeps the invariant.
LEMMA PollEndsKeeps ==
  ASSUME IInv, NEW success \in BOOLEAN, success => Poll \in done,
         holder = Poll, PollEnds(success), device' = device, want' = want
  PROVE  IInv'
<1> USE DEF IInv, TypeOK, PollEnds, Released, Goto, shown, Task
<1>1. TypeOK'
  <2>1. at' \in [Task -> At] /\ \A t \in Task : at'[t] \in Inside <=> holder' = t
    BY DEF At, Inside
  <2>2. data' \in [Key -> Value \cup {Absent}]
    <3>1. CASE data' = data
      BY <3>1
    <3>2. CASE data' = got /\ entry # "info" /\ success
      <4>1. \A k \in Key : got[k] \in Value \cup {Absent}
        BY <3>2 DEF PollIsComplete
      <4> QED BY <3>2, <4>1
    <3> QED BY <3>1, <3>2
  <2>3. /\ entry' \in {"info", "first", "loaded", "unloaded", "failed"}
        /\ unsure' \subseteq Key /\ got' \in [Key -> Value \cup {Unread, Absent}]
    BY DEF NothingRead
  <2>4. ok' \in BOOLEAN
    OBVIOUS
  <2> QED BY <2>1, <2>2, <2>3, <2>4
<1>2. DoneIsClosing'
  BY OnlyHolder DEF DoneIsClosing, Inside
<1>3. PollIsComplete'
  BY DEF PollIsComplete, NothingRead
<1>4. ExchangedIsDevice'
  BY OnlyHolder DEF ExchangedIsDevice, NothingRead, Inside
<1>5. ShownIsDevice'
  BY DEF ShownIsDevice, ExchangedIsDevice, PollIsComplete
<1> QED BY <1>1, <1>2, <1>3, <1>4, <1>5

\* The end of a write keeps the invariant.
LEMMA WriteEndsKeeps ==
  ASSUME IInv, NEW w \in Writer, NEW success \in BOOLEAN, success => w \in done,
         holder = w, WriteEnds(w, success), device' = device, want' = want
  PROVE  IInv'
<1> USE DEF IInv, TypeOK, WriteEnds, Released, Goto, Task
<1>0. at[w] \in Inside
  OBVIOUS
<1>1. TypeOK'
  <2>1. at' \in [Task -> At] /\ \A t \in Task : at'[t] \in Inside <=> holder' = t
    BY DEF At, Inside
  <2>2. /\ holder' \in Task \cup {Nobody} /\ link' \in {"up", "down"} /\ done' \subseteq Task
        /\ device' \in [Key -> Value] /\ byHand' \subseteq Key /\ want' \in [Writer -> Value]
    OBVIOUS
  <2>3. data' \in [Key -> Value \cup {Absent}] /\ ok' \in BOOLEAN /\ unsure' \subseteq Key
    OBVIOUS
  <2>4. got' \in [Key -> Value \cup {Unread, Absent}]
    BY DEF NothingRead
  <2> QED BY <2>1, <2>2, <2>3, <2>4
<1>2. DoneIsClosing'
  BY DEF DoneIsClosing, Inside
<1>3. PollIsComplete'
  BY DEF PollIsComplete, NothingRead
<1>4. ExchangedIsDevice'
  BY <1>0, OnlyHolder DEF ExchangedIsDevice, NothingRead
<1>5. ShownIsDevice'
  BY <1>0, OnlyHolder DEF ShownIsDevice, ExchangedIsDevice
<1> QED BY <1>1, <1>2, <1>3, <1>4, <1>5

\* So the end of any operation does.
LEMMA EndsKeeps ==
  ASSUME IInv, NEW t \in Task, at[t] \in Inside, NEW success \in BOOLEAN,
         success => t \in done, Ends(t, success), device' = device, want' = want
  PROVE  IInv'
<1>1. holder = t
  BY OnlyHolder
<1>2. CASE t = Poll
  BY <1>1, <1>2, PollEndsKeeps DEF Ends
<1>3. CASE t # Poll
  BY <1>1, <1>3, WriteEndsKeeps DEF Ends, Task
<1> QED BY <1>2, <1>3

LEMMA NextIInv == IInv /\ [Next]_vars => IInv'
<1> SUFFICES ASSUME IInv, [Next]_vars PROVE IInv'
  OBVIOUS
<1> USE DEF TypeOK, DoneIsClosing, PollIsComplete, ExchangedIsDevice, ShownIsDevice,
            op, shown, Goto, Task
<1>1. ASSUME NEW t \in Task, Acquire(t) PROVE IInv'
  BY <1>1 DEF Acquire, IInv, At, Inside
<1>2. ASSUME NEW t \in Task, Connect(t) PROVE IInv'
  BY <1>2 DEF Connect, IInv, At, Inside
<1>3. ASSUME NEW t \in Task, ConnectFails(t) PROVE IInv'
  BY <1>3, EndsKeeps DEF ConnectFails, Inside
<1>4. ASSUME NEW t \in Task, Disconnect(t) PROVE IInv'
  <2>1. CASE t \in done
    <3>1. Ends(t, TRUE)
      BY <1>4, <2>1 DEF Disconnect, Ends, PollEnds, WriteEnds
    <3> QED BY <1>4, <2>1, <3>1, EndsKeeps DEF Disconnect, Inside
  <2>2. CASE t \notin done
    <3>1. Ends(t, FALSE)
      BY <1>4, <2>2 DEF Disconnect, Ends, PollEnds, WriteEnds
    <3> QED BY <1>4, <3>1, EndsKeeps DEF Disconnect, Inside
  <2> QED BY <2>1, <2>2
<1>5. ASSUME NEW t \in Task, DisconnectFails(t) PROVE IInv'
  BY <1>5, EndsKeeps DEF DisconnectFails, Inside
<1>6. ASSUME NEW t \in Task, NEW l \in {"closing", "late"}, BreaksOffTo(t, l) PROVE IInv'
  <2>1. holder = t /\ t \notin done /\ done = {}
    BY <1>6, OnlyHolder DEF BreaksOffTo, IInv, Inside
  <2>2. TypeOK' /\ DoneIsClosing' /\ PollIsComplete'
    BY <1>6, <2>1 DEF BreaksOffTo, Taken, IInv, At, Inside
  <2>3. CASE UNCHANGED <<device, unsure>>
    BY <1>6, <2>1, <2>2, <2>3 DEF BreaksOffTo, IInv
  <2>4. CASE t \in Writer /\ Taken(t) /\ unsure' = unsure \cup {t}
    <3>1. \A k \in Key : k # t => device'[k] = device[k]
      BY <2>4 DEF Taken, IInv
    <3>2. got = NothingRead
      BY <2>1, <2>4 DEF IInv
    <3>3. ExchangedIsDevice'
      BY <1>6, <2>1, <3>2 DEF BreaksOffTo, IInv, NothingRead
    <3>4. ShownIsDevice'
      BY <1>6, <2>1, <2>4, <3>1 DEF BreaksOffTo, IInv
    <3> QED BY <2>2, <3>3, <3>4 DEF IInv
  <2> QED BY <1>6, <2>3, <2>4 DEF BreaksOffTo
<1>7. ASSUME NEW t \in Task, LinkLost(t) PROVE IInv'
  BY <1>7 DEF LinkLost, IInv
<1>8. ASSUME NEW k \in Key, Read(k) PROVE IInv'
  BY <1>8, OnlyHolder DEF Read, IInv, Inside
<1>9. ASSUME NEW k \in Key, OperatedByHand(k) PROVE IInv'
  BY <1>9 DEF OperatedByHand, IInv, Inside, NothingRead
<1>10. ASSUME ReadAll PROVE IInv'
  BY <1>10, OnlyHolder DEF ReadAll, IInv, At, Inside
<1>11. ASSUME PollDue PROVE IInv'
  BY <1>11 DEF PollDue, IInv, At, Inside
<1>12. ASSUME Unload PROVE IInv'
  BY <1>12 DEF Unload, Released, IInv, At, Inside, NothingRead
<1>13. ASSUME NEW w \in Writer, Write(w) PROVE IInv'
  BY <1>13, OnlyHolder DEF Write, Taken, IInv, At, Inside, NothingRead
<1>14. ASSUME NEW w \in Writer, Call(w) PROVE IInv'
  BY <1>14 DEF Call, IInv, At, Inside
<1>15. CASE UNCHANGED vars
  BY <1>15 DEF vars, IInv, Inside
<1> QED
  BY <1>1, <1>2, <1>3, <1>4, <1>5, <1>6, <1>7, <1>8, <1>9, <1>10, <1>11, <1>12,
     <1>13, <1>14, <1>15 DEF Next, BreaksOff, TimesOut

\* What the coordinator holds is typed, and the lock's holder is the one task
\* inside an operation (client.py.j2: `async with self._lock`).
THEOREM TypeCorrect == Spec => []TypeOK
<1>1. IInv => TypeOK
  BY DEF IInv
<1> QED BY InitIInv, NextIInv, <1>1, PTL DEF Spec

\* Every value shown is the device's, unless it was changed behind the
\* coordinator's back or its write is about to end (_send, set_value,
\* _async_update_data).
THEOREM ShowsDevice == Spec => []ShownIsDevice
<1>1. IInv => ShownIsDevice
  BY DEF IInv
<1> QED BY InitIInv, NextIInv, <1>1, PTL DEF Spec
=============================================================================
