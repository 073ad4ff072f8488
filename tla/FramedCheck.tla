------------------------------ MODULE FramedCheck ------------------------------
(***************************************************************************)
(* The check of an extracted framed protocol against a device              *)
(* (scripts/framed_hw_check.py): the app is scanned, each request that can *)
(* be decoded is sent, and for a while after each the notifications that   *)
(* arrive are decoded.  The device answers when it does: within the        *)
(* window of the request, in the window of a later one, or never; and it   *)
(* sends notifications of its own.                                         *)
(***************************************************************************)
EXTENDS FramedScanner

CONSTANTS
  Orders,     \* the orders in which the app's files may be found
  Assets, Roles,  \* what the transport is read from (see FramedScanner)
  Device,     \* the devices: what each answers to the bytes of a request
  Unasked,    \* the notifications a device sends of its own
  MaxUnasked, \* how many it sends at most
  AppSends,   \* what the app itself writes for each request, by class
  Truth       \* what the device would show: its fields and their values

\* A notification: its bytes, the request it answers, the fields it tells of.
Note == [bytes: Seq(Byte), to: {""} \cup Range(Alphabet), tells: SUBSET DOMAIN Truth]

\* The files are class files, each class has one name, and a device sends bytes.
ASSUME FramedAssumption ==
  /\ \A files \in Orders : IsList(files) /\ \A f \in Range(files) : IsClassFile(f)
  /\ IsList(Alphabet) /\ IsInjective(Alphabet)
  /\ \A d \in Device : \A request \in DOMAIN d : d[request] \in Seq(Note)
  /\ Unasked \subseteq Note /\ MaxUnasked \in Nat

VARIABLES
  device,
  proto,      \* what the scan read
  place,      \* where the check is
  left, current,  \* the requests to send, and the one sent last
  got,        \* the opcodes seen in its window
  owed,       \* notifications the device has yet to deliver, in order
  inbox,      \* those delivered and not taken
  unasked,    \* how many the device sent of its own
  written,    \* what was written, by class
  state,      \* the fields decoded
  answered, unanswered, undecoded,
  heard       \* what was told: fields, and requests answered in their window

io == <<owed, inbox, unasked, written>>
result == <<state, answered, unanswered, undecoded, heard>>
checkVars == <<device, proto, place, left, current, got, io, result>>

NoCommand == [class |-> "", replies |-> {}]

\* The requests whose answer can be decoded, and that nothing in their name
\* or their payload keeps from being sent.
Requests(p) == Select(p.commands, LAMBDA c :
  /\ c.verb = "request" /\ c.complete /\ ~c.unsafe
  /\ c.replies \cap DOMAIN p.replies # {}
  /\ \A i \in DOMAIN c.payload : c.payload[i].is \in {"value", "default"})

\* The protocol is in the IR, from a scan of the app that ran before.
CheckInit ==
  /\ device \in Device
  /\ \E files \in Orders : proto = ScanFramed(files, Assets, Roles)
  /\ left = Requests(proto)
  /\ place = IF proto.transport = <<>> THEN "raised" ELSE "opening"
  /\ current = NoCommand /\ got = {}
  /\ owed = <<>> /\ inbox = <<>> /\ unasked = 0 /\ written = {}
  /\ state = Nothing /\ answered = {} /\ unanswered = {} /\ undecoded = {}
  /\ heard = [fields |-> {}, requests |-> {}]

-----------------------------------------------------------------------------
(* The check.                                                              *)

\* Opening the link fails outside the try: the check raises.
Opened ==
  /\ place = "opening"
  /\ place' \in {"ready", "raised"}
  /\ UNCHANGED <<device, proto, left, current, got, io, result>>

Sent ==
  /\ place = "ready" /\ left # <<>>
  /\ LET c == Head(left)
         bytes == Encode(proto.frame, c.opcode, CommandPayload(c.payload))
     IN  /\ written' = written \cup {[class |-> c.class, bytes |-> bytes]}
         /\ owed' = owed \o IF bytes \in DOMAIN device THEN device[bytes] ELSE <<>>
         /\ current' = c
  /\ got' = {} /\ place' = "waiting"
  /\ UNCHANGED <<device, proto, left, inbox, unasked, result>>

\* A write fails: the link is closed and the check raises.
WriteFails ==
  /\ place = "ready" /\ left # <<>>
  /\ place' = "raised"
  /\ UNCHANGED <<device, proto, left, current, got, io, result>>

Received ==
  /\ place = "waiting" /\ inbox # <<>>
  /\ LET note == Head(inbox)
         frames == Frames(proto.frame, note.bytes)
         Decoded(f) ==
           IF f.opcode \in DOMAIN proto.replies
           THEN DecodeReply(proto.replies[f.opcode], f.payload, proto.tokens) ELSE Nothing
         Ours(d) == "device_index" \notin DOMAIN d \/ d["device_index"].v = <<0>>
         Shown(f) == IF Ours(Decoded(f)) THEN
           [k \in DOMAIN Decoded(f) \ {"device_index"} |-> Decoded(f)[k]] ELSE Nothing
     IN  /\ got' = got \cup {frames[i].opcode : i \in DOMAIN frames}
         /\ state' = FirstWins(Reverse([i \in DOMAIN frames |-> Shown(frames[i])])) @@ state
         /\ undecoded' = undecoded \cup
              {current.class : i \in {j \in DOMAIN frames :
                 /\ frames[j].opcode \in current.replies \cap DOMAIN proto.replies
                 /\ DOMAIN Decoded(frames[j]) = {}}}
         /\ heard' = [fields |-> heard.fields \cup note.tells,
                      requests |-> heard.requests \cup ({note.to} \cap {current.class})]
  /\ inbox' = Tail(inbox)
  /\ UNCHANGED <<device, proto, place, left, current, owed, unasked, written, answered, unanswered>>

Judged ==
  /\ IF got \cap current.replies # {}
     THEN answered' = answered \cup {current.class} /\ UNCHANGED unanswered
     ELSE unanswered' = unanswered \cup {current.class} /\ UNCHANGED answered
  /\ left' = Tail(left) /\ place' = "ready"
  /\ UNCHANGED <<device, proto, current, got, io, state, undecoded, heard>>

\* The deadline passes, whatever is in the inbox.
WindowEnds == place = "waiting" /\ Judged

Concluded ==
  /\ place = "ready" /\ left = <<>>
  /\ place' = IF undecoded = {} /\ answered # {} THEN "passed" ELSE "problems"
  /\ UNCHANGED <<device, proto, left, current, got, io, result>>

-----------------------------------------------------------------------------
(* The device, as long as the link is open.                                *)

LinkOpen == place \in {"ready", "waiting"}

Delivered ==
  /\ LinkOpen /\ owed # <<>>
  /\ inbox' = Append(inbox, Head(owed)) /\ owed' = Tail(owed)
  /\ UNCHANGED <<device, proto, place, left, current, got, unasked, written, result>>

Notified ==
  /\ LinkOpen /\ unasked < MaxUnasked
  /\ \E note \in Unasked : inbox' = Append(inbox, note)
  /\ unasked' = unasked + 1
  /\ UNCHANGED <<device, proto, place, left, current, got, owed, written, result>>

Check == Opened \/ Sent \/ WriteFails \/ Received \/ Concluded

CheckNext == Check \/ WindowEnds \/ Delivered \/ Notified

CheckSpec == CheckInit /\ [][CheckNext]_checkVars

-----------------------------------------------------------------------------
\* A frame is made of bytes, and only bytes are written; what was sent is either
\* answered or not answered, never both, and at the end none is left out.
CheckTyped ==
  /\ device \in Device
  /\ place \in {"opening", "ready", "waiting", "passed", "problems", "raised"}
  /\ proto.frame \in Seq([kind: PartKinds, value: Byte])
  /\ \A i \in DOMAIN proto.commands : proto.commands[i].opcode \in Byte
  /\ owed \in Seq(Note) /\ inbox \in Seq(Note) /\ unasked \in 0..MaxUnasked
  /\ \A m \in written : m.bytes \in Seq(Byte)
  /\ answered \cap unanswered = {}
  /\ place \in {"passed", "problems"} => answered \cup unanswered = {m.class : m \in written}

\* What is written to the device is what its own app writes for the same
\* request, and never a command that sets something: the codes and constants of
\* the frame were read right, whatever class holds a name twice and in whatever
\* order the files were found (the script's "nothing is ever set on the device").
SentIsTheApps ==
  \A m \in written : m.class \in DOMAIN AppSends /\ m.bytes = AppSends[m.class]

\* What the check shows is what the device's own app would show: no field is
\* made up out of a later frame, an unknown token or the values of a second
\* speaker in the group, whichever notifications arrive in whichever window.
StateIsDevice ==
  \A f \in DOMAIN state : f \in DOMAIN Truth /\ state[f] = Truth[f]

\* Nothing that was heard is lost at the end: a request whose answer was read
\* in its window counts as answered, and each field told of is shown, although
\* a notification may begin with noise and hold several frames.
NothingMissed ==
  place \in {"passed", "problems"} =>
    heard.requests \subseteq answered /\ heard.fields \subseteq DOMAIN state

\* What the script says of silence: "A request the device doesn't answer is
\* reported, not failed: models implement subsets of the protocol".
SilenceIsReported ==
  answered \subseteq {c \in DOMAIN AppSends : AppSends[c] \in DOMAIN device}
=============================================================================
