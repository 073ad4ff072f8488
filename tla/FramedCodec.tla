------------------------------ MODULE FramedCodec ------------------------------
(***************************************************************************)
(* The reference codec of framed command protocols                         *)
(* (src/engine/extraction/framed_codec.py): a description of a protocol,   *)
(* as the framed scanner gives it, turned into bytes and back.  Bytes are  *)
(* the numbers below 256 and indices start at 1.                           *)
(*                                                                         *)
(*   part    [kind |-> "const", "opcode", "length" or "payload", value]    *)
(*   item    [is |-> "value", "default", "param" or "unknown", n]          *)
(*   token   [name, size, encoding], size 0 when a length byte precedes it *)
(*   reply   [decode |-> "uint8", "version" or "tokens", field]            *)
(***************************************************************************)
EXTENDS Integers, Sequences, SequencesExt, Lists, TLC

Byte == 0..255
PartKinds == {"const", "opcode", "length", "payload"}
\* Mutant: a signed byte is kept as it is.
SignedByte(n) == n

Low8(n) == n % 256    \* n & 0xFF, of a negative n too

\* A decoded value: what it is read as, and the numbers it is made of.
Meant(is, v) == [is |-> is, v |-> v]
Nothing == [f \in {} |-> Meant("", <<>>)]

-----------------------------------------------------------------------------
(* Requests.                                                               *)

PartBytes(part, opcode, payload) ==
  CASE part.kind = "const"   -> <<Low8(part.value)>>
    [] part.kind = "opcode"  -> <<Low8(opcode)>>
    [] part.kind = "length"  -> <<Low8(Len(payload))>>
    [] part.kind = "payload" -> payload

Encode(frame, opcode, payload) ==
  FlattenSeq([i \in DOMAIN frame |-> PartBytes(frame[i], opcode, payload)])

\* The payload of a command whose items are all values or have a default.
CommandPayload(items) == [i \in DOMAIN items |-> Low8(items[i].n)]

-----------------------------------------------------------------------------
(* Replies.                                                                *)

PartOf(frame, kind) == CHOOSE i \in DOMAIN frame : frame[i].kind = kind
Consts(frame) == Select(frame, LAMBDA p : p.kind = "const")
Sync(frame) == [i \in DOMAIN Consts(frame) |-> Consts(frame)[i].value]

\* data[from : from + n], shorter when the data ends before.
Slice(data, from, n) ==
  SubSeq(data, from, IF from + n - 1 < Len(data) THEN from + n - 1 ELSE Len(data))

\* The frames from the first byte on; what cannot begin one is passed over.
FramesFrom(frame, data, first) ==
  LET header == Len(frame) - 1
      Length(i) == data[i + PartOf(frame, "length") - 1]
      from[i \in Nat] ==
        IF i + header > Len(data) + 1 THEN <<>>
        ELSE IF Slice(data, i, Len(Sync(frame))) # Sync(frame) THEN from[i + 1]  \* resynchronise
        ELSE <<[opcode |-> data[i + PartOf(frame, "opcode") - 1],
                payload |-> Slice(data, i + header, Length(i))]>> \o from[i + header + Length(i)]
  IN  from[first]

\* Mutant: a notification that does not begin with a frame is dropped.
FramesAtStart(frame, data) ==
  IF Slice(data, 1, Len(Sync(frame))) = Sync(frame) THEN FramesFrom(frame, data, 1) ELSE <<>>

\* The frames of one notification.
Frames(frame, data) == FramesFrom(frame, data, 1)

\* The app prints the hex digits of a byte as a decimal number.
VersionPart(b) == IF b \div 16 < 10 /\ b % 16 < 10 THEN 10 * (b \div 16) + (b % 16) ELSE b

BigEndian(v) == FoldLeft(LAMBDA n, b : 256 * n + b, 0, v)

TokenValue(spec, v) ==
  CASE spec.encoding = "level_charging_bit7" ->
         spec.name :> Meant("level", <<IF v[1] % 128 < 100 THEN v[1] % 128 ELSE 100>>)
         @@ (spec.name \o "_charging") :> Meant("flag", <<v[1] \div 128>>)
    [] spec.encoding = "utf8" -> spec.name :> Meant("text", v)
    [] spec.encoding = "uint" -> spec.name :> Meant("uint", <<BigEndian(v)>>)
    [] OTHER                  -> spec.name :> Meant("hex", v)

\* The token/value pairs from the first on: an unknown token ends them, for its length
\* is unknown too, and so does a value that is cut short.
TokenValues(payload, first, tokens) ==
  LET Spec(i) == tokens[payload[i]]
      Prefixed(i) == Spec(i).size = 0
      From(i) == IF Prefixed(i) THEN i + 2 ELSE i + 1
      Size(i) == IF Prefixed(i) THEN payload[i + 1] ELSE Spec(i).size
      values[i \in Nat] ==
        IF \/ i > Len(payload) \/ payload[i] \notin DOMAIN tokens
           \/ Prefixed(i) /\ i = Len(payload)
           \/ From(i) + Size(i) - 1 > Len(payload)
        THEN Nothing
        ELSE values[From(i) + Size(i)] @@ TokenValue(Spec(i), Slice(payload, From(i), Size(i)))
  IN  values[first]

\* Mutant: the speaker the values are of is dropped.
TokensAlone(payload, tokens) ==
  IF payload = <<>> THEN Nothing ELSE TokenValues(payload, 2, tokens)

DecodeTokens(payload, tokens) ==
  IF payload = <<>> THEN Nothing
  ELSE TokenValues(payload, 2, tokens) @@ "device_index" :> Meant("index", <<payload[1]>>)

DecodeReply(reply, payload, tokens) ==
  CASE reply.decode = "uint8" ->
         IF payload = <<>> THEN Nothing ELSE reply.field :> Meant("uint", <<payload[1]>>)
    [] reply.decode = "version" ->
         reply.field :> Meant("version", [i \in DOMAIN payload |-> VersionPart(payload[i])])
    [] reply.decode = "tokens" -> DecodeTokens(payload, tokens)
=============================================================================
