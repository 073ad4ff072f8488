----------------------------- MODULE FramedScanner -----------------------------
(***************************************************************************)
(* How the engine reads a framed command protocol out of an app's classes  *)
(* (src/engine/extraction/framed_scanner.py).  A source file is a record   *)
(* of what the scanner's patterns find in it:                              *)
(*                                                                         *)
(*   stem, package    its name, which is its class's, and its package      *)
(*   consts           its constants: name |-> [is |-> "int" or "text", n], *)
(*                    a text being the hexadecimal digits of n             *)
(*   extends, verb    its superclass; "request", "set" or "other" by name  *)
(*   unsafe           its name sounds like an update, a pairing, ...       *)
(*   headers          byte arrays that could start a frame: their parts,   *)
(*                    [kind |-> "unread", ..] being one not understood,    *)
(*                    and whether a payload is appended                    *)
(*   lists, serialises  it has a getter of reply lists; it has data()      *)
(*   ctor             what its constructor sets: op, params, payload       *)
(*                    ("none", "array" or "built" otherwise), items, adds; *)
(*                    its op is no constant where there is no constructor  *)
(*   tests            comparisons of a reply's opcode: ops, and the        *)
(*                    decoder of the block they guard                      *)
(*   tokens           readers of device-info tokens                        *)
(*                                                                         *)
(* and a Java expression is [is, class, name, n].                          *)
(***************************************************************************)
EXTENDS FramedCodec, FiniteSets

CONSTANT Alphabet   \* the names of the classes, in alphabetical order

Unread == -1  \* None: not a constant

\* Numbers are numbers, and arrays are lists of parts and of expressions.
IsClassFile(f) ==
  /\ \A x \in DOMAIN f.consts : f.consts[x].n \in Int
  /\ f.headers \in Seq([parts: Seq([kind: PartKinds \cup {"unread"}, value: Int]),
                         appends: BOOLEAN])
  /\ f.ctor.op.n \in Int
  /\ IsList(f.ctor.items) /\ \A e \in Range(f.ctor.items) : e.n \in Int

-----------------------------------------------------------------------------
(* Constants.  Classes are told apart by the stem of their file alone: of  *)
(* two files with one stem, in different packages, the later is kept.      *)

ClassTexts(files) ==
  LET SameStem(i) == {j \in DOMAIN files : files[j].stem = files[i].stem}
      first == Select([i \in DOMAIN files |-> i], LAMBDA i : i = Min(SameStem(i)))
  IN  [k \in DOMAIN first |-> files[Max(SameStem(first[k]))]]

\* Mutant: the name of a constant is looked up in every class.
LookupAnywhere(texts, class, name) ==
  {f.consts[name] : f \in {g \in Range(texts) : name \in DOMAIN g.consts}}

\* Class.NAME, when the class is among the texts and has it.
Lookup(texts, class, name) ==
  {f.consts[name] : f \in {g \in Range(texts) : g.stem = class /\ name \in DOMAIN g.consts}}

\* The byte an expression is, if it is a constant.
ConstByte(texts, e) ==
  LET found == Lookup(texts, e.class, e.name)
      Of(is) == IF \E c \in found : c.is = is
                THEN Low8((CHOOSE c \in found : c.is = is).n) ELSE Unread
  IN  CASE e.is = "number"   -> Low8(e.n)       \* 65, (byte) -86, 0x41
        [] e.is = "hex"      -> Low8(e.n)       \* Integer.parseInt("c1", 16)
        [] e.is = "const"    -> Of("int")       \* PacketFormat.REQ_VER
        [] e.is = "hexconst" -> Of("text")      \* Integer.parseInt(PacketFormat.NAME, 16)
        [] OTHER             -> Unread

-----------------------------------------------------------------------------
(* The frame, from the first class that serialises one.                    *)

Count(parts, kind) == Cardinality({i \in DOMAIN parts : parts[i].kind = kind})

FrameHeader(h) ==
  /\ Count(h.parts, "unread") = 0
  /\ Count(h.parts, "opcode") = 1 /\ Count(h.parts, "length") = 1
  /\ h.appends

Bases(texts) ==
  Select(texts, LAMBDA f : \E i \in DOMAIN f.headers : FrameHeader(f.headers[i]))

BaseOf(texts) == Bases(texts)[1]

FrameOf(base) ==
  LET parts == Select(base.headers, FrameHeader)[1].parts
  IN  Append([i \in DOMAIN parts |-> [parts[i] EXCEPT !.value = Low8(@)]],
             [kind |-> "payload", value |-> 0])

-----------------------------------------------------------------------------
(* The commands: subclasses whose constructor sets an opcode that is read. *)

ClassNamed(texts, class) == CHOOSE f \in Range(texts) : f.stem = class

Subclasses(texts, base) ==
  Select(Alphabet, LAMBDA c : \E f \in Range(texts) :
    f.stem = c /\ f.extends = base.stem /\ ~f.serialises)

PayloadItem(texts, params, e) ==
  LET b == ConstByte(texts, e)
  IN  CASE b # Unread                           -> [is |-> "value", n |-> b]
        [] e.is = "name" /\ e.name \in params   -> [is |-> "param", n |-> 0]
        [] e.is = "unset" /\ e.name \in params  -> [is |-> "default", n |-> e.n]
        [] OTHER                                -> [is |-> "unknown", n |-> 0]

Command(texts, base, f) ==
  LET items == IF f.ctor.payload = "array" THEN f.ctor.items ELSE <<>>
      payload == [i \in DOMAIN items |-> PayloadItem(texts, f.ctor.params, items[i])]
      adds == IF base.lists THEN Range(f.ctor.adds) ELSE {}
  IN  [class |-> f.stem, verb |-> f.verb, unsafe |-> f.unsafe,
       opcode |-> ConstByte(texts, f.ctor.op),
       payload |-> payload,
       complete |-> \A i \in DOMAIN payload : payload[i].is # "unknown",
       replies |-> {ConstByte(texts, a) : a \in adds} \ {Unread},
       tokenIds |-> adds # {} /\ \A a \in adds : a.is \in {"hex", "hexconst"}]

Commands(texts, base) ==
  LET set == Select(Subclasses(texts, base), LAMBDA c :
               ConstByte(texts, ClassNamed(texts, c).ctor.op) # Unread)
  IN  [i \in DOMAIN set |-> Command(texts, base, ClassNamed(texts, set[i]))]

-----------------------------------------------------------------------------
(* The device-info tokens and the decoders of replies: the first reader    *)
(* found for a token, and the first decoder for an opcode, are kept.       *)

\* The first of a sequence of dictionaries that has a key gives its value.
FirstWins(dicts) == FoldRight(LAMBDA d, rest : d @@ rest, dicts, Nothing)

TokenOf(texts, t) ==
  LET c == Lookup(texts, t.id.class, t.id.name)
      id == IF t.id.is = "hex" THEN t.id.n
            ELSE IF \E v \in c : v.is = "text" THEN (CHOOSE v \in c : v.is = "text").n
            ELSE Unread
  IN  IF id = Unread THEN Nothing
      ELSE id :> [name |-> t.name, size |-> t.size, encoding |-> t.encoding]

Tokens(texts) ==
  FirstWins(FlattenSeq([i \in DOMAIN texts |->
    [k \in DOMAIN texts[i].tokens |-> TokenOf(texts, texts[i].tokens[k])]]))

\* What the block after a test of the opcode does with the payload.
ReplyDecoder(block, tokens) ==
  IF block.decode = "tokens" /\ DOMAIN tokens = {} THEN [decode |-> "none", field |-> ""]
  ELSE block

RepliesOf(texts, t, tokens) ==
  LET spec == ReplyDecoder(t.block, tokens)
  IN  [op \in IF spec.decode = "none" THEN {}
              ELSE {ConstByte(texts, o) : o \in t.ops} \ {Unread} |-> spec]

Replies(texts, tokens) ==
  FirstWins(FlattenSeq([i \in DOMAIN texts |->
    [k \in DOMAIN texts[i].tests |-> RepliesOf(texts, texts[i].tests[k], tokens)]]))

\* A request that lists tokens as its replies is answered by the token reply.
TokenReplies(commands, replies) ==
  LET of == {op \in DOMAIN replies : replies[op].decode = "tokens"}
  IN  [i \in DOMAIN commands |->
        IF commands[i].tokenIds /\ of # {} THEN [commands[i] EXCEPT !.replies = {Min(of)}]
        ELSE commands[i]]

-----------------------------------------------------------------------------
(* The characteristics: an asset gives UUIDs by key, and the app's code    *)
(* uses some keys for one role.  The first asset that tells one notify     *)
(* and one write characteristic is taken.                                  *)

KeysFor(asset, roles, role) ==
  {k \in DOMAIN asset.uuids : k \in DOMAIN roles /\ roles[k] = role}

Pair(asset, roles) ==
  /\ Cardinality(DOMAIN asset.uuids) >= 2
  /\ Cardinality(KeysFor(asset, roles, "notify")) = 1
  /\ Cardinality(KeysFor(asset, roles, "write")) = 1

Transport(assets, roles) ==
  LET pairs == Select(assets, LAMBDA a : Pair(a, roles))
      Of(role) == pairs[1].uuids[CHOOSE k \in KeysFor(pairs[1], roles, role) : TRUE]
  IN  IF pairs = <<>> THEN <<>> ELSE <<Of("notify"), Of("write")>>

-----------------------------------------------------------------------------
NoProtocol == [frame |-> <<>>, commands |-> <<>>, replies |-> Nothing, tokens |-> Nothing,
               transport |-> <<>>]

\* The framed protocol in an app, or none.
ScanFramed(files, assets, roles) ==
  LET texts == ClassTexts(files)
      base == BaseOf(texts)
      commands == Commands(texts, base)
      tokens == Tokens(texts)
      replies == Replies(texts, tokens)
  IN  IF Bases(texts) = <<>> \/ commands = <<>> THEN NoProtocol
      ELSE [frame |-> FrameOf(base),
            commands |-> TokenReplies(commands, replies),
            replies |-> replies, tokens |-> tokens,
            transport |-> Transport(assets, roles)]
=============================================================================
