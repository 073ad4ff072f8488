----------------------------- MODULE MCFramedCheck -----------------------------
(***************************************************************************)
(* An app of the kind of the scanner's tests: a base class for commands,   *)
(* two tables of constants that share names, requests of each kind, a      *)
(* reader of replies; and a speaker that supports some of the requests.    *)
(***************************************************************************)
EXTENDS FramedCheck

MCAlphabet == <<"BaseCommand", "GetDevInfo", "LegacyFormat", "LongCommand", "PacketFormat",
  "ReqBattery", "ReqEQMode", "ReqMFB", "ReqVer", "SetEQMode", "Tokens">>

E(is, class, name, n) == [is |-> is, class |-> class, name |-> name, n |-> n]
NoCtor == [op |-> E("none", "", "", 0), params |-> {}, payload |-> "none",
           items |-> <<>>, adds |-> <<>>]
Num(n) == E("number", "", "", n)
Const(class, name) == E("const", class, name, 0)
HexConst(class, name) == E("hexconst", class, name, 0)

File(stem) == [stem |-> stem, package |-> "sdk", consts |-> Nothing, extends |-> "",
  verb |-> "other", unsafe |-> FALSE, headers |-> <<>>, lists |-> FALSE, serialises |-> FALSE,
  ctor |-> NoCtor, tests |-> <<>>, tokens |-> <<>>]

Cmd(stem, verb, op, items, adds) ==
  [File(stem) EXCEPT !.extends = "BaseCommand", !.verb = verb,
     !.ctor = [op |-> op, params |-> {"b"}, items |-> items, adds |-> adds,
               payload |-> IF items = <<>> THEN "none" ELSE "array"]]

Byte1(kind, v) == [kind |-> kind, value |-> v]
IntConst(n) == [is |-> "int", n |-> n]
TextConst(n) == [is |-> "text", n |-> n]
Reader(id, name, size, encoding) ==
  [id |-> id, name |-> name, size |-> size, encoding |-> encoding]
Block(decode, field) == [decode |-> decode, field |-> field]

Base == [File("BaseCommand") EXCEPT !.serialises = TRUE, !.lists = TRUE,
  !.headers = <<
    [parts |-> <<Byte1("unread", 0), Byte1("opcode", 0), Byte1("length", 0)>>, appends |-> TRUE],
    [parts |-> <<Byte1("const", -86), Byte1("opcode", 0), Byte1("length", 0)>>,
     appends |-> TRUE]>>]

\* The opcodes; and an older table, whose names mean other bytes.
PacketFormat == [File("PacketFormat") EXCEPT !.consts =
  "REQ_VER" :> IntConst(65) @@ "REP_VER" :> IntConst(66) @@ "REQ_DEV_INFO" :> IntConst(17)
  @@ "BATTERY" :> TextConst(68) @@ "PRODUCT" :> TextConst(66)]
LegacyFormat == [File("LegacyFormat") EXCEPT !.consts =
  "REQ_VER" :> IntConst(5) @@ "REP_VER" :> IntConst(18) @@ "BATTERY" :> TextConst(72)]

\* A command with a frame of its own, whose header is not understood.
LongCommand == [Cmd("LongCommand", "other", Num(1), <<>>, <<>>) EXCEPT !.serialises = TRUE]

ReqVer == [Cmd("ReqVer", "request", Const("PacketFormat", "REQ_VER"), <<>>,
               <<Const("PacketFormat", "REP_VER")>>)
           EXCEPT !.tests = <<[ops |-> {Num(66)}, block |-> Block("version", "firmware")]>>]

Reading == <<
  \* its battery: the index of a speaker, by default 0, and the token
  Cmd("ReqBattery", "request", Num(19),
      <<E("unset", "", "b", 0), HexConst("PacketFormat", "BATTERY")>>, <<Num(18)>>),
  Cmd("GetDevInfo", "request", Const("PacketFormat", "REQ_DEV_INFO"), <<>>,
      <<HexConst("PacketFormat", "PRODUCT"), HexConst("PacketFormat", "BATTERY")>>),
  Cmd("SetEQMode", "set", Num(99), <<E("name", "", "b", 0)>>, <<Num(0)>>),
  \* nothing reads its answer
  Cmd("ReqMFB", "request", Num(51), <<>>, <<Num(52)>>)>>

ReqEQMode == Cmd("ReqEQMode", "request", Num(97), <<>>, <<Num(98)>>)

TokenReaders == [File("Tokens") EXCEPT
  !.tests = <<[ops |-> {Num(18)}, block |-> Block("tokens", "")],
              [ops |-> {Num(98)}, block |-> Block("uint8", "eq_mode")]>>,
  !.tokens = <<Reader(HexConst("PacketFormat", "BATTERY"), "level", 1, "level_charging_bit7"),
               Reader(HexConst("PacketFormat", "PRODUCT"), "product", 2, "hex"),
               Reader(E("hex", "", "", 193), "device", 0, "utf8")>>]

\* The files in the order of a directory: those that others refer to, first,
\* last and in between.
MCOrders ==
  {Perm \o Reading \o <<ReqEQMode>> : Perm \in
     {<<LegacyFormat, PacketFormat, Base, LongCommand, ReqVer, TokenReaders>>,
      <<TokenReaders, ReqVer, LongCommand, Base, PacketFormat, LegacyFormat>>,
      <<LongCommand, ReqVer, PacketFormat, TokenReaders, LegacyFormat, Base>>}}

MCAssets == <<
  [uuids |-> "other" :> "u0"],
  [uuids |-> "rx" :> "u1" @@ "tx" :> "u2" @@ "spare" :> "u3"]>>
MCRoles == "rx" :> "notify" @@ "tx" :> "write"

-----------------------------------------------------------------------------
MCAppSends ==
  "ReqVer" :> <<170, 65, 0>> @@ "ReqEQMode" :> <<170, 97, 0>>
  @@ "ReqBattery" :> <<170, 19, 2, 0, 68>> @@ "GetDevInfo" :> <<170, 17, 0>>
  @@ "ReqMFB" :> <<170, 51, 0>>

MCTruth ==
  "firmware" :> Meant("version", <<10, 26>>) @@ "eq_mode" :> Meant("uint", <<4>>)
  @@ "level" :> Meant("level", <<70>>) @@ "level_charging" :> Meant("flag", <<1>>)
  @@ "product" :> Meant("hex", <<31, 2>>) @@ "device" :> Meant("text", <<74, 66>>)

N(bytes, to, tells) == [bytes |-> bytes, to |-> to, tells |-> tells]

Version == N(<<170, 66, 2, 16, 26>>, "ReqVer", {"firmware"})
Battery == N(<<170, 18, 3, 0, 68, 198>>, "ReqBattery", {"level", "level_charging"})
\* noise, the mode, and the name and a token that only a later app knows of
Mode == N(<<3, 170, 98, 1, 4, 170, 18, 9, 0, 193, 2, 74, 66, 74, 9, 68, 9>>, "ReqEQMode",
          {"eq_mode", "device"})
Info == N(<<170, 18, 6, 0, 66, 31, 2, 68, 198>>, "GetDevInfo", {"product", "level"})

MCUnasked == {
  \* the second speaker of a pair tells its battery
  N(<<170, 18, 3, 1, 68, 30>>, "", {}),
  \* a frame of another kind, before one that counts
  N(<<170, 200, 0, 170, 98, 1, 4>>, "", {"eq_mode"})}

MCDevice == {
  <<170, 65, 0>> :> <<Version>> @@ <<170, 97, 0>> :> <<Mode>>
  @@ <<170, 19, 2, 0, 68>> :> <<Battery>>,
  <<170, 97, 0>> :> <<Mode>> @@ <<170, 17, 0>> :> <<Info>>}
=============================================================================
