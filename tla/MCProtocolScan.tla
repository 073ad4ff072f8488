---------------------------- MODULE MCProtocolScan ----------------------------
(***************************************************************************)
(* Apps of the kinds the scanners know: a robot on a WebSocket in two      *)
(* modules that import each other, a hub on HTTP, a camera whose state is  *)
(* a typed response, and others on GraphQL, on Bluetooth and in frames.    *)
(***************************************************************************)
EXTENDS ProtocolScan

File(stem) ==
  [stem |-> stem, consts |-> Empty, lists |-> <<>>, socket |-> FALSE, strings |-> {},
   headers |-> "none", states |-> {}, sends |-> <<>>, annotated |-> <<>>, builds |-> <<>>,
   decodes |-> <<>>, modes |-> <<>>,
   video |-> [named |-> FALSE, decodes |-> FALSE, port |-> 0, rotate |-> 0], ble |-> FALSE, named |-> FALSE, gatt |-> <<>>]
Dir(kind, imports, fs) == [kind |-> kind, imports |-> imports, files |-> fs]
Name(const, lower) == [const |-> const, lower |-> lower]
Send(cmd, const, reads, fields) == [cmd |-> cmd, const |-> const, reads |-> reads, fields |-> fields]

Bare ==
  [dirs |-> Empty, http |-> <<>>, retrofit |-> <<>>, graphql |-> <<>>, json |-> {},
   framed |-> <<>>, profile |-> FALSE, discovers |-> FALSE]

\* The robot.  "mute" is sent by a constant whose name begins another's; "move"
\* from two places; "gin" is pushed, "battery" listed only, "stop" in no list.
Constants == [File("Commands") EXCEPT
  !.consts = ("MUTE" :> "mute") @@ ("MUTE_ALL" :> "mute_all") @@ ("GIN" :> "gin")
             @@ ("GRANT_ACCESS" :> "grantAccess"),
  !.lists = <<[list |-> "response", names |-> {Name("MOVE", "move"), Name("MUTE", "mute")}],
              [list |-> "none", names |-> {Name("GIN", "gin"), Name("BATTERY", "battery"),
                                           Name("USER_CONTROL", "user_control")}]>>]
Socket == [File("Connection") EXCEPT
  !.socket = TRUE, !.strings = {"grantAccess"},
  !.video = [named |-> FALSE, decodes |-> TRUE, port |-> 81, rotate |-> 0],
  !.modes = <<[action |-> "", mode |-> {4}]>>,
  !.sends = <<Send("move", "", {}, {"seq", "mode"}), Send("grantAccess", "", {}, {"uuid"})>>]
Driver == [File("Driver") EXCEPT
  !.sends = <<Send("move", "", {}, {"mode", "speed"}), Send("", "MUTE", {"MUTE"}, {}),
              Send("user_control", "", {}, {"x"}), Send("gin", "", {}, {})>>,
  !.modes = <<[action |-> "", mode |-> {9}], [action |-> "stop", mode |-> {}],
              [action |-> "turn", mode |-> {}], [action |-> "", mode |-> {1}],
              [action |-> "", mode |-> {3}], [action |-> "dance", mode |-> {2}]>>,
  !.builds = <<[name |-> "doMove", const |-> "", cmd |-> "move"],
               [name |-> "silence", const |-> "MUTE", cmd |-> ""]>>]
Screen == [File("RobotState") EXCEPT
  !.video = [named |-> TRUE, decodes |-> TRUE, port |-> 82, rotate |-> 90],
  !.states = {"cmd", "result_code", "level", "where"},
  !.decodes = <<[calls |-> <<"silence", "doMove">>, class |-> "Reply"],
                [calls |-> <<"doMove", "other">>, class |-> "MoveReply"],
                [calls |-> <<"other">>, class |-> "Reply"]>>]
Unused == [File("StateOfTheArt") EXCEPT
  !.states = {"price"}, !.sends = <<Send("buy", "", {}, {})>>]

Robot == [Bare EXCEPT !.discovers = TRUE, !.dirs = [
  app   |-> Dir("root", {"core", "lib"}, {Socket}),
  core  |-> Dir("module", {"data"}, {Driver, Screen}),
  data  |-> Dir("vendor", {"core", "lib"}, {Constants}),
  lib   |-> Dir("library", {"shop"}, {[Unused EXCEPT !.stem = "Library"]}),
  shop  |-> Dir("module", {"data"}, {Unused})]]

Http(cmd, response) == [Endpoint(cmd, "http", "to", TRUE, {}, 77) EXCEPT !.response = response]
Stream == [Endpoint("/ws", "ws", "from", FALSE, {}, 77) EXCEPT !.response = {}]

\* No code of its own is known: all but libraries.  The Retrofit scan knows more.
Status == [File("Api") EXCEPT !.annotated = <<"GET /status", "POST /set">>, !.headers = "api_key"]
Model == File("Model")
Hub == [Bare EXCEPT
  !.dirs = [p |-> Dir("package", {}, {Status, Model}), lib |-> Dir("library", {}, {Unused})],
  !.json = {"level"}, !.http = <<Stream>>,
  !.retrofit = <<[Endpoint("POST /set", "http", "to", TRUE, {"on"}, 95) EXCEPT !.response = {}]>>]

Plain == [p |-> Dir("package", {}, {Model})]
Camera == [Bare EXCEPT !.dirs = Plain,
  !.http = <<Http("GET /state", {"zoom"}), Http("GET /info", {"name"})>>]
Write == [Bare EXCEPT !.dirs = Plain, !.http = <<Http("POST /set", {})>>]

\* The lock: its constants in one class, used in another by locals of one name,
\* by getters and through a wrapper, its values chosen by a third.
Const(name, uuid, service) == [is |-> "const", name |-> name, uuid |-> uuid, service |-> service]
Method(name, byte) == [is |-> "method", name |-> name, byte |-> byte]
Bind(var, ref) == [is |-> "bind", var |-> var, ref |-> ref]
Use(kind, first, names) == [is |-> "use", kind |-> kind, first |-> first, named |-> names]
Uuid == [File("Uuids") EXCEPT !.ble = TRUE, !.gatt = <<
  Const("SERVICE", "u0", TRUE), Const("MAIN", "u1", FALSE), Const("BOLT", "u2", FALSE),
  Const("NONCE", "u3", FALSE), Const("AUTH", "u4", FALSE), Const("MODE", "u5", FALSE),
  Const("MODE_OLD", "u5", FALSE), Const("SPARE", "u6", FALSE)>>]
Manager == [File("Manager") EXCEPT !.ble = TRUE, !.gatt = <<
  [is |-> "service", ref |-> "MAIN"],
  Method("writeBolt", TRUE), Bind("c", "BOLT"), Use("write", "c", {}),
  Method("readNonce", FALSE), Bind("c", "NONCE"), Use("read", "c", {}),
  Method("watch", FALSE), Bind("c", "BOLT"), Use("notify", "c", {}), Bind("c", "NONCE"),
  Use("notify", "c", {}),
  Method("writeMode", TRUE), Bind("d", "MODE"), Use("write", "d", {}),
  Method("writeAny", TRUE), Bind("c", "characteristic"), Use("write", "c", {}),
  Method("handle", FALSE), [is |-> "branch", ref |-> "MODE_OLD", decode |-> "int8"],
  [is |-> "branch", ref |-> "SPARE", decode |-> "none"]>>]
Login == [File("Login") EXCEPT !.ble = TRUE, !.named = TRUE, !.gatt = <<
  Method("answer", FALSE), Use("write", "gatt", {"AUTH"}),
  Method("onMode", FALSE), [is |-> "call", name |-> "writeMode", value |-> 2]>>]
Lock == [Bare EXCEPT !.dirs = [p |-> Dir("package", {}, {Uuid, Manager, Login})]]
MCCmdOf == [SERVICE |-> "service", MAIN |-> "main", BOLT |-> "bolt", NONCE |-> "nonce",
            AUTH |-> "auth", MODE |-> "mode", MODE_OLD |-> "modeOld", SPARE |-> "spare"]

Ble(cmd, way) == Endpoint(cmd, "ble", way, FALSE, {}, 100)
Framed == [Bare EXCEPT !.dirs = Plain, !.framed =
  <<[commands |-> <<Ble("volume", "to")>>, events |-> <<Ble("reply_0x20", "from")>>, discovers |-> TRUE]>>]
Graph == [Bare EXCEPT !.dirs = Plain, !.graphql = <<
  [commands |-> <<Endpoint("setMode", "graphql", "to", TRUE, {"mode"}, 95)>>,
   events |-> <<Endpoint("changed", "graphql", "from", FALSE, {}, 95)>>,
   login |-> "none", fields |-> {"mode"}, polls |-> {"status"}]>>]

MCApps == {Robot, Hub, Camera, Write, Lock, [Lock EXCEPT !.profile = TRUE], Framed, Graph, Bare}

Cmd(fields, response) == [fields |-> fields, response |-> response]
None == [commands |-> Empty, events |-> {}, fields |-> {}, login |-> "none",
         modes |-> Empty, places |-> {}, stream |-> <<>>]
MCProtocol == [a \in MCApps |->
  (CASE a = Robot -> [
         commands |-> [move |-> Cmd({"mode", "speed"}, {"ok"}), mute |-> Cmd({}, {}),
                       grantAccess |-> Cmd({"uuid"}, {}), user_control |-> Cmd({"x"}, {})],
         events |-> {"gin", "battery"}, fields |-> {"level", "where"}, login |-> "handshake",
         modes |-> (1 :> "turn") @@ (2 :> "dance"), places |-> {"move"}, stream |-> <<82, 90>>]
    [] a = Hub -> [commands |-> ("GET /status" :> Cmd({}, {})) @@ ("POST /set" :> Cmd({"on"}, {})),
                   events |-> {"/ws"}, fields |-> {"level"}, login |-> "api_key"]
    [] a = Camera -> [commands |-> ("GET /state" :> Cmd({}, {"zoom"})) @@ ("GET /info" :> Cmd({}, {"name"})),
                      events |-> {}, fields |-> {"zoom"}, login |-> "none"]
    [] a = Write -> [None EXCEPT !.commands = "POST /set" :> Cmd({}, {})]
    [] a = Graph -> [commands |-> "setMode" :> Cmd({"mode"}, {}), events |-> {"changed"},
                     fields |-> {"mode"}, login |-> "none"]
    [] a.dirs = Lock.dirs -> [
         commands |-> [bolt |-> Cmd({}, {}), auth |-> Cmd({}, {}), mode |-> Cmd({"value"}, {})],
         events |-> {"nonce", "spare"}, fields |-> {}, login |-> "challenge"]
    [] a = Framed -> [None EXCEPT !.commands = [volume |-> Cmd({}, {})], !.events = {"reply_0x20"}]
    [] OTHER -> None) @@ None]

MCPollable == {"GET /status", "GET /state"}
MCClassFields == [Reply |-> {}, MoveReply |-> {"ok"}]

Quiet == [hmac |-> <<>>, http |-> <<>>, ws |-> <<>>, udp |-> <<>>]
Body(json, cmd) == [json |-> json, cmd |-> cmd]
Sent(body) == [dir |-> "send", body |-> body]
MCSessions == {Quiet,
  [Quiet EXCEPT !.ws = <<Sent(Body("object", "hello")), Sent(Body("object", "gin"))>>, !.udp = <<5000>>],
  [Quiet EXCEPT !.http = <<[segment |-> "set", body |-> Body("none", "")],
                           [segment |-> "list", body |-> Body("none", "")]>>],
  [Quiet EXCEPT !.ws = <<Sent(Body("other", ""))>>]}
MCDigestOf == [a \in {"HMAC-SHA256"} |-> "sha256"]
MCSeparators == <<"">>
=============================================================================
