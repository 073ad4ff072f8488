------------------------------ MODULE ProtocolScan ------------------------------
(***************************************************************************)
(* How the engine finds the protocol of a native app: which of its files   *)
(* are its own (src/engine/extraction/app_sources.py), what their sockets  *)
(* and requests say (extraction/protocol_scanner.py), what the Bluetooth   *)
(* scanners add, the reconciliation with a capture and the decision to     *)
(* emit (pipeline.py).  Files come in any order: that of a directory.      *)
(*                                                                         *)
(*   app    [dirs, http, retrofit, graphql, json, framed, profile,         *)
(*          discovers]: its directories [kind, imports, files] by name,    *)
(*          and what the scanners of other libraries find; profile when a  *)
(*          challenge-response login is understood                         *)
(*   file   [stem, consts, lists, socket, strings, headers, states, sends, *)
(*          annotated, builds, decodes, modes, video, ble, named, gatt];   *)
(*          modes has the lines [action, mode] that name an action, set    *)
(*          a mode, or both; video is [named, decodes, port, rotate]       *)
(*   send   [cmd, const, reads, fields]: one put("cmd", ..) with a literal *)
(*          (const "") or a constant, the constants its text begins with,  *)
(*          and the fields put after it                                    *)
(***************************************************************************)
EXTENDS BleScan

CONSTANTS
  Apps, Sessions,
  Pollable,    \* the requests whose path is that of a status
  ClassFields, \* the fields of the classes that replies are decoded into
  Protocol     \* of each app: [commands, events, fields, login, modes, places, stream],
               \* the commands being [fields, response] by name

ASSUME SessionAssumption ==
  \A s \in Sessions : s.ws \in Seq(FrameType) /\ s.http \in Seq(RequestType)

NameType == STRING \ {""}
ScannedType == {ep \in EndpointType : ep.cmd # ""}
ListType == [list: {"response", "none"}, names: SUBSET [const: STRING, lower: NameType]]
SendType == [cmd: STRING, const: STRING, reads: SUBSET STRING, fields: SUBSET STRING]

\* Every text in quotes that the scanner takes has a character.
IsFile(f) ==
  /\ DOMAIN f.consts \subseteq STRING /\ \A x \in DOMAIN f.consts : f.consts[x] \in NameType
  /\ f.lists \in Seq(ListType) /\ \A l \in Range(f.lists) : IsFiniteSet(l.names)
  /\ f.sends \in Seq(SendType) /\ \A s \in Range(f.sends) : s.const = "" => s.cmd # ""
  /\ f.annotated \in Seq(NameType)
  /\ \A d \in Range(f.decodes) : d.class \in DOMAIN ClassFields
  /\ IsList(f.gatt) /\ \A t \in Range(f.gatt) : t.is = "const" => t.name \in DOMAIN CmdOf

IsScan(scan) ==
  IsList(scan)
  /\ \A x \in Range(scan) : x.commands \in Seq(ScannedType) /\ x.events \in Seq(ScannedType)

ASSUME AppAssumption ==
  /\ \A a \in Apps :
       /\ IsFiniteSet(DOMAIN a.dirs)
       /\ \A d \in DOMAIN a.dirs :
            IsFiniteSet(a.dirs[d].files) /\ \A f \in a.dirs[d].files : IsFile(f)
       /\ a.http \in Seq(ScannedType) /\ a.retrofit \in Seq(ScannedType)
       /\ IsScan(a.graphql) /\ IsScan(a.framed)
  /\ \A c \in DOMAIN ClassFields : ClassFields[c] \subseteq STRING
  /\ \A n \in DOMAIN CmdOf : CmdOf[n] \in NameType

\* Of the language: the provers have no rule for it.
ASSUME LiteralAssumption == {"ws", "http", "ble", "value"} \subseteq STRING

VARIABLES app, included, frontier, files, consts, lists, endpoints, ir, at
vars == <<app, included, frontier, files, consts, lists, endpoints, ir, at>>

Endpoint(cmd, transport, way, awaits, fields, conf) ==
  [cmd |-> cmd, transport |-> transport, way |-> way, awaits |-> awaits,
   fields |-> fields, response |-> {}, conf |-> conf]

Unscanned ==
  [transport |-> "http", port |-> 0, discovers |-> FALSE, auth |-> "", login |-> "none",
   fields |-> {}, poll |-> "", polls |-> {}, commands |-> <<>>, events |-> <<>>,
   framed |-> FALSE, traces |-> <<>>, modes |-> Empty, choices |-> Empty, stream |-> <<>>]

-----------------------------------------------------------------------------
(* The app's own files: its code roots and the modules that their code     *)
(* imports, followed transitively; without a root, all but libraries.      *)

Dirs(kinds) == {d \in DOMAIN app.dirs : app.dirs[d].kind \in kinds}

\* Mutant: only the code in the roots is asked what it imports.
ImportedByRoots ==
  (UNION {app.dirs[d].imports : d \in Dirs({"root"})}) \cap Dirs({"module", "vendor"})

Imported == (UNION {app.dirs[d].imports : d \in frontier}) \cap Dirs({"module", "vendor"})

Init ==
  /\ app \in Apps
  /\ included = Dirs({"root"}) /\ frontier = included
  /\ files = <<>> /\ consts = Empty /\ lists = [response |-> {}, none |-> {}]
  /\ endpoints = Empty /\ ir = Unscanned /\ at = "sources"

\* Mutant: a module is counted when it has been followed, and then again.
FollowLate ==
  /\ at = "sources" /\ frontier # {}
  /\ frontier' = Imported \ included /\ included' = included \cup frontier
  /\ UNCHANGED <<app, files, consts, lists, endpoints, ir, at>>

FollowImports ==
  /\ at = "sources" /\ frontier # {}
  /\ frontier' = Imported \ included
  /\ included' = included \cup Imported
  /\ UNCHANGED <<app, files, consts, lists, endpoints, ir, at>>

FindFiles ==
  /\ at = "sources" /\ frontier = {}
  /\ LET dirs == IF included # {} THEN included ELSE DOMAIN app.dirs \ Dirs({"library"})
     IN  files' \in SetToSeqs(UNION {app.dirs[d].files : d \in dirs})
  /\ at' = "constants"
  /\ UNCHANGED <<app, included, frontier, consts, lists, endpoints, ir>>

-----------------------------------------------------------------------------
(* The passes over the files.  Constants are known by their name alone.    *)

Over(op(_, _), base, Of(_)) == FoldLeft(op, base, FlattenSeq([i \in DOMAIN files |-> Of(files[i])]))

CollectConstants ==
  /\ at = "constants"
  /\ consts' = FoldLeft(LAMBDA c, f : Override(f.consts, c), Empty, files)
  /\ at' = "lists"
  /\ UNCHANGED <<app, included, frontier, files, lists, endpoints, ir>>

Value(name, otherwise) == IF name \in DOMAIN consts THEN consts[name] ELSE otherwise

\* The lists of commands with and without a response; one with no constant of
\* its name is taken in lower case.
CollectLists ==
  /\ at = "lists"
  /\ lists' = Over(LAMBDA ls, l : [ls EXCEPT ![l.list] = {Value(n.const, n.lower) : n \in l.names}],
                   lists, LAMBDA f : f.lists)
  /\ at' = "transport"
  /\ UNCHANGED <<app, included, frontier, files, consts, endpoints, ir>>

\* A class with a socket makes it the transport; the first file that tells of a
\* login decides it.
DetectTransport ==
  /\ at = "transport"
  /\ LET sockets == Select(files, LAMBDA f : f.socket)
         Login(f) == CASE Value("GRANT_ACCESS", "grantAccess") \in f.strings \cup Range(consts) ->
                            "handshake"
                       [] OTHER -> f.headers
         deciding == Select(files, LAMBDA f : Login(f) # "none")
         login == IF deciding = <<>> THEN "none" ELSE Login(deciding[1])
     IN  ir' = [ir EXCEPT
           !.transport = IF sockets # <<>> THEN "ws" ELSE "http",
           !.login = login, !.discovers = app.discovers,
           !.auth = IF login = "handshake" THEN Value("GRANT_ACCESS", "grantAccess") ELSE "",
           !.fields = (UNION {f.states : f \in Range(files)})
                        \ {"cmd", "seq", "resultCode", "result_code"}]
  /\ at' = "endpoints"
  /\ UNCHANGED <<app, included, frontier, files, consts, lists, endpoints>>

-----------------------------------------------------------------------------
(* Endpoints.                                                              *)

\* The fields of a command in a file: those after the first place in it whose
\* text is that of the constant, or of the literal.
FieldsNear(f, send, cmd) ==
  LET byConst == Select(f.sends, LAMBDA s : send.const # "" /\ send.const \in s.reads)
      byText == Select(f.sends, LAMBDA s : s.const = "" /\ s.cmd = cmd)
      places == byConst \o byText
  IN  IF places = <<>> THEN {} ELSE places[1].fields \ {"cmd", "seq"}

\* put("cmd", "mute") first, then put("cmd", MUTE) if the constant is known.
SendsOf(f) ==
  Select(f.sends, LAMBDA s : s.const = "")
  \o Select(f.sends, LAMBDA s : s.const # "" /\ s.const \in DOMAIN consts)

Candidates(f) ==
  [i \in DOMAIN SendsOf(f) |->
    LET s == SendsOf(f)[i]
        cmd == IF s.const = "" THEN s.cmd ELSE consts[s.const]
        fields == FieldsNear(f, s, cmd)
    IN  Endpoint(cmd, "ws", "to", cmd \in lists.response, fields,
                 IF fields = {} THEN 81 ELSE 77)]

\* Mutant: the place found last is kept.
RegisterLast(eps, ep) == Put(eps, ep.cmd, ep)

\* Of several places a command is sent from, one with the most fields is kept.
Register(eps, ep) ==
  IF ep.cmd \in DOMAIN eps /\ Cardinality(eps[ep.cmd].fields) >= Cardinality(ep.fields)
  THEN eps ELSE Put(eps, ep.cmd, ep)

AddNew(eps, ep) == IF ep.cmd \in DOMAIN eps THEN eps ELSE Put(eps, ep.cmd, ep)

Annotated(f) == [i \in DOMAIN f.annotated |-> Endpoint(f.annotated[i], "http", "to", TRUE, {}, 85)]

\* Retrofit's own scan runs when its annotations decided the transport.
Retrofit ==
  IF ir.transport = "http" /\ \E f \in Range(files) : f.annotated # <<>> THEN app.retrofit ELSE <<>>

ExtractEndpoints ==
  /\ at = "endpoints"
  /\ LET sent == Over(Register, Empty, Candidates)
         annotated == Over(AddNew, sent, Annotated)
         requests == FoldLeft(AddNew, annotated, app.http)
     IN  endpoints' = FoldLeft(Register, requests, Retrofit)
  /\ at' = "responses"
  /\ UNCHANGED <<app, included, frontier, files, consts, lists, ir>>

\* The method that builds a command's request; the first of a name counts.
Builders ==
  Over(LAMBDA m, b : IF b.name \in DOMAIN m \/ Value(b.const, b.cmd) = "" THEN m
                     ELSE Put(m, b.name, Value(b.const, b.cmd)),
       Empty, LAMBDA f : f.builds)

\* The classes a command's reply is decoded into: where the last request built
\* before a decoding is the command's.
ReplyClasses(cmd) ==
  {d.class : d \in {x \in UNION {Range(f.decodes) : f \in Range(files)} :
     LET calls == Select(x.calls, LAMBDA n : n \in DOMAIN Builders)
     IN  calls # <<>> /\ Builders[Last(calls)] = cmd}}

AttachResponses ==
  /\ at = "responses"
  /\ endpoints' = [cmd \in DOMAIN endpoints |->
       LET richest == {c \in ReplyClasses(cmd) : \A o \in ReplyClasses(cmd) :
                         Cardinality(ClassFields[o]) <= Cardinality(ClassFields[c])}
       IN  IF richest = {} THEN endpoints[cmd]
           ELSE [endpoints[cmd] EXCEPT
                  !.response = IF @ = {} THEN ClassFields[CHOOSE c \in richest : TRUE] ELSE @]]
  /\ at' = "split"
  /\ UNCHANGED <<app, included, frontier, files, consts, lists, ir>>

\* What needs no response comes from the device, but for the user's control;
\* such a command is an event although nothing in the app names it elsewhere.
Split ==
  /\ at = "split"
  /\ LET pushed == lists.none \ {Value("USER_CONTROL", "user_control")}
         all == {endpoints[c] : c \in DOMAIN endpoints}
         streams == {ep \in all : ep.way = "from"}
         events == streams
           \cup {[ep EXCEPT !.way = "from", !.awaits = FALSE] :
                   ep \in {e \in all \ streams : e.cmd \in pushed}}
         unseen == {Endpoint(c, "ws", "from", FALSE, {}, 72) : c \in pushed \ {e.cmd : e \in events}}
     IN  ir' = [ir EXCEPT
           !.commands = SetToSeq({e \in all \ streams : e.cmd \notin pushed}),
           !.events = SetToSeq(events \cup unseen)]
  /\ at' = "graphql"
  /\ UNCHANGED <<app, included, frontier, files, consts, lists, endpoints>>

AddGraphQL ==
  /\ at = "graphql"
  /\ ir' = IF app.graphql = <<>> THEN ir
           ELSE LET g == app.graphql[1]
                IN  [ir EXCEPT
                      !.commands = @ \o g.commands, !.events = @ \o g.events,
                      !.login = IF @ = "none" THEN g.login ELSE @,
                      !.fields = IF @ = {} THEN g.fields ELSE @,
                      !.polls = IF ir.fields = {} THEN g.polls ELSE @]
  /\ at' = "modes"
  /\ UNCHANGED <<app, included, frontier, files, consts, lists, endpoints>>

\* The modes a file sets: each after the action it is named by.
ModesOf(f) ==
  LET Line(s, l) ==
        LET action == IF l.action # "" THEN l.action ELSE s.pending
        IN  IF l.mode = {} \/ action = "" THEN [s EXCEPT !.pending = action]
            ELSE [pending |-> "", found |-> Override([n \in l.mode |-> action], s.found)]
  IN  FoldLeft(Line, [pending |-> "", found |-> Empty], f.modes).found

ExtractModes ==
  /\ at = "modes"
  /\ ir' = [ir EXCEPT !.modes = FoldLeft(LAMBDA m, f : Override(ModesOf(f), m), Empty, files)]
  /\ at' = "video"
  /\ UNCHANGED <<app, included, frontier, files, consts, lists, endpoints>>

\* A second connection for images: the first class that is named for it, decodes
\* images and has a port.
DetectStreaming ==
  /\ at = "video"
  /\ LET streams == Select(files, LAMBDA f :
                      f.video.named /\ f.video.decodes /\ f.video.port # 0)
         v == streams[1].video
     IN  ir' = [ir EXCEPT !.stream = IF streams = <<>> THEN <<>> ELSE <<v.port, v.rotate>>]
  /\ at' = "http"
  /\ UNCHANGED <<app, included, frontier, files, consts, lists, endpoints>>

\* The values of a field: a "mode", of the state or of a command, is one of those
\* found.
AttachModes(fields, commands, modes) ==
  LET state == IF "mode" \in fields THEN {"state"} ELSE {}
      places == state \cup {c.cmd : c \in {x \in Range(commands) : "mode" \in x.fields}}
  IN  IF modes = Empty THEN Empty ELSE [place \in places |-> DOMAIN modes]

\* An HTTP device is asked for its state: the keys the app reads by hand, or
\* the typed response of a status request.  The transport is that of the
\* commands, if they have one.
FillHttpState ==
  /\ at = "http"
  /\ LET fields == IF ir.fields = {} THEN app.json ELSE ir.fields
         polls == {ep \in Range(ir.commands) : ep.cmd \in Pollable}
         typed == {ep \in polls : ep.response # {}}
         First(eps) == CHOOSE ep \in eps : TRUE    \* by name
         sentBy == {ep.transport : ep \in Range(ir.commands)}
         found == IF fields = {} /\ typed # {} THEN First(typed).response ELSE fields
     IN  ir' = [ir EXCEPT
           !.fields = found, !.choices = AttachModes(found, ir.commands, ir.modes),
           !.poll = CASE fields # {} /\ polls # {} -> First(polls).cmd
                      [] fields = {} /\ typed # {} -> First(typed).cmd
                      [] OTHER -> "",
           !.transport = IF Cardinality(sentBy) = 1 THEN CHOOSE t \in sentBy : TRUE ELSE @]
  /\ at' = "bluetooth"
  /\ UNCHANGED <<app, included, frontier, files, consts, lists, endpoints>>

-----------------------------------------------------------------------------
(* The pipeline: Bluetooth, and a framed protocol if all found nothing.    *)

Found(i) == i.commands # <<>> \/ i.events # <<>>

WithBluetooth(i, ble) ==
  IF ~Found(ble) THEN i
  ELSE [i EXCEPT !.transport = IF Found(i) THEN @ ELSE "ble",
                 !.discovers = IF Found(i) THEN @ ELSE ble.discovers,
                 !.login = IF @ = "none" THEN ble.login ELSE @,
                 !.commands = @ \o ble.commands, !.events = @ \o ble.events]

WithFramed(i, framed) ==
  IF Found(i) \/ framed = <<>> THEN i
  ELSE [i EXCEPT !.commands = framed[1].commands, !.events = framed[1].events,
                 !.transport = "ble", !.discovers = framed[1].discovers, !.framed = TRUE]

AddBluetooth ==
  /\ at = "bluetooth"
  /\ ir' = WithFramed(WithBluetooth(ir, BleScanned(files)), app.framed)
  /\ at' = "oracle"
  /\ UNCHANGED <<app, included, frontier, files, consts, lists, endpoints>>

\* The capture, unless nothing is left for it; or none at all.
Oracle ==
  /\ at = "oracle"
  /\ \E session \in Sessions :
       IF Gaps(ir) /\ Raises(session) THEN at' = "raised" /\ UNCHANGED ir
       ELSE at' = "emit" /\ ir' \in Outcomes(ir, session)
  /\ UNCHANGED <<app, included, frontier, files, consts, lists, endpoints>>

\* What keeps the integration from being emitted.
Blocked ==
  \/ ~Found(ir) /\ ir.fields = {}
  \/ ir.login = "challenge" /\ ~app.profile
  \/ ir.transport = "graphql" /\ ir.polls = {}
  \/ ir.transport = "http" /\ ir.poll = ""
  \/ ir.framed
  \/ ir.transport \notin {"ws", "ble", "http", "graphql"}

Emit ==
  /\ at = "emit"
  /\ at' = IF Blocked THEN "blocked" ELSE "emitted"
  /\ UNCHANGED <<app, included, frontier, files, consts, lists, endpoints, ir>>

Scan ==
  \/ FollowImports \/ FindFiles \/ CollectConstants \/ CollectLists \/ DetectTransport
  \/ ExtractEndpoints \/ AttachResponses \/ Split \/ AddGraphQL
  \/ ExtractModes \/ DetectStreaming \/ FillHttpState

Next == Scan \/ AddBluetooth \/ Oracle \/ Emit

Spec == Init /\ [][Next]_vars

-----------------------------------------------------------------------------
All(i) == i.commands \o i.events

\* Every endpoint is one, with a name and a confidence, wherever it was found.
TypeOK ==
  /\ app \in Apps /\ included \subseteq DOMAIN app.dirs /\ frontier \subseteq included
  /\ at \in {"sources", "constants", "lists", "transport", "endpoints", "responses", "split",
             "graphql", "modes", "video", "http", "bluetooth", "oracle", "emit", "raised", "emitted", "blocked"}
  /\ DOMAIN ir = DOMAIN Unscanned /\ ir.transport \in STRING
  /\ ir.commands \in Seq(EndpointType) /\ ir.events \in Seq(EndpointType)
  /\ \A ep \in Range(All(ir)) : ep.cmd # ""

\* The directories that are scanned are those of the app's own code and of every
\* module that this code imports, directly or through modules that may import
\* each other, and nothing else: no library, no module left unused.
SourcesAreClosed ==
  at # "sources" =>
    LET own == Dirs({"root", "module", "vendor"})
        Closed(ds) ==
          Dirs({"root"}) \subseteq ds /\ \A d \in ds : app.dirs[d].imports \cap own \subseteq ds
    IN  Closed(included) /\ \A ds \in SUBSET own : Closed(ds) => included \subseteq ds

\* However the constants, the lists, the places that send and the classes that
\* are decoded are spread over the files, and in whatever order these come, the
\* scan finds each command once, with the fields of its richest place and the
\* response it awaits, each event once, the fields of the state, how to log in,
\* what the values of a mode do and which fields take them, and the video stream;
\* and each Bluetooth characteristic as a command, with the value it takes, or an
\* event, whatever the locals are called that the app uses it by.  This is so of
\* apps in which no two constants share a name, at most one file names a login,
\* at most one holds the video stream, and none sends a command twice: elsewhere
\* the scan takes what comes first.
FoundIsTheProtocol ==
  at = "oracle" =>
    LET p == Protocol[app]
    IN  /\ {<<c.cmd, c.fields, c.response>> : c \in Range(ir.commands)}
             = {<<c, p.commands[c].fields, p.commands[c].response>> : c \in DOMAIN p.commands}
        /\ {e.cmd : e \in Range(ir.events)} = p.events
        /\ ir.fields = p.fields /\ ir.login = p.login /\ ir.stream = p.stream
        /\ ir.modes = p.modes /\ ir.choices = [place \in p.places |-> DOMAIN p.modes]
        /\ Len(All(ir)) = Cardinality(DOMAIN p.commands) + Cardinality(p.events)

\* A capture adds: every endpoint stays, in its place and at least as sure as
\* before, and what is added is a name that no endpoint had, command or event.
CaptureAddsOnly ==
  [][at = "oracle" /\ at' = "emit" =>
       LET Stay(old, new) == \A i \in DOMAIN old :
             old[i].cmd = new[i].cmd /\ old[i].fields = new[i].fields /\ old[i].conf <= new[i].conf
           added == Len(All(ir')) - Len(All(ir))
       IN  /\ Stay(ir.commands, ir'.commands) /\ Stay(ir.events, ir'.events)
           /\ added = Cardinality({c.cmd : c \in Range(All(ir'))})
                      - Cardinality({c.cmd : c \in Range(All(ir))})]_vars

=============================================================================
