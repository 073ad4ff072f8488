------------------------------- MODULE Reconcile -------------------------------
(***************************************************************************)
(* What the engine does with what it knows of an app's protocol when it    *)
(* has seen the app run: the trace a signer is generated from              *)
(* (extraction/signing_emitter.py), the gaps a capture could fill          *)
(* (dynamic/oracle.py), and the reconciliation of a capture with the IR    *)
(* (dynamic/ir_reconciler.py).  Confidences are in hundredths.             *)
(*                                                                         *)
(*   trace     [algorithm, components, key, method, conf, unresolved], a   *)
(*             component being [kind, name, conf]                          *)
(*   endpoint  [cmd, transport, way, awaits, fields, response, conf]: its  *)
(*             name, its fields and those of the response it awaits        *)
(*   ir        [traces, commands, events, transport, discovers, port,      *)
(*             auth, ..]: discovery, its port or 0, the login command      *)
(*   session   [hmac, http, ws, udp], each a sequence: of captured digests *)
(*             [known, digest, text, pieces], pieces being the number of   *)
(*             parts its input has by separator; of requests [segment,     *)
(*             body]; of frames [dir, body]; of ports.  A body is [json,   *)
(*             cmd], json "object", "other" or "none".                     *)
(***************************************************************************)
EXTENDS Integers, Sequences, SequencesExt, FiniteSetsExt

CONSTANTS
  DigestOf,   \* the digest the signer takes for an algorithm
  Separators  \* what may separate the parts of a signed text, in the order tried

MinSigner == 30  \* a trace below this gives no signer
Observed == 95   \* the confidence of what was seen on the wire
Certain == 90    \* what the oracle does not look into any more

BodyType == [json: {"object", "other", "none"}, cmd: STRING]
FrameType == [dir: STRING, body: BodyType]
RequestType == [segment: STRING, body: BodyType]

EndpointType ==
  [cmd: STRING, transport: STRING, way: {"to", "from"}, awaits: BOOLEAN,
   fields: SUBSET STRING, response: SUBSET STRING, conf: 1..100]

-----------------------------------------------------------------------------
(* The signer.                                                             *)

Best(traces) ==
  traces[Min({i \in DOMAIN traces : \A j \in DOMAIN traces : traces[j].conf <= traces[i].conf})]

HasSigner(traces) == traces # <<>> /\ Best(traces).conf >= MinSigner

-----------------------------------------------------------------------------
(* The gaps for which the app is run at all.                               *)

Gaps(ir) ==
  \/ \E i \in DOMAIN ir.traces : ir.traces[i].conf < Certain \/ ir.traces[i].unresolved # <<>>
  \/ \E ep \in Range(ir.commands \o ir.events) : ep.conf < Certain
  \/ \E ep \in Range(ir.commands) : ep.awaits /\ ep.response = {}
  \/ ir.discovers /\ ir.port = 0

-----------------------------------------------------------------------------
(* The signing side.  The captured input is hashed with the captured key   *)
(* and the signer's digest: whether the signer would have made that input  *)
(* is not asked.                                                           *)

Corrected(trace, capture) ==
  LET inputs == SelectSeq(trace.components, LAMBDA c : c.kind # "literal")
      fits == SelectSeq(Separators, LAMBDA s :
                (IF s = "" THEN 1 ELSE capture.pieces[s]) = Len(inputs))
      By(sep) == [i \in 1..IF sep = "" THEN Len(inputs) ELSE 2 * Len(inputs) - 1 |->
        IF sep # "" /\ i % 2 = 0 THEN [kind |-> "literal", name |-> sep, conf |-> 100]
        ELSE [inputs[IF sep = "" THEN i ELSE (i + 1) \div 2] EXCEPT !.conf = 90]]
  IN  IF ~capture.text \/ fits = <<>> THEN <<>>
      ELSE <<[trace EXCEPT !.components = By(fits[1]), !.conf = 88, !.unresolved = <<>>]>>

\* The first capture that verifies the digest, or from which a trace is made.
Signing(captures, traces) ==
  LET Digest == DigestOf[Best(traces).algorithm]
      Verifies(c) == c.digest = Digest
      usable == SelectSeq(captures, LAMBDA c :
        c.known /\ (Verifies(c) \/ Corrected(Best(traces), c) # <<>>))
  IN  IF captures = <<>> \/ ~HasSigner(traces) \/ usable = <<>>
      THEN [verified |-> FALSE, corrected |-> <<>>]
      ELSE IF Verifies(usable[1]) THEN [verified |-> TRUE, corrected |-> <<>>]
      ELSE [verified |-> FALSE, corrected |-> Corrected(Best(traces), usable[1])]

Boosted(traces, by) ==
  [i \in DOMAIN traces |-> [traces[i] EXCEPT !.conf = Min({100, @ + by})]]

\* The trace made takes the place of the first one, whichever it was made of.
PatchedTraces(traces, signing) ==
  IF signing.verified THEN Boosted(traces, 15)
  ELSE IF signing.corrected # <<>> THEN signing.corrected \o Tail(Boosted(traces, 10))
  ELSE traces

-----------------------------------------------------------------------------
(* The commands.                                                           *)

\* Where the frames are that the app sent.
Sends(session) == {i \in DOMAIN session.ws : session.ws[i].dir = "send"}

SeenCommands(session) ==
  ({session.ws[i].body.cmd : i \in {j \in Sends(session) : session.ws[j].body.json = "object"}}
   \cup {session.http[i].segment : i \in DOMAIN session.http}) \ {""}

\* Mutant: an event that was seen is taken for a new command.
KnownCommands(ir) == {ep.cmd : ep \in Range(ir.commands)}

Known(ir) == {ep.cmd : ep \in Range(ir.commands \o ir.events)}

Confirmed(eps, seen) ==
  [i \in DOMAIN eps |-> IF eps[i].cmd \in seen /\ eps[i].conf < Observed
                        THEN [eps[i] EXCEPT !.conf = Observed] ELSE eps[i]]

NewEndpoint(ir, cmd) ==
  [cmd |-> cmd, transport |-> ir.transport, way |-> "to", awaits |-> FALSE,
   fields |-> {}, response |-> {}, conf |-> 60]

\* The corrections of field names look a command up in each body: one that is
\* not an object has none, and the reconciliation raises.
Raises(session) ==
  \/ \E i \in Sends(session) : session.ws[i].body.json = "other"
  \/ \E r \in Range(session.http) : r.body.json = "other"

\* The IR with what the session showed; new is the commands that the IR does
\* not have, in the order of a set.
Reconciled(ir, session, new) ==
  LET seen == SeenCommands(session)
      first == session.ws[Min(Sends(session))].body
      auth == IF Sends(session) # {} /\ first.json = "object" /\ first.cmd # ""
              THEN first.cmd ELSE ir.auth
  IN  [ir EXCEPT
        !.traces = PatchedTraces(@, Signing(session.hmac, @)),
        !.commands = Confirmed(@, seen) \o [i \in DOMAIN new |-> NewEndpoint(ir, new[i])],
        !.events = Confirmed(@, seen),
        !.port = IF session.udp # <<>> /\ @ # 0 THEN session.udp[1] ELSE @,
        !.auth = auth]

EmptySession(session) ==
  session.hmac \o session.http \o session.ws \o session.udp = <<>>

\* What the oracle makes of the IR, if it does not raise.
Outcomes(ir, session) ==
  IF ~Gaps(ir) \/ EmptySession(session) THEN {ir}
  ELSE {Reconciled(ir, session, new) : new \in SetToSeqs(SeenCommands(session) \ Known(ir))}
=============================================================================
