---------------------------- MODULE DuplicateIndex ----------------------------
(***************************************************************************)
(* The duplicate check (src/engine/duplicate_check/checker.py): does Home  *)
(* Assistant already cover an app's device?  What Home Assistant Core has  *)
(* is fetched and kept in three files, each for TTL: the components, their *)
(* manifests, and an index of Bluetooth UUIDs made from the manifests.     *)
(*                                                                         *)
(* Runs of the engine follow each other.  Any fetch can fail or be partial *)
(* and a run can die while it saves a file.                                *)
(***************************************************************************)
EXTENDS Integers, FiniteSets

CONSTANTS
  Domain,       \* the integrations of Home Assistant Core, at the pinned version
  Product,      \* those of a type that stands for a product (_PRODUCT_TYPES)
  Protocol,     \* _PROTOCOL_DOMAINS
  NoDomain,
  App,          \* the apps that are checked
  MinMentions,  \* _MIN_BRAND_MENTIONS (3)
  Dominance,    \* _BRAND_DOMINANCE (2)
  TTL           \* _CACHE_TTL (a week), in ticks

\* What an app gives the check to go by.
AppType == [
  known: Domain \cup {NoDomain},   \* by its package name (_KNOWN_PACKAGES)
  named: SUBSET Domain,            \* that its package name or label names
  strings: BOOLEAN,                \* it has strings,
  mentions: [Domain -> Nat],       \* and how often sentences of them mention each
  ble: BOOLEAN,                    \* it has Bluetooth service UUIDs,
  advertised: SUBSET Domain]       \* and the integrations whose manifests list one

ASSUME DuplicateAssumption ==
  /\ IsFiniteSet(Domain)
  /\ Product \subseteq Domain /\ NoDomain \notin Domain
  /\ App \subseteq AppType
  /\ MinMentions \in Nat \ {0} /\ Dominance \in Nat \ {0}
  /\ TTL \in Nat \ {0}

VARIABLES
  file,     \* the files in _CACHE_DIR
  at, app,  \* where the check under way is, and its app
  seen,     \* the components it goes by; the manifests, when it makes the index
  answer,   \* what it returned
  calm      \* the ticks since something fetched was last incomplete

check == <<at, app, seen, answer>>
vars == <<file, check, calm>>

File == {"components", "manifests", "uuids"}

\* A wrong verdict can be this old (see VerdictsRecover); more is not counted.
LongestEffect == 3 * (TTL - 1)

Coverage == {"none", "partial", "full"}
Verdict == [coverage: Coverage, name: Domain \cup {NoDomain}]

FileType == [is: {"absent", "torn", "whole"},
             has: SUBSET Domain,    \* the integrations it tells of
             age: 0..TTL]

Saved(s) == [is |-> "whole", has |-> s, age |-> 0]

Found(coverage, d) == [coverage |-> coverage, name |-> d]
NotFound == Found("none", NoDomain)

Init ==
  /\ file = [f \in File |-> [is |-> "absent", has |-> {}, age |-> TTL]]
  /\ at = "idle" /\ app \in App /\ seen = {} /\ answer = NotFound
  /\ calm = LongestEffect + 1

-----------------------------------------------------------------------------
(* The signals.                                                            *)

\* The name: a component the package or the label names.
NameVerdict(a, components) ==
  LET named == a.named \cap components
  IN  IF named = {} THEN NotFound ELSE Found("full", CHOOSE d \in named : TRUE)

BrandVerdict(a, products) ==
  LET mentioned == {d \in products : a.mentions[d] >= MinMentions}
      top == CHOOSE d \in mentioned :
               \A e \in mentioned : a.mentions[e] <= a.mentions[d]
      leads == \A e \in products \ {top} : a.mentions[top] >= Dominance * a.mentions[e]
  IN  IF mentioned = {} THEN NotFound
      ELSE Found(IF leads /\ top \notin Protocol THEN "full" ELSE "partial", top)

\* The Bluetooth services, looked up in the index.
BleVerdict(a, indexed) ==
  LET match == a.advertised \cap indexed
  IN  IF match = {} THEN NotFound ELSE Found("full", CHOOSE d \in match : TRUE)

\* _product_domains: without manifests every component counts.
Products(manifests, components) ==
  IF manifests = {} THEN components ELSE manifests \cap Product

-----------------------------------------------------------------------------
(* The files.                                                              *)

ValidForever(f) == file[f].is # "absent"  \* it never expires

Valid(f) == file[f].is # "absent" /\ file[f].age < TTL

Torn(f) == file[f].is = "torn"

Felt(complete) == IF complete THEN calm ELSE 0

\* _fetch_core_components: what it returns, and leaves in its file.  A list
\* that GitHub truncated is kept; one that could not be fetched is replaced by
\* the old one, however old.
Components ==
  LET f == file["components"] IN
  IF Valid("components") THEN {[has |-> f.has, file |-> f, calm |-> calm]}
  ELSE {[has |-> s, file |-> Saved(s), calm |-> Felt(s = Domain)] : s \in SUBSET Domain}
         \cup {[has |-> f.has, file |-> f, calm |-> 0]}

\* _fetch_manifest_index, of some components: each manifest fails by itself.
ManifestsEvenNone(components) ==  \* an empty index is kept as well
  LET f == file["manifests"] IN
  IF Valid("manifests") THEN {[has |-> f.has, file |-> f, calm |-> calm]}
  ELSE {[has |-> s, file |-> Saved(s), calm |-> Felt(s = components)] :
          s \in SUBSET components}

Manifests(components) ==
  LET f == file["manifests"] IN
  IF Valid("manifests") THEN {[has |-> f.has, file |-> f, calm |-> calm]}
  ELSE {[has |-> s, file |-> IF s = {} THEN f ELSE Saved(s), calm |-> Felt(s = components)] :
          s \in SUBSET components}

-----------------------------------------------------------------------------
(* check(), one action for each signal.                                    *)

Ends(v) == at' = "answered" /\ answer' = v /\ seen' = {} /\ UNCHANGED app

GoesOn(step, domains) ==
  at' = step /\ seen' = domains /\ UNCHANGED <<app, answer>>

\* After the brands: the services, if there are any.
ThenServices(components) ==
  IF app.ble THEN GoesOn("services", components) ELSE Ends(NotFound)

Begin(a) ==
  /\ at \in {"idle", "answered", "raised"}
  /\ app' = a /\ seen' = {}
  /\ IF a.known # NoDomain
     THEN at' = "answered" /\ answer' = Found("full", a.known)
     ELSE at' = "name" /\ answer' = NotFound
  /\ UNCHANGED <<file, calm>>

CheckName ==
  /\ at = "name" /\ ~(Valid("components") /\ Torn("components"))
  /\ \E c \in Components :
       LET v == NameVerdict(app, c.has) IN
       /\ c.file.is # "torn"
       /\ file' = [file EXCEPT !["components"] = c.file] /\ calm' = c.calm
       /\ IF v # NotFound THEN Ends(v)
          ELSE IF app.strings THEN GoesOn("brands", c.has)
          ELSE ThenServices(c.has)

CheckBrands ==
  /\ at = "brands" /\ ~(Valid("manifests") /\ Torn("manifests"))
  /\ \E m \in Manifests(seen) :
       LET v == BrandVerdict(app, Products(m.has, seen)) IN
       /\ file' = [file EXCEPT !["manifests"] = m.file] /\ calm' = m.calm
       /\ IF v # NotFound THEN Ends(v) ELSE ThenServices(seen)

CheckServices ==
  /\ at = "services"
  /\ \/ /\ Valid("uuids") /\ ~Torn("uuids")
        /\ Ends(BleVerdict(app, file["uuids"].has))
        /\ UNCHANGED <<file, calm>>
     \/ /\ ~Valid("uuids") /\ ~(Valid("manifests") /\ Torn("manifests"))
        /\ \E m \in Manifests(seen) :
             /\ file' = [file EXCEPT !["manifests"] = m.file] /\ calm' = m.calm
             /\ GoesOn("index", m.has)

\* The index is kept, whatever manifests it could be made from.
MakeIndex ==
  /\ at = "index"
  /\ file' = [file EXCEPT !["uuids"] = Saved(seen)]
  /\ Ends(BleVerdict(app, seen))
  /\ UNCHANGED calm

\* The file a step reads, and saves if it is not valid.
Needed ==
  CASE at = "name" -> "components"
    [] at \in {"brands", "services"} ->
         IF at = "services" /\ Valid("uuids") THEN "uuids" ELSE "manifests"
    [] OTHER -> "uuids"

\* A torn file is no JSON; nor is it when it stands in for a failed fetch.
Raises ==
  /\ at \in {"name", "brands", "services"}
  /\ Torn(Needed) /\ (Valid(Needed) \/ at = "name")
  /\ calm' = IF Valid(Needed) THEN calm ELSE 0
  /\ at' = "raised" /\ seen' = {}
  /\ UNCHANGED <<file, app, answer>>

\* The process dies, possibly while it saves a file: write_text() truncates.
Dies ==
  /\ at \in {"name", "brands", "services", "index"}
  /\ at' = "idle" /\ seen' = {}
  /\ \/ UNCHANGED file
     \/ /\ ~Valid(Needed)
        /\ file' = [file EXCEPT ![Needed] = [is |-> "torn", has |-> {}, age |-> 0]]
  /\ UNCHANGED <<app, answer, calm>>

\* Time passes between checks: a check ends within its timeouts.
Tick ==
  /\ at \in {"idle", "answered", "raised"}
  /\ at' = "idle"
  /\ file' = [f \in File |->
                [file[f] EXCEPT !.age = IF file[f].age < TTL THEN file[f].age + 1 ELSE TTL]]
  /\ calm' = IF calm <= LongestEffect THEN calm + 1 ELSE calm
  /\ UNCHANGED <<app, seen, answer>>

Check == CheckName \/ CheckBrands \/ CheckServices \/ MakeIndex \/ Raises

Next == (\E a \in App : Begin(a)) \/ Check \/ Dies \/ Tick

\* A check that is made is carried through, and time passes however often
\* checks are made.
Fairness == WF_vars(Check) /\ SF_vars(Tick)

Spec == Init /\ [][Next]_vars /\ Fairness

-----------------------------------------------------------------------------
(* Properties.                                                             *)

\* Every variable keeps its type, an answer is one the check can give, and a
\* whole file of manifests tells of somebody.
TypeOK ==
  /\ file \in [File -> FileType]
  /\ at \in {"idle", "name", "brands", "services", "index", "answered", "raised"}
  /\ app \in App /\ seen \subseteq Domain /\ answer \in Verdict
  /\ calm \in 0..LongestEffect + 1
  /\ file["manifests"].is = "whole" => file["manifests"].has # {}

\* What the check returns with everything fetched.
Reference(a) ==
  IF a.known # NoDomain THEN Found("full", a.known)
  ELSE IF NameVerdict(a, Domain) # NotFound THEN NameVerdict(a, Domain)
  ELSE IF a.strings /\ BrandVerdict(a, Products(Domain, Domain)) # NotFound
       THEN BrandVerdict(a, Products(Domain, Domain))
  ELSE IF a.ble THEN BleVerdict(a, Domain) ELSE NotFound

\* A check that misses an integration, or stops the engine for one that does
\* not cover the app, does so only for something that could not be fetched,
\* and not for longer than three files made of each other are kept.
VerdictsRecover == at = "answered" /\ answer # Reference(app) => calm <= LongestEffect

\* A run that dies leaves checks that raise, but not for ever, once fetches
\* succeed: what a torn file says is not JSON, but it expires.
RaisingStops ==
  <>[][~Dies /\ (Check => calm' = calm)]_vars => <>[][~Raises]_vars
=============================================================================
