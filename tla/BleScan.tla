-------------------------------- MODULE BleScan --------------------------------
(***************************************************************************)
(* What the engine makes of an app's Bluetooth code: the characteristics,  *)
(* how each is used, what is written to it, and who logs in how            *)
(* (src/engine/extraction/ble_scanner.py, ble_gatt_profile.py).  The code  *)
(* is read as one text, the files one after the other; decompiled methods  *)
(* reuse the names of their locals.                                        *)
(*                                                                         *)
(*   file   [stem, ble, named, gatt, ..]: whether it mentions Bluetooth,   *)
(*          whether it filters on the name that a device advertises, and   *)
(*          its text, a sequence of tokens                                 *)
(*   token  const   [name, uuid, service]: a UUID; service if so named     *)
(*          service [ref]: getService(ref)                                 *)
(*          method  [name, byte]: a method begins; byte if the value it    *)
(*                  sets is its integer parameter, in one byte             *)
(*          bind    [var, ref]: var = getCharacteristic(ref)               *)
(*          use     [kind, first, named]: a write, read or notify call,    *)
(*                  its first argument and the constants in the others     *)
(*          call    [name, value]: a method is called with a literal       *)
(*          branch  [ref, decode]: how a handler reads a characteristic    *)
(***************************************************************************)
EXTENDS Reconcile, Lists

CONSTANTS
  CmdOf,               \* the command that each constant's name makes
  Challenges, Proofs   \* commands named like a challenge, like its answer

BleConfidence == 70

Empty == [k \in {} |-> ""]

\* Of files with one name, the last is read, in the place of the first.
Texts(files) ==
  LET ble == Select(files, LAMBDA f : f.ble)
      Named(i) == {j \in DOMAIN ble : ble[j].stem = ble[i].stem}
      firsts == Select([i \in DOMAIN ble |-> i], LAMBDA i : i = Min(Named(i)))
  IN  [i \in DOMAIN firsts |-> ble[Max(Named(firsts[i]))].gatt]

At(text, what) == {i \in DOMAIN text : text[i].is = what}

-----------------------------------------------------------------------------
(* Characteristics, by the names of their constants.                       *)

IsService(text, const) ==
  const.service \/ \E i \in At(text, "service") : text[i].ref = const.name

Uuids(text) == Select(text, LAMBDA t : t.is = "const")

Chars(text) == Select(Uuids(text), LAMBDA c : ~IsService(text, c))

\* Constants of one name are told apart by nothing: the last counts.
UuidOf(text) == FoldLeft(LAMBDA m, c : Put(m, c.name, c.uuid), Empty, Chars(text))

Ref(uuidOf, ref) == IF ref \in DOMAIN uuidOf THEN {uuidOf[ref]} ELSE {}

\* A local is what was bound to its name last before its use, in its method.
Binding(text, uuidOf, var, i) ==
  LET begins == {m \in At(text, "method") : m < i}
      method == IF begins = {} THEN 1 ELSE Max(begins)
      before == {j \in At(text, "bind") \cap method..(i - 1) :
                   text[j].var = var /\ text[j].ref \in DOMAIN uuidOf}
  IN  IF before = {} THEN {} ELSE Ref(uuidOf, text[Max(before)].ref)

Used(text, uuidOf, i) ==
  (IF text[i].first \in DOMAIN uuidOf THEN Ref(uuidOf, text[i].first)
   ELSE Binding(text, uuidOf, text[i].first, i))
  \cup UNION {Ref(uuidOf, n) : n \in text[i].named}

-----------------------------------------------------------------------------
(* What is written and how it is read.                                     *)

\* The tokens of the method that begins at m, in its file.
MethodBody(text, m) ==
  LET later == {n \in At(text, "method") : n > m}
  IN  (m + 1)..((IF later = {} THEN Len(text) + 1 ELSE Min(later)) - 1)

\* A method that writes one characteristic, known by name, and writes its
\* parameter; a generic one is not taken.
Written(text, uuidOf, m) ==
  LET body == MethodBody(text, m)
      uuids == UNION {Ref(uuidOf, text[i].ref) : i \in At(text, "bind") \cap body}
  IN  IF text[m].byte /\ Cardinality(uuids) = 1
         /\ \E i \in At(text, "use") \cap body : text[i].kind = "write"
      THEN uuids ELSE {}

\* The method that writes a characteristic, the last if there are several.
WriterOf(texts, uuidOf) ==
  LET InText(w, text) ==
        FoldLeft(LAMBDA v, m : Override([u \in Written(text, uuidOf, m) |-> text[m].name], v),
                 w, SetToSortSeq(At(text, "method"), <))
  IN  FoldLeft(InText, Empty, texts)

\* It has a value if its writer is called with literals, anywhere.
TakesValue(texts, uuidOf, uuid) ==
  LET writer == WriterOf(texts, uuidOf)
      all == FlattenSeq(texts)
  IN  uuid \in DOMAIN writer /\ \E i \in At(all, "call") : all[i].name = writer[uuid]

Decoded(text, uuidOf, uuid) ==
  \E i \in At(text, "branch") : text[i].decode # "none" /\ Ref(uuidOf, text[i].ref) = {uuid}

\* What no call is known of is taken for readable.
Access(text, uuidOf, uuid) ==
  LET uses == {text[i].kind : i \in {j \in At(text, "use") : uuid \in Used(text, uuidOf, j)}}
  IN  (IF uses = {} THEN {"read"} ELSE uses)
      \cup (IF Decoded(text, uuidOf, uuid) THEN {"read"} ELSE {})

-----------------------------------------------------------------------------
(* The endpoints: one for a UUID, named by the first of its constants.     *)

CharEndpoint(texts, char) ==
  LET all == FlattenSeq(texts)
      uuidOf == UuidOf(all)
  IN  [cmd |-> CmdOf[char.name], transport |-> "ble",
       way |-> IF "write" \in Access(all, uuidOf, char.uuid) THEN "to" ELSE "from",
       awaits |-> FALSE,
       fields |-> IF TakesValue(texts, uuidOf, char.uuid) THEN {"value"} ELSE {},
       response |-> {}, conf |-> BleConfidence]

DetectChallenge(commands, events) ==
  IF /\ \E e \in Range(events) : e.cmd \in Challenges
     /\ \E c \in Range(commands) : c.cmd \in Proofs \ Challenges
  THEN "challenge" ELSE "none"

BleScanned(files) ==
  LET texts == Texts(files)
      all == FlattenSeq(texts)
      chars == Chars(all)
      firsts == Select([i \in DOMAIN chars |-> i], LAMBDA i :
                  \A j \in 1..(i - 1) : chars[j].uuid # chars[i].uuid)
      eps == [i \in DOMAIN firsts |-> CharEndpoint(texts, chars[firsts[i]])]
      commands == Select(eps, LAMBDA e : e.way = "to")
      events == Select(eps, LAMBDA e : e.way = "from")
  IN  [commands |-> commands, events |-> events,
       login |-> DetectChallenge(commands, events),
       discovers |-> \/ \E f \in Range(files) : f.named
                     \/ \E c \in Range(Uuids(all)) : IsService(all, c)]
=============================================================================
