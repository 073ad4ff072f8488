--------------------------- MODULE MCDuplicateIndex ---------------------------
(***************************************************************************)
(* Three integrations: two products and a protocol; and an app for each    *)
(* signal of the check.                                                    *)
(***************************************************************************)
EXTENDS DuplicateIndex

MCDomain == {"cast", "hue", "shelly"}
MCNone == "none"

Mentioning(cast, hue, shelly) ==
  [d \in MCDomain |-> CASE d = "cast" -> cast [] d = "hue" -> hue [] OTHER -> shelly]

Unknown == [known |-> MCNone, named |-> {}, strings |-> FALSE,
            mentions |-> Mentioning(0, 0, 0), ble |-> FALSE, advertised |-> {}]

MCApp == {
  [Unknown EXCEPT !.known = "hue"],
  [Unknown EXCEPT !.named = {"hue"}],
  \* several vendors, of which one alone would be dominant
  [Unknown EXCEPT !.strings = TRUE, !.mentions = Mentioning(1, 3, 2)],
  \* a protocol, and a Bluetooth device
  [Unknown EXCEPT !.strings = TRUE, !.mentions = Mentioning(1, 1, 0),
                  !.ble = TRUE, !.advertised = {"shelly"}]}
=============================================================================
