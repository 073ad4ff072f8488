-------------------------- MODULE MCExtractionCache --------------------------
(***************************************************************************)
(* An instance of ExtractionCache for TLC: two versions of the app as a    *)
(* bundle, whose base grows with the version; the others keep their size.  *)
(***************************************************************************)
EXTENDS ExtractionCache

MCVersion == {"v1", "v2"}
MCSizeOf == [v \in MCVersion |-> [m \in Member |-> IF m = "base" /\ v = "v2" THEN 2 ELSE 1]]
=============================================================================
