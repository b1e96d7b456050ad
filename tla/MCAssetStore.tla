---------------------------- MODULE MCAssetStore ----------------------------
(* Instances of AssetStore for TLC; the .cfg files give the constants.     *)
EXTENDS AssetStore

CONSTANT a

OneRecolor == [s \in {a} |-> "RECOLOR"]

\* The order of the code's 7, 90 and 180 days.
ShortRetention == [k \in Kinds |-> CASE k = "MASK" -> 1 [] k = "INPUT" -> 2 [] k = "OUTPUT" -> 2]
=============================================================================
