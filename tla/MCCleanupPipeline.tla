------------------------- MODULE MCCleanupPipeline -------------------------
(* Instances of CleanupPipeline for TLC; the .cfg files give the constants. *)
EXTENDS CleanupPipeline, TLC

\* Angles are interchangeable, and so are workers; not for liveness.
Symmetry == Permutations(Angles) \union Permutations(Workers)
=============================================================================
