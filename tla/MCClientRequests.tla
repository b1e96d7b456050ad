-------------------------- MODULE MCClientRequests --------------------------
(* Instances of ClientRequests for TLC; the .cfg files give the constants. *)
EXTENDS ClientRequests, TLC

CONSTANTS p, q   \* storage paths

Uploads(a, x) == [angle |-> a, mode |-> "uploaded", path |-> x]
Skips(a) == [angle |-> a, mode |-> "skipped", path |-> p]

\* An angle job of two uploads, with its angles in two orders, and one that
\* uploads nothing.
AngleJob(angles) ==
  [operation |-> "ANGLE_GENERATION", category |-> "ring", angles |-> angles,
   photos |-> <<>>, masks |-> <<>>, option |-> NoOption, variants |-> 2]

Angles == AngleJob(<<Uploads("SIDE", p), Uploads("TOP", q), Skips("FRONT")>>)
AnglesReordered == AngleJob(<<Skips("FRONT"), Uploads("TOP", q), Uploads("SIDE", p)>>)
NoUploads == AngleJob(<<[angle |-> "SIDE", mode |-> "synthetic", path |-> p]>>)

ClientBodies == {Angles, AnglesReordered, NoUploads}

AllEnabled ==
  [categories |->
     [ring |-> [is_active |-> TRUE,
                angles |-> [a \in {"SIDE", "TOP"} |->
                              [enabled |-> TRUE, synthetic_allowed |-> TRUE]]]],
   operations |-> {}, presets |-> <<>>, palette |-> <<>>]

ActiveConfigs == {AllEnabled}
BucketContents ==
  LET stored(paths) == [x \in paths |-> [owned |-> TRUE, image |-> TRUE, mask |-> FALSE, size |-> 1]]
  IN  {stored({}), stored({p, q})}

Symmetry == Permutations(Requests) \union Permutations(Keys)
=============================================================================
