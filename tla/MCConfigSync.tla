---------------------------- MODULE MCConfigSync ----------------------------
(* Instances of ConfigSync for TLC; the .cfg files give the constants.     *)
EXTENDS ConfigSync, TLC

CONSTANT c1

On(synthetic) == [enabled |-> TRUE, synthetic_allowed |-> synthetic]

Ring(active, angles) == [ring |-> [is_active |-> active, angles |-> angles]]

\* Angles that may be synthetic, one that may not, and a mistake.
First == [valid |-> TRUE, model_version |-> "m1",
          categories |-> Ring(TRUE, [FRONT |-> On(FALSE), SIDE |-> On(TRUE)])]
Second == [valid |-> TRUE, model_version |-> "m2",
           categories |-> Ring(TRUE, [FRONT |-> On(TRUE), SIDE |-> On(FALSE)])]
Broken == [First EXCEPT !.valid = FALSE]

SheetContents == {First, Second, Broken}

SeededPayload ==
  [categories |-> Ring(FALSE, [a \in Angle |-> Disabled]), model_version |-> "m0",
   operations |-> {"MATCH", "RECOLOR", "MIX", "GENERATE_WITH_CLEANUP",
                   "BACKGROUND_REMOVAL", "BACKGROUND_REPLACEMENT"},
   presets |-> [white |-> TRUE, marble |-> FALSE],
   palette |-> [ruby |-> TRUE, opal |-> FALSE]]

Body(operation, category, angles, photos, masks, option) ==
  [operation |-> operation, category |-> category, angles |-> angles, photos |-> photos,
   masks |-> masks, option |-> option, variants |-> 2]

Ask(angle, mode) == [angle |-> angle, mode |-> mode, path |-> "p"]
SideOnly == Body("ANGLE_GENERATION", "ring", <<Ask("SIDE", "synthetic")>>, <<>>, <<>>, NoOption)

OneOfEach ==
  {SideOnly,
   Body("ANGLE_GENERATION", "ring", <<Ask("FRONT", "uploaded"), Ask("TOP", "skipped")>>,
        <<>>, <<>>, NoOption),
   Body("ANGLE_GENERATION", "ring", <<Ask("TOP", "synthetic")>>, <<>>, <<>>, NoOption),
   Body("ANGLE_GENERATION", "ring", <<Ask("SIDE", "skipped")>>, <<>>, <<>>, NoOption),
   Body("ANGLE_GENERATION", "pin", <<Ask("SIDE", "synthetic")>>, <<>>, <<>>, NoOption),
   Body("MATCH", "ring", <<>>, <<"p">>, <<>>, NoOption),
   Body("MATCH", "pin", <<>>, <<"p">>, <<>>, NoOption),
   Body("MIX", "ring", <<>>, <<"p", "q">>, <<"m", "n">>, NoOption),
   Body("BACKGROUND_REMOVAL", "ring", <<>>, <<"p">>, <<>>, NoOption),
   Body("GENERATE_WITH_CLEANUP", "ring", <<Ask("SIDE", "uploaded")>>, <<"p">>, <<>>, NoOption),
   Body("GENERATE_WITH_CLEANUP", "ring", <<Ask("TOP", "uploaded")>>, <<"p">>, <<>>, NoOption),
   Body("GENERATE_WITH_CLEANUP", "ring", <<Ask("SIDE", "uploaded"), Ask("SIDE", "uploaded")>>,
        <<"p">>, <<>>, NoOption)}
  \union {Body("RECOLOR", "ring", <<>>, <<"p">>, <<"m">>, o) : o \in {"ruby", "opal", "jade"}}
  \union {Body("BACKGROUND_REPLACEMENT", "ring", <<>>, <<"p">>, <<>>, o) : o \in {"white", "marble"}}
  \union {Body("BACKGROUND_REPLACEMENT", "ring", <<>>, <<"p", "q">>, <<>>, NoOption)}

CreatorBodies == [c \in {c1} |-> SideOnly]
=============================================================================
