---------------------------- MODULE MCInputPath ----------------------------
(***************************************************************************)
(* The input path for TLC.  The mouse sends 255 (in step, left button,     *)
(* one to the left and down) and 0 (out of step as a first byte).          *)
(***************************************************************************)
EXTENDS InputPath

CONSTANT none   \* a model value

MCItem ==
  {<<"key", k>> : k \in {"a", "A", "enter"}}
    \cup {<<"mouse", x, y, left>> : x \in 0 .. 1, y \in {0}, left \in BOOLEAN}
=============================================================================
