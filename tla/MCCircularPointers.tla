------------------------- MODULE MCCircularPointers -------------------------
(* Instances of CircularPointers small enough for TLC.                     *)
EXTENDS CircularPointers
=============================================================================
