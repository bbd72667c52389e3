-------------------------- MODULE MCCircularBuffer --------------------------
(* Instances of CircularBuffer small enough for TLC.                       *)
EXTENDS CircularBuffer, TLC

Symmetry == Permutations(Rings) \union Permutations(Data)
=============================================================================
