---------------------------- MODULE RingIndices ----------------------------
(***************************************************************************)
(* The indices of a ring of 2^size entries (buffers/circular_buffer.c),    *)
(* that the rings and the pointers into them have in common.               *)
(***************************************************************************)
EXTENDS Integers

CONSTANT Size          \* size: there are 2^size entries

ASSUME CapAssumption == Size \in Nat /\ 2^Size \in Nat \ {0}

Cap == 2^Size
Entries == 0 .. Cap - 1

(* Mutant: no wrap.                                                        *)
circular_increment_NoWrap(value) == value + 1

circular_increment(value) == (value + 1) % Cap

circular_decrement(value) == (value - 1) % Cap
=============================================================================
