-------------------------- MODULE MCSharedBuffers --------------------------
(* Instances of SharedBuffers small enough for TLC.                        *)
EXTENDS SharedBuffers

CONSTANTS t1, t2, t3
=============================================================================
