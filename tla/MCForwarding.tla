---------------------------- MODULE MCForwarding ----------------------------
(* Instances of Forwarding small enough for TLC.                           *)
EXTENDS Forwarding
=============================================================================
