----------------------------- MODULE MCSession -----------------------------
(* Instances of Session small enough for TLC.                              *)
EXTENDS Session
=============================================================================
