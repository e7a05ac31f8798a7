---------------------------- MODULE MCLocalNode ----------------------------
(* Instances of LocalNode for TLC. *)
EXTENDS LocalNode
=============================================================================
