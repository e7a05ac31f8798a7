---------------------------- MODULE MCCheckpoint ----------------------------
(* Checkpoints of three ledgers.                                           *)
EXTENDS CheckpointBuilder
=============================================================================
