---------------------------- MODULE MCMemoryQueue ----------------------------
(* Small instances of MemoryQueue for TLC. *)
EXTENDS MemoryQueue, TLC
=============================================================================
