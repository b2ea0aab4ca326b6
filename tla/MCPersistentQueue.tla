-------------------------- MODULE MCPersistentQueue --------------------------
(* Small instances of PersistentQueue for TLC. *)
EXTENDS PersistentQueue, TLC

Symmetry ==
  Permutations(Cancellable) \cup Permutations(Producers \ Cancellable)
    \cup Permutations(Consumers)
=============================================================================
