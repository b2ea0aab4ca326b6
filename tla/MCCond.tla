------------------------------- MODULE MCCond -------------------------------
(* Small instances of Cond for TLC. *)
EXTENDS Cond, TLC

Symmetry == Permutations(Cancellable) \cup Permutations(Goroutines \ Cancellable)
=============================================================================
