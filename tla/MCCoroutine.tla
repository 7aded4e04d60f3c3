----------------------------- MODULE MCCoroutine -----------------------------
(* Instances of CoroutineProperties for TLC. *)
EXTENDS CoroutineProperties, TLC

Symmetry == Permutations(Threads)
=============================================================================
