----------------------------- MODULE MCLifecycle -----------------------------
(* Small instances of Lifecycle for TLC. *)
EXTENDS Lifecycle, TLC

Symmetry == Permutations(Docs) \cup Permutations(Workers) \cup Permutations(Types)
=============================================================================
