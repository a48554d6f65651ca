---------------------------- MODULE MCMapReduce ----------------------------
(* Instances of MapReduce for TLC. *)
EXTENDS MapReduce, TLC

Symmetry == Permutations(Worker)

=============================================================================
