------------------------------- MODULE MCRaft -------------------------------
(* Three peers for TLC.  They are interchangeable in every action, and the *)
(* invariants and action properties name none of them.                     *)
EXTENDS Raft, TLC

Symmetry == Permutations(Server)

=============================================================================
