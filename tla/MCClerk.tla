------------------------------ MODULE MCClerk ------------------------------
(* Instances of Clerk for TLC. *)
EXTENDS Clerk

CONSTANTS c1, c2

MCClient == {c1, c2}

MCRoaming == {c2}

MCMaxOps == [c \in MCClient |-> IF c = c1 THEN 1 ELSE 2]

=============================================================================
