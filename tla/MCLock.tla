------------------------------- MODULE MCLock -------------------------------
(* An instance of Lock for TLC: two clients, and their names as values. *)
EXTENDS Lock

CONSTANTS c1, c2

MCClient == {c1, c2}

MCKey == {"l", "l0"}

MCValue == MCClient \cup {NoValue}

=============================================================================
