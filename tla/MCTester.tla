------------------------------ MODULE MCTester ------------------------------
(* An instance of Tester for TLC: one client makes two calls to one server. *)
EXTENDS Tester

CONSTANTS c1, c2, e1, k1, s1

MCCall == {c1, c2}

MCEnd == {e1}

MCClnt == {k1}

MCServerName == {s1}

=============================================================================
