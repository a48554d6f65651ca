--------------------------- MODULE MCGenericTest ---------------------------
(* An instance of GenericTest for TLC: two clients, numbered as the tests do. *)
EXTENDS GenericTest

CONSTANT kk

MCKey == {kk}

MCNoValue == <<>>

MCClient == 0..1

MCEntry == [id : MCClient, n : 0..MaxVersion]

MCValue == Seq(MCEntry)

MCMaxPuts == [put |-> 1, append |-> 2, least |-> 2]

MCServers == 0..N - 1

MCDrawn == {{0, 3}}

MCVisElsewhere == {""}

=============================================================================
