--------------------------- MODULE MCRaftTicker ---------------------------
(* Instances of RaftTicker for TLC: the clock's unit is 50 ms. *)
EXTENDS RaftTicker

=============================================================================
