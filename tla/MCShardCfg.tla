---------------------------- MODULE MCShardCfg ----------------------------
(* Instances of ShardCfg for TLC. *)
EXTENDS ShardCfg, TLC

\* Groups 1 to 4 have servers of their own; group 5 shares one with group 1.
MCServersOf == 1 :> {"a"} @@ 2 :> {"b"} @@ 3 :> {"c"} @@ 4 :> {"d"} @@ 5 :> {"a", "e"}

=============================================================================
