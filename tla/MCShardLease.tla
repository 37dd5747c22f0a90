---------------------------- MODULE MCShardLease ----------------------------
(* Bounded instances of ShardLease for TLC.                                *)
EXTENDS ShardLease
=============================================================================
