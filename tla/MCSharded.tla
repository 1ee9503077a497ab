----------------------------- MODULE MCSharded -----------------------------
(* The instances of Sharded that TLC checks.                                *)
EXTENDS ShardedInv
=============================================================================
