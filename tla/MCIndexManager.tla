---------------------------- MODULE MCIndexManager ----------------------------
(* Small instances of IndexManager for TLC.                                *)
EXTENDS IndexManager

(* Every path has a shard file of its own.                                 *)
MCShardFileOf == [p \in Paths |-> p]

=============================================================================
