------------------------- MODULE MCShardedTagCache -------------------------
(***************************************************************************)
(* ShardedTagCache for TLC: one shard, so that its tags share objects, and *)
(* two replicas of it.                                                     *)
(***************************************************************************)
EXTENDS ShardedTagCache, TLC

CONSTANTS shard

InOneShard == [t \in Tags |-> shard]

Alike == Permutations(Writers) \cup Permutations(Lookups) \cup Permutations(Tags) \cup Permutations(Replicas)

=============================================================================
