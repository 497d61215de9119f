------------------------- MODULE MCBucketCachePurge -------------------------
(***************************************************************************)
(* BucketCachePurge for TLC: as many tags as make one full batch and one   *)
(* that is not.                                                            *)
(***************************************************************************)
EXTENDS BucketCachePurge, TLC

TagsAlike == Permutations(Tags)

=============================================================================
