------------------------ MODULE MCRevalidationQueue ------------------------
(***************************************************************************)
(* Instances of RevalidationQueue for TLC.  Two of the ids are about one   *)
(* route, as two versions of its cache entry.                              *)
(***************************************************************************)
EXTENDS RevalidationQueue, TLC

CONSTANTS c1, c2, c3, c4, id1, id2, id3, home, blog

TwoIds == {id1, id2}
ThreeIds == {id1, id2, id3}
HomeAndBlog == {home, blog}
RouteOfTwo == id1 :> home @@ id2 :> home
RouteOfThree == id1 :> home @@ id2 :> home @@ id3 :> blog
ModifiedTwo == id1 :> 0 @@ id2 :> 1
ModifiedThree == id1 :> 0 @@ id2 :> 1 @@ id3 :> 0

CallsAlike == Permutations(Calls)

=============================================================================
