------------------------- MODULE MCMasterScheduler -------------------------
(* Two requests a and b, the rework w of a, and their reviews.             *)
EXTENDS MasterScheduler, TLC

CONSTANTS a, b, w, ra, rb, rw, ax

TwoReviews == a :> ra @@ b :> rb
ThreeReviews == a :> ra @@ w :> rw
NoneAgain == [j \in Jobs |-> NoTask]
AgainA == a :> ax @@ w :> NoTask
ReworkA == a :> w @@ w :> NoTask
=============================================================================
