------------------------- MODULE MCRewardRedemption -------------------------
(* A child with two requests over two rewards and two calls of a parent.   *)
EXTENDS RewardRedemption, TLC

CONSTANTS r1, r2, p1, p2, snack, film

MCCost == snack :> 1 @@ film :> 2

MCSymmetry == Permutations({r1, r2}) \cup Permutations({p1, p2})
=============================================================================
