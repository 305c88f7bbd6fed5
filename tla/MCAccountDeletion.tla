-------------------------- MODULE MCAccountDeletion --------------------------
(* Two paying tenants, the older one with the longer grace period.  The    *)
(* component is an instance, so that the theorems of TenantProofs can      *)
(* speak of it.                                                            *)
EXTENDS Integers

CONSTANTS Tenants, Grace, PurgeLimit, Reliable, MaxDay, MaxTurns

VARIABLES
    day, family, billing, deletion, restore, purge, due, upset, unseen, turns

Leaving == INSTANCE AccountDeletion WITH Limit <- PurgeLimit

ASSUME LeavingAssumption == Leaving!DeletionAssumption

LeavingSpec == Leaving!Spec

(* Data are erased when Stripe has cancelled all that the row shows        *)
(* (AccountDeletion).                                                      *)
ErasedIsNotBilled == Leaving!ErasedIsNotBilled

(* ... and not before the promised day (AccountDeletion).                  *)
GraceIsServed == Leaving!GraceIsServed

(* What a run leaves undone is erased in the end (AccountDeletion).        *)
CarriedOverIsErased == Leaving!CarriedOverIsErased

(* What comments and docs promise without exception, and what overlapping  *)
(* and cut off requests break (AccountDeletion).                           *)
NeverErasedWhileBilled == Leaving!NeverErasedWhileBilled
RestoredIsSpared       == Leaving!RestoredIsSpared
GraceSurvivesAll       == Leaving!GraceSurvivesAll
HalfErasedIsRetried    == Leaving!HalfErasedIsRetried
SoftDeletedHasDate     == Leaving!SoftDeletedHasDate

MCGrace == [t \in {1, 2} |-> IF t = 1 THEN 2 ELSE 1]
=============================================================================
