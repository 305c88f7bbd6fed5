--------------------------- MODULE MCWebhookDedup ---------------------------
(* Three deliveries of one event.  The ledger is an instance, so that the  *)
(* theorems of TenantProofs can speak of it next to the contract.          *)
EXTENDS Integers, TLC

CONSTANTS
    Deliveries, Timeout, StaleAfter, Horizon, Retention, MaxTime,
    d1, d2, d3

VARIABLES now, eventRow, place, since, acked, applied, recorded

Dedup == INSTANCE WebhookDedup WITH row <- eventRow

ASSUME WebhookAssumption == Dedup!DedupAssumption

WebhookSpec == Dedup!Spec

(* The ledger is a lease (WebhookDedup).                                   *)
LeaseSpec == Dedup!LeaseSpec

(* An event is applied once, but for runs cut off (WebhookDedup).          *)
AppliedOnceUnlessCutOff == Dedup!AppliedOnceUnlessCutOff

(* The hope of a comment that is not kept (WebhookDedup).                  *)
AckedIsInHand == Dedup!AckedIsInHand

WebhookSymmetry == Permutations(Deliveries)
=============================================================================
