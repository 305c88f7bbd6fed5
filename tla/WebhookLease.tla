---------------------------- MODULE WebhookLease ----------------------------
(***************************************************************************)
(* What the claim ledger of handleWebhookEvent (stripe-service.ts)         *)
(* promises of one Stripe event, however often it is delivered: one        *)
(* delivery at a time works on it, and none once the ledger has recorded   *)
(* its completion.                                                         *)
(***************************************************************************)
CONSTANT Deliveries

VARIABLES
    working,    \* the deliveries inside the handler
    finished    \* the event was recorded as completed

leaseVars == <<working, finished>>

LeaseInit == working = {} /\ finished = FALSE

Take(d) ==
    /\ working = {} /\ ~finished
    /\ working' = {d}
    /\ UNCHANGED finished

(* The handler threw, or died.                                             *)
Drop(d) ==
    /\ working' = working \ {d}
    /\ UNCHANGED finished

Complete(d) ==
    /\ d \in working
    /\ working' = working \ {d}
    /\ finished' = TRUE

LeaseNext == \E d \in Deliveries : Take(d) \/ Drop(d) \/ Complete(d)

LeaseSpec == LeaseInit /\ [][LeaseNext]_leaseVars
=============================================================================
