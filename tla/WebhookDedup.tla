---------------------------- MODULE WebhookDedup ----------------------------
(***************************************************************************)
(* One Stripe event and its deliveries to POST /api/stripe/webhook:        *)
(* handleWebhookEvent (stripe-service.ts) over stripe_webhook_events       *)
(* (webhook-event-repo.ts).  Stripe delivers at least once, at any moment  *)
(* until it gives up; deliveries overlap and any of them may be killed     *)
(* between two statements.  Each statement of the repository is one step.  *)
(* Time is counted in whole units; the clocks of the function's instances  *)
(* agree.                                                                  *)
(***************************************************************************)
EXTENDS Integers, FiniteSets

CONSTANTS
    Deliveries,
    Timeout,        \* the function is killed after so long: 30 s
    StaleAfter,     \* WEBHOOK_CLAIM_STALE_MINUTES: 15 min
    Horizon,        \* Stripe delivers an event for so long: 3 days
    Retention,      \* WEBHOOK_EVENT_RETENTION_DAYS: 30 days
    MaxTime         \* bound on the clock

DedupAssumption ==
    /\ Timeout \in Nat /\ StaleAfter \in Nat /\ Horizon \in Nat /\ Retention \in Nat /\ MaxTime \in Nat
    /\ Timeout <= StaleAfter
    /\ Horizon + Timeout <= Retention

VARIABLES
    now,
    row,        \* the event's row in stripe_webhook_events
    place,      \* where each delivery is
    since,      \* claimedAt of each delivery
    acked,      \* Stripe has seen a 200
    applied,    \* how often the handler ran to its end
    recorded    \* how often finalize ran

vars == <<now, row, place, since, acked, applied, recorded>>

NoRow  == [result |-> "none", at |-> 0, retries |-> 0]
Places == {"unsent", "received", "handling", "handled", "failed", "skipping",
           "answered", "refused", "dead", "deadHandled"}

TypeOK ==
    /\ now \in Nat
    /\ row \in [result: {"processing", "final"}, at: Nat, retries: Nat] \cup {NoRow}
    /\ place \in [Deliveries -> Places]
    /\ since \in [Deliveries -> Nat]
    /\ acked \in BOOLEAN
    /\ applied \in Nat
    /\ recorded \in Nat

Init ==
    /\ now = 0
    /\ row = NoRow
    /\ place = [d \in Deliveries |-> "unsent"]
    /\ since = [d \in Deliveries |-> 0]
    /\ acked = FALSE
    /\ applied = 0
    /\ recorded = 0

-----------------------------------------------------------------------------
InFlight(d) == place[d] \in {"received", "handling", "handled", "failed", "skipping"}
Working(d)  == place[d] \in {"handling", "handled", "failed"}

Goes(d, to) == place' = [place EXCEPT ![d] = to]

(* Stripe delivers, also what it was already answered 200 for.             *)
Deliver(d) ==
    /\ place[d] = "unsent" /\ now <= Horizon
    /\ Goes(d, "received")
    /\ since' = [since EXCEPT ![d] = now]
    /\ UNCHANGED <<now, row, acked, applied, recorded>>

(* Variant: an old row is taken whatever its result.                       *)
FreeWhenOld(d) == row.result = "none" \/ row.at < since[d] - StaleAfter

(* Variant: any unfinished claim is taken over.                            *)
FreeWhenUnfinished(d) == row.result # "final"

(* No row, or a claim left behind by a delivery that must be dead.         *)
Free(d) == row.result = "none" \/ (row.result = "processing" /\ row.at < since[d] - StaleAfter)

(* claim: one INSERT ... ON CONFLICT DO UPDATE ... WHERE.                  *)
Claim(d) ==
    /\ place[d] = "received" /\ Free(d)
    /\ row' = [row EXCEPT !.result = "processing", !.at = since[d]]
    /\ Goes(d, "handling")
    /\ UNCHANGED <<now, since, acked, applied, recorded>>

Refuse(d) ==
    /\ place[d] = "received" /\ ~Free(d)
    /\ Goes(d, "skipping")
    /\ UNCHANGED <<now, row, since, acked, applied, recorded>>

(* incrementRetryCount, if the row is still there; then 200, which Stripe  *)
(* may or may not receive.                                                 *)
Skip(d) ==
    /\ place[d] = "skipping"
    /\ row' = IF row.result = "none" THEN row ELSE [row EXCEPT !.retries = @ + 1]
    /\ Goes(d, "answered")
    /\ acked' \in {acked, TRUE}
    /\ UNCHANGED <<now, since, applied, recorded>>

(* dispatchWebhookEvent returns, or throws.                                *)
Dispatch(d) ==
    /\ place[d] = "handling"
    /\ Goes(d, "handled")
    /\ applied' = applied + 1
    /\ UNCHANGED <<now, row, since, acked, recorded>>

Throw(d) ==
    /\ place[d] = "handling"
    /\ Goes(d, "failed")
    /\ UNCHANGED <<now, row, since, acked, applied, recorded>>

(* releaseClaim, which may itself fail; then 500.                          *)
Release(d) ==
    /\ place[d] = "failed"
    /\ row' \in {row, IF row.result = "processing" THEN NoRow ELSE row}
    /\ Goes(d, "refused")
    /\ UNCHANGED <<now, since, acked, applied, recorded>>

(* finalize, whoever holds the row; then 200.                              *)
Finalize(d) ==
    /\ place[d] = "handled"
    /\ row' = IF row.result = "none" THEN row ELSE [row EXCEPT !.result = "final", !.at = now]
    /\ Goes(d, "answered")
    /\ acked' \in {acked, TRUE}
    /\ recorded' = recorded + 1
    /\ UNCHANGED <<now, since, applied>>

(* The function is killed, or a statement outside the handler fails: no    *)
(* 200 leaves, and the row stays as it is.                                 *)
Die(d) ==
    /\ InFlight(d)
    /\ Goes(d, IF place[d] = "handled" THEN "deadHandled" ELSE "dead")
    /\ UNCHANGED <<now, row, since, acked, applied, recorded>>

(* deleteOlderThan, daily.                                                 *)
Purge ==
    /\ row.result # "none" /\ row.at < now - Retention
    /\ row' = NoRow
    /\ UNCHANGED <<now, place, since, acked, applied, recorded>>

(* Time passes; no delivery outlives the timeout.                          *)
Tick ==
    /\ now < MaxTime
    /\ \A d \in Deliveries : InFlight(d) => now < since[d] + Timeout
    /\ now' = now + 1
    /\ UNCHANGED <<row, place, since, acked, applied, recorded>>

Next ==
    \/ \E d \in Deliveries :
          \/ Deliver(d) \/ Claim(d) \/ Refuse(d) \/ Skip(d)
          \/ Dispatch(d) \/ Throw(d) \/ Release(d) \/ Finalize(d) \/ Die(d)
    \/ Purge
    \/ Tick

Spec == Init /\ [][Next]_vars

-----------------------------------------------------------------------------
(* Properties.                                                             *)

Lease == INSTANCE WebhookLease WITH
    working <- {d \in Deliveries : Working(d)}, finished <- recorded > 0

(* The ledger is a lease: however deliveries overlap, die, take over the   *)
(* claim of a dead one or outlive the row, one works at a time and none    *)
(* after the completion was recorded.                                      *)
LeaseSpec == Lease!LeaseSpec

(* The handler runs to its end twice only when a run that ended could not  *)
(* be recorded.                                                            *)
AppliedOnceUnlessCutOff ==
    applied <= 1 + Cardinality({d \in Deliveries : place[d] = "deadHandled"})

(* stripe-service.ts: the wait for the stale claim never costs the chance  *)
(* to recover, so an event Stripe was told 200 for is completed or in the  *)
(* hands of a delivery.                                                    *)
AckedIsInHand == acked => recorded > 0 \/ \E d \in Deliveries : Working(d)
=============================================================================
