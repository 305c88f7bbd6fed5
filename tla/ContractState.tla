--------------------------- MODULE ContractState ----------------------------
(***************************************************************************)
(* The contract columns of one family (families.status, plan,              *)
(* stripe_subscription_id, plan_expires_at, stripe_customer_id) under the  *)
(* webhook handlers of stripe-service.ts and the return from checkout.     *)
(* Stripe's events arrive in any order, handlers overlap, and an event     *)
(* whose completion was not recorded arrives again (WebhookDedup).  A      *)
(* handler asks Stripe, reads the family, decides, and writes; other       *)
(* handlers may write in between.  "none" stands for no plan, and for a    *)
(* plan the code does not know.                                            *)
(***************************************************************************)
EXTENDS Integers, FiniteSets

CONSTANTS
    Subs,           \* subscriptions a checkout may create, and their customers
    Plans,
    MaxChanges,     \* bound: what happens at Stripe
    MaxHandlers     \* bound: how many handlers overlap

ASSUME ContractAssumption ==
    /\ MaxChanges \in Nat
    /\ MaxHandlers \in Nat \ {0}
    /\ "none" \notin Subs \cup Plans

VARIABLES
    tenant,     \* the row of families
    stripe,     \* the subscriptions as Stripe has them
    sent,       \* events Stripe will deliver
    handling,   \* handlers under way
    changes,    \* how much has happened at Stripe, which serves as the time
    past,       \* history: what each subscription has been at Stripe
    blind       \* history: a handler wrote to a row that was not as it read it

vars == <<tenant, stripe, sent, handling, changes, past, blind>>

Statuses    == {"active", "grace_period", "suspended"}
StripeLives == {"active", "past_due", "unpaid"}
StripeSaid  == StripeLives \cup {"none", "open", "canceled"}
Columns     == {"status", "plan", "sub", "exp", "customer"}
EventTypes  == {"checkout", "paid", "failed", "updated", "deleted", "reconcile"}

SubOrNone  == Subs \cup {"none"}
PlanOrNone == Plans \cup {"none"}

(* Events that say the same are one, which may come again.                 *)
Event == [type: EventTypes, sub: Subs, status: StripeSaid, plan: PlanOrNone]

TenantRow    == [status: Statuses, plan: PlanOrNone, sub: SubOrNone, exp: 0 .. MaxChanges,
                 customer: SubOrNone]
Subscription == [status: StripeSaid, plan: PlanOrNone, named: PlanOrNone, customer: SubOrNone]

TypeOK ==
    /\ tenant \in TenantRow
    /\ stripe \in [Subs -> Subscription]
    /\ sent \subseteq Event
    /\ Cardinality(handling) <= MaxHandlers
    /\ \A h \in handling : h.event \in Event /\ h.said \in Subscription /\ h.seen \in TenantRow
    /\ changes \in 0 .. MaxChanges
    /\ past \subseteq [sub: Subs, status: StripeLives \cup {"canceled"}, plan: PlanOrNone]
    /\ blind \in BOOLEAN

(* S1 of contract-state-matrix.md; exp = 0 stands for no date.             *)
NoContract == [status |-> "active", plan |-> "none", sub |-> "none", exp |-> 0, customer |-> "none"]

Init ==
    /\ tenant = NoContract
    /\ stripe = [s \in Subs |-> [status |-> "none", plan |-> "none", named |-> "none", customer |-> "none"]]
    /\ sent = {} /\ handling = {} /\ past = {}
    /\ changes = 0
    /\ blind = FALSE

-----------------------------------------------------------------------------
(* At Stripe.                                                              *)

(* createCheckoutSession, refused while the family has a subscription.  A  *)
(* session carries the price and, as metadata.planId, the plan by name.    *)
OpenCheckout(s, plan, named) ==
    /\ stripe[s].status = "none" /\ tenant.sub = "none"
    /\ named \in {plan, "none"}
    /\ stripe' = [stripe EXCEPT ![s] = [status |-> "open", plan |-> plan, named |-> named,
                     customer |-> IF tenant.customer = "none" THEN s ELSE tenant.customer]]
    /\ UNCHANGED <<tenant, sent, handling, changes, past, blind>>

(* The subscription is now as given; Stripe announces it.                  *)
Announced(s, status, plan, types) ==
    /\ changes < MaxChanges
    /\ changes' = changes + 1
    /\ stripe' = [stripe EXCEPT ![s].status = status, ![s].plan = plan]
    /\ past' = past \cup {[sub |-> s, status |-> status, plan |-> plan]}
    /\ sent' = sent \cup {[type |-> y, sub |-> s, status |-> status, plan |-> plan] : y \in types}
    /\ UNCHANGED <<tenant, handling, blind>>

CompleteCheckout(s) ==
    stripe[s].status = "open" /\ Announced(s, "active", stripe[s].plan, {"checkout", "paid"})

PaymentFails(s) ==
    stripe[s].status \in {"active", "past_due"} /\ Announced(s, "past_due", stripe[s].plan, {"failed", "updated"})

PaymentSucceeds(s) ==
    stripe[s].status \in {"past_due", "unpaid"} /\ Announced(s, "active", stripe[s].plan, {"paid", "updated"})

GoesUnpaid(s) ==
    stripe[s].status = "past_due" /\ Announced(s, "unpaid", stripe[s].plan, {"updated"})

ChangePlan(s, p) ==
    /\ stripe[s].status \in StripeLives /\ p # stripe[s].plan
    /\ Announced(s, stripe[s].status, p, {"updated"})

Cancel(s) ==
    stripe[s].status \in StripeLives /\ Announced(s, "canceled", stripe[s].plan, {"updated", "deleted"})

-----------------------------------------------------------------------------
(* What a handler writes: the columns it names, and no others.             *)

Date == changes

(* Variant: the plan is left as it was.                                    *)
TerminalWithoutPlan == [sub |-> "none", status |-> "suspended", exp |-> 0]

(* TERMINAL_CONTRACT_STATE                                                 *)
TerminalState == [sub |-> "none", plan |-> "none", status |-> "suspended", exp |-> 0]

(* planUpdateOrKeep: a plan that is not known leaves the column alone.     *)
WithPlan(patch, plan) ==
    IF plan = "none" THEN patch
    ELSE [c \in DOMAIN patch \cup {"plan"} |-> IF c = "plan" THEN plan ELSE patch[c]]

(* handleCheckoutCompleted, called by the webhook and by reconcile.        *)
AssignContract(s, plan, customer) ==
    WithPlan([customer |-> customer, sub |-> s, status |-> "active"], plan)

PaidPatch(plan) == WithPlan([status |-> "active", exp |-> 0], plan)

FailedPatch == [status |-> "grace_period", exp |-> Date]

(* planExpiresAtPatchFor: a date that stands is left alone.                *)
DatedStatus(said, seen) ==
    CASE said.status = "active"                      -> [status |-> "active", exp |-> 0]
      [] said.status = "past_due" /\ seen.exp = 0   -> [status |-> "grace_period", exp |-> Date]
      [] said.status = "past_due" /\ seen.exp > 0   -> [status |-> "grace_period"]
      [] said.status \notin {"active", "past_due"}  -> [status |-> "suspended"]

(* handleSubscriptionUpdated.                                              *)
UpdatedPatch(said, seen) ==
    IF said.status = "canceled" THEN TerminalState ELSE WithPlan(DatedStatus(said, seen), said.plan)

Patched(t, patch) == [c \in DOMAIN t |-> IF c \in DOMAIN patch THEN patch[c] ELSE t[c]]

-----------------------------------------------------------------------------
(* The handlers.                                                           *)

Stop(h) == handling' = handling \ {h}

(* The handler goes on to its write, with the row as it has read it.       *)
GoOn(h, row) == handling' = (handling \ {h}) \cup {[h EXCEPT !.at = "writing", !.seen = row]}

Starts(e, at, said) ==
    /\ Cardinality(handling) < MaxHandlers
    /\ handling' = handling \cup {[event |-> e, at |-> at, said |-> said, seen |-> NoContract]}
    /\ UNCHANGED <<tenant, stripe, changes, past, blind>>

(* checkout.session.completed assigns without reading.                     *)
ReceiveCheckout(e) ==
    /\ e.type = "checkout"
    /\ Starts(e, "writing", stripe[e.sub])
    /\ sent' = sent \ {e}

(* The invoice events carry no more than the subscription's id; it is      *)
(* retrieved from Stripe.                                                  *)
ReceiveInvoice(e) ==
    /\ e.type \in {"paid", "failed"}
    /\ Starts(e, "reading", stripe[e.sub])
    /\ sent' = sent \ {e}

(* The subscription events carry the subscription as it was.               *)
ReceiveSubscription(e) ==
    /\ e.type \in {"updated", "deleted"}
    /\ Starts(e, "reading", [stripe[e.sub] EXCEPT !.status = e.status, !.plan = e.plan])
    /\ sent' = sent \ {e}

(* Variant: applied to whatever contract the family has now.               *)
AppliesToAny(h) ==
    /\ h.event.type \in {"paid", "failed"} =>
          tenant.customer = h.said.customer /\ h.said.status # "canceled"

(* The family is found, by customer for invoices and by id for             *)
(* subscriptions; the event is dropped if the subscription has ended       *)
(* (invoices) or is not the family's current one.                          *)
Applies(h) ==
    /\ h.event.type \in {"paid", "failed"} =>
          tenant.customer = h.said.customer /\ h.said.status # "canceled"
    /\ tenant.sub = h.event.sub

Assigns(h) == h.event.type \in {"checkout", "reconcile"}

PatchOf(h) ==
    CASE Assigns(h)               -> AssignContract(h.event.sub, h.said.named, h.said.customer)
      [] h.event.type = "paid"    -> PaidPatch(h.said.plan)
      [] h.event.type = "failed"  -> FailedPatch
      [] h.event.type = "updated" -> UpdatedPatch(h.said, h.seen)
      [] h.event.type = "deleted" -> TerminalState

ReadTenant(h) ==
    /\ h.at = "reading"
    /\ IF Applies(h) THEN GoOn(h, tenant) ELSE Stop(h)
    /\ UNCHANGED <<tenant, stripe, sent, changes, past, blind>>

(* updateTenantStripe, in applyTenantContractState.  An event may then     *)
(* come again, if its completion is not recorded.                          *)
WriteTenant(h) ==
    /\ h.at = "writing"
    /\ tenant' = Patched(tenant, PatchOf(h))
    /\ blind' = (blind \/ (~Assigns(h) /\ h.seen # tenant))
    /\ Stop(h)
    /\ sent' \in {sent} \cup IF h.event.type = "reconcile" THEN {} ELSE {sent \cup {h.event}}
    /\ UNCHANGED <<stripe, changes, past>>

(* reconcileCheckoutSession: the parent is back from a paid checkout.      *)
StartReconcile(s) ==
    /\ stripe[s].status \notin {"none", "open"}
    /\ tenant.sub = "none"
    /\ Starts([type |-> "reconcile", sub |-> s, status |-> "none", plan |-> "none"], "checking", stripe[s])
    /\ UNCHANGED sent

(* The subscription is retrieved; one that has ended is not assigned.  The *)
(* plan assigned is the one the session names, whatever it has become.     *)
CheckReconcile(h) ==
    /\ h.at = "checking"
    /\ IF stripe[h.event.sub].status = "canceled" THEN Stop(h) ELSE GoOn(h, h.seen)
    /\ UNCHANGED <<tenant, stripe, sent, changes, past, blind>>

Next ==
    \/ \E s \in Subs :
          \/ \E p \in PlanOrNone : ChangePlan(s, p) \/ \E named \in PlanOrNone : OpenCheckout(s, p, named)
          \/ CompleteCheckout(s) \/ PaymentFails(s) \/ PaymentSucceeds(s) \/ GoesUnpaid(s) \/ Cancel(s)
          \/ StartReconcile(s)
    \/ \E e \in sent : ReceiveCheckout(e) \/ ReceiveInvoice(e) \/ ReceiveSubscription(e)
    \/ \E h \in handling : ReadTenant(h) \/ WriteTenant(h) \/ CheckReconcile(h)

Spec == Init /\ [][Next]_vars

-----------------------------------------------------------------------------
(* Properties.                                                             *)

(* contract-state-matrix.md calls it impossible that a plan stands on the  *)
(* row with no subscription (X1).                                          *)
NoPlanWithoutContract == tenant.plan # "none" => tenant.sub # "none"

(* A subscription without a plan is bound (X2) only where the session did  *)
(* not name a plan the code knows.                                         *)
NoContractWithoutPlan ==
    tenant.sub # "none" /\ tenant.plan = "none" => stripe[tenant.sub].named = "none"

(* The grace period has a contract (X4) and a date to it (S3).             *)
GraceHasContractAndDate ==
    tenant.status = "grace_period" => tenant.sub # "none" /\ tenant.exp > 0

(* The columns of the tenant agree with each other and are of their types, *)
(* whatever order the events of both subscriptions arrive in and however   *)
(* their handlers overlap, until a handler writes to a row that another    *)
(* has changed since it was read.                                          *)
ColumnsAgree ==
    TypeOK /\ (blind \/ (NoPlanWithoutContract /\ NoContractWithoutPlan /\ GraceHasContractAndDate))

(* An event about one subscription says nothing about another: the row of  *)
(* a family shows a grace, a suspension or a plan only if the subscription *)
(* it is bound to has been past due, unpaid or of that plan (the plan of a *)
(* session that names none is left from before).                           *)
RowShowsItsContract ==
    blind \/ tenant.sub = "none" \/
        LET was == {x \in past : x.sub = tenant.sub}
        IN  /\ tenant.status = "grace_period" => \E x \in was : x.status = "past_due"
            /\ tenant.status = "suspended" => \E x \in was : x.status = "unpaid"
            /\ stripe[tenant.sub].named # "none" => \E x \in was : x.plan = tenant.plan

(* The comments of stripe-service.ts.                                      *)

(* "the final state agrees regardless of the order of arrival": once       *)
(* everything has arrived, the family is not bound to a subscription that  *)
(* has ended.                                                              *)
EndedContractStaysEnded ==
    sent = {} /\ handling = {} => \A s \in Subs : stripe[s].status = "canceled" => tenant.sub # s

(* "reconcile may fill in or confirm a binding, never replace one".        *)
ReconcileNeverReplaces ==
    [][\A h \in handling :
          h \notin handling' /\ h.at = "writing" /\ h.event.type = "reconcile" =>
              tenant.sub \in {"none", h.event.sub}]_vars

(* "rewritten on every retry, the grace would go on and on": while the     *)
(* grace lasts its date stands.                                            *)
GraceDateStands ==
    [][tenant.status = "grace_period" /\ tenant'.status = "grace_period" /\ tenant'.sub = tenant.sub =>
          tenant'.exp = tenant.exp]_vars
=============================================================================
