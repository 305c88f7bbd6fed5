---------------------------- MODULE TenantProofs ----------------------------
(***************************************************************************)
(* What happens to a whole family: its contract, the ledger of the events  *)
(* that Stripe sends about it, its exports, and its end.  The contract is  *)
(* the module extended; the other three are the instances of the modules   *)
(* that TLC runs, with the assumptions stated there.  tlapm does not carry *)
(* an assumption into an instance, so lemmas name it as a hypothesis and   *)
(* the theorems cite it.                                                   *)
(*                                                                         *)
(* Contract: the types, that plan, subscription, status and date agree     *)
(* with each other, and that the row shows nothing its own subscription    *)
(* has not been at Stripe, for any number of subscriptions, plans, events  *)
(* and handlers that overlap.                                              *)
(***************************************************************************)
EXTENDS MCContractState, MCWebhookDedup, MCCloudExport, MCAccountDeletion, FiniteSetTheorems, TLAPS

USE ContractAssumption

(* What a subscription has been at Stripe, once it was paid for.           *)
Begun(s)             == stripe[s].status \notin {"none", "open"}
Was(s, status, plan) == [sub |-> s, status |-> status, plan |-> plan] \in past
HadPlan(s, plan)     == \E x \in past : x.sub = s /\ x.plan = plan

SubscriptionFine(s) ==
    /\ Begun(s) => Was(s, stripe[s].status, stripe[s].plan)
    /\ Begun(s) /\ stripe[s].named # "none" => HadPlan(s, stripe[s].named)
    /\ stripe[s].status = "open" => stripe[s].named \in {stripe[s].plan, "none"}

(* An event says what its subscription has been.                           *)
EventFine(e) ==
    /\ e \in Event /\ e.type # "reconcile"
    /\ Begun(e.sub) /\ Was(e.sub, e.status, e.plan)
    /\ e.type = "failed" => e.status = "past_due"

(* So does a handler; one that writes to a contract has found it to be the *)
(* family's.                                                               *)
HandlerFine(h) ==
    /\ h \in [event: Event, at: {"reading", "checking", "writing"}, said: Subscription, seen: TenantRow]
    /\ Begun(h.event.sub) /\ Was(h.event.sub, h.said.status, h.said.plan)
    /\ h.said.named = stripe[h.event.sub].named
    /\ h.event.type # "reconcile" => EventFine(h.event)
    /\ h.at = "reading" => ~Assigns(h)
    /\ h.at = "checking" => h.event.type = "reconcile"
    /\ h.at = "writing" /\ ~Assigns(h) => h.seen.sub = h.event.sub

Typed ==
    /\ tenant \in TenantRow
    /\ tenant.sub # "none" => Begun(tenant.sub)
    /\ stripe \in [Subs -> Subscription]
    /\ \A s \in Subs : SubscriptionFine(s)
    /\ \A e \in sent : EventFine(e)
    /\ \A h \in handling : HandlerFine(h)
    /\ IsFiniteSet(handling) /\ Cardinality(handling) <= MaxHandlers
    /\ changes \in 0 .. MaxChanges
    /\ past \subseteq [sub: Subs, status: StripeLives \cup {"canceled"}, plan: PlanOrNone]
    /\ past # {} => changes >= 1
    /\ blind \in BOOLEAN

(* What the properties say of the row.                                     *)
Agrees(t) ==
    /\ t.plan # "none" => t.sub # "none"
    /\ t.sub # "none" /\ t.plan = "none" => stripe[t.sub].named = "none"
    /\ t.status = "grace_period" => t.sub # "none" /\ t.exp > 0

Shows(t) ==
    t.sub # "none" =>
        /\ t.status = "grace_period" => \E x \in past : x.sub = t.sub /\ x.status = "past_due"
        /\ t.status = "suspended" => \E x \in past : x.sub = t.sub /\ x.status = "unpaid"
        /\ stripe[t.sub].named # "none" => HadPlan(t.sub, t.plan)

Sound == blind \/ (Agrees(tenant) /\ Shows(tenant))

-----------------------------------------------------------------------------
(* What happens at Stripe takes nothing back.                              *)
Onward ==
    /\ past \subseteq past'
    /\ \A s \in Subs : Begun(s) => Begun(s)' /\ stripe'[s].named = stripe[s].named

LEMMA EventsStay ==
    ASSUME Onward, NEW e, EventFine(e)
    PROVE  EventFine(e)'
<1>1. e \in Event /\ e.sub \in Subs
  BY DEF EventFine, Event
<1> QED BY <1>1 DEF Onward, EventFine, Was

LEMMA HandlersStay ==
    ASSUME Onward, NEW h, HandlerFine(h)
    PROVE  HandlerFine(h)'
<1>1. h.event \in Event /\ h.event.sub \in Subs
  BY DEF HandlerFine, Event
<1>2. h.event.type # "reconcile" => EventFine(h.event)'
  BY EventsStay DEF HandlerFine
<1> QED BY <1>1, <1>2 DEF Onward, HandlerFine, Was, Assigns

LEMMA RowStays ==
    ASSUME Onward, NEW t \in TenantRow, t.sub # "none" => Begun(t.sub)
    PROVE  /\ t.sub # "none" => Begun(t.sub)'
           /\ Agrees(t) => Agrees(t)'
           /\ Shows(t) => Shows(t)'
<1>1. t.sub # "none" => t.sub \in Subs
  BY DEF TenantRow, SubOrNone
<1> QED BY <1>1 DEF Onward, Agrees, Shows, HadPlan

LEMMA Same ==
    ASSUME UNCHANGED <<stripe, past>>
    PROVE  /\ Onward
           /\ \A s \in Subs : SubscriptionFine(s) => SubscriptionFine(s)'
BY DEF Onward, SubscriptionFine, Begun, Was, HadPlan

(* What happens at Stripe.                                                 *)
LEMMA AnnouncedStep ==
    ASSUME Typed, Sound, NEW s \in Subs, NEW status \in StripeLives \cup {"canceled"},
           NEW plan \in PlanOrNone,
           NEW types \in SUBSET {"checkout", "paid", "failed", "updated", "deleted"},
           "failed" \in types => status = "past_due",
           Begun(s) \/ (stripe[s].status = "open" /\ plan = stripe[s].plan),
           Announced(s, status, plan, types)
    PROVE  Typed' /\ Sound'
<1>1. changes' \in 0 .. MaxChanges /\ changes' = changes + 1 /\ changes' >= 1
  BY DEF Typed, Announced
<1>2. /\ stripe' \in [Subs -> Subscription]
      /\ \A r \in Subs : /\ stripe'[r].status = IF r = s THEN status ELSE stripe[r].status
                         /\ stripe'[r].plan = IF r = s THEN plan ELSE stripe[r].plan
                         /\ stripe'[r].named = stripe[r].named
  <2>1. [stripe[s] EXCEPT !.status = status, !.plan = plan] \in Subscription
    BY DEF Typed, Subscription, StripeSaid
  <2>2. stripe' = [stripe EXCEPT ![s] = [stripe[s] EXCEPT !.status = status, !.plan = plan]]
    BY DEF Typed, Announced
  <2> QED BY <2>1, <2>2 DEF Typed, Subscription
<1> DEFINE x == [sub |-> s, status |-> status, plan |-> plan]
<1>3. past' = past \cup {x}
  BY DEF Announced
<1>4. Begun(s)' /\ \A r \in Subs : Begun(r) => Begun(r)'
  BY <1>2 DEF Begun, StripeLives
<1>5. Onward
  BY <1>2, <1>3, <1>4 DEF Onward
<1>6. past' \subseteq [sub: Subs, status: StripeLives \cup {"canceled"}, plan: PlanOrNone]
  BY <1>3 DEF Typed
<1>7. ASSUME NEW r \in Subs PROVE SubscriptionFine(r)'
  <2>1. SubscriptionFine(r)
    BY DEF Typed
  <2>2. CASE r # s
    <3>1. stripe'[r].status = stripe[r].status /\ stripe'[r].plan = stripe[r].plan /\ stripe'[r].named = stripe[r].named
      BY <1>2, <2>2
    <3> QED BY <2>1, <3>1, <1>3 DEF SubscriptionFine, Begun, Was, HadPlan
  <2>3. CASE r = s
    <3>1. stripe'[s].status = status /\ stripe'[s].plan = plan /\ stripe'[s].named = stripe[s].named
      BY <1>2
    <3>2. Was(s, status, plan)'
      BY <1>3 DEF Was
    <3>3. stripe[s].named # "none" => \E y \in past' : y.sub = s /\ y.plan = stripe[s].named
      <4>1. CASE Begun(s)
        BY <2>1, <2>3, <4>1, <1>3 DEF SubscriptionFine, HadPlan
      <4>2. CASE stripe[s].status = "open" /\ plan = stripe[s].plan
        <5>1. x \in past' /\ x.sub = s /\ x.plan = plan
          BY <1>3
        <5>2. stripe[s].named \in {plan, "none"}
          BY <2>1, <2>3, <4>2 DEF SubscriptionFine
        <5> HIDE DEF x
        <5> QED BY <5>1, <5>2
      <4> QED BY <4>1, <4>2
    <3>4. stripe'[s].status # "open"
      BY <3>1 DEF StripeLives
    <3> HIDE DEF x
    <3> QED BY <2>3, <3>1, <3>2, <3>3, <3>4 DEF SubscriptionFine, Begun, Was, HadPlan
  <2> QED BY <2>2, <2>3
<1>8. ASSUME NEW e \in sent' PROVE EventFine(e)'
  <2>1. CASE e \in sent
    BY <2>1, <1>5, EventsStay DEF Typed
  <2>2. CASE e \notin sent
    <3>1. PICK y \in types : e = [type |-> y, sub |-> s, status |-> status, plan |-> plan]
      BY <2>2 DEF Announced
    <3>2. e \in Event /\ e.type # "reconcile" /\ (e.type = "failed" => e.status = "past_due")
      BY <3>1 DEF Event, EventTypes, StripeSaid
    <3>3. e.sub = s /\ Was(e.sub, e.status, e.plan)'
      BY <3>1, <1>3 DEF Was
    <3> QED BY <1>4, <3>2, <3>3 DEF EventFine
  <2> QED BY <2>1, <2>2
<1>9. handling' = handling /\ tenant' = tenant /\ blind' = blind
  BY DEF Announced
<1>10. \A h \in handling' : HandlerFine(h)'
  BY <1>5, <1>9, HandlersStay DEF Typed
<1>11. (tenant.sub # "none" => Begun(tenant.sub)') /\ Sound'
  BY <1>5, <1>9, RowStays DEF Typed, Sound, Agrees, Shows
<1> QED BY <1>1, <1>2, <1>6, <1>7, <1>8, <1>9, <1>10, <1>11 DEF Typed, Begun

LEMMA OpenStep ==
    ASSUME Typed, Sound, NEW s \in Subs, NEW plan \in PlanOrNone, NEW named \in PlanOrNone,
           OpenCheckout(s, plan, named)
    PROVE  Typed' /\ Sound'
<1>1. [status |-> "open", plan |-> plan, named |-> named,
       customer |-> IF tenant.customer = "none" THEN s ELSE tenant.customer] \in Subscription
  BY DEF Typed, TenantRow, Subscription, StripeSaid, SubOrNone
<1>2. /\ stripe' \in [Subs -> Subscription]
      /\ stripe'[s].status = "open" /\ stripe'[s].plan = plan /\ stripe'[s].named = named
      /\ \A r \in Subs \ {s} : stripe'[r] = stripe[r]
  BY <1>1 DEF OpenCheckout, Typed
<1>3. UNCHANGED <<tenant, sent, handling, changes, past, blind>> /\ ~Begun(s) /\ named \in {plan, "none"}
  BY DEF OpenCheckout, Begun
<1>4. Onward
  BY <1>2, <1>3 DEF Onward, Begun
<1>5. ASSUME NEW r \in Subs PROVE SubscriptionFine(r)'
  <2>1. CASE r = s
    BY <2>1, <1>2, <1>3 DEF SubscriptionFine, Begun
  <2>2. CASE r # s
    <3>1. stripe'[r] = stripe[r] /\ SubscriptionFine(r)
      BY <2>2, <1>2 DEF Typed
    <3> QED BY <3>1, <1>3 DEF SubscriptionFine, Begun, Was, HadPlan
  <2> QED BY <2>1, <2>2
<1>6. (\A e \in sent' : EventFine(e)') /\ \A h \in handling' : HandlerFine(h)'
  BY <1>3, <1>4, EventsStay, HandlersStay DEF Typed
<1>7. (tenant.sub # "none" => Begun(tenant.sub)') /\ Sound'
  BY <1>3, <1>4, RowStays DEF Typed, Sound, Agrees, Shows
<1> QED BY <1>2, <1>3, <1>5, <1>6, <1>7 DEF Typed, Begun

-----------------------------------------------------------------------------
(* What a handler writes.                                                  *)
LEMMA PatchedIs ==
    ASSUME NEW t \in TenantRow, NEW patch, DOMAIN patch \subseteq Columns
    PROVE  LET row == Patched(t, patch)
           IN  /\ row = [status |-> row.status, plan |-> row.plan, sub |-> row.sub, exp |-> row.exp,
                         customer |-> row.customer]
               /\ row.status   = IF "status" \in DOMAIN patch THEN patch.status ELSE t.status
               /\ row.plan     = IF "plan" \in DOMAIN patch THEN patch.plan ELSE t.plan
               /\ row.sub      = IF "sub" \in DOMAIN patch THEN patch.sub ELSE t.sub
               /\ row.exp      = IF "exp" \in DOMAIN patch THEN patch.exp ELSE t.exp
               /\ row.customer = IF "customer" \in DOMAIN patch THEN patch.customer ELSE t.customer
<1>1. DOMAIN t = {"status", "plan", "sub", "exp", "customer"}
  BY DEF TenantRow
<1>2. Patched(t, patch) = [c \in {"status", "plan", "sub", "exp", "customer"} |->
                              IF c \in DOMAIN patch THEN patch[c] ELSE t[c]]
  BY <1>1 DEF Patched
<1> QED BY <1>2

(* A plan that is known is written beside the rest.                        *)
LEMMA WithPlanIs ==
    ASSUME NEW patch, DOMAIN patch \subseteq Columns \ {"plan"}, NEW plan
    PROVE  LET p == WithPlan(patch, plan)
           IN  /\ DOMAIN p \subseteq Columns
               /\ \A c \in Columns \ {"plan"} : (c \in DOMAIN p <=> c \in DOMAIN patch)
               /\ \A c \in DOMAIN patch : p[c] = patch[c]
               /\ "plan" \in DOMAIN p <=> plan # "none"
               /\ "plan" \in DOMAIN p => p["plan"] = plan
<1>1. CASE plan = "none"
  BY <1>1 DEF WithPlan
<1>2. CASE plan # "none"
  BY <1>2 DEF WithPlan, Columns
<1> QED BY <1>1, <1>2

(* The row after a patch that names status, and perhaps other columns, and *)
(* the plan if it is known.                                                *)
LEMMA PlannedIs ==
    ASSUME NEW t \in TenantRow, NEW patch, DOMAIN patch \subseteq Columns \ {"plan"},
           NEW plan \in PlanOrNone
    PROVE  LET row == Patched(t, WithPlan(patch, plan))
           IN  /\ row = [status |-> row.status, plan |-> row.plan, sub |-> row.sub, exp |-> row.exp,
                         customer |-> row.customer]
               /\ row.status   = IF "status" \in DOMAIN patch THEN patch["status"] ELSE t.status
               /\ row.sub      = IF "sub" \in DOMAIN patch THEN patch["sub"] ELSE t.sub
               /\ row.exp      = IF "exp" \in DOMAIN patch THEN patch["exp"] ELSE t.exp
               /\ row.customer = IF "customer" \in DOMAIN patch THEN patch["customer"] ELSE t.customer
               /\ row.plan     = IF plan = "none" THEN t.plan ELSE plan
<1> DEFINE p == WithPlan(patch, plan)
<1>1. /\ DOMAIN p \subseteq Columns
      /\ \A c \in Columns \ {"plan"} : (c \in DOMAIN p <=> c \in DOMAIN patch)
      /\ \A c \in DOMAIN patch : p[c] = patch[c]
      /\ "plan" \in DOMAIN p <=> plan # "none"
      /\ "plan" \in DOMAIN p => p["plan"] = plan
  BY WithPlanIs
<1> HIDE DEF p
<1>2. LET row == Patched(t, p)
      IN  /\ row = [status |-> row.status, plan |-> row.plan, sub |-> row.sub, exp |-> row.exp,
                    customer |-> row.customer]
          /\ row.status   = IF "status" \in DOMAIN p THEN p.status ELSE t.status
          /\ row.plan     = IF "plan" \in DOMAIN p THEN p.plan ELSE t.plan
          /\ row.sub      = IF "sub" \in DOMAIN p THEN p.sub ELSE t.sub
          /\ row.exp      = IF "exp" \in DOMAIN p THEN p.exp ELSE t.exp
          /\ row.customer = IF "customer" \in DOMAIN p THEN p.customer ELSE t.customer
  BY <1>1, PatchedIs
<1>3. {"status", "sub", "exp", "customer"} \subseteq Columns \ {"plan"}
  BY DEF Columns
<1> QED BY <1>1, <1>2, <1>3 DEF p

(* A contract is assigned; the plan only if the session names it.          *)
LEMMA AssignedRow ==
    ASSUME NEW t \in TenantRow, NEW h, HandlerFine(h), Assigns(h)
    PROVE  LET row == Patched(t, PatchOf(h))
           IN  /\ row \in TenantRow /\ row.sub = h.event.sub /\ row.status = "active"
               /\ row.plan = IF h.said.named = "none" THEN t.plan ELSE h.said.named
<1> DEFINE patch == [customer |-> h.said.customer, sub |-> h.event.sub, status |-> "active"]
           row   == Patched(t, WithPlan(patch, h.said.named))
<1>1. h.said \in Subscription /\ h.event \in Event
  BY DEF HandlerFine
<1>2. h.said.named \in PlanOrNone /\ h.said.customer \in SubOrNone /\ h.event.sub \in Subs
  BY <1>1 DEF Subscription, Event
<1>3. /\ DOMAIN patch = {"customer", "sub", "status"}
      /\ patch["customer"] = h.said.customer /\ patch["sub"] = h.event.sub /\ patch["status"] = "active"
  OBVIOUS
<1> HIDE DEF patch
<1>4. /\ row = [status |-> row.status, plan |-> row.plan, sub |-> row.sub, exp |-> row.exp, customer |-> row.customer]
      /\ row.status = "active" /\ row.sub = h.event.sub /\ row.exp = t.exp /\ row.customer = h.said.customer
      /\ row.plan = IF h.said.named = "none" THEN t.plan ELSE h.said.named
  BY <1>2, <1>3, PlannedIs DEF Columns
<1> HIDE DEF row
<1>5. row \in TenantRow
  BY <1>2, <1>4 DEF TenantRow, Statuses, SubOrNone
<1>6. row = Patched(t, PatchOf(h))
  BY DEF PatchOf, AssignContract, Assigns, row, patch
<1> QED BY <1>4, <1>5, <1>6

(* The event of a contract names status and date; the terminal state all   *)
(* the columns.  A grace has a date if the row was as it was read.         *)
LEMMA ContractRow ==
    ASSUME Typed, NEW h \in handling, h.at = "writing", ~Assigns(h)
    PROVE  LET row == Patched(tenant, PatchOf(h))
           IN  /\ row \in TenantRow
               /\ \/ row.sub = "none" /\ row.plan = "none" /\ row.status = "suspended"
                  \/ /\ row.sub = tenant.sub
                     /\ row.plan = tenant.plan \/ (row.plan # "none" /\ row.plan = h.said.plan)
                     /\ row.status = "suspended" => h.said.status = "unpaid"
                     /\ row.status = "grace_period" =>
                           /\ h.said.status = "past_due" \/ h.event.type = "failed"
                           /\ h.seen = tenant => row.exp > 0
<1> DEFINE row == Patched(tenant, PatchOf(h))
<1>1. /\ HandlerFine(h) /\ tenant \in TenantRow /\ past # {} /\ changes \in 1 .. MaxChanges
      /\ h.event.type \in {"paid", "failed", "updated", "deleted"}
  BY DEF Typed, HandlerFine, Was, Assigns, Event, EventTypes
<1>2. h.said.plan \in PlanOrNone /\ h.said.status \in StripeLives \cup {"canceled"} /\ h.seen \in TenantRow
  <2>1. h.said \in Subscription /\ h.event \in Event /\ h.seen \in TenantRow
    BY <1>1 DEF HandlerFine
  <2>2. [sub |-> h.event.sub, status |-> h.said.status, plan |-> h.said.plan]
            \in [sub: Subs, status: StripeLives \cup {"canceled"}, plan: PlanOrNone]
    BY <1>1 DEF HandlerFine, Was, Typed
  <2> QED BY <2>1, <2>2
<1>3. CASE PatchOf(h) = TerminalState
  <2>1. /\ row = [status |-> row.status, plan |-> row.plan, sub |-> row.sub, exp |-> row.exp, customer |-> row.customer]
        /\ row.status = "suspended" /\ row.plan = "none" /\ row.sub = "none" /\ row.exp = 0
        /\ row.customer = tenant.customer
    BY <1>1, <1>3, PatchedIs DEF TerminalState, Columns
  <2>2. row \in TenantRow
    BY <1>1, <2>1 DEF TenantRow, Statuses, PlanOrNone, SubOrNone
  <2> QED BY <2>1, <2>2
<1>4. CASE PatchOf(h) = FailedPatch /\ h.event.type = "failed"
  <2>1. /\ row = [status |-> row.status, plan |-> row.plan, sub |-> row.sub, exp |-> row.exp, customer |-> row.customer]
        /\ row.status = "grace_period" /\ row.plan = tenant.plan /\ row.sub = tenant.sub /\ row.exp = changes
        /\ row.customer = tenant.customer
    BY <1>1, <1>4, PatchedIs DEF FailedPatch, Date, Columns
  <2>2. row \in TenantRow
    BY <1>1, <2>1 DEF TenantRow, Statuses
  <2> QED BY <1>1, <1>4, <2>1, <2>2
<1>5. ASSUME NEW patch, PatchOf(h) = WithPlan(patch, h.said.plan),
             DOMAIN patch \subseteq {"status", "exp"}, "status" \in DOMAIN patch,
             patch["status"] \in Statuses, "exp" \in DOMAIN patch => patch["exp"] \in 0 .. MaxChanges,
             patch["status"] = "suspended" => h.said.status = "unpaid",
             patch["status"] = "grace_period" =>
                 /\ h.said.status = "past_due"
                 /\ IF "exp" \in DOMAIN patch THEN patch["exp"] > 0 ELSE h.seen.exp > 0
      PROVE  /\ row \in TenantRow
             /\ row.sub = tenant.sub
             /\ row.plan = tenant.plan \/ (row.plan # "none" /\ row.plan = h.said.plan)
             /\ row.status = "suspended" => h.said.status = "unpaid"
             /\ row.status = "grace_period" =>
                   h.said.status = "past_due" /\ (h.seen = tenant => row.exp > 0)
  <2>1. /\ row = [status |-> row.status, plan |-> row.plan, sub |-> row.sub, exp |-> row.exp, customer |-> row.customer]
        /\ row.status = patch["status"] /\ row.sub = tenant.sub /\ row.customer = tenant.customer
        /\ row.exp = IF "exp" \in DOMAIN patch THEN patch["exp"] ELSE tenant.exp
        /\ row.plan = IF h.said.plan = "none" THEN tenant.plan ELSE h.said.plan
    BY <1>1, <1>2, <1>5, PlannedIs DEF Columns
  <2>2. row \in TenantRow
    BY <1>1, <1>2, <1>5, <2>1 DEF TenantRow
  <2> QED BY <1>5, <2>1, <2>2
<1>6. CASE h.event.type = "paid"
  <2> DEFINE patch == [status |-> "active", exp |-> 0]
  <2>1. /\ DOMAIN patch = {"status", "exp"} /\ patch["status"] = "active" /\ patch["exp"] = 0
        /\ PatchOf(h) = WithPlan(patch, h.said.plan)
    BY <1>6 DEF PatchOf, PaidPatch, Assigns
  <2> HIDE DEF patch
  <2> QED BY <2>1, <1>5 DEF Statuses
<1>7. CASE h.event.type = "updated" /\ h.said.status # "canceled"
  <2> DEFINE patch == DatedStatus(h.said, h.seen)
  <2>1. PatchOf(h) = WithPlan(patch, h.said.plan)
    BY <1>7 DEF PatchOf, UpdatedPatch, Assigns
  <2>2. h.seen.exp \in 0 .. MaxChanges
    BY <1>2 DEF TenantRow
  <2>3. /\ DOMAIN patch \subseteq {"status", "exp"} /\ "status" \in DOMAIN patch
        /\ patch["status"] \in Statuses /\ ("exp" \in DOMAIN patch => patch["exp"] \in 0 .. MaxChanges)
        /\ patch["status"] = "suspended" => h.said.status = "unpaid"
        /\ patch["status"] = "grace_period" =>
              /\ h.said.status = "past_due"
              /\ IF "exp" \in DOMAIN patch THEN patch["exp"] > 0 ELSE h.seen.exp > 0
    <3>1. CASE h.said.status = "active"
      <4>1. patch = [status |-> "active", exp |-> 0]
        BY <3>1 DEF DatedStatus
      <4> QED BY <4>1 DEF Statuses
    <3>2. CASE h.said.status = "past_due" /\ h.seen.exp = 0
      <4>1. patch = [status |-> "grace_period", exp |-> changes]
        BY <3>2 DEF DatedStatus, Date
      <4> QED BY <4>1, <3>2, <1>1 DEF Statuses
    <3>3. CASE h.said.status = "past_due" /\ h.seen.exp > 0
      <4>1. patch = [status |-> "grace_period"]
        BY <3>3 DEF DatedStatus
      <4> QED BY <4>1, <3>3 DEF Statuses
    <3>4. CASE h.said.status = "unpaid"
      <4>1. patch = [status |-> "suspended"]
        BY <3>4 DEF DatedStatus
      <4> QED BY <4>1, <3>4 DEF Statuses
    <3> QED BY <1>2, <1>7, <2>2, <3>1, <3>2, <3>3, <3>4 DEF StripeLives
  <2> HIDE DEF patch
  <2> QED BY <2>1, <2>3, <1>5
<1>8. CASE h.event.type = "failed"
  BY <1>8, <1>4 DEF PatchOf, Assigns
<1>9. CASE h.event.type = "deleted" \/ (h.event.type = "updated" /\ h.said.status = "canceled")
  BY <1>9, <1>3 DEF PatchOf, UpdatedPatch, Assigns
<1> QED BY <1>1, <1>6, <1>7, <1>8, <1>9

LEMMA WrittenIsSound ==
    ASSUME Typed, Sound, NEW h \in handling, h.at = "writing",
           blind' = (blind \/ (~Assigns(h) /\ h.seen # tenant))
    PROVE  LET row == Patched(tenant, PatchOf(h))
           IN  /\ row \in TenantRow
               /\ row.sub # "none" => Begun(row.sub)
               /\ blind' \/ (Agrees(row) /\ Shows(row))
<1> DEFINE row == Patched(tenant, PatchOf(h))
<1>1. /\ HandlerFine(h) /\ tenant \in TenantRow /\ h.event \in Event /\ h.event.sub \in Subs
      /\ SubscriptionFine(h.event.sub) /\ Begun(h.event.sub) /\ h.event.sub # "none"
  BY DEF Typed, HandlerFine, Event
<1>2. CASE Assigns(h)
  <2>1. /\ row \in TenantRow /\ row.sub = h.event.sub /\ row.status = "active"
        /\ row.plan = IF h.said.named = "none" THEN tenant.plan ELSE h.said.named
    BY <1>1, <1>2, AssignedRow
  <2> HIDE DEF row
  <2>2. h.said.named = stripe[h.event.sub].named
    BY <1>1 DEF HandlerFine
  <2>3. Agrees(row)
    BY <2>1, <2>2, <1>1 DEF Agrees
  <2>4. Shows(row)
    BY <2>1, <2>2, <1>1 DEF Shows, SubscriptionFine
  <2> QED BY <2>1, <2>3, <2>4, <1>1 DEF row
<1>3. CASE ~Assigns(h)
  <2>1. /\ row \in TenantRow
        /\ \/ row.sub = "none" /\ row.plan = "none" /\ row.status = "suspended"
           \/ /\ row.sub = tenant.sub
              /\ row.plan = tenant.plan \/ (row.plan # "none" /\ row.plan = h.said.plan)
              /\ row.status = "suspended" => h.said.status = "unpaid"
              /\ row.status = "grace_period" =>
                    /\ h.said.status = "past_due" \/ h.event.type = "failed"
                    /\ h.seen = tenant => row.exp > 0
    BY <1>3, ContractRow
  <2> HIDE DEF row
  <2>2. row.sub # "none" => Begun(row.sub)
    BY <2>1 DEF Typed
  <2>3. CASE blind'
    BY <2>1, <2>2, <2>3 DEF row
  <2>4. CASE ~blind' /\ row.sub = "none"
    <3>1. tenant.sub = h.event.sub
      BY <2>4, <1>1, <1>3 DEF HandlerFine
    <3>2. row.plan = "none" /\ row.status = "suspended"
      BY <2>1, <2>4, <3>1, <1>1
    <3> QED BY <2>1, <2>4, <3>2 DEF Agrees, Shows, row
  <2>5. CASE ~blind' /\ row.sub # "none"
    <3>1. h.seen = tenant /\ Agrees(tenant) /\ Shows(tenant)
      BY <2>5, <1>3 DEF Sound
    <3>2. tenant.sub = h.event.sub /\ row.sub = h.event.sub
      BY <2>1, <2>5, <3>1, <1>1, <1>3 DEF HandlerFine
    <3>3. Agrees(row)
      BY <2>1, <3>1, <3>2, <1>1 DEF Agrees
    <3>4. row.status = "grace_period" => \E x \in past : x.sub = h.event.sub /\ x.status = "past_due"
      <4>1. Was(h.event.sub, h.said.status, h.said.plan)
        BY <1>1 DEF HandlerFine
      <4>2. h.event.type = "failed" => Was(h.event.sub, "past_due", h.event.plan)
        BY <1>1 DEF HandlerFine, EventFine
      <4> QED BY <2>1, <2>5, <4>1, <4>2 DEF Was
    <3>5. row.status = "suspended" => \E x \in past : x.sub = h.event.sub /\ x.status = "unpaid"
      <4>1. Was(h.event.sub, h.said.status, h.said.plan)
        BY <1>1 DEF HandlerFine
      <4> QED BY <2>1, <2>5, <4>1 DEF Was
    <3>6. stripe[h.event.sub].named # "none" => HadPlan(h.event.sub, row.plan)
      <4>1. CASE row.plan = tenant.plan
        BY <4>1, <3>1, <3>2, <1>1 DEF Shows
      <4>2. CASE row.plan = h.said.plan
        <5>1. Was(h.event.sub, h.said.status, h.said.plan)
          BY <1>1 DEF HandlerFine
        <5> QED BY <4>2, <5>1 DEF Was, HadPlan
      <4> QED BY <2>1, <2>5, <4>1, <4>2
    <3>7. Shows(row)
      BY <3>2, <3>4, <3>5, <3>6 DEF Shows
    <3> QED BY <2>1, <2>2, <3>3, <3>7 DEF row
  <2> QED BY <2>3, <2>4, <2>5
<1> QED BY <1>2, <1>3

-----------------------------------------------------------------------------
(* A handler that starts, goes on, or ends.                                *)
LEMMA OneMore ==
    ASSUME NEW S, IsFiniteSet(S), NEW x
    PROVE  /\ IsFiniteSet(S \cup {x}) /\ Cardinality(S) \in Nat /\ Cardinality(S \cup {x}) \in Nat
           /\ Cardinality(S \cup {x}) <= Cardinality(S) + 1
<1>1. IsFiniteSet(S \cup {x}) /\ Cardinality(S) \in Nat
  BY FS_AddElement, FS_CardinalityType
<1>2. Cardinality(S \cup {x}) \in Nat
  BY <1>1, FS_CardinalityType
<1> QED BY <1>1, <1>2, FS_AddElement

LEMMA Started ==
    ASSUME Typed, Sound, NEW h, HandlerFine(h), Cardinality(handling) < MaxHandlers,
           handling' = handling \cup {h}, UNCHANGED <<tenant, stripe, changes, past, blind>>, sent' \subseteq sent
    PROVE  Typed' /\ Sound'
<1>4. IsFiniteSet(handling') /\ Cardinality(handling') <= MaxHandlers
  <2>1. IsFiniteSet(handling)
    BY DEF Typed
  <2>2. /\ IsFiniteSet(handling \cup {h}) /\ Cardinality(handling) \in Nat
        /\ Cardinality(handling \cup {h}) \in Nat /\ Cardinality(handling \cup {h}) <= Cardinality(handling) + 1
    BY <2>1, OneMore
  <2> QED BY <2>2
<1>5. /\ \A e \in sent' : EventFine(e)'
      /\ \A g \in handling' : HandlerFine(g)'
      /\ \A s \in Subs : SubscriptionFine(s)'
  BY Same, EventsStay, HandlersStay DEF Typed
<1> QED BY <1>4, <1>5 DEF Typed, Sound, Agrees, Shows, HadPlan, Begun

LEMMA WentOn ==
    ASSUME Typed, Sound, NEW h \in handling, NEW row \in TenantRow,
           h.event.sub = row.sub \/ Assigns(h),
           GoOn(h, row), UNCHANGED <<tenant, stripe, sent, changes, past, blind>>
    PROVE  Typed' /\ Sound'
<1> DEFINE g == [h EXCEPT !.at = "writing", !.seen = row]
<1>1. /\ IsFiniteSet(handling \ {h}) /\ Cardinality(handling \ {h}) = Cardinality(handling) - 1
      /\ Cardinality(handling) \in Nat /\ Cardinality(handling) <= MaxHandlers
  BY FS_CardinalityType, FS_RemoveElement DEF Typed
<1>2. handling' = (handling \ {h}) \cup {g}
  BY DEF GoOn
<1>4. IsFiniteSet(handling') /\ Cardinality(handling') <= MaxHandlers
  <2> HIDE DEF g
  <2>1. /\ IsFiniteSet((handling \ {h}) \cup {g}) /\ Cardinality((handling \ {h}) \cup {g}) \in Nat
        /\ Cardinality((handling \ {h}) \cup {g}) <= Cardinality(handling \ {h}) + 1
    BY <1>1, OneMore
  <2> QED BY <1>1, <1>2, <2>1
<1>5. HandlerFine(h)
  BY DEF Typed
<1>6. /\ g \in [event: Event, at: {"reading", "checking", "writing"}, said: Subscription, seen: TenantRow]
      /\ g.event = h.event /\ g.said = h.said /\ g.at = "writing" /\ g.seen = row
  BY <1>5 DEF HandlerFine
<1>7. HandlerFine(g)
  <2> HIDE DEF g
  <2> QED BY <1>5, <1>6 DEF HandlerFine, Assigns
<1>8. /\ \A e \in sent' : EventFine(e)'
      /\ \A f \in handling' : HandlerFine(f)'
      /\ \A s \in Subs : SubscriptionFine(s)'
  BY <1>7, Same, EventsStay, HandlersStay DEF Typed, GoOn
<1> QED BY <1>4, <1>8 DEF Typed, Sound, Agrees, Shows, HadPlan, Begun

LEMMA Stopped ==
    ASSUME Typed, NEW h \in handling, Stop(h), UNCHANGED <<stripe, changes, past>>,
           blind' \in BOOLEAN, tenant' \in TenantRow, tenant'.sub # "none" => Begun(tenant'.sub),
           sent' = sent \/ (h.event.type # "reconcile" /\ sent' = sent \cup {h.event})
    PROVE  Typed'
<1>1. /\ IsFiniteSet(handling \ {h}) /\ Cardinality(handling \ {h}) = Cardinality(handling) - 1
      /\ Cardinality(handling) \in Nat /\ Cardinality(handling) <= MaxHandlers
  BY FS_CardinalityType, FS_RemoveElement DEF Typed
<1>2. IsFiniteSet(handling') /\ Cardinality(handling') <= MaxHandlers
  BY <1>1 DEF Stop
<1>3. \A e \in sent' : EventFine(e)'
  BY Same, EventsStay DEF Typed, HandlerFine
<1>4. /\ \A f \in handling' : HandlerFine(f)'
      /\ \A s \in Subs : SubscriptionFine(s)'
  BY Same, HandlersStay DEF Typed, Stop
<1> QED BY <1>2, <1>3, <1>4 DEF Typed, Begun

LEMMA ContractStep ==
    ASSUME Typed, Sound, Next
    PROVE  Typed' /\ Sound'
<1> DEFINE T == Typed' /\ Sound'
<1>1. ASSUME NEW s \in Subs, NEW p \in PlanOrNone, NEW named \in PlanOrNone, OpenCheckout(s, p,
             named)
      PROVE  T
  BY <1>1, OpenStep
<1>a. ASSUME NEW s \in Subs
      PROVE  stripe[s].plan \in PlanOrNone
  BY DEF Typed, Subscription
<1>2. ASSUME NEW s \in Subs, NEW p \in PlanOrNone, ChangePlan(s, p) PROVE T
  BY <1>2, AnnouncedStep DEF ChangePlan, StripeLives, Begun
<1>3. ASSUME NEW s \in Subs, CompleteCheckout(s) PROVE T
  BY <1>3, <1>a, AnnouncedStep DEF CompleteCheckout, StripeLives
<1>4. ASSUME NEW s \in Subs, PaymentFails(s) PROVE T
  BY <1>4, <1>a, AnnouncedStep DEF PaymentFails, StripeLives, Begun
<1>5. ASSUME NEW s \in Subs, PaymentSucceeds(s) PROVE T
  BY <1>5, <1>a, AnnouncedStep DEF PaymentSucceeds, StripeLives, Begun
<1>6. ASSUME NEW s \in Subs, GoesUnpaid(s) PROVE T
  BY <1>6, <1>a, AnnouncedStep DEF GoesUnpaid, StripeLives, Begun
<1>7. ASSUME NEW s \in Subs, Cancel(s) PROVE T
  BY <1>7, <1>a, AnnouncedStep DEF Cancel, StripeLives, Begun
<1>b. NoContract \in TenantRow
  BY DEF NoContract, TenantRow, Statuses, PlanOrNone, SubOrNone
<1>8. ASSUME NEW s \in Subs, StartReconcile(s) PROVE T
  <2> DEFINE e == [type |-> "reconcile", sub |-> s, status |-> "none", plan |-> "none"]
             h == [event |-> e, at |-> "checking", said |-> stripe[s], seen |-> NoContract]
  <2>1. e \in Event /\ e.sub = s /\ e.type = "reconcile"
    BY DEF Event, EventTypes, StripeSaid, PlanOrNone
  <2>2. stripe[s] \in Subscription /\ SubscriptionFine(s) /\ Begun(s)
    BY <1>8 DEF StartReconcile, Typed, Begun
  <2>3. /\ h \in [event: Event, at: {"reading", "checking", "writing"}, said: Subscription, seen: TenantRow]
        /\ h.event = e /\ h.said = stripe[s] /\ h.at = "checking"
    BY <2>1, <2>2, <1>b
  <2>4. HandlerFine(h)
    <3> HIDE DEF h, e
    <3> QED BY <2>1, <2>2, <2>3 DEF HandlerFine, SubscriptionFine
  <2> QED BY <1>8, <2>4, Started DEF StartReconcile, Starts
<1>e. ASSUME NEW e \in sent
      PROVE  /\ EventFine(e) /\ e \in Event /\ e.sub \in Subs /\ e.plan \in PlanOrNone /\ e.type # "reconcile"
             /\ stripe[e.sub] \in Subscription /\ SubscriptionFine(e.sub) /\ Begun(e.sub)
             /\ Was(e.sub, e.status, e.plan) /\ e.status \in StripeSaid
  BY DEF Typed, EventFine, Event
<1>c. ASSUME NEW e \in sent, NEW at \in {"reading", "writing"}, NEW said \in Subscription,
             said.named = stripe[e.sub].named, Was(e.sub, said.status, said.plan),
             at = "writing" <=> e.type = "checkout"
      PROVE  HandlerFine([event |-> e, at |-> at, said |-> said, seen |-> NoContract])
  <2> DEFINE h == [event |-> e, at |-> at, said |-> said, seen |-> NoContract]
  <2>1. /\ h \in [event: Event, at: {"reading", "checking", "writing"}, said: Subscription, seen: TenantRow]
        /\ h.event = e /\ h.said = said /\ h.at = at
    BY <1>e, <1>b
  <2> HIDE DEF h
  <2>2. HandlerFine(h)
    BY <1>c, <1>e, <2>1 DEF HandlerFine, Assigns
  <2> QED BY <2>2 DEF h
<1>9. ASSUME NEW e \in sent, ReceiveCheckout(e) PROVE T
  <2>1. HandlerFine([event |-> e, at |-> "writing", said |-> stripe[e.sub], seen |-> NoContract])
    BY <1>9, <1>e, <1>c DEF ReceiveCheckout, SubscriptionFine
  <2> QED BY <1>9, <2>1, Started DEF ReceiveCheckout, Starts
<1>10. ASSUME NEW e \in sent, ReceiveInvoice(e) PROVE T
  <2>1. HandlerFine([event |-> e, at |-> "reading", said |-> stripe[e.sub], seen |-> NoContract])
    BY <1>10, <1>e, <1>c DEF ReceiveInvoice, SubscriptionFine
  <2> QED BY <1>10, <2>1, Started DEF ReceiveInvoice, Starts
<1>11. ASSUME NEW e \in sent, ReceiveSubscription(e) PROVE T
  <2> DEFINE said == [stripe[e.sub] EXCEPT !.status = e.status, !.plan = e.plan]
  <2>1. /\ said \in Subscription /\ said.plan = e.plan /\ said.status = e.status
        /\ said.named = stripe[e.sub].named
    BY <1>e DEF Subscription
  <2>2. HandlerFine([event |-> e, at |-> "reading", said |-> said, seen |-> NoContract])
    <3> HIDE DEF said
    <3> QED BY <1>11, <1>e, <2>1, <1>c DEF ReceiveSubscription
  <2> QED BY <1>11, <2>2, Started DEF ReceiveSubscription, Starts
<1>d. ASSUME NEW h \in handling, Stop(h), UNCHANGED <<tenant, stripe, sent, changes, past, blind>>
      PROVE  T
  <2>1. Typed'
    BY <1>d, Stopped DEF Typed
  <2> QED BY <1>d, <2>1 DEF Sound, Agrees, Shows, HadPlan
<1>12. ASSUME NEW h \in handling, ReadTenant(h) PROVE T
  <2>1. CASE Applies(h)
    <3>1. tenant \in TenantRow /\ tenant.sub = h.event.sub
      BY <2>1 DEF Typed, Applies
    <3> QED BY <1>12, <2>1, <3>1, WentOn DEF ReadTenant
  <2>2. CASE ~Applies(h)
    BY <1>12, <2>2, <1>d DEF ReadTenant
  <2> QED BY <2>1, <2>2
<1>13. ASSUME NEW h \in handling, WriteTenant(h) PROVE T
  <2> DEFINE row == Patched(tenant, PatchOf(h))
  <2>1. /\ h.at = "writing" /\ tenant' = row /\ blind' = (blind \/ (~Assigns(h) /\ h.seen # tenant))
        /\ Stop(h) /\ UNCHANGED <<stripe, changes, past>>
    BY <1>13 DEF WriteTenant
  <2>2. /\ row \in TenantRow /\ (row.sub # "none" => Begun(row.sub)) /\ (blind' \/ (Agrees(row) /\ Shows(row)))
    BY <2>1, WrittenIsSound
  <2> HIDE DEF row
  <2>3. sent' = sent \/ (h.event.type # "reconcile" /\ sent' = sent \cup {h.event})
    BY <1>13 DEF WriteTenant
  <2>4. blind' \in BOOLEAN
    BY <2>1 DEF Typed
  <2>5. Typed'
    BY <2>1, <2>2, <2>3, <2>4, Stopped
  <2>6. Sound'
    BY <2>1, <2>2 DEF Sound, Agrees, Shows, HadPlan
  <2> QED BY <2>5, <2>6
<1>14. ASSUME NEW h \in handling, CheckReconcile(h) PROVE T
  <2>1. CASE stripe[h.event.sub].status = "canceled"
    BY <1>14, <2>1, <1>d DEF CheckReconcile
  <2>2. CASE stripe[h.event.sub].status # "canceled"
    <3>1. HandlerFine(h) /\ h.at = "checking"
      BY <1>14 DEF Typed, CheckReconcile
    <3>2. h \in [event: Event, at: {"reading", "checking", "writing"}, said: Subscription, seen: TenantRow]
      BY <3>1 DEF HandlerFine
    <3>3. h.seen \in TenantRow
      BY <3>2
    <3>4. h.event.type = "reconcile"
      BY <3>1 DEF HandlerFine, EventFine, Assigns
    <3> QED BY <1>14, <2>2, <3>3, <3>4, WentOn DEF CheckReconcile, Assigns
  <2> QED BY <2>1, <2>2
<1> QED
  BY <1>1, <1>2, <1>3, <1>4, <1>5, <1>6, <1>7, <1>8, <1>9, <1>10, <1>11, <1>12, <1>13, <1>14
      DEF Next

LEMMA ContractStutters ==
    ASSUME Typed, Sound, UNCHANGED vars
    PROVE  Typed' /\ Sound'
<1>1. /\ \A e \in sent' : EventFine(e)'
      /\ \A f \in handling' : HandlerFine(f)'
      /\ \A s \in Subs : SubscriptionFine(s)'
  BY Same, EventsStay, HandlersStay DEF Typed, vars
<1> QED BY <1>1 DEF Typed, Sound, Agrees, Shows, HadPlan, Begun, vars

LEMMA ContractStarts == Init => Typed /\ Sound
<1> SUFFICES ASSUME Init PROVE Typed /\ Sound
  OBVIOUS
<1>1. tenant \in TenantRow /\ tenant.sub = "none" /\ tenant.plan = "none" /\ tenant.status = "active"
  BY DEF Init, NoContract, TenantRow, Statuses, PlanOrNone, SubOrNone
<1>2. stripe \in [Subs -> Subscription] /\ \A s \in Subs : stripe[s].status = "none"
  BY DEF Init, Subscription, StripeSaid, PlanOrNone, SubOrNone
<1>3. IsFiniteSet(handling) /\ Cardinality(handling) = 0
  BY FS_EmptySet DEF Init
<1>4. \A s \in Subs : SubscriptionFine(s)
  BY <1>2 DEF SubscriptionFine, Begun
<1>5. Cardinality(handling) <= MaxHandlers
  BY <1>3
<1>6. changes \in 0 .. MaxChanges /\ sent = {} /\ handling = {} /\ past = {} /\ blind = FALSE
  BY DEF Init
<1>7. Typed
  BY <1>1, <1>2, <1>3, <1>4, <1>5, <1>6 DEF Typed
<1> QED BY <1>1, <1>7 DEF Sound, Agrees, Shows

LEMMA ContractHolds == Spec => [](Typed /\ Sound)
BY ContractStarts, ContractStep, ContractStutters, PTL DEF Spec

(* Plan, subscription, status and date agree, and everything is of its     *)
(* type, for any number of subscriptions and plans, whatever order their   *)
(* events arrive in, however often, and however the handlers overlap,      *)
(* until one writes to a row that has changed since it was read.           *)
THEOREM ColumnsAlwaysAgree == Spec => []ColumnsAgree
<1>1. Typed => TypeOK
  BY DEF Typed, TypeOK, HandlerFine, EventFine
<1>2. Sound => blind \/ (NoPlanWithoutContract /\ NoContractWithoutPlan /\ GraceHasContractAndDate)
  BY DEF Sound, Agrees, NoPlanWithoutContract, NoContractWithoutPlan, GraceHasContractAndDate
<1> QED BY <1>1, <1>2, ContractHolds, PTL DEF ColumnsAgree

(* The row shows only what its own subscription has been at Stripe, under  *)
(* the same circumstances.                                                 *)
THEOREM ContractIsShown == Spec => []RowShowsItsContract
<1>1. Sound => RowShowsItsContract
  BY DEF Sound, Shows, HadPlan, RowShowsItsContract
<1> QED BY <1>1, ContractHolds, PTL

-----------------------------------------------------------------------------
HIDE ContractAssumption

(***************************************************************************)
(* The ledger of events, for any number of deliveries and any five times   *)
(* that satisfy its assumption: it is the lease of WebhookLease, and only  *)
(* a cut off handler is run again.                                         *)
(***************************************************************************)
(* Finiteness and cardinality in the instance are those of this module.    *)
LEMMA DedupFinite == \A S : Dedup!IsFiniteSet(S) <=> IsFiniteSet(S)
BY DEF Dedup!IsFiniteSet, IsFiniteSet

LEMMA DedupCardinality == \A S : Dedup!Cardinality(S) = Cardinality(S)
BY DedupFinite DEF Dedup!Cardinality, Cardinality

(* One step of one delivery.                                               *)
DeliveryStep(d) ==
    \/ Dedup!Deliver(d) \/ Dedup!Claim(d) \/ Dedup!Refuse(d) \/ Dedup!Skip(d)
    \/ Dedup!Dispatch(d) \/ Dedup!Throw(d) \/ Dedup!Release(d) \/ Dedup!Finalize(d) \/ Dedup!Die(d)

(* The variables keep their types through every step.                      *)
LEMMA DedupTypeStep == Dedup!TypeOK /\ [Dedup!Next]_(Dedup!vars) => Dedup!TypeOK'
<1> SUFFICES ASSUME Dedup!TypeOK, [Dedup!Next]_(Dedup!vars) PROVE Dedup!TypeOK'
  OBVIOUS
<1> USE DEF Dedup!TypeOK, Dedup!Places, Dedup!Goes, Dedup!NoRow
<1>1. ASSUME NEW d \in Deliveries, DeliveryStep(d) PROVE Dedup!TypeOK'
  <2>1. CASE Dedup!Deliver(d) BY <2>1 DEF Dedup!Deliver
  <2>2. CASE Dedup!Claim(d)
    <3>1. eventRow'.result = "processing" /\ eventRow'.at \in Nat /\ eventRow'.retries \in Nat
      BY <2>2 DEF Dedup!Claim
    <3> QED BY <2>2, <3>1 DEF Dedup!Claim
  <2>3. CASE Dedup!Refuse(d) BY <2>3 DEF Dedup!Refuse
  <2>4. CASE Dedup!Skip(d)
    <3>1. eventRow' \in [result: {"processing", "final"}, at: Nat, retries: Nat] \cup {Dedup!NoRow}
      <4>1. CASE eventRow.result = "none" BY <2>4, <4>1 DEF Dedup!Skip
      <4>2. CASE eventRow.result # "none"
        <5>1. eventRow \in [result: {"processing", "final"}, at: Nat, retries: Nat] BY <4>2
        <5>2. eventRow' = [eventRow EXCEPT !.retries = eventRow.retries + 1]
          BY <2>4, <4>2 DEF Dedup!Skip
        <5> QED BY <5>1, <5>2
      <4> QED BY <4>1, <4>2
    <3> QED BY <2>4, <3>1 DEF Dedup!Skip
  <2>5. CASE Dedup!Dispatch(d) BY <2>5 DEF Dedup!Dispatch
  <2>6. CASE Dedup!Throw(d) BY <2>6 DEF Dedup!Throw
  <2>7. CASE Dedup!Release(d) BY <2>7 DEF Dedup!Release
  <2>8. CASE Dedup!Finalize(d)
    <3>1. eventRow' \in [result: {"processing", "final"}, at: Nat, retries: Nat] \cup {Dedup!NoRow}
      <4>1. CASE eventRow.result = "none" BY <2>8, <4>1 DEF Dedup!Finalize
      <4>2. CASE eventRow.result # "none"
        <5>1. eventRow \in [result: {"processing", "final"}, at: Nat, retries: Nat] BY <4>2
        <5>2. eventRow' = [eventRow EXCEPT !.result = "final", !.at = now]
          BY <2>8, <4>2 DEF Dedup!Finalize
        <5>3. eventRow' = [result |-> "final", at |-> now, retries |-> eventRow.retries]
          BY <5>1, <5>2
        <5> QED BY <5>1, <5>3
      <4> QED BY <4>1, <4>2
    <3>2. now' = now /\ since' = since /\ applied' = applied /\ recorded' \in Nat
      BY <2>8 DEF Dedup!Finalize
    <3>3. place' \in [Deliveries -> Dedup!Places] BY <2>8 DEF Dedup!Finalize
    <3>4. acked' \in BOOLEAN BY <2>8 DEF Dedup!Finalize
    <3> QED BY <3>1, <3>2, <3>3, <3>4
  <2>9. CASE Dedup!Die(d) BY <2>9 DEF Dedup!Die
  <2> QED BY <1>1, <2>1, <2>2, <2>3, <2>4, <2>5, <2>6, <2>7, <2>8, <2>9 DEF DeliveryStep
<1>2. CASE Dedup!Purge BY <1>2 DEF Dedup!Purge
<1>3. CASE Dedup!Tick BY <1>3 DEF Dedup!Tick
<1>4. CASE UNCHANGED Dedup!vars BY <1>4 DEF Dedup!vars
<1> QED BY <1>1, <1>2, <1>3, <1>4 DEF Dedup!Next, DeliveryStep

(* The initial state is well typed.                                        *)
LEMMA DedupInitTyped == Dedup!Init => Dedup!TypeOK
<1> SUFFICES ASSUME Dedup!Init PROVE Dedup!TypeOK
  OBVIOUS
<1>1. eventRow \in [result: {"processing", "final"}, at: Nat, retries: Nat] \cup {Dedup!NoRow}
  BY DEF Dedup!Init
<1>2. place \in [Deliveries -> Dedup!Places] BY DEF Dedup!Init, Dedup!Places
<1>3. since \in [Deliveries -> Nat] BY DEF Dedup!Init
<1>4. now \in Nat /\ applied \in Nat /\ recorded \in Nat BY DEF Dedup!Init
<1>5. acked \in BOOLEAN BY DEF Dedup!Init
<1> QED BY <1>1, <1>2, <1>3, <1>4, <1>5 DEF Dedup!TypeOK

(* The state of the ledger and of the deliveries is always well formed; in *)
(* particular a row that is gone has lost its claim and its retries.       *)
THEOREM DedupTypeCorrect == Dedup!Spec => []Dedup!TypeOK
<1>1. Dedup!Init => Dedup!TypeOK BY DedupInitTyped
<1> QED BY <1>1, DedupTypeStep, PTL DEF Dedup!Spec

-----------------------------------------------------------------------------
(* Why a claim is never taken from a delivery that is alive.               *)

(* A delivery in flight began within the horizon and is within its time.   *)
InTime == \A d \in Deliveries : Dedup!InFlight(d) =>
              since[d] <= Horizon /\ since[d] <= now /\ now <= since[d] + Timeout

(* Whoever works holds the claim, which carries its own time,              *)
HoldsClaim == \A d \in Deliveries : Dedup!Working(d) => eventRow.result = "processing" /\ eventRow.at = since[d]

(* alone.                                                                  *)
OneWorks == \A d, e \in Deliveries : Dedup!Working(d) /\ Dedup!Working(e) => d = e

(* A recorded completion ends the work, and the eventRow outlives the horizon.  *)
WorkIsOver == recorded > 0 =>
            /\ \A d \in Deliveries : ~Dedup!Working(d)
            /\ eventRow.result = "final" \/ now > Retention

LeaseInv == InTime /\ HoldsClaim /\ OneWorks /\ WorkIsOver

(* A claim is free only when nobody works and nothing was recorded.        *)
LEMMA FreeMeansIdle ==
    ASSUME Dedup!DedupAssumption, Dedup!TypeOK, LeaseInv, NEW d \in Deliveries,
           place[d] = "received", Dedup!Free(d)
    PROVE  recorded = 0 /\ \A e \in Deliveries : ~Dedup!Working(e)
<1>1. since[d] <= Horizon /\ since[d] <= now /\ now <= since[d] + Timeout
  BY DEF LeaseInv, InTime, Dedup!InFlight
<1>2. ASSUME NEW e \in Deliveries, Dedup!Working(e) PROVE FALSE
  <2>1. eventRow.result = "processing" /\ eventRow.at = since[e] BY <1>2 DEF LeaseInv, HoldsClaim
  <2>2. since[e] <= now /\ now <= since[e] + Timeout
    BY <1>2 DEF LeaseInv, InTime, Dedup!InFlight, Dedup!Working
  <2>3. eventRow.at < since[d] - StaleAfter BY <2>1 DEF Dedup!Free
  <2> QED BY <1>1, <2>1, <2>2, <2>3, Dedup!DedupAssumption DEF Dedup!DedupAssumption, Dedup!TypeOK
<1>3. recorded = 0
  <2>1. eventRow.result # "final" BY DEF Dedup!Free
  <2>2. ~(now > Retention) BY <1>1, Dedup!DedupAssumption DEF Dedup!DedupAssumption, Dedup!TypeOK
  <2> QED BY <2>1, <2>2 DEF LeaseInv, WorkIsOver, Dedup!TypeOK
<1> QED BY <1>2, <1>3

(* Nobody works when the eventRow is old enough to be purged.                   *)
LEMMA PurgedMeansIdle ==
    ASSUME Dedup!DedupAssumption, Dedup!TypeOK, LeaseInv, eventRow.result # "none",
           eventRow.at < now - Retention
    PROVE  now > Retention /\ \A d \in Deliveries : ~Dedup!Working(d)
<1>1. eventRow.at \in Nat BY DEF Dedup!TypeOK, Dedup!NoRow
<1>2. now > Retention BY <1>1, Dedup!DedupAssumption DEF Dedup!DedupAssumption, Dedup!TypeOK
<1>3. ASSUME NEW d \in Deliveries, Dedup!Working(d) PROVE FALSE
  <2>1. eventRow.at = since[d] /\ now <= since[d] + Timeout
    BY <1>3 DEF LeaseInv, HoldsClaim, InTime, Dedup!InFlight, Dedup!Working
  <2> QED BY <2>1, <1>1, Dedup!DedupAssumption DEF Dedup!DedupAssumption, Dedup!TypeOK
<1> QED BY <1>2, <1>3

-----------------------------------------------------------------------------
(* Every step preserves LeaseInv and is a step of the lease.               *)

LEMMA LeaseInvStep ==
    /\ Dedup!DedupAssumption
    /\ Dedup!TypeOK /\ Dedup!TypeOK' /\ LeaseInv /\ [Dedup!Next]_(Dedup!vars)
    => LeaseInv'
<1> SUFFICES ASSUME Dedup!DedupAssumption, Dedup!TypeOK, Dedup!TypeOK', LeaseInv,
                    [Dedup!Next]_(Dedup!vars)
             PROVE  LeaseInv'
  OBVIOUS
<1> USE DEF LeaseInv, Dedup!Goes, Dedup!InFlight, Dedup!Working
<1>1. ASSUME NEW d \in Deliveries, Dedup!Claim(d) PROVE LeaseInv'
  <2>1. recorded = 0 /\ \A e \in Deliveries : ~Dedup!Working(e)
    BY <1>1, FreeMeansIdle DEF Dedup!Claim
  <2>2. place' = [place EXCEPT ![d] = "handling"] /\ since' = since /\ now' = now /\ recorded' = recorded
    BY <1>1 DEF Dedup!Claim
  <2>3. eventRow'.result = "processing" /\ eventRow'.at = since[d]
    BY <1>1 DEF Dedup!Claim, Dedup!TypeOK, Dedup!NoRow
  <2>4. place[d] = "received" BY <1>1 DEF Dedup!Claim
  <2>5. InTime' BY <2>2, <2>4 DEF InTime, Dedup!TypeOK
  <2>6. HoldsClaim' BY <2>1, <2>2, <2>3 DEF HoldsClaim, Dedup!TypeOK
  <2>7. OneWorks' BY <2>1, <2>2 DEF OneWorks, Dedup!TypeOK
  <2>8. WorkIsOver' BY <2>1, <2>2 DEF WorkIsOver, Dedup!TypeOK
  <2> QED BY <2>5, <2>6, <2>7, <2>8
<1>2. ASSUME NEW d \in Deliveries, Dedup!Deliver(d) PROVE LeaseInv'
  <2>1. place' = [place EXCEPT ![d] = "received"] /\ since' = [since EXCEPT ![d] = now]
        /\ now' = now /\ eventRow' = eventRow /\ recorded' = recorded /\ now <= Horizon /\ place[d] = "unsent"
    BY <1>2 DEF Dedup!Deliver
  <2>2. InTime' BY <2>1, Dedup!DedupAssumption DEF Dedup!DedupAssumption, InTime, Dedup!TypeOK
  <2>3. HoldsClaim' BY <2>1 DEF HoldsClaim, Dedup!TypeOK
  <2>4. OneWorks' BY <2>1 DEF OneWorks, Dedup!TypeOK
  <2>5. WorkIsOver' BY <2>1 DEF WorkIsOver, Dedup!TypeOK
  <2> QED BY <2>2, <2>3, <2>4, <2>5
<1>3. ASSUME NEW d \in Deliveries,
             Dedup!Refuse(d) \/ Dedup!Dispatch(d) \/ Dedup!Throw(d) \/ Dedup!Die(d)
      PROVE  LeaseInv'
  <2>1. \E p \in Dedup!Places :
           /\ place' = [place EXCEPT ![d] = p]
           /\ p \in {"handling", "handled", "failed"} => Dedup!Working(d)
           /\ Dedup!InFlight(d)
    BY <1>3 DEF Dedup!Refuse, Dedup!Dispatch, Dedup!Throw, Dedup!Die, Dedup!Places
  <2>2. since' = since /\ now' = now /\ eventRow' = eventRow /\ recorded' = recorded
    BY <1>3 DEF Dedup!Refuse, Dedup!Dispatch, Dedup!Throw, Dedup!Die
  <2>3. InTime' BY <2>1, <2>2 DEF InTime, Dedup!TypeOK
  <2>4. HoldsClaim' BY <2>1, <2>2 DEF HoldsClaim, Dedup!TypeOK
  <2>5. OneWorks' BY <2>1, <2>2 DEF OneWorks, Dedup!TypeOK
  <2>6. WorkIsOver' BY <2>1, <2>2 DEF WorkIsOver, Dedup!TypeOK
  <2> QED BY <2>3, <2>4, <2>5, <2>6
<1>4. ASSUME NEW d \in Deliveries, Dedup!Skip(d) PROVE LeaseInv'
  <2>1. place' = [place EXCEPT ![d] = "answered"] /\ since' = since /\ now' = now /\ recorded' = recorded
    BY <1>4 DEF Dedup!Skip
  <2>2. eventRow'.result = eventRow.result /\ eventRow'.at = eventRow.at
    BY <1>4 DEF Dedup!Skip, Dedup!TypeOK, Dedup!NoRow
  <2>3. InTime' BY <2>1 DEF InTime, Dedup!TypeOK
  <2>4. HoldsClaim' BY <2>1, <2>2 DEF HoldsClaim, Dedup!TypeOK
  <2>5. OneWorks' BY <2>1 DEF OneWorks, Dedup!TypeOK
  <2>6. WorkIsOver' BY <2>1, <2>2 DEF WorkIsOver, Dedup!TypeOK
  <2> QED BY <2>3, <2>4, <2>5, <2>6
<1>5. ASSUME NEW d \in Deliveries, Dedup!Release(d) PROVE LeaseInv'
  <2>1. place' = [place EXCEPT ![d] = "refused"] /\ since' = since /\ now' = now /\ recorded' = recorded
    BY <1>5 DEF Dedup!Release
  <2>2. Dedup!Working(d) BY <1>5 DEF Dedup!Release
  <2>3. \A e \in Deliveries : ~Dedup!Working(e)' BY <2>1, <2>2 DEF OneWorks, Dedup!TypeOK
  <2>4. ~(recorded > 0) BY <2>2 DEF WorkIsOver
  <2>5. InTime' BY <2>1 DEF InTime, Dedup!TypeOK
  <2>6. HoldsClaim' /\ OneWorks' BY <2>3 DEF HoldsClaim, OneWorks
  <2>7. WorkIsOver' BY <2>1, <2>4 DEF WorkIsOver
  <2> QED BY <2>5, <2>6, <2>7
<1>6. ASSUME NEW d \in Deliveries, Dedup!Finalize(d) PROVE LeaseInv'
  <2>1. place' = [place EXCEPT ![d] = "answered"] /\ since' = since /\ now' = now
    BY <1>6 DEF Dedup!Finalize
  <2>2. Dedup!Working(d) BY <1>6 DEF Dedup!Finalize
  <2>3. \A e \in Deliveries : ~Dedup!Working(e)' BY <2>1, <2>2 DEF OneWorks, Dedup!TypeOK
  <2>4. eventRow.result = "processing" BY <2>2 DEF HoldsClaim
  <2>5. eventRow'.result = "final" BY <1>6, <2>4 DEF Dedup!Finalize, Dedup!TypeOK, Dedup!NoRow
  <2>6. InTime' BY <2>1 DEF InTime, Dedup!TypeOK
  <2>7. HoldsClaim' /\ OneWorks' BY <2>3 DEF HoldsClaim, OneWorks
  <2>8. WorkIsOver' BY <2>3, <2>5 DEF WorkIsOver
  <2> QED BY <2>6, <2>7, <2>8
<1>7. CASE Dedup!Purge
  <2>1. place' = place /\ since' = since /\ now' = now /\ recorded' = recorded
    BY <1>7 DEF Dedup!Purge
  <2>2. now > Retention /\ \A e \in Deliveries : ~Dedup!Working(e)
    BY <1>7, PurgedMeansIdle DEF Dedup!Purge
  <2>3. InTime' BY <2>1 DEF InTime
  <2>4. HoldsClaim' /\ OneWorks' /\ WorkIsOver' BY <2>1, <2>2 DEF HoldsClaim, OneWorks, WorkIsOver
  <2> QED BY <2>3, <2>4
<1>8. CASE Dedup!Tick
  <2>1. place' = place /\ since' = since /\ eventRow' = eventRow /\ recorded' = recorded /\ now' = now + 1
    BY <1>8 DEF Dedup!Tick
  <2>2. \A d \in Deliveries : Dedup!InFlight(d) => now < since[d] + Timeout BY <1>8 DEF Dedup!Tick
  <2>3. InTime' BY <2>1, <2>2, Dedup!DedupAssumption DEF Dedup!DedupAssumption, InTime, Dedup!TypeOK
  <2>4. HoldsClaim' /\ OneWorks' BY <2>1 DEF HoldsClaim, OneWorks
  <2>5. WorkIsOver'
    BY <2>1, Dedup!DedupAssumption DEF Dedup!DedupAssumption, WorkIsOver, Dedup!TypeOK
  <2> QED BY <2>3, <2>4, <2>5
<1>9. CASE UNCHANGED Dedup!vars BY <1>9 DEF Dedup!vars, InTime, HoldsClaim, OneWorks, WorkIsOver
<1> QED BY <1>1, <1>2, <1>3, <1>4, <1>5, <1>6, <1>7, <1>8, <1>9 DEF Dedup!Next

(* Every step is a step of the lease or leaves it alone.                   *)
LEMMA LeaseStep ==
    /\ Dedup!DedupAssumption
    /\ Dedup!TypeOK /\ Dedup!TypeOK' /\ LeaseInv /\ [Dedup!Next]_(Dedup!vars)
    => [Dedup!Lease!LeaseNext]_(Dedup!Lease!leaseVars)
<1> SUFFICES ASSUME Dedup!DedupAssumption, Dedup!TypeOK, Dedup!TypeOK', LeaseInv,
                    [Dedup!Next]_(Dedup!vars)
             PROVE  [Dedup!Lease!LeaseNext]_(Dedup!Lease!leaseVars)
  OBVIOUS
<1> DEFINE W == {d \in Deliveries : Dedup!Working(d)}
<1> USE DEF Dedup!Goes
<1>1. ASSUME NEW d \in Deliveries, Dedup!Claim(d) PROVE Dedup!Lease!Take(d)
  <2>1. recorded = 0 /\ W = {} BY <1>1, FreeMeansIdle DEF Dedup!Claim
  <2>2. W' = {d} BY <1>1, <2>1 DEF Dedup!Claim, Dedup!Working, Dedup!TypeOK
  <2>3. recorded' = recorded BY <1>1 DEF Dedup!Claim
  <2> QED BY <2>1, <2>2, <2>3 DEF Dedup!Lease!Take
<1>2. ASSUME NEW d \in Deliveries, Dedup!Release(d) \/ Dedup!Die(d) PROVE Dedup!Lease!Drop(d)
  <2>1. W' = W \ {d} BY <1>2 DEF Dedup!Release, Dedup!Die, Dedup!Working, Dedup!TypeOK
  <2>2. recorded' = recorded BY <1>2 DEF Dedup!Release, Dedup!Die
  <2> QED BY <2>1, <2>2 DEF Dedup!Lease!Drop
<1>3. ASSUME NEW d \in Deliveries, Dedup!Finalize(d) PROVE Dedup!Lease!Complete(d)
  <2>1. d \in W BY <1>3 DEF Dedup!Finalize, Dedup!Working
  <2>2. W' = W \ {d} BY <1>3 DEF Dedup!Finalize, Dedup!Working, Dedup!TypeOK
  <2>3. recorded' > 0 BY <1>3 DEF Dedup!Finalize, Dedup!TypeOK
  <2> QED BY <2>1, <2>2, <2>3 DEF Dedup!Lease!Complete
<1>4. ASSUME NEW d \in Deliveries,
             Dedup!Deliver(d) \/ Dedup!Refuse(d) \/ Dedup!Skip(d) \/ Dedup!Dispatch(d) \/ Dedup!Throw(d)
      PROVE  UNCHANGED Dedup!Lease!leaseVars
  <2>1. W' = W
    BY <1>4 DEF Dedup!Deliver, Dedup!Refuse, Dedup!Skip, Dedup!Dispatch, Dedup!Throw,
        Dedup!Working, Dedup!TypeOK
  <2>2. recorded' = recorded
    BY <1>4 DEF Dedup!Deliver, Dedup!Refuse, Dedup!Skip, Dedup!Dispatch, Dedup!Throw
  <2> QED BY <2>1, <2>2 DEF Dedup!Lease!leaseVars
<1>5. CASE Dedup!Purge \/ Dedup!Tick \/ UNCHANGED Dedup!vars
  <2>1. place' = place /\ recorded' = recorded BY <1>5 DEF Dedup!Purge, Dedup!Tick, Dedup!vars
  <2> QED BY <2>1 DEF Dedup!Lease!leaseVars, Dedup!Working
<1> QED BY <1>1, <1>2, <1>3, <1>4, <1>5 DEF Dedup!Next, Dedup!Lease!LeaseNext

(* One delivery at a time works on the event and none after its completion *)
(* was recorded, for all deliveries and all time limits with Timeout <=    *)
(* StaleAfter and Horizon + Timeout <= Retention.                          *)
THEOREM LeaseHeld == WebhookSpec => LeaseSpec
<1>1. Dedup!Init => Dedup!TypeOK /\ LeaseInv /\ Dedup!Lease!LeaseInit
  <2>1. Dedup!Init => Dedup!TypeOK BY DedupInitTyped
  <2>2. Dedup!Init => LeaseInv
    BY DEF Dedup!Init, LeaseInv, InTime, HoldsClaim, OneWorks, WorkIsOver, Dedup!InFlight,
        Dedup!Working
  <2>3. Dedup!Init => Dedup!Lease!LeaseInit BY DEF Dedup!Init, Dedup!Lease!LeaseInit, Dedup!Working
  <2> QED BY <2>1, <2>2, <2>3
<1>2. Dedup!TypeOK /\ LeaseInv /\ [Dedup!Next]_(Dedup!vars) => (Dedup!TypeOK /\ LeaseInv)'
  BY WebhookAssumption, DedupTypeStep, LeaseInvStep
<1>3. Dedup!TypeOK /\ Dedup!TypeOK' /\ LeaseInv /\ [Dedup!Next]_(Dedup!vars)
          => [Dedup!Lease!LeaseNext]_(Dedup!Lease!leaseVars)
  BY WebhookAssumption, LeaseStep
<1> QED
  BY <1>1, <1>2, <1>3, PTL
      DEF WebhookSpec, LeaseSpec, Dedup!Spec, Dedup!LeaseSpec, Dedup!Lease!LeaseSpec

LEMMA LeaseInvHolds == ASSUME Dedup!DedupAssumption PROVE Dedup!Spec => []LeaseInv
<1>1. Dedup!Init => LeaseInv
  BY DEF Dedup!Init, LeaseInv, InTime, HoldsClaim, OneWorks, WorkIsOver, Dedup!InFlight,
      Dedup!Working
<1> QED BY <1>1, DedupInitTyped, DedupTypeStep, LeaseInvStep, PTL DEF Dedup!Spec

-----------------------------------------------------------------------------
(* How often the handler ran to its end.                                   *)

CutOff == {d \in Deliveries : place[d] = "deadHandled"}

(* Some run that ended is recorded or about to be.                         *)
RunKept == recorded > 0 \/ \E d \in Deliveries : place[d] = "handled"

(* Every run but one was cut off, and all of them while none is kept.      *)
RunsInv ==
    /\ IsFiniteSet(CutOff)
    /\ applied <= Cardinality(CutOff) + (IF RunKept THEN 1 ELSE 0)

LEMMA RunsStep ==
    ASSUME Dedup!DedupAssumption, Dedup!TypeOK, LeaseInv, RunsInv, [Dedup!Next]_(Dedup!vars)
    PROVE  RunsInv'
<1>0. Cardinality(CutOff) \in Nat /\ applied \in Nat /\ recorded \in Nat
  BY FS_CardinalityType DEF RunsInv, Dedup!TypeOK
<1> DEFINE R == RunsInv'
<1>1. ASSUME applied' = applied, CutOff' = CutOff, RunKept => RunKept' PROVE R
  BY <1>0, <1>1 DEF RunsInv
<1>2. ASSUME NEW d \in Deliveries,
             Dedup!Deliver(d) \/ Dedup!Claim(d) \/ Dedup!Refuse(d) \/ Dedup!Skip(d) \/ Dedup!Throw(d) \/ Dedup!Release(d)
      PROVE  R
  <2>1. PICK p \in {"received", "handling", "skipping", "answered", "failed", "refused"} :
            place' = [place EXCEPT ![d] = p]
    BY <1>2 DEF Dedup!Deliver, Dedup!Claim, Dedup!Refuse, Dedup!Skip, Dedup!Throw, Dedup!Release,
        Dedup!Goes
  <2>2. /\ place[d] \in {"unsent", "received", "skipping", "handling", "failed"}
        /\ applied' = applied /\ recorded' = recorded
    BY <1>2 DEF Dedup!Deliver, Dedup!Claim, Dedup!Refuse, Dedup!Skip, Dedup!Throw, Dedup!Release
  <2>3. CutOff' = CutOff
    BY <2>1, <2>2 DEF CutOff, Dedup!TypeOK
  <2>4. RunKept => RunKept'
    BY <2>1, <2>2 DEF RunKept, Dedup!TypeOK
  <2> QED BY <1>1, <2>2, <2>3, <2>4
<1>3. ASSUME NEW d \in Deliveries, Dedup!Dispatch(d) PROVE R
  <2>1. place[d] = "handling" /\ place' = [place EXCEPT ![d] = "handled"] /\ applied' = applied + 1
    BY <1>3 DEF Dedup!Dispatch, Dedup!Goes
  <2>2. ~ RunKept
    BY <1>0, <2>1 DEF RunKept, LeaseInv, OneWorks, WorkIsOver, Dedup!Working
  <2>3. RunKept' /\ CutOff' = CutOff
    BY <2>1 DEF RunKept, CutOff, Dedup!TypeOK
  <2> QED BY <1>0, <2>1, <2>2, <2>3 DEF RunsInv
<1>4. ASSUME NEW d \in Deliveries, Dedup!Finalize(d) PROVE R
  <2>1. /\ place[d] = "handled" /\ place' = [place EXCEPT ![d] = "answered"]
        /\ applied' = applied /\ recorded' = recorded + 1
    BY <1>4 DEF Dedup!Finalize, Dedup!Goes
  <2>2. RunKept' /\ CutOff' = CutOff
    BY <1>0, <2>1 DEF RunKept, CutOff, Dedup!TypeOK
  <2> QED BY <1>1, <2>1, <2>2
<1>5. ASSUME NEW d \in Deliveries, Dedup!Die(d) PROVE R
  <2>1. applied' = applied /\ recorded' = recorded
    BY <1>5 DEF Dedup!Die
  <2>2. CASE place[d] = "handled"
    <3>1. place' = [place EXCEPT ![d] = "deadHandled"]
      BY <1>5, <2>2 DEF Dedup!Die, Dedup!Goes
    <3>2. CutOff' = CutOff \cup {d} /\ d \notin CutOff
      BY <2>2, <3>1 DEF CutOff, Dedup!TypeOK
    <3>3. IsFiniteSet(CutOff') /\ Cardinality(CutOff') = Cardinality(CutOff) + 1
      BY <3>2, FS_AddElement DEF RunsInv
    <3> QED BY <1>0, <2>1, <3>3 DEF RunsInv
  <2>3. CASE place[d] # "handled"
    <3>1. place' = [place EXCEPT ![d] = "dead"] /\ place[d] # "deadHandled"
      BY <1>5, <2>3 DEF Dedup!Die, Dedup!Goes, Dedup!InFlight
    <3>2. CutOff' = CutOff /\ (RunKept => RunKept')
      BY <2>1, <2>3, <3>1 DEF CutOff, RunKept, Dedup!TypeOK
    <3> QED BY <1>1, <2>1, <3>2
  <2> QED BY <2>2, <2>3
<1>6. CASE Dedup!Purge \/ Dedup!Tick \/ UNCHANGED Dedup!vars
  BY <1>6, <1>1 DEF Dedup!Purge, Dedup!Tick, Dedup!vars, CutOff, RunKept
<1> QED BY <1>2, <1>3, <1>4, <1>5, <1>6 DEF Dedup!Next

(* The handler runs to its end once, and once more for every run that      *)
(* ended and died before its completion was recorded, however many         *)
(* deliveries of the event there are.                                      *)
THEOREM AppliedOnce == WebhookSpec => []AppliedOnceUnlessCutOff
<1>1. Dedup!Init => RunsInv
  <2> SUFFICES ASSUME Dedup!Init PROVE RunsInv
    OBVIOUS
  <2>1. CutOff = {} /\ applied = 0
    BY DEF Dedup!Init, CutOff
  <2> QED BY <2>1, FS_EmptySet DEF RunsInv
<1>2. Dedup!TypeOK /\ RunsInv => AppliedOnceUnlessCutOff
  <2> SUFFICES ASSUME Dedup!TypeOK, RunsInv PROVE AppliedOnceUnlessCutOff
    OBVIOUS
  <2>1. Cardinality(CutOff) \in Nat /\ applied \in Nat
    BY FS_CardinalityType DEF RunsInv, Dedup!TypeOK
  <2> QED
    BY <2>1, DedupCardinality
        DEF RunsInv, AppliedOnceUnlessCutOff, Dedup!AppliedOnceUnlessCutOff, CutOff
<1>3. Dedup!TypeOK /\ LeaseInv /\ RunsInv /\ [Dedup!Next]_(Dedup!vars) => RunsInv'
  BY WebhookAssumption, RunsStep
<1>4. Dedup!Spec => []LeaseInv BY WebhookAssumption, LeaseInvHolds
<1> QED BY <1>1, <1>2, <1>3, <1>4, DedupTypeCorrect, PTL DEF WebhookSpec, Dedup!Spec

-----------------------------------------------------------------------------
(***************************************************************************)
(* Cloud exports, for any number of exports, workers and sessions.  No     *)
(* export is built twice at a time, no file is left without a row, and the *)
(* service is the queue of ExportJob, as long as a build ends before the   *)
(* ten minutes after which it counts as dead; the quota is exceeded by no  *)
(* more than the other requests in flight, whatever the builds do.         *)
(***************************************************************************)
(* Finiteness and cardinality in the instance are those of this module.    *)
LEMMA CloudFinite == \A S : Cloud!IsFiniteSet(S) <=> IsFiniteSet(S)
BY DEF Cloud!IsFiniteSet, IsFiniteSet

LEMMA CloudCardinality == \A S : Cloud!Cardinality(S) = Cardinality(S)
BY CloudFinite DEF Cloud!Cardinality, Cardinality

Unbuilt(e) == \A w \in Workers : ~Cloud!Builds(w, e)

StaleIsUnbuilt == \A e \in stale : exportRow[e] = "building" /\ Unbuilt(e)

ReclaimIsUnbuilt == \A w \in Workers : job[w].at = "reclaim" =>
    \A e \in job[w].todo : exportRow[e] \in {"building", "failed", "gone"} /\ Unbuilt(e)

JobsNamed == \A w \in Workers : job[w].at \in {"build", "ready"} => job[w].exp \in Cloud!Exports

SavedIsStored == \A w \in Workers :
    job[w].at = "ready" /\ asked[job[w].exp] = "no" => job[w].exp \in store

DeletionsAsked == \A s \in Sessions :
    /\ request[s].at \in {"erase", "unlist", "count"} => request[s].exp \in Cloud!Exports
    /\ request[s].at \in {"erase", "unlist"} => /\ asked[request[s].exp] # "no"
                                                /\ exportRow[request[s].exp] # "none"
    /\ request[s].at = "unlist" /\ asked[request[s].exp] = "sure" => request[s].exp \notin store

SureIsSettled == \A e \in Cloud!Exports :
    asked[e] = "sure" => exportRow[e] \in {"ready", "failed", "gone"} /\ Unbuilt(e)

ExportInv == /\ Cloud!TypeOK
        /\ JobsNamed
        /\ Cloud!BuiltByOne
        /\ StaleIsUnbuilt
        /\ ReclaimIsUnbuilt
        /\ SavedIsStored
        /\ DeletionsAsked
        /\ SureIsSettled
        /\ Cloud!ReadyIsStored
        /\ Cloud!DeletedIsErased

(* The parts of the invariant by what they speak of.                       *)
ExportsFine == Cloud!TypeOK /\ JobsNamed /\ \A s \in Sessions :
             request[s].at \in {"erase", "unlist", "count"} => request[s].exp \in Cloud!Exports

(* Types: no step leaves them.                                             *)
LEMMA JobStepTyped ==
    ASSUME ExportsFine, NEW w \in Workers, Cloud!JobStep(w)
    PROVE  ExportsFine'
<1>. USE DEF ExportsFine, Cloud!TypeOK, JobsNamed, Cloud!Status
<1>1. CASE Cloud!Begin(w)
  <2>1. Cloud!Stale \subseteq Cloud!Exports /\ Cloud!Oldest \subseteq Cloud!Exports
    BY DEF Cloud!Stale, Cloud!Oldest, Cloud!Pending
  <2> QED BY <1>1, <2>1 DEF Cloud!Begin, Cloud!GoJob
<1>2. CASE Cloud!Reclaim(w) BY <1>2 DEF Cloud!Reclaim, Cloud!GoJob, Cloud!SetStatus
<1>3. CASE Cloud!List(w)
  BY <1>3 DEF Cloud!List, Cloud!GoOn, Cloud!GoJob, Cloud!Oldest, Cloud!Pending
<1>4. CASE Cloud!Claim(w)
  <2>1. PICK e \in job[w].todo :
            \/ Cloud!Claimable(e) /\ Cloud!SetStatus(e, "building") /\ Cloud!GoJob(w, "build", job[w].todo \ {e}, e)
            \/ Cloud!GoOn(w, job[w].todo \ {e}) /\ UNCHANGED <<exportRow, stale>>
    BY <1>4 DEF Cloud!Claim
  <2>2. UNCHANGED <<expired, downloads, store, request, asked>> BY <1>4 DEF Cloud!Claim
  <2> QED BY <2>1, <2>2 DEF Cloud!GoJob, Cloud!GoOn, Cloud!SetStatus
<1>5. CASE Cloud!Save(w) BY <1>5 DEF Cloud!Save, Cloud!GoJob
<1>6. CASE Cloud!MarkReady(w) BY <1>6 DEF Cloud!MarkReady, Cloud!GoOn, Cloud!GoJob, Cloud!SetStatus
<1>7. CASE Cloud!MarkFailed(w)
  BY <1>7 DEF Cloud!MarkFailed, Cloud!GoOn, Cloud!GoJob, Cloud!SetStatus
<1>8. CASE Cloud!Stop(w) BY <1>8 DEF Cloud!Stop, Cloud!Resting
<1> QED BY <1>1, <1>2, <1>3, <1>4, <1>5, <1>6, <1>7, <1>8 DEF Cloud!JobStep

LEMMA RequestStepTyped ==
    ASSUME ExportsFine, NEW s \in Sessions, Cloud!RequestStep(s)
    PROVE  ExportsFine'
<1>. USE DEF ExportsFine, Cloud!TypeOK, JobsNamed, Cloud!Status
<1>1. CASE Cloud!AskCreate(s) BY <1>1 DEF Cloud!AskCreate, Cloud!GoRequest
<1>2. CASE Cloud!Insert(s) BY <1>2 DEF Cloud!Insert, Cloud!GoRequest
<1>3. CASE Cloud!Erase(s) BY <1>3 DEF Cloud!Erase, Cloud!GoRequest
<1>4. CASE Cloud!EraseFails(s) BY <1>4 DEF Cloud!EraseFails, Cloud!GoRequest
<1>5. CASE Cloud!Unlist(s) BY <1>5 DEF Cloud!Unlist, Cloud!GoRequest
<1>6. CASE Cloud!Count(s) BY <1>6 DEF Cloud!Count, Cloud!GoRequest
<1>7. CASE Cloud!Abandon(s) BY <1>7 DEF Cloud!Abandon, Cloud!GoRequest
<1> QED BY <1>1, <1>2, <1>3, <1>4, <1>5, <1>6, <1>7 DEF Cloud!RequestStep

LEMMA ExportsFineHolds == Cloud!Spec => []ExportsFine
<1>1. Cloud!Init => ExportsFine
  BY DEF Cloud!Init, ExportsFine, Cloud!TypeOK, JobsNamed, Cloud!Status, Cloud!Resting, Cloud!Quiet
<1>2. ExportsFine /\ [Cloud!Next]_(Cloud!vars) => ExportsFine'
  <2> SUFFICES ASSUME ExportsFine, [Cloud!Next]_(Cloud!vars) PROVE ExportsFine'
    OBVIOUS
  <2>. USE DEF ExportsFine, Cloud!TypeOK, JobsNamed
  <2>1. ASSUME NEW s \in Sessions, NEW e \in Cloud!Exports,
               Cloud!AskDelete(s, e) \/ Cloud!Download(s, e) \/ Cloud!Import(s, e)
        PROVE  ExportsFine'
    BY <2>1 DEF Cloud!AskDelete, Cloud!Download, Cloud!Import, Cloud!GoRequest
  <2>2. ASSUME NEW e \in Cloud!Exports, Cloud!GoStale(e) \/ Cloud!Expire(e) PROVE ExportsFine'
    BY <2>2 DEF Cloud!GoStale, Cloud!Expire
  <2>3. CASE UNCHANGED Cloud!vars BY <2>3 DEF Cloud!vars
  <2> QED BY <2>1, <2>2, <2>3, JobStepTyped, RequestStepTyped DEF Cloud!Next
<1> QED BY <1>1, <1>2, PTL DEF Cloud!Spec

-----------------------------------------------------------------------------
(* What a step of the job, of a request, or of time leaves of the rest.     *)
LEMMA JobStepKeeps ==
    ASSUME ExportInv, ExportsFine', NEW w \in Workers, Cloud!JobStep(w)
    PROVE  ExportInv'
<1>. USE DEF ExportInv, ExportsFine, Cloud!TypeOK, JobsNamed, Unbuilt, Cloud!Builds
<1>1. CASE Cloud!Begin(w)
  <2>. USE <1>1 DEF Cloud!Begin, Cloud!GoJob, Cloud!Stale
  <2>1. Cloud!BuiltByOne'
    <3>1. \A v \in Workers : \/ job'[v] = job[v]
                             \/ job'[v].at \in {"reclaim", "pick"}
      OBVIOUS
    <3> QED BY <3>1 DEF Cloud!BuiltByOne
  <2>2. StaleIsUnbuilt' BY DEF StaleIsUnbuilt
  <2>3. ReclaimIsUnbuilt'
    <3>1. \A v \in Workers : \/ job'[v] = job[v]
                             \/ job'[v].at = "pick"
                             \/ job'[v].at = "reclaim" /\ job'[v].todo \subseteq stale
      OBVIOUS
    <3> QED BY <3>1 DEF ReclaimIsUnbuilt, StaleIsUnbuilt
  <2>4. SavedIsStored' BY DEF SavedIsStored
  <2>5. DeletionsAsked' BY DEF DeletionsAsked
  <2>6. SureIsSettled' BY DEF SureIsSettled
  <2>7. Cloud!ReadyIsStored' BY DEF Cloud!ReadyIsStored
  <2>8. Cloud!DeletedIsErased' BY DEF Cloud!DeletedIsErased
  <2> QED BY <2>1, <2>2, <2>3, <2>4, <2>5, <2>6, <2>7, <2>8
<1>2. CASE Cloud!Reclaim(w)
  BY <1>2 DEF Cloud!Reclaim, Cloud!GoJob, Cloud!SetStatus, Cloud!Live, Cloud!BuiltByOne,
      StaleIsUnbuilt, ReclaimIsUnbuilt, SavedIsStored,
     DeletionsAsked, SureIsSettled, Cloud!ReadyIsStored, Cloud!DeletedIsErased
<1>3. CASE Cloud!List(w)
  BY <1>3 DEF Cloud!List, Cloud!GoOn, Cloud!GoJob, Cloud!Oldest, Cloud!Pending, Cloud!BuiltByOne,
      StaleIsUnbuilt, ReclaimIsUnbuilt, SavedIsStored,
     DeletionsAsked, SureIsSettled, Cloud!ReadyIsStored, Cloud!DeletedIsErased
<1>4. CASE Cloud!Claim(w)
  <2>. USE DEF Cloud!GoOn, Cloud!GoJob, Cloud!SetStatus, Cloud!Claimable, Cloud!Live
  <2>a. PICK e \in job[w].todo :
           \/ /\ Cloud!Claimable(e) /\ Cloud!SetStatus(e, "building")
              /\ Cloud!GoJob(w, "build", job[w].todo \ {e}, e)
           \/ Cloud!GoOn(w, job[w].todo \ {e}) /\ UNCHANGED <<exportRow, stale>>
    BY <1>4 DEF Cloud!Claim
  <2>b. job[w].at = "pick" /\ UNCHANGED <<expired, downloads, store, request, asked>>
    BY <1>4 DEF Cloud!Claim
  <2>. USE <2>a, <2>b
  <2>1. Cloud!BuiltByOne'
    <3>1. ASSUME NEW v \in Workers, NEW d \in Cloud!Exports, Cloud!Builds(v, d)'
          PROVE  \/ Cloud!Builds(v, d) /\ exportRow'[d] = exportRow[d]
                 \/ v = w /\ d = e /\ Unbuilt(e) /\ exportRow'[d] = "building"
      <4>1. CASE v = w BY <3>1, <4>1 DEF Cloud!BuiltByOne
      <4>2. CASE v # w
        <5>1. Cloud!Builds(v, d) BY <3>1, <4>2
        <5>2. exportRow[d] \in {"building", "gone"} BY <5>1 DEF Cloud!BuiltByOne
        <5> QED BY <5>1, <5>2
      <4> QED BY <4>1, <4>2
    <3>2. ASSUME NEW v \in Workers, NEW d \in Cloud!Exports, Cloud!Builds(v, d)'
          PROVE  /\ exportRow'[d] \in {"building", "gone"}
                 /\ \A x \in Workers : Cloud!Builds(x, d)' => x = v
      <4>1. CASE Cloud!Builds(v, d) /\ exportRow'[d] = exportRow[d]
        <5>1. ASSUME NEW x \in Workers, Cloud!Builds(x, d)' PROVE x = v
          BY <3>1, <4>1, <5>1 DEF Cloud!BuiltByOne
        <5> QED BY <4>1, <5>1 DEF Cloud!BuiltByOne
      <4>2. CASE v = w /\ d = e /\ Unbuilt(e) /\ exportRow'[d] = "building"
        <5>1. ASSUME NEW x \in Workers, Cloud!Builds(x, d)' PROVE x = v
          BY <3>1, <4>2, <5>1
        <5> QED BY <4>2, <5>1
      <4> QED BY <3>1, <3>2, <4>1, <4>2
    <3> QED BY <3>2 DEF Cloud!BuiltByOne
  <2>2. StaleIsUnbuilt' BY DEF StaleIsUnbuilt, Cloud!BuiltByOne
  <2>3. ReclaimIsUnbuilt'
    <3>1. ASSUME NEW v \in Workers, job'[v].at = "reclaim", NEW d \in job'[v].todo
          PROVE  exportRow'[d] \in {"building", "failed", "gone"} /\ Unbuilt(d)'
      <4>1. v # w /\ job'[v] = job[v] BY <3>1
      <4>2. exportRow[d] \in {"building", "failed", "gone"} /\ Unbuilt(d)
        BY <3>1, <4>1 DEF ReclaimIsUnbuilt
      <4>3. CASE exportRow[e] = "pending" /\ d = e BY <4>2, <4>3
      <4>4. CASE d # e BY <4>2, <4>4
      <4>5. CASE exportRow[e] # "pending" BY <4>2, <4>5
      <4> QED BY <4>3, <4>4, <4>5
    <3> QED BY <3>1 DEF ReclaimIsUnbuilt
  <2>4. SavedIsStored' BY DEF SavedIsStored
  <2>5. DeletionsAsked' BY DEF DeletionsAsked
  <2>6. SureIsSettled'
    <3>1. ASSUME NEW d \in Cloud!Exports, asked[d] = "sure"
          PROVE  exportRow'[d] \in {"ready", "failed", "gone"} /\ Unbuilt(d)'
      <4>1. exportRow[d] \in {"ready", "failed", "gone"} /\ Unbuilt(d) BY <3>1 DEF SureIsSettled
      <4>2. Cloud!Claimable(e) => e # d BY <4>1
      <4>3. exportRow'[d] = exportRow[d] BY <4>2
      <4> QED BY <4>1, <4>2, <4>3
    <3> QED BY <3>1 DEF SureIsSettled
  <2>7. Cloud!ReadyIsStored' BY DEF Cloud!ReadyIsStored
  <2>8. Cloud!DeletedIsErased' BY DEF Cloud!DeletedIsErased
  <2> QED BY <2>1, <2>2, <2>3, <2>4, <2>5, <2>6, <2>7, <2>8
<1>5. CASE Cloud!Save(w)
  BY <1>5 DEF Cloud!Save, Cloud!GoJob, Cloud!BuiltByOne, StaleIsUnbuilt, ReclaimIsUnbuilt,
      SavedIsStored,
     DeletionsAsked, SureIsSettled, Cloud!ReadyIsStored, Cloud!DeletedIsErased
<1>6. CASE Cloud!MarkReady(w)
  BY <1>6 DEF Cloud!MarkReady, Cloud!GoOn, Cloud!GoJob, Cloud!SetStatus, Cloud!Live,
      Cloud!BuiltByOne, StaleIsUnbuilt, ReclaimIsUnbuilt, SavedIsStored,
     DeletionsAsked, SureIsSettled, Cloud!ReadyIsStored, Cloud!DeletedIsErased
<1>7. CASE Cloud!MarkFailed(w)
  BY <1>7 DEF Cloud!MarkFailed, Cloud!GoOn, Cloud!GoJob, Cloud!SetStatus, Cloud!Live,
      Cloud!BuiltByOne, StaleIsUnbuilt, ReclaimIsUnbuilt, SavedIsStored,
     DeletionsAsked, SureIsSettled, Cloud!ReadyIsStored, Cloud!DeletedIsErased
<1>8. CASE Cloud!Stop(w)
  BY <1>8 DEF Cloud!Stop, Cloud!Resting, Cloud!BuiltByOne, StaleIsUnbuilt, ReclaimIsUnbuilt,
      SavedIsStored,
     DeletionsAsked, SureIsSettled, Cloud!ReadyIsStored, Cloud!DeletedIsErased
<1> QED BY <1>1, <1>2, <1>3, <1>4, <1>5, <1>6, <1>7, <1>8 DEF Cloud!JobStep

LEMMA RequestStepKeeps ==
    ASSUME ExportInv, ExportsFine', NEW s \in Sessions, Cloud!RequestStep(s)
    PROVE  ExportInv'
<1>. USE DEF ExportInv, ExportsFine, Cloud!TypeOK, JobsNamed, Unbuilt, Cloud!Builds
<1>1. CASE Cloud!AskCreate(s)
  BY <1>1 DEF Cloud!AskCreate, Cloud!GoRequest, Cloud!BuiltByOne, StaleIsUnbuilt,
      ReclaimIsUnbuilt, SavedIsStored,
     DeletionsAsked, SureIsSettled, Cloud!ReadyIsStored, Cloud!DeletedIsErased
<1>2. CASE Cloud!Insert(s)
  BY <1>2 DEF Cloud!Insert, Cloud!GoRequest, Cloud!BuiltByOne, StaleIsUnbuilt, ReclaimIsUnbuilt,
      SavedIsStored,
     DeletionsAsked, SureIsSettled, Cloud!ReadyIsStored, Cloud!DeletedIsErased
<1>3. CASE Cloud!Erase(s)
  BY <1>3 DEF Cloud!Erase, Cloud!GoRequest, Cloud!BuiltByOne, StaleIsUnbuilt, ReclaimIsUnbuilt,
      SavedIsStored,
     DeletionsAsked, SureIsSettled, Cloud!ReadyIsStored, Cloud!DeletedIsErased
<1>4. CASE Cloud!EraseFails(s)
  BY <1>4 DEF Cloud!EraseFails, Cloud!GoRequest, Cloud!BuiltByOne, StaleIsUnbuilt,
      ReclaimIsUnbuilt, SavedIsStored,
     DeletionsAsked, SureIsSettled, Cloud!ReadyIsStored, Cloud!DeletedIsErased
<1>5. CASE Cloud!Unlist(s)
  BY <1>5 DEF Cloud!Unlist, Cloud!GoRequest, Cloud!BuiltByOne, StaleIsUnbuilt, ReclaimIsUnbuilt,
      SavedIsStored,
     DeletionsAsked, SureIsSettled, Cloud!ReadyIsStored, Cloud!DeletedIsErased
<1>6. CASE Cloud!Count(s)
  BY <1>6 DEF Cloud!Count, Cloud!GoRequest, Cloud!BuiltByOne, StaleIsUnbuilt, ReclaimIsUnbuilt,
      SavedIsStored,
     DeletionsAsked, SureIsSettled, Cloud!ReadyIsStored, Cloud!DeletedIsErased
<1>7. CASE Cloud!Abandon(s)
  BY <1>7 DEF Cloud!Abandon, Cloud!GoRequest, Cloud!BuiltByOne, StaleIsUnbuilt, ReclaimIsUnbuilt,
      SavedIsStored,
     DeletionsAsked, SureIsSettled, Cloud!ReadyIsStored, Cloud!DeletedIsErased
<1> QED BY <1>1, <1>2, <1>3, <1>4, <1>5, <1>6, <1>7 DEF Cloud!RequestStep

LEMMA AskKeeps ==
    ASSUME ExportInv, ExportsFine', NEW s \in Sessions, NEW e \in Cloud!Exports,
           Cloud!AskDelete(s, e) \/ Cloud!Download(s, e) \/ Cloud!Import(s, e)
    PROVE  ExportInv'
<1>. USE DEF ExportInv, ExportsFine, Cloud!TypeOK, JobsNamed, Unbuilt, Cloud!Builds
<1>1. CASE Cloud!AskDelete(s, e)
  <2>. USE <1>1 DEF Cloud!AskDelete, Cloud!GoRequest, Cloud!Live, Cloud!Final
  <2>1. Cloud!BuiltByOne' BY DEF Cloud!BuiltByOne
  <2>2. StaleIsUnbuilt' BY DEF StaleIsUnbuilt
  <2>3. ReclaimIsUnbuilt' BY DEF ReclaimIsUnbuilt
  <2>4. SavedIsStored' BY DEF SavedIsStored
  <2>5. DeletionsAsked' BY DEF DeletionsAsked
  <2>6. SureIsSettled' BY DEF SureIsSettled, Cloud!BuiltByOne
  <2>7. Cloud!ReadyIsStored' BY DEF Cloud!ReadyIsStored
  <2>8. Cloud!DeletedIsErased' BY DEF Cloud!DeletedIsErased
  <2> QED BY <2>1, <2>2, <2>3, <2>4, <2>5, <2>6, <2>7, <2>8
<1>2. CASE Cloud!Download(s, e)
  BY <1>2 DEF Cloud!Download, Cloud!GoRequest, Cloud!BuiltByOne, StaleIsUnbuilt, ReclaimIsUnbuilt,
      SavedIsStored,
     DeletionsAsked, SureIsSettled, Cloud!ReadyIsStored, Cloud!DeletedIsErased
<1>3. CASE Cloud!Import(s, e)
  BY <1>3 DEF Cloud!Import, Cloud!GoRequest, Cloud!BuiltByOne, StaleIsUnbuilt, ReclaimIsUnbuilt,
      SavedIsStored,
     DeletionsAsked, SureIsSettled, Cloud!ReadyIsStored, Cloud!DeletedIsErased
<1> QED BY <1>1, <1>2, <1>3

LEMMA TimeKeeps ==
    ASSUME ExportInv, ExportsFine', ~Outlives, NEW e \in Cloud!Exports,
           Cloud!GoStale(e) \/ Cloud!Expire(e)
    PROVE  ExportInv'
<1>. USE DEF ExportInv, ExportsFine, Cloud!TypeOK, JobsNamed, Unbuilt, Cloud!Builds
<1>1. CASE Cloud!GoStale(e)
  <2>. USE <1>1 DEF Cloud!GoStale
  <2>1. Cloud!BuiltByOne' BY DEF Cloud!BuiltByOne
  <2>2. StaleIsUnbuilt' BY DEF StaleIsUnbuilt
  <2>3. ReclaimIsUnbuilt' BY DEF ReclaimIsUnbuilt
  <2>4. SavedIsStored' BY DEF SavedIsStored
  <2>5. DeletionsAsked' BY DEF DeletionsAsked
  <2>6. SureIsSettled' BY DEF SureIsSettled
  <2>7. Cloud!ReadyIsStored' BY DEF Cloud!ReadyIsStored
  <2>8. Cloud!DeletedIsErased' BY DEF Cloud!DeletedIsErased
  <2> QED BY <2>1, <2>2, <2>3, <2>4, <2>5, <2>6, <2>7, <2>8
<1>2. CASE Cloud!Expire(e)
  BY <1>2 DEF Cloud!Expire, Cloud!BuiltByOne, StaleIsUnbuilt, ReclaimIsUnbuilt, SavedIsStored,
     DeletionsAsked, SureIsSettled, Cloud!ReadyIsStored, Cloud!DeletedIsErased
<1> QED BY <1>1, <1>2

LEMMA InvariantHolds == ASSUME ~Outlives PROVE Cloud!Spec => []ExportInv
<1>1. Cloud!Init => ExportInv
  BY DEF Cloud!Init, ExportInv, Cloud!Resting, Cloud!Quiet, Cloud!TypeOK, Cloud!Status, JobsNamed,
      Cloud!BuiltByOne, Cloud!Builds, StaleIsUnbuilt,
         ReclaimIsUnbuilt, SavedIsStored, DeletionsAsked, SureIsSettled, Cloud!ReadyIsStored,
         Cloud!DeletedIsErased
<1>2. ExportInv /\ ExportsFine' /\ [Cloud!Next]_(Cloud!vars) => ExportInv'
  <2> SUFFICES ASSUME ExportInv, ExportsFine', [Cloud!Next]_(Cloud!vars) PROVE ExportInv'
    OBVIOUS
  <2>1. CASE UNCHANGED Cloud!vars
    BY <2>1 DEF Cloud!vars, ExportInv, Cloud!TypeOK, JobsNamed, Cloud!BuiltByOne, Cloud!Builds,
        Unbuilt, StaleIsUnbuilt,
                ReclaimIsUnbuilt, SavedIsStored, DeletionsAsked, SureIsSettled, Cloud!ReadyIsStored,
                Cloud!DeletedIsErased
  <2>2. ASSUME NEW e \in Cloud!Exports, Cloud!GoStale(e) \/ Cloud!Expire(e) PROVE ExportInv'
    BY <2>2, TimeKeeps
  <2> QED BY <2>1, <2>2, JobStepKeeps, RequestStepKeeps, AskKeeps DEF Cloud!Next
<1> QED BY <1>1, <1>2, ExportsFineHolds, PTL DEF Cloud!Spec

(* Every reachable state of the rows, the store, the runs and the requests *)
(* is well formed, however long a build takes.                             *)
THEOREM ExportsTyped == Cloud!Spec => []Cloud!TypeOK
<1>1. ExportsFine => Cloud!TypeOK BY DEF ExportsFine
<1> QED BY <1>1, ExportsFineHolds, PTL

(* claimForBuild and the ten minutes keep every build to one run.          *)
THEOREM OneBuilder == ASSUME ~Outlives PROVE ExportSpec => []BuiltByOne
<1>1. ExportInv => BuiltByOne BY DEF ExportInv, BuiltByOne
<1> QED BY <1>1, InvariantHolds, PTL DEF ExportSpec

(* What is shown as ready can be downloaded, and no run of the job writes  *)
(* back what a parent deleted after it settled.                            *)
THEOREM StoreFollowsRows == ASSUME ~Outlives PROVE ExportSpec => []FilesFollowRows
<1>1. ExportInv => FilesFollowRows BY DEF ExportInv, FilesFollowRows, Cloud!FilesFollowRows
<1> QED BY <1>1, InvariantHolds, PTL DEF ExportSpec

-----------------------------------------------------------------------------
(* The refinement.                                                         *)

LEMMA BuilderIs ==
    ASSUME Cloud!BuiltByOne, NEW e \in Cloud!Exports, NEW w \in Workers, Cloud!Builds(w, e)
    PROVE  Cloud!builder[e] = w
  BY DEF Cloud!BuiltByOne, Cloud!builder

LEMMA BuilderIsNone ==
    ASSUME NEW e \in Cloud!Exports, Unbuilt(e)
    PROVE  Cloud!builder[e] = NoWorker
  BY DEF Unbuilt, Cloud!builder

(* The same of the next state.                                             *)
LEMMA BuilderIsNext ==
    ASSUME Cloud!BuiltByOne', NEW e \in Cloud!Exports, NEW w \in Workers, Cloud!Builds(w, e)'
    PROVE  Cloud!builder'[e] = w
  BY DEF Cloud!BuiltByOne, Cloud!builder

LEMMA BuilderIsNoneNext ==
    ASSUME NEW e \in Cloud!Exports, Unbuilt(e)'
    PROVE  Cloud!builder'[e] = NoWorker
  BY DEF Unbuilt, Cloud!builder

LEMMA SameBuilder ==
    ASSUME Cloud!BuiltByOne, Cloud!BuiltByOne', NEW e \in Cloud!Exports,
           \A w \in Workers : Cloud!Builds(w, e)' <=> Cloud!Builds(w, e)
    PROVE  Cloud!builder'[e] = Cloud!builder[e]
<1>1. CASE \E w \in Workers : Cloud!Builds(w, e)
  <2>1. PICK w \in Workers : Cloud!Builds(w, e) BY <1>1
  <2> QED BY <2>1, BuilderIs, BuilderIsNext
<1>2. CASE ~\E w \in Workers : Cloud!Builds(w, e)
  <2>1. Unbuilt(e) /\ Unbuilt(e)' BY <1>2 DEF Unbuilt
  <2> QED BY <2>1, BuilderIsNone, BuilderIsNoneNext
<1> QED BY <1>1, <1>2

LEMMA BuilderIsFunction == Cloud!builder = [e \in Cloud!Exports |-> Cloud!builder[e]]
  BY DEF Cloud!builder

LEMMA BuilderIsFunctionNext == Cloud!builder' = [e \in Cloud!Exports |-> Cloud!builder'[e]]
  BY DEF Cloud!builder

(* A step that changes neither rows nor builders is no step of the queue.  *)
LEMMA Stutters ==
    ASSUME Cloud!BuiltByOne, Cloud!BuiltByOne', exportRow' = exportRow,
           \A e \in Cloud!Exports, w \in Workers : Cloud!Builds(w, e)' <=> Cloud!Builds(w, e)
    PROVE  UNCHANGED Cloud!Job!jobVars
<1>1. \A e \in Cloud!Exports : Cloud!builder'[e] = Cloud!builder[e] BY SameBuilder
<1>2. Cloud!builder' = Cloud!builder BY <1>1, BuilderIsFunction, BuilderIsFunctionNext
<1> QED BY <1>2 DEF Cloud!Job!jobVars

(* A step that changes one export changes what the queue knows of it.      *)
LEMMA StepBecomes ==
    ASSUME Cloud!BuiltByOne, Cloud!BuiltByOne', NEW e \in Cloud!Exports, NEW t, NEW x,
           exportRow' = [exportRow EXCEPT ![e] = t],
           \A d \in Cloud!Exports \ {e}, w \in Workers : Cloud!Builds(w, d)' <=> Cloud!Builds(w, d),
           Cloud!builder'[e] = x
    PROVE  Cloud!Job!Becomes(e, t, x)
<1>1. \A d \in Cloud!Exports \ {e} : Cloud!builder'[d] = Cloud!builder[d] BY SameBuilder
<1>2. Cloud!builder' = [Cloud!builder EXCEPT ![e] = x]
  BY <1>1, BuilderIsFunction, BuilderIsFunctionNext
<1> QED BY <1>2 DEF Cloud!Job!Becomes

(* A run that settles the export it builds finishes the job; when a parent *)
(* has deleted the exportRow meanwhile, it only lets the job go.                 *)
LEMMA SettleMaps ==
    ASSUME Cloud!CloudExportAssumption, ExportInv, Cloud!BuiltByOne', NEW w \in Workers,
           NEW t \in {"ready", "failed"},
           job[w].at \in {"build", "ready"}, Cloud!SetStatus(job[w].exp, t), Cloud!GoOn(w, job[w].todo)
    PROVE  Cloud!Job!Next
<1>0. PICK e \in Cloud!Exports : e = job[w].exp BY DEF ExportInv, JobsNamed
<1>1. Cloud!Builds(w, e) /\ exportRow[e] \in {"building", "gone"}
  BY <1>0 DEF ExportInv, Cloud!Builds, Cloud!BuiltByOne
<1>2. Unbuilt(e)' /\ \A d \in Cloud!Exports \ {e}, v \in Workers : Cloud!Builds(v, d)' <=> Cloud!Builds(v, d)
  BY <1>0, <1>1 DEF ExportInv, Cloud!TypeOK, Cloud!BuiltByOne, Cloud!Builds, Unbuilt, Cloud!GoOn,
      Cloud!GoJob
<1>3. Cloud!builder[e] = w /\ Cloud!builder'[e] = NoWorker
  BY <1>1, <1>2, BuilderIs, BuilderIsNoneNext DEF ExportInv
<1>4. w # NoWorker BY DEF Cloud!CloudExportAssumption
<1>5. CASE exportRow[e] = "building"
  <2>1. exportRow' = [exportRow EXCEPT ![e] = t] BY <1>0, <1>5 DEF Cloud!SetStatus, Cloud!Live
  <2>2. Cloud!Job!Becomes(e, t, NoWorker) BY <1>1, <1>2, <1>3, <2>1, StepBecomes DEF ExportInv
  <2> QED BY <1>1, <1>3, <1>4, <1>5, <2>2 DEF Cloud!Job!Next, Cloud!Job!Finish
<1>6. CASE exportRow[e] = "gone"
  <2>1. exportRow' = [exportRow EXCEPT ![e] = exportRow[e]]
    BY <1>0, <1>6 DEF Cloud!SetStatus, Cloud!Live
  <2>2. Cloud!Job!Becomes(e, exportRow[e], NoWorker)
    BY <1>1, <1>2, <1>3, <2>1, StepBecomes DEF ExportInv
  <2> QED BY <1>1, <1>3, <1>4, <2>2 DEF Cloud!Job!Next, Cloud!Job!Lose
<1> QED BY <1>1, <1>5, <1>6

LEMMA JobStepMaps ==
    ASSUME Cloud!CloudExportAssumption, ExportInv, ExportInv', NEW w \in Workers, Cloud!JobStep(w)
    PROVE  Cloud!Job!Next \/ UNCHANGED Cloud!Job!jobVars
<1>. USE DEF ExportInv, Cloud!TypeOK
<1>1. CASE Cloud!Begin(w)
  <2>1. job[w].at = "idle" /\ job'[w].at \in {"reclaim", "pick"}
    BY <1>1 DEF Cloud!Begin, Cloud!GoJob
  <2>3. \A v \in Workers \ {w} : job'[v] = job[v] BY <1>1 DEF Cloud!Begin, Cloud!GoJob
  <2>2. \A e \in Cloud!Exports, v \in Workers : Cloud!Builds(v, e)' <=> Cloud!Builds(v, e)
    BY <2>1, <2>3 DEF Cloud!Builds
  <2> QED BY <1>1, <2>2, Stutters DEF Cloud!Begin
<1>2. CASE Cloud!Reclaim(w)
  <2>1. PICK e \in job[w].todo : Cloud!SetStatus(e, "failed") /\ Cloud!GoJob(w, "reclaim", job[w].todo \ {e}, 0)
    BY <1>2 DEF Cloud!Reclaim
  <2>2. e \in Cloud!Exports /\ exportRow[e] \in {"building", "failed", "gone"} /\ Unbuilt(e)
    BY <1>2 DEF Cloud!Reclaim, ReclaimIsUnbuilt
  <2>3. \A d \in Cloud!Exports, v \in Workers : Cloud!Builds(v, d)' <=> Cloud!Builds(v, d)
    BY <1>2, <2>1 DEF Cloud!Reclaim, Cloud!GoJob, Cloud!Builds
  <2>4. CASE exportRow[e] = "building"
    <3>1. exportRow' = [exportRow EXCEPT ![e] = "failed"]
      BY <2>1, <2>4 DEF Cloud!SetStatus, Cloud!Live
    <3>2. Cloud!builder[e] = NoWorker /\ Cloud!builder'[e] = NoWorker
      BY <2>2, <2>3, BuilderIsNone, BuilderIsNoneNext DEF Unbuilt
    <3>3. Cloud!Job!Becomes(e, "failed", NoWorker) BY <2>2, <2>3, <3>1, <3>2, StepBecomes
    <3> QED BY <2>2, <2>4, <3>2, <3>3 DEF Cloud!Job!Next, Cloud!Job!GiveUp
  <2>5. CASE exportRow[e] # "building"
    <3>1. exportRow' = exportRow BY <2>1, <2>2, <2>5 DEF Cloud!SetStatus, Cloud!Live
    <3> QED BY <2>3, <3>1, Stutters
  <2> QED BY <2>4, <2>5
<1>3. CASE Cloud!List(w)
  <2>1. \A e \in Cloud!Exports, v \in Workers : Cloud!Builds(v, e)' <=> Cloud!Builds(v, e)
    BY <1>3 DEF Cloud!List, Cloud!GoOn, Cloud!GoJob, Cloud!Builds
  <2> QED BY <1>3, <2>1, Stutters DEF Cloud!List
<1>4. CASE Cloud!Claim(w)
  <2>1. PICK e \in job[w].todo :
            \/ Cloud!Claimable(e) /\ Cloud!SetStatus(e, "building") /\ Cloud!GoJob(w, "build", job[w].todo \ {e}, e)
            \/ Cloud!GoOn(w, job[w].todo \ {e}) /\ UNCHANGED <<exportRow, stale>>
    BY <1>4 DEF Cloud!Claim
  <2>2. e \in Cloud!Exports /\ job[w].at = "pick" BY <1>4 DEF Cloud!Claim
  <2>3. CASE Cloud!Claimable(e) /\ Cloud!SetStatus(e, "building") /\ Cloud!GoJob(w, "build", job[w].todo \ {e}, e)
    <3>1. exportRow[e] = "pending" /\ exportRow' = [exportRow EXCEPT ![e] = "building"]
      BY <2>3 DEF Cloud!Claimable, Cloud!SetStatus, Cloud!Live
    <3>2. Cloud!Builds(w, e)' /\ \A d \in Cloud!Exports \ {e}, v \in Workers : Cloud!Builds(v, d)' <=> Cloud!Builds(v, d)
      BY <2>2, <2>3 DEF Cloud!GoJob, Cloud!Builds
    <3>3. Cloud!builder'[e] = w BY <2>2, <3>2, BuilderIsNext
    <3>4. Cloud!Job!Becomes(e, "building", w) BY <2>2, <3>1, <3>2, <3>3, StepBecomes
    <3> QED BY <2>2, <3>1, <3>4 DEF Cloud!Job!Next, Cloud!Job!Build
  <2>4. CASE Cloud!GoOn(w, job[w].todo \ {e}) /\ UNCHANGED <<exportRow, stale>>
    <3>1. \A d \in Cloud!Exports, v \in Workers : Cloud!Builds(v, d)' <=> Cloud!Builds(v, d)
      BY <2>2, <2>4 DEF Cloud!GoOn, Cloud!GoJob, Cloud!Builds
    <3> QED BY <2>4, <3>1, Stutters
  <2> QED BY <2>1, <2>3, <2>4
<1>5. CASE Cloud!Save(w)
  <2>1. \A e \in Cloud!Exports, v \in Workers : Cloud!Builds(v, e)' <=> Cloud!Builds(v, e)
    BY <1>5 DEF Cloud!Save, Cloud!GoJob, Cloud!Builds
  <2> QED BY <1>5, <2>1, Stutters DEF Cloud!Save
<1>6. CASE Cloud!MarkReady(w) BY <1>6, SettleMaps DEF Cloud!MarkReady
<1>7. CASE Cloud!MarkFailed(w) BY <1>7, SettleMaps DEF Cloud!MarkFailed
<1>8. CASE Cloud!Stop(w)
  <2>1. exportRow' = exportRow /\ job' = [job EXCEPT ![w] = Cloud!Resting] BY <1>8 DEF Cloud!Stop
  <2>2. CASE job[w].at \in {"build", "ready"}
    <3>0. PICK e \in Cloud!Exports : e = job[w].exp BY <2>2 DEF JobsNamed
    <3>1. Cloud!Builds(w, e) BY <2>2, <3>0 DEF Cloud!Builds
    <3>2. Unbuilt(e)' /\ \A d \in Cloud!Exports \ {e}, v \in Workers : Cloud!Builds(v, d)' <=> Cloud!Builds(v, d)
      BY <2>1, <3>0, <3>1 DEF Cloud!BuiltByOne, Cloud!Builds, Unbuilt, Cloud!Resting
    <3>3. Cloud!builder[e] = w /\ Cloud!builder'[e] = NoWorker
      BY <3>1, <3>2, BuilderIs, BuilderIsNoneNext
    <3>4. exportRow' = [exportRow EXCEPT ![e] = exportRow[e]] BY <2>1
    <3>5. Cloud!Job!Becomes(e, exportRow[e], NoWorker) BY <3>1, <3>2, <3>3, <3>4, StepBecomes
    <3> QED
      BY <3>1, <3>3, <3>5, Cloud!CloudExportAssumption DEF Cloud!CloudExportAssumption,
          Cloud!Job!Next, Cloud!Job!Lose
  <2>3. CASE job[w].at \notin {"build", "ready"}
    <3>1. \A d \in Cloud!Exports, v \in Workers : Cloud!Builds(v, d)' <=> Cloud!Builds(v, d)
      BY <2>1, <2>3 DEF Cloud!Builds, Cloud!Resting
    <3> QED BY <2>1, <3>1, Stutters
  <2> QED BY <2>2, <2>3
<1> QED BY <1>1, <1>2, <1>3, <1>4, <1>5, <1>6, <1>7, <1>8 DEF Cloud!JobStep

LEMMA InsertMaps ==
    ASSUME ExportInv, ExportInv', NEW s \in Sessions, Cloud!Insert(s)
    PROVE  Cloud!Job!Next
<1>1. PICK e \in Cloud!Exports : exportRow[e] = "none" /\ exportRow' = [exportRow EXCEPT ![e] = "pending"]
  BY DEF Cloud!Insert
<1>2. \A d \in Cloud!Exports, v \in Workers : Cloud!Builds(v, d)' <=> Cloud!Builds(v, d)
  BY DEF Cloud!Insert, Cloud!Builds
<1>3. Unbuilt(e) /\ Unbuilt(e)' BY <1>1, <1>2 DEF ExportInv, Cloud!BuiltByOne, Unbuilt
<1>4. Cloud!Job!Becomes(e, "pending", NoWorker)
  BY <1>1, <1>2, <1>3, BuilderIsNoneNext, StepBecomes DEF ExportInv
<1> QED BY <1>1, <1>4 DEF Cloud!Job!Next, Cloud!Job!Issue

LEMMA UnlistMaps ==
    ASSUME ExportInv, ExportInv', NEW s \in Sessions, Cloud!Unlist(s)
    PROVE  Cloud!Job!Next \/ UNCHANGED Cloud!Job!jobVars
<1>. DEFINE e == request[s].exp
<1>1. e \in Cloud!Exports /\ exportRow[e] # "none" BY DEF ExportInv, DeletionsAsked, Cloud!Unlist
<1>2. exportRow' = [exportRow EXCEPT ![e] = "gone"] BY DEF Cloud!Unlist
<1>3. \A d \in Cloud!Exports, v \in Workers : Cloud!Builds(v, d)' <=> Cloud!Builds(v, d)
  BY DEF Cloud!Unlist, Cloud!Builds
<1>4. CASE exportRow[e] = "gone"
  <2>1. exportRow' = exportRow BY <1>2, <1>4 DEF ExportInv, Cloud!TypeOK
  <2> QED BY <1>3, <2>1, Stutters DEF ExportInv
<1>5. CASE exportRow[e] # "gone"
  <2>1. Cloud!builder'[e] = Cloud!builder[e] BY <1>1, <1>3, SameBuilder DEF ExportInv
  <2>2. Cloud!Job!Becomes(e, "gone", Cloud!builder[e])
    BY <1>1, <1>2, <1>3, <2>1, StepBecomes DEF ExportInv
  <2> QED BY <1>1, <1>5, <2>2 DEF Cloud!Job!Next, Cloud!Job!Discard
<1> QED BY <1>4, <1>5

(* Every step of the service is a step of the queue it promises, or none.  *)
LEMMA NextMaps ==
    ASSUME Cloud!CloudExportAssumption, ExportInv, ExportInv', [Cloud!Next]_(Cloud!vars)
    PROVE  [Cloud!Job!Next]_(Cloud!Job!jobVars)
<1>1. CASE UNCHANGED <<exportRow, job>>
  <2>1. \A e \in Cloud!Exports, v \in Workers : Cloud!Builds(v, e)' <=> Cloud!Builds(v, e)
    BY <1>1 DEF Cloud!Builds
  <2> QED BY <1>1, <2>1, Stutters DEF ExportInv
<1>2. ASSUME NEW s \in Sessions, Cloud!RequestStep(s) PROVE [Cloud!Job!Next]_(Cloud!Job!jobVars)
  <2>1. Cloud!Insert(s) \/ Cloud!Unlist(s) \/ UNCHANGED <<exportRow, job>>
    BY <1>2 DEF Cloud!RequestStep, Cloud!AskCreate, Cloud!Erase, Cloud!EraseFails, Cloud!Count,
        Cloud!Abandon
  <2> QED BY <1>1, <2>1, InsertMaps, UnlistMaps
<1>3. ASSUME NEW e \in Cloud!Exports,
             \/ \E s \in Sessions : Cloud!AskDelete(s, e) \/ Cloud!Download(s, e) \/ Cloud!Import(s, e)
             \/ Cloud!GoStale(e) \/ Cloud!Expire(e)
      PROVE  UNCHANGED <<exportRow, job>>
  BY <1>3 DEF Cloud!AskDelete, Cloud!Download, Cloud!Import, Cloud!GoStale, Cloud!Expire
<1>4. UNCHANGED Cloud!vars => UNCHANGED <<exportRow, job>> BY DEF Cloud!vars
<1> QED BY <1>1, <1>2, <1>3, <1>4, JobStepMaps DEF Cloud!Next

LEMMA InitMaps == Cloud!Init => Cloud!Job!Init
<1> SUFFICES ASSUME Cloud!Init PROVE Cloud!Job!Init
  OBVIOUS
<1>1. \A e \in Cloud!Exports : Unbuilt(e) BY DEF Cloud!Init, Unbuilt, Cloud!Builds, Cloud!Resting
<1>2. \A e \in Cloud!Exports : Cloud!builder[e] = NoWorker BY <1>1, BuilderIsNone
<1> QED BY <1>2, BuilderIsFunction DEF Cloud!Init, Cloud!Job!Init

(* The export-build job implements the queue of the design: each export is *)
(* built at most once, by one run, is given up only when nobody builds it, *)
(* and keeps its outcome.                                                  *)
THEOREM ServiceIsQueue == ASSUME ~Outlives PROVE ExportSpec => KeepsPromise
<1>1. ExportInv /\ ExportInv' /\ [Cloud!Next]_(Cloud!vars) => [Cloud!Job!Next]_(Cloud!Job!jobVars)
  BY ExportAssumption, NextMaps
<1> QED
  BY <1>1, InitMaps, InvariantHolds, PTL
      DEF ExportSpec, KeepsPromise, Cloud!Spec, Cloud!KeepsPromise, Cloud!Job!Spec

-----------------------------------------------------------------------------
(* The quota.                                                              *)

(* How many exports are held, and the bound, counted by this module's      *)
(* Cardinality.                                                            *)
LEMMA HeldIs ==
    /\ Cloud!Held = Cardinality(Cloud!Kept)
    /\ Cloud!Held' = Cardinality(Cloud!Kept')
BY CloudCardinality DEF Cloud!Held

LEMMA QuotaIs ==
    /\ Cloud!QuotaNearlyKept <=>
           Cloud!Held + Cardinality(Cloud!Inserting) <= Quota + Cardinality(Sessions) - 1
    /\ Cloud!QuotaNearlyKept' <=>
           Cloud!Held' + Cardinality(Cloud!Inserting') <= Quota + Cardinality(Sessions) - 1
BY CloudCardinality DEF Cloud!QuotaNearlyKept

LEMMA SessionsFinite ==
    ASSUME Cloud!CloudExportAssumption
    PROVE  IsFiniteSet(Sessions) /\ Cardinality(Sessions) \in Nat /\ Cardinality(Sessions) # 0
<1>1. IsFiniteSet(Sessions) /\ Sessions # {}
  BY CloudFinite DEF Cloud!CloudExportAssumption
<1> QED BY <1>1, FS_EmptySet, FS_CardinalityType

LEMMA ExportsFinite == ASSUME Cloud!CloudExportAssumption PROVE IsFiniteSet(Cloud!Exports)
  BY FS_Interval, Cloud!CloudExportAssumption DEF Cloud!CloudExportAssumption, Cloud!Exports

LEMMA Counted ==
    ASSUME Cloud!CloudExportAssumption
    PROVE
    /\ IsFiniteSet(Cloud!Kept) /\ Cloud!Held \in Nat
    /\ IsFiniteSet(Cloud!Inserting) /\ Cardinality(Cloud!Inserting) \in Nat
    /\ Cardinality(Cloud!Inserting) <= Cardinality(Sessions)
    /\ Cardinality(Sessions) \in Nat
<1>1. Cloud!Kept \subseteq Cloud!Exports /\ Cloud!Inserting \subseteq Sessions
  BY DEF Cloud!Kept, Cloud!Inserting
<1> QED BY <1>1, ExportsFinite, SessionsFinite, HeldIs, FS_Subset, FS_CardinalityType

(* Everything but a count or an insert leaves no more rows and no more     *)
(* requests that are about to insert one.                                  *)
LEMMA FewerIsFine ==
    ASSUME Cloud!CloudExportAssumption, Cloud!QuotaNearlyKept, Cloud!Kept' \subseteq Cloud!Kept,
           Cloud!Inserting' \subseteq Cloud!Inserting
    PROVE  Cloud!QuotaNearlyKept'
<1>1. Cloud!Held' <= Cloud!Held /\ Cloud!Held' \in Nat
  BY Counted, HeldIs, FS_Subset, FS_CardinalityType
<1>2. Cardinality(Cloud!Inserting') <= Cardinality(Cloud!Inserting) /\ Cardinality(Cloud!Inserting') \in Nat
  BY Counted, FS_Subset, FS_CardinalityType
<1> QED
  BY <1>1, <1>2, Counted, HeldIs, QuotaIs, Cloud!CloudExportAssumption
      DEF Cloud!CloudExportAssumption

LEMMA NextKeepsQuota ==
    ASSUME Cloud!CloudExportAssumption, ExportsFine, Cloud!QuotaNearlyKept,
           [Cloud!Next]_(Cloud!vars)
    PROVE  Cloud!QuotaNearlyKept'
<1>. USE DEF ExportsFine, Cloud!TypeOK
<1>1. ASSUME NEW s \in Sessions, Cloud!AskCreate(s) PROVE Cloud!QuotaNearlyKept'
  <2>1. Cloud!Held < Quota BY <1>1 DEF Cloud!AskCreate
  <2>2. Cloud!Kept' = Cloud!Kept /\ Cloud!Held' = Cloud!Held
    BY <1>1 DEF Cloud!AskCreate, Cloud!Kept, Cloud!Live, Cloud!Held
  <2>3. Cloud!Inserting' \subseteq Sessions BY DEF Cloud!Inserting
  <2>4. Cardinality(Cloud!Inserting') <= Cardinality(Sessions) /\ Cardinality(Cloud!Inserting') \in Nat
    BY <2>3, SessionsFinite, FS_Subset, FS_CardinalityType
  <2> QED
    BY <2>1, <2>2, <2>4, Counted, HeldIs, QuotaIs, Cloud!CloudExportAssumption
        DEF Cloud!CloudExportAssumption
<1>2. ASSUME NEW s \in Sessions, Cloud!Insert(s) PROVE Cloud!QuotaNearlyKept'
  <2>1. PICK e \in Cloud!Exports : exportRow[e] = "none" /\ exportRow' = [exportRow EXCEPT ![e] = "pending"]
    BY <1>2 DEF Cloud!Insert
  <2>2. Cloud!Kept' = Cloud!Kept \cup {e} /\ e \notin Cloud!Kept BY <2>1 DEF Cloud!Kept, Cloud!Live
  <2>3. Cloud!Inserting' = Cloud!Inserting \ {s} /\ s \in Cloud!Inserting
    BY <1>2 DEF Cloud!Insert, Cloud!GoRequest, Cloud!Inserting
  <2>4. Cloud!Held' = Cloud!Held + 1 BY <2>2, Counted, HeldIs, FS_AddElement
  <2>5. Cardinality(Cloud!Inserting') = Cardinality(Cloud!Inserting) - 1
    BY <2>3, Counted, FS_RemoveElement
  <2> QED
    BY <2>4, <2>5, Counted, HeldIs, QuotaIs, Cloud!CloudExportAssumption
        DEF Cloud!CloudExportAssumption
<1>3. ASSUME NEW w \in Workers, Cloud!JobStep(w)
      PROVE  Cloud!Kept' \subseteq Cloud!Kept /\ Cloud!Inserting' = Cloud!Inserting
  <2>1. request' = request
    BY <1>3 DEF Cloud!JobStep, Cloud!Begin, Cloud!Reclaim, Cloud!List, Cloud!Claim, Cloud!Save,
        Cloud!MarkReady, Cloud!MarkFailed, Cloud!Stop
  <2>2. \/ exportRow' = exportRow
        \/ \E e, t : Cloud!SetStatus(e, t)
    BY <1>3 DEF Cloud!JobStep, Cloud!Begin, Cloud!Reclaim, Cloud!List, Cloud!Claim, Cloud!Save,
        Cloud!MarkReady, Cloud!MarkFailed, Cloud!Stop
  <2>3. \A d \in Cloud!Exports : Cloud!Live(d)' => Cloud!Live(d)
    BY <2>2 DEF Cloud!SetStatus, Cloud!Live
  <2> QED BY <2>1, <2>3 DEF Cloud!Kept, Cloud!Inserting
<1>4. ASSUME NEW s \in Sessions,
             Cloud!Erase(s) \/ Cloud!EraseFails(s) \/ Cloud!Unlist(s) \/ Cloud!Count(s) \/ Cloud!Abandon(s)
      PROVE  Cloud!Kept' \subseteq Cloud!Kept /\ Cloud!Inserting' \subseteq Cloud!Inserting
  BY <1>4 DEF Cloud!Erase, Cloud!EraseFails, Cloud!Unlist, Cloud!Count, Cloud!Abandon,
      Cloud!GoRequest, Cloud!Kept, Cloud!Live, Cloud!Inserting
<1>5. ASSUME NEW s \in Sessions, NEW e \in Cloud!Exports,
             Cloud!AskDelete(s, e) \/ Cloud!Download(s, e) \/ Cloud!Import(s, e)
      PROVE  Cloud!Kept' \subseteq Cloud!Kept /\ Cloud!Inserting' \subseteq Cloud!Inserting
  BY <1>5 DEF Cloud!AskDelete, Cloud!Download, Cloud!Import, Cloud!GoRequest, Cloud!Kept,
      Cloud!Live, Cloud!Inserting
<1>6. ASSUME NEW e \in Cloud!Exports, Cloud!GoStale(e) \/ Cloud!Expire(e)
      PROVE  Cloud!Kept' \subseteq Cloud!Kept /\ Cloud!Inserting' \subseteq Cloud!Inserting
  BY <1>6 DEF Cloud!GoStale, Cloud!Expire, Cloud!Kept, Cloud!Live, Cloud!Inserting
<1>7. UNCHANGED Cloud!vars => Cloud!Kept' \subseteq Cloud!Kept /\ Cloud!Inserting' \subseteq Cloud!Inserting
  BY DEF Cloud!vars, Cloud!Kept, Cloud!Live, Cloud!Inserting
<1> QED BY <1>1, <1>2, <1>3, <1>4, <1>5, <1>6, <1>7, FewerIsFine DEF Cloud!Next, Cloud!RequestStep

(* The plan's quota can be passed by no more exports than there are other  *)
(* requests at the time, for any number of them.                           *)
THEOREM QuotaIsNearlyKept == ExportSpec => []QuotaNearlyKept
<1>1. Cloud!Init => Cloud!QuotaNearlyKept
  <2> SUFFICES ASSUME Cloud!Init PROVE Cloud!QuotaNearlyKept
    OBVIOUS
  <2>1. Cloud!Kept = {} /\ Cloud!Inserting = {}
    BY DEF Cloud!Init, Cloud!Kept, Cloud!Live, Cloud!Inserting, Cloud!Quiet
  <2>2. Cloud!Held = 0 /\ Cardinality(Cloud!Inserting) = 0 BY <2>1, HeldIs, FS_EmptySet
  <2>3. Cardinality(Sessions) # 0 /\ Cardinality(Sessions) \in Nat
    BY ExportAssumption, SessionsFinite
  <2> QED BY <2>2, <2>3, QuotaIs, ExportAssumption DEF Cloud!CloudExportAssumption
<1>2. ExportsFine /\ Cloud!QuotaNearlyKept /\ [Cloud!Next]_(Cloud!vars) => Cloud!QuotaNearlyKept'
  BY ExportAssumption, NextKeepsQuota
<1> QED BY <1>1, <1>2, ExportsFineHolds, PTL DEF ExportSpec, QuotaNearlyKept, Cloud!Spec

-----------------------------------------------------------------------------
(***************************************************************************)
(* The end of a tenant, for any number of tenants, plans and requests that *)
(* overlap each other, the job and the turn of the day.  An erasure that   *)
(* has asked Stripe finds nothing billed but what the row did not show.    *)
(* For a tenant that is not upset, mark and date stand together, and what  *)
(* is in the job's list or being erased on request is past its date.       *)
(***************************************************************************)
\* Once Stripe was asked, nothing is open or billed but what the row did not show then.
AskedIsOver == \A t \in Tenants :
    Leaving!Asked(t) => billing[t] \in {"none", "ended"} \/ t \in unseen

Pending(t) == deletion[t].at \in {"marking", "dating"}

\* A request that writes mark and date is alone, and the date it writes is the promised one.
WritesPromise(t) == Pending(t) =>
    /\ restore[t] = "idle" /\ due[t] = deletion[t].date /\ due[t] # Leaving!Unset
    /\ family[t].softDeleted <=> deletion[t].at = "dating"

\* So is one that erases, and its day has come.
ErasesWhenDue(t) == deletion[t].at \in Leaving!Erasing =>
    /\ restore[t] = "idle" /\ ~family[t].softDeleted
    /\ due[t] # Leaving!Unset /\ day >= due[t]

\* A mark stands with the promised date, and no date without a mark, but while they are written.
MarkHasDate(t) ==
    /\ ~Pending(t) /\ family[t].softDeleted => family[t].date = due[t] /\ due[t] # Leaving!Unset
    /\ restore[t] = "undating" => ~family[t].softDeleted
    /\ restore[t] # "undating" /\ (family[t].softDeleted => deletion[t].at = "dating")
           => family[t].date = Leaving!Unset

\* The run has come to the tenant and erased its settings.
Unmarked(t) == Leaving!First(t) /\ purge.at \in {"children", "family"}

\* The tenants in the list are past their date and can no longer be restored.
ListedIsDue(t) == t \in purge.queue =>
    /\ deletion[t].at = "idle" /\ restore[t] # "undating"
    /\ due[t] # Leaving!Unset /\ day >= due[t]
    /\ family[t].exists => family[t].softDeleted \/ Unmarked(t)

Promise(t) == WritesPromise(t) /\ ErasesWhenDue(t) /\ MarkHasDate(t) /\ ListedIsDue(t)

PromiseInv == \A t \in Tenants \ upset : Promise(t)

\* A tenant's rows, its request and the daily run, as records.
Row     == [exists: BOOLEAN, softDeleted: BOOLEAN, date: Leaving!Dates, children: BOOLEAN]
Request == [at: {"idle", "marking", "dating"} \cup Leaving!Erasing, date: Leaving!Dates]
Run     == [running: BOOLEAN, queue: SUBSET Tenants, attempted: 0 .. PurgeLimit,
            at: {"none"} \cup Leaving!Erasing]

\* A row, a request and a run stay one when a field is written.
LEMMA RowChanges ==
    ASSUME NEW r \in Row
    PROVE  /\ \A b \in BOOLEAN : /\ [r EXCEPT !.exists = b] \in Row
                                 /\ [r EXCEPT !.softDeleted = b] \in Row
                                 /\ [r EXCEPT !.children = b] \in Row
           /\ \A d \in Leaving!Dates : /\ [r EXCEPT !.date = d] \in Row
                                       /\ [r EXCEPT !.softDeleted = FALSE, !.date = d] \in Row
BY DEF Row

LEMMA RequestChanges ==
    ASSUME NEW r \in Request
    PROVE  \A a \in {"idle", "marking", "dating"} \cup Leaving!Erasing : [r EXCEPT !.at = a] \in Request
BY DEF Request

LEMMA RunChanges ==
    ASSUME NEW r \in Run
    PROVE  /\ \A a \in Leaving!Erasing : [r EXCEPT !.at = a] \in Run
           /\ \A q \in SUBSET Tenants : [r EXCEPT !.queue = q, !.at = "none"] \in Run
           /\ \A n \in 0 .. PurgeLimit : [r EXCEPT !.attempted = n, !.at = "subscription"] \in Run
           /\ \A n \in 0 .. PurgeLimit, q \in SUBSET Tenants :
                  [r EXCEPT !.attempted = n, !.queue = q] \in Run
BY DEF Run, Leaving!Erasing

LEMMA Zero == Leaving!Unset \in Leaving!Dates /\ Leaving!NoRequest \in Request
<1>1. Leaving!Unset \in Leaving!Dates BY DEF Leaving!Dates
<1> QED BY <1>1 DEF Leaving!NoRequest, Request

\* The steps of an erasure keep requests and the run what they are.
LEMMA GoesTyped ==
    ASSUME deletion \in [Tenants -> Request], purge \in Run,
           restore \in [Tenants -> {"idle", "unmarking", "undating"}], NEW a, NEW t \in Tenants,
           \/ Leaving!EndErasure(a, t)
           \/ \E s \in Leaving!Erasing : Leaving!ErasureGoesTo(a, t, s)
    PROVE  /\ deletion' \in [Tenants -> Request] /\ purge' \in Run
           /\ restore' \in [Tenants -> {"idle", "unmarking", "undating"}]
<1>1. CASE Leaving!EndErasure(a, t)
  <2>1. purge.queue \ {t} \in SUBSET Tenants BY DEF Run
  <2>2. [purge EXCEPT !.queue = purge.queue \ {t}, !.at = "none"] \in Run BY <2>1, RunChanges
  <2> QED BY <1>1, <2>2, Zero DEF Leaving!EndErasure, Leaving!requests
<1>2. ASSUME NEW s \in Leaving!Erasing, Leaving!ErasureGoesTo(a, t, s)
      PROVE  /\ deletion' \in [Tenants -> Request] /\ purge' \in Run
             /\ restore' \in [Tenants -> {"idle", "unmarking", "undating"}]
  <2>1. [purge EXCEPT !.at = s] \in Run BY RunChanges
  <2>2. [deletion[t] EXCEPT !.at = s] \in Request BY RequestChanges
  <2>3. [deletion EXCEPT ![t] = [deletion[t] EXCEPT !.at = s]] \in [Tenants -> Request] BY <2>2
  <2> QED BY <1>2, <2>1, <2>3 DEF Leaving!ErasureGoesTo, Leaving!requests
<1> QED BY <1>1, <1>2

\* Every step keeps the types.
LEMMA DeletionTypedStep ==
    ASSUME Leaving!DeletionAssumption, Leaving!TypeOK, day > 0, [Leaving!Next]_(Leaving!vars)
    PROVE  Leaving!TypeOK' /\ day' > 0
<1> DEFINE Promised == Leaving!Dates \cup Leaving!Days
           Restore == {"idle", "unmarking", "undating"}
<1>a. /\ family \in [Tenants -> Row] /\ billing \in [Tenants -> Leaving!Billing]
      /\ deletion \in [Tenants -> Request] /\ restore \in [Tenants -> Restore] /\ purge \in Run
      /\ due \in [Tenants -> Promised] /\ upset \subseteq Tenants /\ unseen \subseteq Tenants
      /\ turns \in 0 .. MaxTurns /\ day \in Leaving!Days
  BY DEF Leaving!TypeOK, Row, Request, Run
<1>b. \A t \in Tenants : day + Grace[t] \in Leaving!Dates
  BY <1>a DEF Leaving!Dates
<1>c. Leaving!NoRun \in Run
  BY DEF Leaving!DeletionAssumption, Leaving!NoRun, Run
<1>d. ASSUME family' \in [Tenants -> Row], billing' \in [Tenants -> Leaving!Billing],
             deletion' \in [Tenants -> Request], restore' \in [Tenants -> Restore], purge' \in Run,
             due' \in [Tenants -> Promised], upset' \subseteq Tenants, unseen' \subseteq Tenants,
             turns' \in 0 .. MaxTurns, day' \in Leaving!Days, day' > 0
      PROVE  Leaving!TypeOK' /\ day' > 0
  BY <1>d DEF Leaving!TypeOK, Row, Request, Run
<1>t. Leaving!TakeTurn => turns' \in 0 .. MaxTurns
  BY <1>a DEF Leaving!DeletionAssumption, Leaving!TakeTurn
<1>u. ASSUME NEW t \in Tenants, Leaving!Begin(t)
      PROVE  turns' \in 0 .. MaxTurns /\ upset' \subseteq Tenants /\ UNCHANGED <<purge, unseen>>
  BY <1>a, <1>t, <1>u DEF Leaving!Begin
<1>e. \A t \in Tenants : Leaving!Cancelled(t) \in [Tenants -> Leaving!Billing]
  BY <1>a DEF Leaving!Cancelled, Leaving!Billing
<1> USE DEF Leaving!rows, Leaving!requests, Leaving!history
<1> HIDE DEF Promised, Restore
<1>1. ASSUME NEW t \in Tenants, Leaving!StripeStep(t) PROVE Leaving!TypeOK' /\ day' > 0
  <2>1. billing' \in [Tenants -> Leaving!Billing]
    <3>1. \E b \in Leaving!Billing : billing' = [billing EXCEPT ![t] = b]
      BY <1>1 DEF Leaving!StripeStep, Leaving!OpenCheckout, Leaving!Pay, Leaving!Lapse,
          Leaving!Bind,
          Leaving!End, Leaving!Unbind, Leaving!Becomes, Leaving!Billing
    <3> QED BY <1>a, <3>1
  <2>2. unseen' \subseteq Tenants /\ turns' \in 0 .. MaxTurns
    BY <1>1, <1>a, <1>t DEF Leaving!StripeStep, Leaving!OpenCheckout, Leaving!Pay, Leaving!Lapse,
        Leaving!Bind, Leaving!End, Leaving!Unbind, Leaving!Becomes
  <2>3. UNCHANGED <<day, family, deletion, restore, purge, due, upset>>
    BY <1>1 DEF Leaving!StripeStep, Leaving!OpenCheckout, Leaving!Pay, Leaving!Lapse,
        Leaving!Bind, Leaving!End, Leaving!Unbind, Leaving!Becomes
  <2> QED BY <1>a, <1>d, <2>1, <2>2, <2>3
<1>2. ASSUME NEW t \in Tenants, Leaving!AskDelete(t) PROVE Leaving!TypeOK' /\ day' > 0
  <2>1. [at |-> "marking", date |-> day + Grace[t]] \in Request BY <1>b DEF Request
  <2>2. deletion' \in [Tenants -> Request] BY <1>2, <1>a, <2>1 DEF Leaving!AskDelete
  <2>3. due' \in [Tenants -> Promised] BY <1>2, <1>a, <1>b DEF Leaving!AskDelete, Promised
  <2>4. billing' \in [Tenants -> Leaving!Billing] BY <1>2, <1>e DEF Leaving!AskDelete
  <2> QED BY <1>2, <1>a, <1>d, <1>u, <2>2, <2>3, <2>4 DEF Leaving!AskDelete
<1>3. ASSUME NEW t \in Tenants, Leaving!AskErase(t) PROVE Leaving!TypeOK' /\ day' > 0
  <2>1. [deletion[t] EXCEPT !.at = "subscription"] \in Request
    BY <1>a, RequestChanges DEF Leaving!Erasing
  <2>2. deletion' \in [Tenants -> Request]
    <3>1. deletion' = [deletion EXCEPT ![t] = [deletion[t] EXCEPT !.at = "subscription"]]
      BY <1>3 DEF Leaving!AskErase
    <3> QED BY <1>a, <2>1, <3>1
  <2>3. due' \in [Tenants -> Promised] BY <1>3, <1>a DEF Leaving!AskErase, Promised
  <2> QED BY <1>3, <1>a, <1>d, <1>u, <2>2, <2>3 DEF Leaving!AskErase
<1>4. ASSUME NEW t \in Tenants, Leaving!AskRestore(t) PROVE Leaving!TypeOK' /\ day' > 0
  <2>1. restore' \in [Tenants -> Restore] BY <1>4, <1>a DEF Leaving!AskRestore, Restore
  <2> QED BY <1>4, <1>a, <1>d, <1>u, <2>1 DEF Leaving!AskRestore
<1>5. ASSUME NEW t \in Tenants, Leaving!Mark(t) PROVE Leaving!TypeOK' /\ day' > 0
  <2>1. [family[t] EXCEPT !.softDeleted = TRUE] \in Row BY <1>a, RowChanges
  <2>2. family' \in [Tenants -> Row] BY <1>5, <1>a, <2>1 DEF Leaving!Mark
  <2>3. [deletion[t] EXCEPT !.at = "dating"] \in Request BY <1>a, RequestChanges
  <2>4. deletion' \in [Tenants -> Request]
    <3>1. deletion' = [deletion EXCEPT ![t] = [deletion[t] EXCEPT !.at = "dating"]]
      BY <1>5 DEF Leaving!Mark
    <3> QED BY <1>a, <2>3, <3>1
  <2> QED BY <1>5, <1>a, <1>d, <2>2, <2>4 DEF Leaving!Mark
<1>6. ASSUME NEW t \in Tenants, Leaving!SetDate(t) PROVE Leaving!TypeOK' /\ day' > 0
  <2>1. deletion[t].date \in Leaving!Dates BY <1>a DEF Request
  <2>2. [family[t] EXCEPT !.date = deletion[t].date] \in Row BY <1>a, <2>1, RowChanges
  <2>3. family' \in [Tenants -> Row] BY <1>6, <1>a, <2>2 DEF Leaving!SetDate
  <2>4. deletion' \in [Tenants -> Request] BY <1>6, <1>a, Zero DEF Leaving!SetDate
  <2> QED BY <1>6, <1>a, <1>d, <2>3, <2>4 DEF Leaving!SetDate
<1>7. ASSUME NEW t \in Tenants, Leaving!Unmark(t) \/ Leaving!ClearDate(t)
      PROVE  Leaving!TypeOK' /\ day' > 0
  <2>1. /\ [family[t] EXCEPT !.softDeleted = FALSE] \in Row
        /\ [family[t] EXCEPT !.date = Leaving!Unset] \in Row
    BY <1>a, Zero, RowChanges
  <2>2. family' \in [Tenants -> Row] BY <1>7, <1>a, <2>1 DEF Leaving!Unmark, Leaving!ClearDate
  <2>3. restore' \in [Tenants -> Restore]
    BY <1>7, <1>a DEF Leaving!Unmark, Leaving!ClearDate, Restore
  <2>4. due' \in [Tenants -> Promised] /\ upset' \subseteq Tenants
    <3>1. Leaving!Unset \in Promised /\ due[t] \in Promised BY <1>a, Zero DEF Promised
    <3> QED BY <1>7, <1>a, <3>1 DEF Leaving!Unmark, Leaving!ClearDate
  <2> QED BY <1>7, <1>a, <1>d, <2>2, <2>3, <2>4 DEF Leaving!Unmark, Leaving!ClearDate
<1>8. ASSUME NEW t \in Tenants, NEW a \in {"request", "run"}, Leaving!EraseStep(a, t)
      PROVE  Leaving!TypeOK' /\ day' > 0
  <2>1. /\ [family[t] EXCEPT !.softDeleted = FALSE, !.date = Leaving!Unset] \in Row
        /\ [family[t] EXCEPT !.children = FALSE] \in Row
        /\ [family[t] EXCEPT !.exists = FALSE] \in Row
    BY <1>a, Zero, RowChanges
  <2>2. family' \in [Tenants -> Row]
    <3>1. \/ family' = [family EXCEPT ![t] = [family[t] EXCEPT !.softDeleted = FALSE, !.date = Leaving!Unset]]
          \/ family' = [family EXCEPT ![t] = [family[t] EXCEPT !.children = FALSE]]
          \/ family' = [family EXCEPT ![t] = [family[t] EXCEPT !.exists = FALSE]]
          \/ family' = family
      BY <1>8, <1>a DEF Leaving!EraseStep, Leaving!CancelSubscription, Leaving!RefuseCancel,
          Leaving!EraseSettings, Leaving!EraseChildren, Leaving!EraseFamily
    <3> QED BY <1>a, <2>1, <3>1
  <2>3. Leaving!EndErasure(a, t) \/ \E s \in Leaving!Erasing : Leaving!ErasureGoesTo(a, t, s)
    BY <1>8 DEF Leaving!EraseStep, Leaving!CancelSubscription, Leaving!RefuseCancel,
          Leaving!EraseSettings, Leaving!EraseChildren, Leaving!EraseFamily, Leaving!Erasing
  <2>4. deletion' \in [Tenants -> Request] /\ purge' \in Run /\ restore' \in [Tenants -> Restore]
    BY <1>a, <2>3, GoesTyped DEF Restore
  <2>5. billing' \in [Tenants -> Leaving!Billing] /\ unseen' \subseteq Tenants
    BY <1>8, <1>a, <1>e DEF Leaving!EraseStep, Leaving!CancelSubscription, Leaving!RefuseCancel,
          Leaving!EraseSettings, Leaving!EraseChildren, Leaving!EraseFamily
  <2>6. UNCHANGED <<day, due, upset, turns>>
    BY <1>8 DEF Leaving!EraseStep, Leaving!CancelSubscription, Leaving!RefuseCancel,
          Leaving!EraseSettings, Leaving!EraseChildren, Leaving!EraseFamily
  <2> QED BY <1>a, <1>d, <2>2, <2>4, <2>5, <2>6
<1>9. ASSUME NEW t \in Tenants, NEW a \in {"request", "run"}, Leaving!Throw(a, t)
      PROVE  Leaving!TypeOK' /\ day' > 0
  <2>1. deletion' \in [Tenants -> Request] /\ purge' \in Run /\ restore' \in [Tenants -> Restore]
    BY <1>9, <1>a, GoesTyped DEF Leaving!Throw, Restore
  <2> QED BY <1>9, <1>a, <1>d, <1>t, <2>1 DEF Leaving!Throw
<1>10. ASSUME NEW t \in Tenants, Leaving!Attempt(t) PROVE Leaving!TypeOK' /\ day' > 0
  <2>1. purge.attempted + 1 \in 0 .. PurgeLimit /\ purge.queue \ {t} \in SUBSET Tenants
    BY <1>10, <1>a DEF Leaving!DeletionAssumption, Leaving!Attempt, Run
  <2>2. purge' \in Run
    <3>1. \/ purge' = [purge EXCEPT !.attempted = purge.attempted + 1, !.at = "subscription"]
          \/ purge' = [purge EXCEPT !.attempted = purge.attempted + 1, !.queue = purge.queue \ {t}]
      BY <1>10 DEF Leaving!Attempt
    <3>2. /\ [purge EXCEPT !.attempted = purge.attempted + 1, !.at = "subscription"] \in Run
          /\ [purge EXCEPT !.attempted = purge.attempted + 1, !.queue = purge.queue \ {t}] \in Run
      BY <1>a, <2>1, RunChanges
    <3> QED BY <3>1, <3>2
  <2> QED BY <1>10, <1>a, <1>d, <2>2 DEF Leaving!Attempt
<1>11. ASSUME NEW t \in Tenants, Leaving!CutRequest(t) PROVE Leaving!TypeOK' /\ day' > 0
  <2>1. deletion' \in [Tenants -> Request] BY <1>11, <1>a, Zero DEF Leaving!CutRequest
  <2>2. restore' \in [Tenants -> Restore] BY <1>11, <1>a DEF Leaving!CutRequest, Restore
  <2> QED BY <1>11, <1>a, <1>d, <1>t, <2>1, <2>2 DEF Leaving!CutRequest
<1>12. CASE Leaving!Cron
  <2>1. purge' = [running |-> TRUE, queue |-> Leaving!Expired, attempted |-> 0, at |-> "none"]
    BY <1>12 DEF Leaving!Cron, Leaving!NoRun
  <2>2. purge' \in Run BY <2>1 DEF Leaving!DeletionAssumption, Run, Leaving!Expired
  <2> QED BY <1>12, <1>a, <1>d, <2>2 DEF Leaving!Cron
<1>13. CASE Leaving!StopRun BY <1>13, <1>a, <1>c, <1>d DEF Leaving!StopRun
<1>14. CASE Leaving!NextDay
  <2>1. day' \in Leaving!Days /\ day' > 0
    BY <1>14, <1>a DEF Leaving!DeletionAssumption, Leaving!NextDay, Leaving!Days
  <2> QED BY <1>14, <1>a, <1>d, <2>1 DEF Leaving!NextDay
<1>15. CASE Leaving!CutRun BY <1>15, <1>a, <1>c, <1>d, <1>t DEF Leaving!CutRun
<1>16. CASE UNCHANGED Leaving!vars BY <1>16 DEF Leaving!vars, Leaving!TypeOK
<1> QED BY <1>1, <1>2, <1>3, <1>4, <1>5, <1>6, <1>7, <1>8, <1>9, <1>10, <1>11, <1>12, <1>13, <1>14,
           <1>15, <1>16 DEF Leaving!Next, Leaving!RequestStep

\* The list has one first tenant.
LEMMA OneFirst ==
    ASSUME Leaving!DeletionAssumption, NEW t \in Tenants, NEW u \in Tenants,
           Leaving!First(t), Leaving!First(u)
    PROVE  t = u
<1>1. t \in Nat /\ u \in Nat BY DEF Leaving!DeletionAssumption
<1>2. t <= u /\ u <= t BY DEF Leaving!First
<1> QED BY ONLY <1>1, <1>2

\* Only asking Stripe makes an erasure one that has asked.
LEMMA AskedBefore ==
    ASSUME Leaving!DeletionAssumption, Leaving!TypeOK, [Leaving!Next]_(Leaving!vars),
           NEW u \in Tenants,
           \A a \in {"request", "run"} : ~Leaving!CancelSubscription(a, u)
    PROVE  Leaving!Asked(u)' => Leaving!Asked(u)
<1> DEFINE On == {"settings", "children", "family"}
<1>0. /\ Leaving!Asked(u) <=> deletion[u].at \in On \/ (Leaving!First(u) /\ purge.at \in On)
      /\ Leaving!Asked(u)' <=> deletion'[u].at \in On \/ (Leaving!First(u)' /\ purge'.at \in On)
  BY DEF Leaving!Asked, Leaving!ErasingAt, Leaving!Erasing
<1> HIDE DEF On
<1> USE DEF Leaving!requests, Leaving!rows, Leaving!history
<1>r. ASSUME deletion'[u].at \in On => deletion[u].at \in On,
             purge'.at \in On => purge.at \in On /\ purge'.queue = purge.queue
      PROVE  Leaving!Asked(u)' => Leaving!Asked(u)
  BY <1>0, <1>r DEF Leaving!First
<1>e. ASSUME NEW t \in Tenants, NEW a, Leaving!EndErasure(a, t)
      PROVE  Leaving!Asked(u)' => Leaving!Asked(u)
  <2>1. deletion'[u].at \in On => deletion[u].at \in On
    BY <1>e DEF Leaving!EndErasure, Leaving!NoRequest, Leaving!TypeOK, On
  <2>2. purge'.at \in On => purge' = purge
    BY <1>e DEF Leaving!EndErasure, Leaving!TypeOK, On
  <2> QED BY <1>r, <2>1, <2>2
<1>g. ASSUME NEW t \in Tenants, NEW a \in {"request", "run"}, NEW s, Leaving!ErasureGoesTo(a, t, s),
             Leaving!ErasingAt(a, t) \in Leaving!Erasing,
             t # u \/ Leaving!ErasingAt(a, t) \in On
      PROVE  Leaving!Asked(u)' => Leaving!Asked(u)
  <2>1. CASE a = "request"
    <3>1. purge' = purge /\ (u # t => deletion'[u] = deletion[u])
      BY <1>g, <2>1 DEF Leaving!ErasureGoesTo, Leaving!TypeOK
    <3>2. u = t => deletion[u].at \in On BY <1>g, <2>1 DEF Leaving!ErasingAt
    <3> QED BY <1>r, <3>1, <3>2
  <2>2. CASE a = "run"
    <3>1. deletion' = deletion /\ purge'.queue = purge.queue
      BY <1>g, <2>2 DEF Leaving!ErasureGoesTo, Leaving!TypeOK
    <3>2. Leaving!First(t) BY <1>g, <2>2 DEF Leaving!ErasingAt, Leaving!Erasing
    <3>3. Leaving!First(u)' <=> Leaving!First(u) BY <3>1 DEF Leaving!First
    <3>4. CASE t # u BY <1>0, <3>1, <3>2, <3>3, <3>4, OneFirst
    <3>5. CASE t = u
      <4>1. purge.at \in On BY <1>g, <2>2, <3>2, <3>5 DEF Leaving!ErasingAt
      <4> QED BY <1>0, <3>2, <3>5, <4>1
    <3> QED BY <3>4, <3>5
  <2> QED BY <2>1, <2>2
<1>1. ASSUME NEW t \in Tenants,
             Leaving!StripeStep(t) \/ Leaving!AskRestore(t) \/ Leaving!Unmark(t) \/ Leaving!ClearDate(t)
      PROVE  Leaving!Asked(u)' => Leaving!Asked(u)
  <2>1. UNCHANGED <<deletion, purge>>
    BY <1>1 DEF Leaving!StripeStep, Leaving!OpenCheckout, Leaving!Pay, Leaving!Lapse, Leaving!Bind,
        Leaving!End, Leaving!Unbind, Leaving!Becomes, Leaving!AskRestore, Leaving!Begin,
        Leaving!Unmark, Leaving!ClearDate
  <2> QED BY <1>r, <2>1
<1>2. ASSUME NEW t \in Tenants,
             Leaving!AskDelete(t) \/ Leaving!AskErase(t) \/ Leaving!Mark(t) \/ Leaving!SetDate(t)
      PROVE  Leaving!Asked(u)' => Leaving!Asked(u)
  <2>1. purge' = purge
    BY <1>2 DEF Leaving!AskDelete, Leaving!AskErase, Leaving!Begin, Leaving!Mark, Leaving!SetDate
  <2>2. deletion'[u].at \in On => deletion[u].at \in On
    <3>1. t = u => deletion'[u].at \in {"marking", "subscription", "dating", "idle"}
      BY <1>2 DEF Leaving!AskDelete, Leaving!AskErase, Leaving!Mark, Leaving!SetDate,
          Leaving!NoRequest, Leaving!TypeOK
    <3>2. t # u => deletion'[u] = deletion[u]
      BY <1>2 DEF Leaving!AskDelete, Leaving!AskErase, Leaving!Mark, Leaving!SetDate, Leaving!TypeOK
    <3> QED BY <3>1, <3>2 DEF On
  <2> QED BY <1>r, <2>1, <2>2
<1>3. ASSUME NEW t \in Tenants, NEW a \in {"request", "run"}, Leaving!EraseStep(a, t)
      PROVE  Leaving!Asked(u)' => Leaving!Asked(u)
  <2>1. CASE Leaving!RefuseCancel(a, t) \/ Leaving!EraseFamily(a, t)
    BY <1>e, <2>1 DEF Leaving!RefuseCancel, Leaving!EraseFamily
  <2>2. CASE Leaving!CancelSubscription(a, t)
    <3>1. t # u BY <2>2
    <3> QED BY <1>g, <2>2, <3>1 DEF Leaving!CancelSubscription, Leaving!Erasing
  <2>3. CASE Leaving!EraseSettings(a, t)
    BY <1>g, <2>3 DEF Leaving!EraseSettings, Leaving!Erasing, On
  <2>4. CASE Leaving!EraseChildren(a, t)
    BY <1>g, <2>4 DEF Leaving!EraseChildren, Leaving!Erasing, On
  <2> QED BY <1>3, <2>1, <2>2, <2>3, <2>4 DEF Leaving!EraseStep
<1>4. ASSUME NEW t \in Tenants, NEW a \in {"request", "run"}, Leaving!Throw(a, t)
      PROVE  Leaving!Asked(u)' => Leaving!Asked(u)
  BY <1>4, <1>e DEF Leaving!Throw
<1>5. ASSUME NEW t \in Tenants, Leaving!Attempt(t) \/ Leaving!CutRequest(t)
      PROVE  Leaving!Asked(u)' => Leaving!Asked(u)
  <2>1. deletion'[u].at \in On => deletion[u].at \in On
    BY <1>5 DEF Leaving!Attempt, Leaving!CutRequest, Leaving!NoRequest, Leaving!TypeOK, On
  <2>2. purge'.at \in On => purge' = purge
    BY <1>5 DEF Leaving!Attempt, Leaving!Between, Leaving!CutRequest, Leaving!TypeOK, On
  <2> QED BY <1>r, <2>1, <2>2
<1>6. CASE Leaving!Cron \/ Leaving!StopRun \/ Leaving!NextDay \/ Leaving!CutRun \/ UNCHANGED Leaving!vars
  <2>1. deletion' = deletion
    BY <1>6 DEF Leaving!Cron, Leaving!StopRun, Leaving!NextDay, Leaving!CutRun, Leaving!vars
  <2>2. purge'.at \in On => purge' = purge
    <3>1. CASE Leaving!Cron
      <4>1. purge'.at = "none" BY <3>1 DEF Leaving!Cron, Leaving!NoRun
      <4> QED BY <4>1 DEF On
    <3>2. CASE Leaving!StopRun \/ Leaving!CutRun
      <4>1. purge'.at = "none" BY <3>2 DEF Leaving!StopRun, Leaving!CutRun, Leaving!NoRun
      <4> QED BY <4>1 DEF On
    <3>3. CASE Leaving!NextDay \/ UNCHANGED Leaving!vars BY <3>3 DEF Leaving!NextDay, Leaving!vars
    <3> QED BY <1>6, <3>1, <3>2, <3>3
  <2> QED BY <1>r, <2>1, <2>2
<1> QED BY <1>1, <1>2, <1>3, <1>4, <1>5, <1>6 DEF Leaving!Next, Leaving!RequestStep

\* Every step keeps what Stripe was asked for from being billed again unseen.
LEMMA AskedStep ==
    ASSUME Leaving!DeletionAssumption, Leaving!TypeOK, AskedIsOver, [Leaving!Next]_(Leaving!vars)
    PROVE  AskedIsOver'
<1> SUFFICES ASSUME NEW u \in Tenants, Leaving!Asked(u)'
             PROVE  billing'[u] \in {"none", "ended"} \/ u \in unseen'
  BY DEF AskedIsOver
<1> DEFINE Over == billing[u] \in {"none", "ended"} \/ u \in unseen
<1>1. CASE \E a \in {"request", "run"} : Leaving!CancelSubscription(a, u)
  <2>1. /\ billing' = Leaving!Cancelled(u)
        /\ unseen' = IF Leaving!InRow(u) \/ billing[u] = "none" THEN unseen \ {u} ELSE unseen \cup {u}
    BY <1>1 DEF Leaving!CancelSubscription
  <2> QED BY <2>1 DEF Leaving!Cancelled, Leaving!TypeOK
<1>2. CASE \A a \in {"request", "run"} : ~Leaving!CancelSubscription(a, u)
  <2>1. Over BY <1>2, AskedBefore DEF AskedIsOver
  <2> USE DEF Leaving!requests, Leaving!rows, Leaving!history
  <2>a. Leaving!Asked(u) BY <1>2, AskedBefore
  <2>2. ASSUME NEW t \in Tenants, Leaving!StripeStep(t)
        PROVE  billing'[u] \in {"none", "ended"} \/ u \in unseen'
    <3>1. CASE Leaving!OpenCheckout(t)
      BY <2>1, <2>a, <3>1 DEF Leaving!OpenCheckout, Leaving!TypeOK
    <3>2. CASE Leaving!Pay(t) \/ Leaving!Lapse(t) \/ Leaving!Bind(t) \/ Leaving!End(t) \/ Leaving!Unbind(t)
      BY <2>1, <3>2 DEF Leaving!Pay, Leaving!Lapse, Leaving!Bind, Leaving!End, Leaving!Unbind,
          Leaving!Becomes, Leaving!TypeOK
    <3> QED BY <2>2, <3>1, <3>2 DEF Leaving!StripeStep
  <2>3. ASSUME NEW t \in Tenants, Leaving!AskDelete(t)
        PROVE  billing'[u] \in {"none", "ended"} \/ u \in unseen'
    BY <2>1, <2>3 DEF Leaving!AskDelete, Leaving!Begin, Leaving!Cancelled, Leaving!TypeOK
  <2>4. ASSUME NEW t \in Tenants, NEW a \in {"request", "run"}, Leaving!CancelSubscription(a, t)
        PROVE  billing'[u] \in {"none", "ended"} \/ u \in unseen'
    <3>1. t # u BY <1>2, <2>4
    <3> QED BY <2>1, <2>4, <3>1 DEF Leaving!CancelSubscription, Leaving!Cancelled, Leaving!TypeOK
  <2>5. ASSUME NEW t \in Tenants,
               \/ Leaving!AskErase(t) \/ Leaving!AskRestore(t) \/ Leaving!RequestStep(t)
               \/ Leaving!Attempt(t) \/ Leaving!CutRequest(t)
               \/ \E a \in {"request", "run"} :
                     \/ Leaving!RefuseCancel(a, t) \/ Leaving!EraseSettings(a, t)
                     \/ Leaving!EraseChildren(a, t) \/ Leaving!EraseFamily(a, t) \/ Leaving!Throw(a, t)
        PROVE  billing'[u] \in {"none", "ended"} \/ u \in unseen'
    <3>1. UNCHANGED <<billing, unseen>>
      BY <2>5 DEF Leaving!AskErase, Leaving!AskRestore, Leaving!Begin, Leaving!RequestStep,
          Leaving!Mark, Leaving!SetDate, Leaving!Unmark, Leaving!ClearDate, Leaving!Attempt,
          Leaving!CutRequest, Leaving!RefuseCancel, Leaving!EraseSettings, Leaving!EraseChildren,
          Leaving!EraseFamily, Leaving!Throw
    <3> QED BY <2>1, <3>1
  <2>6. CASE Leaving!Cron \/ Leaving!StopRun \/ Leaving!NextDay \/ Leaving!CutRun \/ UNCHANGED Leaving!vars
    BY <2>1, <2>6 DEF Leaving!Cron, Leaving!StopRun, Leaving!NextDay, Leaving!CutRun, Leaving!vars
  <2> QED BY <2>2, <2>3, <2>4, <2>5, <2>6 DEF Leaving!Next, Leaving!EraseStep
<1> QED BY <1>1, <1>2

\* Dates and days are numbers.
LEMMA Numbers ==
    ASSUME Leaving!DeletionAssumption, Leaving!TypeOK
    PROVE  /\ day \in Nat
           /\ \A t \in Tenants : /\ due[t] \in Nat /\ family[t].date \in Nat
                                 /\ deletion[t].date \in Nat /\ Grace[t] \in Nat
<1>1. Leaving!Days \subseteq Nat /\ Leaving!Dates \subseteq Nat
  BY DEF Leaving!DeletionAssumption, Leaving!Days, Leaving!Dates, Leaving!Unset
<1> QED BY <1>1 DEF Leaving!DeletionAssumption, Leaving!TypeOK

\* The promise to a tenant stands while its own rows and requests do not change and the run does
\* not list it anew.
LEMMA Untouched ==
    ASSUME Leaving!DeletionAssumption, Leaving!TypeOK, NEW u \in Tenants, Promise(u),
           deletion'[u] = deletion[u], restore'[u] = restore[u], family'[u] = family[u],
           due'[u] = due[u], day' \in Nat, day' >= day,
           u \in purge'.queue => u \in purge.queue /\ (Unmarked(u) => Unmarked(u)')
    PROVE  Promise(u)'
<1>1. day \in Nat /\ due[u] \in Nat BY Numbers
<1>2. day >= due[u] => day' >= due'[u] BY <1>1
<1>3. WritesPromise(u)' BY DEF Promise, WritesPromise, Pending
<1>4. ErasesWhenDue(u)' BY <1>2 DEF Promise, ErasesWhenDue
<1>5. MarkHasDate(u)' BY DEF Promise, MarkHasDate, Pending
<1>6. ListedIsDue(u)' BY <1>2 DEF Promise, ListedIsDue
<1> QED BY <1>3, <1>4, <1>5, <1>6 DEF Promise

\* An erasure that goes on or ends, once its own tenant is accounted for.
LEMMA ErasureUntouched ==
    ASSUME Leaving!DeletionAssumption, Leaving!TypeOK, NEW u \in Tenants, Promise(u),
           NEW t \in Tenants, t # u, NEW a \in {"request", "run"},
           Leaving!ErasingAt(a, t) \in Leaving!Erasing,
           Leaving!EndErasure(a, t) \/ \E s \in Leaving!Erasing : Leaving!ErasureGoesTo(a, t, s),
           family'[u] = family[u], UNCHANGED <<day, due>>
    PROVE  Promise(u)'
<1>1. deletion'[u] = deletion[u] /\ restore' = restore
  BY DEF Leaving!EndErasure, Leaving!ErasureGoesTo, Leaving!requests, Leaving!TypeOK
<1>2. u \in purge'.queue => u \in purge.queue /\ (Unmarked(u) => Unmarked(u)')
  <2>1. CASE a = "request"
    <3>1. purge' = purge BY <2>1 DEF Leaving!EndErasure, Leaving!ErasureGoesTo
    <3> QED BY <3>1 DEF Unmarked, Leaving!First
  <2>2. CASE a = "run"
    <3>1. Leaving!First(t) BY <2>2 DEF Leaving!ErasingAt, Leaving!Erasing
    <3>2. ~Unmarked(u) BY <3>1, OneFirst DEF Unmarked
    <3>3. purge'.queue = purge.queue \/ purge'.queue = purge.queue \ {t}
      BY <2>2 DEF Leaving!EndErasure, Leaving!ErasureGoesTo, Leaving!TypeOK
    <3> QED BY <3>2, <3>3
  <2> QED BY <2>1, <2>2
<1>3. day' \in Nat /\ day' >= day BY Numbers
<1> QED BY <1>1, <1>2, <1>3, Untouched

\* A step of the erasure of a tenant to whom the promise was kept keeps it.
LEMMA ErasureKeepsPromise ==
    ASSUME Leaving!DeletionAssumption, Leaving!TypeOK, NEW t \in Tenants, Promise(t),
           NEW a \in {"request", "run"}, Leaving!EraseStep(a, t) \/ Leaving!Throw(a, t)
    PROVE  Promise(t)'
<1> USE DEF Leaving!requests, Leaving!rows, Leaving!history
<1>1. UNCHANGED <<day, due, restore>>
  BY DEF Leaving!EraseStep, Leaving!CancelSubscription, Leaving!RefuseCancel, Leaving!EraseSettings,
      Leaving!EraseChildren, Leaving!EraseFamily, Leaving!Throw, Leaving!EndErasure,
      Leaving!ErasureGoesTo
<1>2. /\ Leaving!ErasingAt(a, t) \in Leaving!Erasing
      /\ \/ Leaving!EndErasure(a, t)
         \/ Leaving!ErasureGoesTo(a, t, "settings") /\ Leaving!ErasingAt(a, t) = "subscription"
         \/ Leaving!ErasureGoesTo(a, t, "children") /\ Leaving!ErasingAt(a, t) = "settings"
         \/ Leaving!ErasureGoesTo(a, t, "family") /\ Leaving!ErasingAt(a, t) = "children"
  BY DEF Leaving!EraseStep, Leaving!CancelSubscription, Leaving!RefuseCancel, Leaving!EraseSettings,
      Leaving!EraseChildren, Leaving!EraseFamily, Leaving!Throw, Leaving!Erasing
<1>3. \/ /\ family'[t].softDeleted = family[t].softDeleted /\ family'[t].date = family[t].date
         /\ family'[t].exists => family[t].exists
      \/ /\ family'[t].softDeleted = FALSE /\ family'[t].date = Leaving!Unset
         /\ Leaving!ErasureGoesTo(a, t, "children")
  BY DEF Leaving!EraseStep, Leaving!CancelSubscription, Leaving!RefuseCancel, Leaving!EraseSettings,
      Leaving!EraseChildren, Leaving!EraseFamily, Leaving!Throw, Leaving!TypeOK
<1>4. CASE a = "request"
  <2>1. deletion[t].at \in Leaving!Erasing BY <1>2, <1>4 DEF Leaving!ErasingAt
  <2>2. purge' = purge /\ t \notin purge.queue
    BY <1>2, <1>4, <2>1 DEF Leaving!EndErasure, Leaving!ErasureGoesTo, Promise, ListedIsDue,
        Leaving!Erasing
  <2>3. deletion'[t].at \in {"idle"} \cup Leaving!Erasing
    BY <1>2, <1>4 DEF Leaving!EndErasure, Leaving!ErasureGoesTo, Leaving!NoRequest, Leaving!TypeOK,
        Leaving!Erasing
  <2>4. /\ ~family'[t].softDeleted /\ family'[t].date = Leaving!Unset /\ restore'[t] = "idle"
        /\ due'[t] # Leaving!Unset /\ day' >= due'[t]
    BY <1>1, <1>3, <2>1 DEF Promise, ErasesWhenDue, MarkHasDate
  <2> QED BY <2>2, <2>3, <2>4 DEF Promise, WritesPromise, ErasesWhenDue, MarkHasDate, ListedIsDue,
        Pending, Leaving!Erasing
<1>5. CASE a = "run"
  <2>1. Leaving!First(t) /\ t \in purge.queue /\ purge.at \in Leaving!Erasing
    BY <1>2, <1>5 DEF Leaving!ErasingAt, Leaving!Erasing, Leaving!First
  <2>2. deletion' = deletion /\ deletion[t].at = "idle" /\ restore[t] # "undating"
        /\ due[t] # Leaving!Unset /\ day >= due[t]
    BY <1>2, <1>5, <2>1 DEF Leaving!EndErasure, Leaving!ErasureGoesTo, Promise, ListedIsDue
  <2>3. MarkHasDate(t)' BY <1>1, <1>3, <2>2 DEF Promise, MarkHasDate, Pending
  <2>4. ListedIsDue(t)'
    <3>1. CASE Leaving!EndErasure(a, t)
      <4>0. purge' = [purge EXCEPT !.queue = purge.queue \ {t}, !.at = "none"]
        BY <1>5, <3>1 DEF Leaving!EndErasure
      <4>1. purge'.queue = purge.queue \ {t} BY <4>0 DEF Leaving!TypeOK
      <4> QED BY <4>1 DEF ListedIsDue
    <3>2. CASE Leaving!ErasureGoesTo(a, t, "settings") /\ Leaving!ErasingAt(a, t) = "subscription"
      <4>1. purge.at = "subscription" BY <1>5, <2>1, <3>2 DEF Leaving!ErasingAt
      <4>2. family[t].exists => family[t].softDeleted
        BY <2>1, <4>1 DEF Promise, ListedIsDue, Unmarked
      <4>3. purge'.at = "settings" BY <1>5, <3>2 DEF Leaving!ErasureGoesTo, Leaving!TypeOK
      <4>4. ~Leaving!ErasureGoesTo(a, t, "children")
        BY <1>5, <4>3 DEF Leaving!ErasureGoesTo, Leaving!TypeOK
      <4> QED BY <1>1, <1>3, <2>2, <4>2, <4>4 DEF ListedIsDue
    <3>3. CASE \E s \in {"children", "family"} : Leaving!ErasureGoesTo(a, t, s)
      <4>1. purge'.at \in {"children", "family"} /\ purge'.queue = purge.queue
        BY <1>5, <3>3 DEF Leaving!ErasureGoesTo, Leaving!TypeOK
      <4>2. Unmarked(t)' BY <2>1, <4>1 DEF Unmarked, Leaving!First
      <4> QED BY <1>1, <2>2, <4>2 DEF ListedIsDue
    <3> QED BY <1>2, <3>1, <3>2, <3>3
  <2> QED BY <2>2, <2>3, <2>4 DEF Promise, WritesPromise, ErasesWhenDue, Pending, Leaving!Erasing
<1> QED BY <1>4, <1>5

\* Nobody forgets that a tenant is upset.
LEMMA UpsetGrows == ASSUME [Leaving!Next]_(Leaving!vars) PROVE upset \subseteq upset'
BY DEF Leaving!Next, Leaving!vars, Leaving!rows, Leaving!requests, Leaving!history,
    Leaving!StripeStep, Leaving!OpenCheckout, Leaving!Pay, Leaving!Lapse, Leaving!Bind, Leaving!End,
    Leaving!Unbind, Leaving!Becomes, Leaving!AskDelete, Leaving!AskErase, Leaving!AskRestore,
    Leaving!Begin, Leaving!RequestStep, Leaving!Mark, Leaving!SetDate, Leaving!Unmark,
    Leaving!ClearDate, Leaving!EraseStep, Leaving!CancelSubscription, Leaving!RefuseCancel,
    Leaving!EraseSettings, Leaving!EraseChildren, Leaving!EraseFamily, Leaving!Throw,
    Leaving!Attempt, Leaving!CutRequest, Leaving!Cron, Leaving!StopRun, Leaving!NextDay,
    Leaving!CutRun

\* A tenant that may write and has nothing under way is in no list.
LEMMA WritableIsUnlisted ==
    ASSUME NEW u \in Tenants, Promise(u), Leaving!Writable(u), Leaving!Quiet(u)
    PROVE  u \notin purge.queue
BY DEF Promise, ListedIsDue, Unmarked, Leaving!Writable, Leaving!Quiet, Leaving!BeingPurged,
    Leaving!ErasingAt

\* Every step keeps the promise to each tenant that it does not upset.
LEMMA PromiseStep ==
    ASSUME Leaving!DeletionAssumption, Leaving!TypeOK, day > 0, PromiseInv,
           [Leaving!Next]_(Leaving!vars)
    PROVE  PromiseInv'
<1> SUFFICES ASSUME NEW u \in Tenants, u \notin upset' PROVE Promise(u)'
  BY DEF PromiseInv
<1>0. Promise(u) BY UpsetGrows DEF PromiseInv
<1>n. /\ day \in Nat /\ due[u] \in Nat /\ family[u].date \in Nat /\ deletion[u].date \in Nat
      /\ Grace[u] \in Nat
  BY Numbers
<1>s. ASSUME deletion'[u] = deletion[u], restore'[u] = restore[u], family'[u] = family[u],
             due'[u] = due[u], UNCHANGED <<day, purge>>
      PROVE  Promise(u)'
  <2>1. Unmarked(u) => Unmarked(u)' BY <1>s DEF Unmarked, Leaving!First
  <2> QED BY <1>0, <1>n, <1>s, <2>1, Untouched
<1> USE DEF Leaving!requests, Leaving!rows, Leaving!history
<1>1. ASSUME NEW t \in Tenants, Leaving!StripeStep(t) PROVE Promise(u)'
  <2>1. UNCHANGED <<day, family, deletion, restore, purge, due>>
    BY <1>1 DEF Leaving!StripeStep, Leaving!OpenCheckout, Leaving!Pay, Leaving!Lapse, Leaving!Bind,
        Leaving!End, Leaving!Unbind, Leaving!Becomes
  <2> QED BY <1>s, <2>1
<1>2. ASSUME NEW t \in Tenants, t # u,
             Leaving!AskDelete(t) \/ Leaving!AskErase(t) \/ Leaving!AskRestore(t) \/ Leaving!RequestStep(t)
      PROVE  Promise(u)'
  <2>1. /\ deletion'[u] = deletion[u] /\ restore'[u] = restore[u] /\ family'[u] = family[u]
        /\ due'[u] = due[u] /\ UNCHANGED <<day, purge>>
    BY <1>2 DEF Leaving!AskDelete, Leaving!AskErase, Leaving!AskRestore, Leaving!Begin,
        Leaving!RequestStep, Leaving!Mark, Leaving!SetDate, Leaving!Unmark, Leaving!ClearDate,
        Leaving!TypeOK
  <2> QED BY <1>s, <2>1
<1>3. CASE Leaving!AskDelete(u)
  <2>1. /\ Leaving!Writable(u) /\ Leaving!Quiet(u)
        /\ deletion'[u] = [at |-> "marking", date |-> day + Grace[u]] /\ due'[u] = day + Grace[u]
        /\ UNCHANGED <<day, family, restore, purge>>
    BY <1>3 DEF Leaving!AskDelete, Leaving!Begin, Leaving!TypeOK
  <2>2. u \notin purge.queue BY <1>0, <2>1, WritableIsUnlisted
  <2>3. day + Grace[u] # 0 BY <1>n
  <2> QED BY <1>0, <2>1, <2>2, <2>3 DEF Promise, WritesPromise, ErasesWhenDue, MarkHasDate,
        ListedIsDue, Pending, Leaving!Writable, Leaving!Quiet, Leaving!Erasing, Leaving!Unset
<1>4. CASE Leaving!AskErase(u)
  <2>1. /\ Leaving!Writable(u) /\ Leaving!Quiet(u)
        /\ deletion'[u].at = "subscription" /\ due'[u] = day
        /\ UNCHANGED <<day, family, restore, purge>>
    BY <1>4 DEF Leaving!AskErase, Leaving!Begin, Leaving!TypeOK
  <2>2. u \notin purge.queue BY <1>0, <2>1, WritableIsUnlisted
  <2>3. due'[u] # Leaving!Unset /\ day' >= due'[u] BY <1>n, <2>1 DEF Leaving!Unset
  <2> QED BY <1>0, <2>1, <2>2, <2>3 DEF Promise, WritesPromise, ErasesWhenDue, MarkHasDate,
        ListedIsDue, Pending, Leaving!Writable, Leaving!Quiet, Leaving!Erasing
<1>5. CASE Leaving!AskRestore(u)
  <2>1. /\ family[u].softDeleted /\ ~(day >= family[u].date) /\ Leaving!Quiet(u)
        /\ restore'[u] = "unmarking" /\ UNCHANGED <<day, family, deletion, purge, due>>
    BY <1>5 DEF Leaving!AskRestore, Leaving!Begin, Leaving!IsExpired, Leaving!TypeOK
  <2>2. family[u].date = due[u]
    BY <1>0, <2>1 DEF Promise, MarkHasDate, Pending, Leaving!Quiet
  <2>3. u \notin purge.queue BY <1>0, <2>1, <2>2 DEF Promise, ListedIsDue
  <2> QED BY <1>0, <2>1, <2>3 DEF Promise, WritesPromise, ErasesWhenDue, MarkHasDate,
        ListedIsDue, Pending, Leaving!Quiet, Leaving!Erasing
<1>6. CASE Leaving!Mark(u)
  <2>1. /\ deletion[u].at = "marking" /\ deletion'[u].at = "dating"
        /\ deletion'[u].date = deletion[u].date
        /\ family'[u].softDeleted /\ family'[u].date = family[u].date
        /\ UNCHANGED <<day, restore, purge, due>>
    BY <1>6 DEF Leaving!Mark, Leaving!TypeOK
  <2> QED BY <1>0, <2>1 DEF Promise, WritesPromise, ErasesWhenDue, MarkHasDate,
        ListedIsDue, Pending, Leaving!Erasing
<1>7. CASE Leaving!SetDate(u)
  <2>1. /\ deletion[u].at = "dating" /\ deletion'[u].at = "idle"
        /\ family'[u].softDeleted = family[u].softDeleted /\ family'[u].date = deletion[u].date
        /\ UNCHANGED <<day, restore, purge, due>>
    BY <1>7 DEF Leaving!SetDate, Leaving!NoRequest, Leaving!TypeOK
  <2> QED BY <1>0, <2>1 DEF Promise, WritesPromise, ErasesWhenDue, MarkHasDate,
        ListedIsDue, Pending, Leaving!Erasing
<1>8. CASE Leaving!Unmark(u)
  <2>1. /\ restore[u] = "unmarking" /\ restore'[u] = "undating" /\ u \notin purge.queue
        /\ ~family'[u].softDeleted /\ UNCHANGED <<day, deletion, purge, due>>
    BY <1>8 DEF Leaving!Unmark, Leaving!TypeOK
  <2>2. deletion[u].at = "idle"
    BY <1>0, <2>1 DEF Promise, WritesPromise, ErasesWhenDue, Pending, Leaving!TypeOK
  <2> QED BY <1>0, <2>1, <2>2 DEF Promise, WritesPromise, ErasesWhenDue, MarkHasDate,
        ListedIsDue, Pending, Leaving!Erasing
<1>9. CASE Leaving!ClearDate(u)
  <2>1. /\ restore[u] = "undating" /\ restore'[u] = "idle"
        /\ family'[u].softDeleted = family[u].softDeleted /\ family'[u].date = Leaving!Unset
        /\ UNCHANGED <<day, deletion, purge>>
    BY <1>9 DEF Leaving!ClearDate, Leaving!TypeOK
  <2>2. deletion[u].at = "idle"
    BY <1>0, <2>1 DEF Promise, WritesPromise, ErasesWhenDue, Pending, Leaving!TypeOK
  <2> QED BY <1>0, <2>1, <2>2 DEF Promise, WritesPromise, ErasesWhenDue, MarkHasDate,
        ListedIsDue, Pending, Leaving!Erasing
<1>10. ASSUME NEW t \in Tenants, NEW a \in {"request", "run"}, Leaving!EraseStep(a,
              t) \/ Leaving!Throw(a, t)
       PROVE  Promise(u)'
  <2>1. CASE t = u BY <1>0, <1>10, <2>1, ErasureKeepsPromise
  <2>2. CASE t # u
    <3>1. /\ Leaving!ErasingAt(a, t) \in Leaving!Erasing
          /\ Leaving!EndErasure(a, t) \/ \E s \in Leaving!Erasing : Leaving!ErasureGoesTo(a, t, s)
      BY <1>10 DEF Leaving!EraseStep, Leaving!CancelSubscription, Leaving!RefuseCancel,
          Leaving!EraseSettings, Leaving!EraseChildren, Leaving!EraseFamily, Leaving!Throw,
          Leaving!Erasing
    <3>2. family'[u] = family[u] /\ UNCHANGED <<day, due>>
      BY <1>10, <2>2 DEF Leaving!EraseStep, Leaving!CancelSubscription, Leaving!RefuseCancel,
          Leaving!EraseSettings, Leaving!EraseChildren, Leaving!EraseFamily, Leaving!Throw,
          Leaving!TypeOK
    <3> QED BY <1>0, <2>2, <3>1, <3>2, ErasureUntouched
  <2> QED BY <2>1, <2>2
<1>11. ASSUME NEW t \in Tenants, Leaving!Attempt(t) PROVE Promise(u)'
  <2>1. /\ purge.at = "none" /\ UNCHANGED <<day, family, deletion, restore, due>>
        /\ \/ purge' = [purge EXCEPT !.attempted = purge.attempted + 1, !.at = "subscription"]
           \/ purge' = [purge EXCEPT !.attempted = purge.attempted + 1, !.queue = purge.queue \ {t}]
    BY <1>11 DEF Leaving!Attempt, Leaving!Between
  <2>2. purge'.queue = purge.queue \/ purge'.queue = purge.queue \ {t}
    BY <2>1 DEF Leaving!TypeOK
  <2>3. ~Unmarked(u) BY <2>1 DEF Unmarked
  <2> QED BY <1>0, <1>n, <2>1, <2>2, <2>3, Untouched
<1>12. ASSUME NEW t \in Tenants, Leaving!CutRequest(t) PROVE Promise(u)'
  <2>1. t # u BY <1>12 DEF Leaving!CutRequest
  <2>2. /\ deletion'[u] = deletion[u] /\ restore'[u] = restore[u]
        /\ UNCHANGED <<day, family, purge, due>>
    BY <1>12, <2>1 DEF Leaving!CutRequest, Leaving!TypeOK
  <2> QED BY <1>s, <2>2
<1>13. CASE Leaving!Cron
  <2>1. purge'.queue = Leaving!Expired /\ UNCHANGED <<day, family, deletion, restore, due>>
    BY <1>13 DEF Leaving!Cron, Leaving!NoRun
  <2>2. CASE u \notin Leaving!Expired BY <1>0, <1>n, <2>1, <2>2, Untouched
  <2>3. CASE u \in Leaving!Expired
    <3>1. family[u].softDeleted /\ day >= family[u].date /\ family[u].date # Leaving!Unset
      BY <2>3 DEF Leaving!Expired, Leaving!IsExpired
    <3>2. restore[u] # "undating" BY <1>0, <3>1 DEF Promise, MarkHasDate
    <3>3. deletion[u].at # "dating" BY <1>0, <3>1, <3>2 DEF Promise, MarkHasDate
    <3>4. deletion[u].at = "idle"
      BY <1>0, <3>1, <3>3 DEF Promise, WritesPromise, ErasesWhenDue, Pending, Leaving!TypeOK
    <3>5. family[u].date = due[u] BY <1>0, <3>1, <3>4 DEF Promise, MarkHasDate, Pending
    <3> QED BY <1>0, <2>1, <3>1, <3>2, <3>4, <3>5 DEF Promise, WritesPromise, ErasesWhenDue,
          MarkHasDate, ListedIsDue, Pending, Leaving!Erasing
  <2> QED BY <2>2, <2>3
<1>14. CASE Leaving!StopRun \/ Leaving!CutRun
  <2>1. purge'.queue = {} /\ UNCHANGED <<day, family, deletion, restore, due>>
    BY <1>14 DEF Leaving!StopRun, Leaving!CutRun, Leaving!NoRun
  <2> QED BY <1>0, <1>n, <2>1, Untouched
<1>15. CASE Leaving!NextDay
  <2>1. day' = day + 1 /\ UNCHANGED <<family, deletion, restore, due, purge>>
    BY <1>15 DEF Leaving!NextDay
  <2>2. Unmarked(u) => Unmarked(u)' BY <2>1 DEF Unmarked, Leaving!First
  <2> QED BY <1>0, <1>n, <2>1, <2>2, Untouched
<1>16. CASE UNCHANGED Leaving!vars BY <1>16, <1>s DEF Leaving!vars
<1> QED BY <1>1, <1>2, <1>3, <1>4, <1>5, <1>6, <1>7, <1>8, <1>9, <1>10, <1>11, <1>12, <1>13, <1>14,
           <1>15, <1>16 DEF Leaving!Next, Leaving!RequestStep

DeletionInv == Leaving!TypeOK /\ day > 0 /\ AskedIsOver /\ PromiseInv

\* In the first state nobody has asked for anything.
LEMMA DeletionInit == ASSUME Leaving!DeletionAssumption PROVE Leaving!Init => DeletionInv
<1> SUFFICES ASSUME Leaving!Init PROVE DeletionInv OBVIOUS
<1>1. 1 \in Leaving!Days /\ 0 \in 0 .. MaxTurns /\ 0 \in 0 .. PurgeLimit
  BY DEF Leaving!DeletionAssumption, Leaving!Days
<1>2. Leaving!TypeOK /\ day > 0
  <2>1. family \in [Tenants -> Row] BY Zero DEF Leaving!Init, Row
  <2>2. deletion \in [Tenants -> Request] BY Zero DEF Leaving!Init
  <2>3. purge \in Run BY <1>1 DEF Leaving!Init, Leaving!NoRun, Run
  <2>4. billing \in [Tenants -> Leaving!Billing] BY DEF Leaving!Init, Leaving!Billing
  <2> QED BY <1>1, <2>1, <2>2, <2>3, <2>4, Zero DEF Leaving!Init, Leaving!TypeOK, Row, Request, Run
<1>3. AskedIsOver
  BY DEF Leaving!Init, AskedIsOver, Leaving!Asked, Leaving!ErasingAt, Leaving!Erasing,
      Leaving!NoRequest, Leaving!NoRun
<1>4. PromiseInv
  BY DEF Leaving!Init, Leaving!NoRequest, Leaving!NoRun, PromiseInv, Promise, WritesPromise,
      ErasesWhenDue, MarkHasDate, ListedIsDue, Pending, Leaving!Erasing
<1> QED BY <1>2, <1>3, <1>4 DEF DeletionInv

LEMMA DeletionHolds ==
    ASSUME Leaving!DeletionAssumption
    PROVE  Leaving!Spec => []DeletionInv
<1>1. DeletionInv /\ [Leaving!Next]_(Leaving!vars) => DeletionInv'
  BY DeletionTypedStep, AskedStep, PromiseStep DEF DeletionInv
<1> QED BY <1>1, DeletionInit, PTL DEF Leaving!Spec

\* Only the last two steps of an erasure take anything away.
LEMMA LosesWhenErased ==
    ASSUME Leaving!TypeOK, [Leaving!Next]_(Leaving!vars), NEW t \in Tenants, Leaving!Loses(t)
    PROVE  \E a \in {"request", "run"} : Leaving!ErasingAt(a, t) \in {"children", "family"}
<1> USE DEF Leaving!requests, Leaving!rows, Leaving!history
<1>1. ~(family'[t].children = family[t].children /\ family'[t].exists = family[t].exists)
  BY DEF Leaving!Loses
<1>2. ASSUME NEW u \in Tenants, NEW a \in {"request", "run"},
             Leaving!EraseChildren(a, u) \/ Leaving!EraseFamily(a, u)
      PROVE  \E b \in {"request", "run"} : Leaving!ErasingAt(b, t) \in {"children", "family"}
  <2>1. u = t BY <1>1, <1>2 DEF Leaving!TypeOK, Leaving!EraseChildren, Leaving!EraseFamily
  <2> QED BY <1>2, <2>1 DEF Leaving!EraseChildren, Leaving!EraseFamily
<1>3. ASSUME NEW u \in Tenants,
             \/ Leaving!StripeStep(u) \/ Leaving!AskDelete(u) \/ Leaving!AskErase(u) \/ Leaving!AskRestore(u)
             \/ Leaving!RequestStep(u) \/ Leaving!Attempt(u) \/ Leaving!CutRequest(u)
             \/ \E a \in {"request", "run"} :
                   \/ Leaving!CancelSubscription(a, u) \/ Leaving!RefuseCancel(a, u)
                   \/ Leaving!EraseSettings(a, u) \/ Leaving!Throw(a, u)
      PROVE  FALSE
  <2>1. ASSUME family' = family PROVE FALSE BY <1>1, <2>1
  <2>2. CASE \/ Leaving!StripeStep(u) \/ Leaving!AskDelete(u) \/ Leaving!AskErase(u)
             \/ Leaving!AskRestore(u) \/ Leaving!Attempt(u) \/ Leaving!CutRequest(u)
    BY <2>1, <2>2 DEF Leaving!StripeStep, Leaving!OpenCheckout, Leaving!Pay, Leaving!Lapse,
        Leaving!Bind, Leaving!End, Leaving!Unbind, Leaving!Becomes, Leaving!AskDelete,
        Leaving!AskErase, Leaving!AskRestore, Leaving!Attempt, Leaving!CutRequest
  <2>3. CASE Leaving!RequestStep(u)
    BY <1>1, <2>3 DEF Leaving!TypeOK, Leaving!RequestStep, Leaving!Mark, Leaving!SetDate,
        Leaving!Unmark, Leaving!ClearDate
  <2>4. CASE \E a \in {"request", "run"} :
                 Leaving!CancelSubscription(a, u) \/ Leaving!RefuseCancel(a, u) \/ Leaving!Throw(a, u)
    BY <2>1, <2>4 DEF Leaving!CancelSubscription, Leaving!RefuseCancel, Leaving!Throw
  <2>5. CASE \E a \in {"request", "run"} : Leaving!EraseSettings(a, u)
    BY <1>1, <2>5 DEF Leaving!TypeOK, Leaving!EraseSettings
  <2> QED BY <1>3, <2>2, <2>3, <2>4, <2>5
<1>4. CASE Leaving!Cron \/ Leaving!StopRun \/ Leaving!NextDay \/ Leaving!CutRun \/ UNCHANGED Leaving!vars
  BY <1>1, <1>4 DEF Leaving!Cron, Leaving!StopRun, Leaving!NextDay, Leaving!CutRun, Leaving!vars
<1> QED BY <1>2, <1>3, <1>4 DEF Leaving!Next, Leaving!EraseStep

\* Types, whatever overlaps and is cut off.
THEOREM DeletionTyped == LeavingSpec => []Leaving!TypeOK
<1>1. DeletionInv => Leaving!TypeOK BY DEF DeletionInv
<1> QED BY <1>1, DeletionHolds, LeavingAssumption, PTL DEF LeavingSpec

\* Children and family rows are erased while Stripe takes money only where the row did not show
\* the subscription when the erasure asked, whatever overlaps and is cut off.
THEOREM ErasedNotBilled == LeavingSpec => ErasedIsNotBilled
<1> DEFINE Change == \A t \in Tenants : Leaving!Loses(t) /\ Leaving!Billed(t) => t \in unseen
<1>1. DeletionInv /\ [Leaving!Next]_(Leaving!vars) => [Change]_(Leaving!vars)
  <2> SUFFICES ASSUME DeletionInv, [Leaving!Next]_(Leaving!vars), NEW t \in Tenants,
                      Leaving!Loses(t), Leaving!Billed(t)
               PROVE  t \in unseen
    OBVIOUS
  <2>1. Leaving!Asked(t) BY LosesWhenErased DEF DeletionInv, Leaving!Asked, Leaving!Erasing
  <2> QED BY <2>1 DEF DeletionInv, AskedIsOver, Leaving!Billed
<1>2. LeavingSpec => [][Change]_(Leaving!vars)
  BY <1>1, DeletionHolds, LeavingAssumption, PTL DEF LeavingSpec, Leaving!Spec
<1> QED BY <1>2, PTL DEF ErasedIsNotBilled, Leaving!ErasedIsNotBilled

\* A tenant that is not upset is erased only on or after the day its last delete request promised,
\* and never when that request was undone, whatever overlaps for other tenants and however the
\* days turn.
THEOREM GraceServed == LeavingSpec => GraceIsServed
<1> DEFINE Change == \A t \in Tenants \ upset : Leaving!Loses(t) => Leaving!Served(t)
<1>1. DeletionInv /\ [Leaving!Next]_(Leaving!vars) => [Change]_(Leaving!vars)
  <2> SUFFICES ASSUME DeletionInv, [Leaving!Next]_(Leaving!vars), NEW t \in Tenants \ upset,
                      Leaving!Loses(t)
               PROVE  Leaving!Served(t)
    OBVIOUS
  <2>1. PICK a \in {"request", "run"} : Leaving!ErasingAt(a, t) \in {"children", "family"}
    BY LosesWhenErased DEF DeletionInv
  <2>2. Promise(t) BY DEF DeletionInv, PromiseInv
  <2>3. deletion[t].at \in Leaving!Erasing \/ t \in purge.queue
    BY <2>1 DEF Leaving!ErasingAt, Leaving!First, Leaving!Erasing
  <2> QED BY <2>2, <2>3 DEF Promise, ErasesWhenDue, ListedIsDue, Leaving!Served
<1>2. LeavingSpec => [][Change]_(Leaving!vars)
  BY <1>1, DeletionHolds, LeavingAssumption, PTL DEF LeavingSpec, Leaving!Spec
<1> QED BY <1>2, PTL DEF GraceIsServed, Leaving!GraceIsServed

=============================================================================
