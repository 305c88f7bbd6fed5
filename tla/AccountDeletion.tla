--------------------------- MODULE AccountDeletion ---------------------------
(***************************************************************************)
(* Leaving the service (grace-period-service.ts, account-deletion-service  *)
(* .ts and the two account routes): the owner of a paying tenant deletes   *)
(* the account, which only marks it; the owner may restore it for Grace    *)
(* days; a daily job erases what is past its date, a few tenants a run.    *)
(* A free tenant is erased by the request itself.                          *)
(*                                                                         *)
(* The mark is three settings written one statement after another.  The    *)
(* one naming the plan has no effect on control and is left out, so a      *)
(* request writes soft_deleted_at and then physical_deletion_date.         *)
(*                                                                         *)
(* Requests overlap each other, the job and the turn of the day.  There is *)
(* one delete and one restore request of a tenant at a time, and one run.  *)
(***************************************************************************)
EXTENDS Naturals, FiniteSets

CONSTANTS
    Tenants,        \* numbered in the order of created_at
    Grace,          \* DELETION_GRACE_PERIOD_DAYS of each tenant's plan
    Limit,          \* DEFAULT_PURGE_LIMIT
    Reliable,       \* the tenants whose subscription Stripe cancels sooner or later
    MaxDay,         \* bound on the clock
    MaxTurns        \* bound on the requests, checkouts and cut-offs, together

DeletionAssumption ==
    /\ Tenants \subseteq Nat /\ IsFiniteSet(Tenants)
    /\ Grace \in [Tenants -> Nat]
    /\ Limit \in Nat \ {0}
    /\ Reliable \subseteq Tenants
    /\ MaxDay \in Nat \ {0} /\ MaxTurns \in Nat

VARIABLES
    day,        \* the clock, in days
    family,     \* the rows of each tenant: families, settings, children
    billing,    \* its checkout or subscription, at Stripe and in its row
    deletion,   \* the delete request in flight for a tenant
    restore,    \* the restore request in flight
    purge,      \* the daily run: the tenants it has left, how many it tried, its step at the first
    due,        \* the day promised by the last delete request (0: none stands)
    upset,      \* tenants whose requests got in each other's way, in a run's, or were cut off
    unseen,     \* tenants whose row hid a checkout or a subscription from an erasure
    turns       \* how many requests, checkouts and cut-offs there were

rows     == <<family, billing>>
requests == <<deletion, restore>>
history  == <<due, upset, unseen>>
vars     == <<day, rows, requests, purge, history, turns>>

Unset   == 0
Days    == 0 .. MaxDay
Dates   == {Unset} \cup {d + Grace[t] : d \in Days, t \in Tenants}
Erasing == {"subscription", "settings", "children", "family"}

\* Nothing; a page open at Stripe; paid, but not in the row yet; in the row; in the row although over.
Billing == {"none", "open", "paid", "bound", "ended"}

TypeOK ==
    /\ day \in Days
    /\ family \in [Tenants -> [exists: BOOLEAN, softDeleted: BOOLEAN, date: Dates, children: BOOLEAN]]
    /\ billing \in [Tenants -> Billing]
    /\ deletion \in [Tenants -> [at: {"idle", "marking", "dating"} \cup Erasing, date: Dates]]
    /\ restore \in [Tenants -> {"idle", "unmarking", "undating"}]
    /\ purge \in [running: BOOLEAN, queue: SUBSET Tenants, attempted: 0 .. Limit,
                 at: {"none"} \cup Erasing]
    /\ due \in [Tenants -> Dates \cup Days]
    /\ upset \subseteq Tenants /\ unseen \subseteq Tenants
    /\ turns \in 0 .. MaxTurns

NoRequest == [at |-> "idle", date |-> Unset]
NoRun     == [running |-> FALSE, queue |-> {}, attempted |-> 0, at |-> "none"]

Init ==
    /\ day = 1
    /\ family = [t \in Tenants |-> [exists |-> TRUE, softDeleted |-> FALSE, date |-> Unset,
                                    children |-> TRUE]]
    /\ billing = [t \in Tenants |-> IF Grace[t] > 0 THEN "bound" ELSE "none"]
    /\ deletion = [t \in Tenants |-> NoRequest]
    /\ restore = [t \in Tenants |-> "idle"]
    /\ purge = NoRun
    /\ due = [t \in Tenants |-> Unset]
    /\ upset = {} /\ unseen = {}
    /\ turns = 0

-----------------------------------------------------------------------------
(* Variant: one day of the grace period is lost.                           *)
IsExpiredEarly(t) == day + 1 >= family[t].date

(* Variant: only the day itself counts.                                    *)
IsExpiredThatDay(t) == day = family[t].date

(* What getGracePeriodStatus answers.  No date counts as the date now.     *)
IsExpired(t) == day >= family[t].date

(* The tenants findExpiredSoftDeletedTenants lists; one without a date is  *)
(* not among them.                                                         *)
Expired ==
    {t \in Tenants : /\ family[t].exists
                     /\ family[t].softDeleted
                     /\ IsExpired(t)
                     /\ family[t].date # Unset}

(* The hook in front of every handler: a tenant that is soft deleted may   *)
(* be read, exported and restored, and nothing else.                       *)
Writable(t) == family[t].exists /\ ~family[t].softDeleted

\* The list comes in the order of created_at.
First(t) == t \in purge.queue /\ \A u \in purge.queue : t <= u

(* An erasure is run by the request of a free tenant or by the daily job.  *)
ErasingAt(a, t) ==
    IF a = "request" THEN deletion[t].at ELSE IF First(t) THEN purge.at ELSE "none"

BeingPurged(t) == ErasingAt("run", t) # "none"
Quiet(t)       == deletion[t].at = "idle" /\ restore[t] = "idle" /\ ~BeingPurged(t)

\* What nobody has to do happens a bounded number of times.
TakeTurn == turns < MaxTurns /\ turns' = turns + 1

\* A request begins; it is in the way of what is under way for the tenant.
Begin(t) ==
    /\ TakeTurn
    /\ upset' = IF Quiet(t) THEN upset ELSE upset \cup {t}
    /\ UNCHANGED <<purge, unseen>>

-----------------------------------------------------------------------------
(* Stripe, and the webhook events about it.  They are not stopped by the   *)
(* mark, and reach the row at any time.                                    *)

Billed(t) == billing[t] \in {"paid", "bound"}   \* Stripe takes money
InRow(t)  == family[t].exists /\ billing[t] \in {"bound", "ended"}   \* stripeSubscriptionId is set

Asked(t) == \E a \in {"request", "run"} : ErasingAt(a, t) \in Erasing \ {"subscription"}

OpenCheckout(t) ==
    /\ Writable(t) /\ billing[t] = "none"
    /\ TakeTurn
    /\ billing' = [billing EXCEPT ![t] = "open"]
    /\ unseen' = IF Asked(t) THEN unseen \cup {t} ELSE unseen
    /\ UNCHANGED <<day, family, requests, purge, due, upset>>

\* The page is paid or expires; its event binds the subscription; it ends; that event unbinds it.
Becomes(t, from, to) ==
    /\ billing[t] = from
    /\ billing' = [billing EXCEPT ![t] = to]
    /\ UNCHANGED <<day, family, requests, purge, history, turns>>

Pay(t)    == Becomes(t, "open", "paid")
Lapse(t)  == Becomes(t, "open", "none")
Bind(t)   == family[t].exists /\ Becomes(t, "paid", "bound")
End(t)    == Becomes(t, "bound", "ended")
Unbind(t) == family[t].exists /\ Becomes(t, "ended", "none")

StripeStep(t) == OpenCheckout(t) \/ Pay(t) \/ Lapse(t) \/ Bind(t) \/ End(t) \/ Unbind(t)

(* cancelSubscription, where Stripe does not refuse.  Nothing is cancelled *)
(* when the row has no subscription.                                       *)
Cancelled(t) == IF InRow(t) THEN [billing EXCEPT ![t] = "ended"] ELSE billing

-----------------------------------------------------------------------------
(* The requests.                                                           *)

\* On a paid plan Stripe cancels first; where it refuses, the request ends without a trace.
AskDelete(t) ==
    /\ Writable(t) /\ deletion[t].at = "idle" /\ Grace[t] > 0
    /\ billing' = Cancelled(t)
    /\ deletion' = [deletion EXCEPT ![t] = [at |-> "marking", date |-> day + Grace[t]]]
    /\ due' = [due EXCEPT ![t] = day + Grace[t]]
    /\ Begin(t)
    /\ UNCHANGED <<day, family, restore>>

\* On the free plan, which a tenant is on as well once its subscription has ended.
AskErase(t) ==
    /\ Writable(t) /\ deletion[t].at = "idle"
    /\ deletion' = [deletion EXCEPT ![t].at = "subscription"]
    /\ due' = [due EXCEPT ![t] = day]
    /\ Begin(t)
    /\ UNCHANGED <<day, rows, restore>>

Mark(t) ==
    /\ deletion[t].at = "marking"
    /\ family' = [family EXCEPT ![t].softDeleted = TRUE]
    /\ deletion' = [deletion EXCEPT ![t].at = "dating"]
    /\ UNCHANGED <<day, billing, restore, purge, history, turns>>

SetDate(t) ==
    /\ deletion[t].at = "dating"
    /\ family' = [family EXCEPT ![t].date = deletion[t].date]
    /\ deletion' = [deletion EXCEPT ![t] = NoRequest]
    /\ UNCHANGED <<day, billing, restore, purge, history, turns>>

AskRestore(t) ==
    /\ family[t].exists /\ restore[t] = "idle"
    /\ family[t].softDeleted /\ ~IsExpired(t)
    /\ restore' = [restore EXCEPT ![t] = "unmarking"]
    /\ Begin(t)
    /\ UNCHANGED <<day, rows, deletion, due>>

\* A run that has listed the tenant does not look again.
Unmark(t) ==
    /\ restore[t] = "unmarking"
    /\ family' = [family EXCEPT ![t].softDeleted = FALSE]
    /\ restore' = [restore EXCEPT ![t] = "undating"]
    /\ upset' = IF t \in purge.queue THEN upset \cup {t} ELSE upset
    /\ UNCHANGED <<day, billing, deletion, purge, due, unseen, turns>>

ClearDate(t) ==
    /\ restore[t] = "undating"
    /\ family' = [family EXCEPT ![t].date = Unset]
    /\ restore' = [restore EXCEPT ![t] = "idle"]
    /\ due' = [due EXCEPT ![t] = IF deletion[t].at = "idle" THEN Unset ELSE @]
    /\ UNCHANGED <<day, billing, deletion, purge, upset, unseen, turns>>

RequestStep(t) == Mark(t) \/ SetDate(t) \/ Unmark(t) \/ ClearDate(t)

-----------------------------------------------------------------------------
(* The erasure of one tenant (fullTenantDeletion, deleteOwnerFullDelete).  *)

ErasureGoesTo(a, t, step) ==
    IF a = "request"
    THEN deletion' = [deletion EXCEPT ![t].at = step] /\ UNCHANGED <<restore, purge>>
    ELSE purge' = [purge EXCEPT !.at = step] /\ UNCHANGED requests

EndErasure(a, t) ==
    IF a = "request"
    THEN deletion' = [deletion EXCEPT ![t] = NoRequest] /\ UNCHANGED <<restore, purge>>
    ELSE purge' = [purge EXCEPT !.queue = @ \ {t}, !.at = "none"] /\ UNCHANGED requests

CancelSubscription(a, t) ==
    /\ ErasingAt(a, t) = "subscription"
    /\ billing' = Cancelled(t)
    /\ unseen' = IF InRow(t) \/ billing[t] = "none" THEN unseen \ {t} ELSE unseen \cup {t}
    /\ ErasureGoesTo(a, t, "settings")
    /\ UNCHANGED <<day, family, due, upset, turns>>

(* Variant: a refusal is logged and the erasure goes on.                   *)
RefuseCancelLogged(a, t) ==
    /\ ErasingAt(a, t) = "subscription" /\ InRow(t)
    /\ ErasureGoesTo(a, t, "settings")
    /\ UNCHANGED <<day, rows, history, turns>>

RefuseCancel(a, t) ==
    /\ ErasingAt(a, t) = "subscription" /\ InRow(t)
    /\ EndErasure(a, t)
    /\ UNCHANGED <<day, rows, history, turns>>

\* deleteTenantScopedData; a failure to delete the settings is only logged.
EraseSettings(a, t) ==
    /\ ErasingAt(a, t) = "settings"
    /\ \/ family' = [family EXCEPT ![t].softDeleted = FALSE, ![t].date = Unset]
       \/ UNCHANGED family
    /\ ErasureGoesTo(a, t, "children")
    /\ UNCHANGED <<day, billing, history, turns>>

\* deleteAllChildrenData; a failure to delete a child is only logged.
EraseChildren(a, t) ==
    /\ ErasingAt(a, t) = "children"
    /\ \/ family' = [family EXCEPT ![t].children = FALSE]
       \/ UNCHANGED family
    /\ ErasureGoesTo(a, t, "family")
    /\ UNCHANGED <<day, billing, history, turns>>

\* The members and the row.
EraseFamily(a, t) ==
    /\ ErasingAt(a, t) = "family"
    /\ family' = [family EXCEPT ![t].exists = FALSE]
    /\ EndErasure(a, t)
    /\ UNCHANGED <<day, billing, history, turns>>

EraseStep(a, t) ==
    \/ CancelSubscription(a, t) \/ RefuseCancel(a, t)
    \/ EraseSettings(a, t) \/ EraseChildren(a, t) \/ EraseFamily(a, t)

\* A database, storage or Cognito call that is not caught ends the erasure of this tenant.
Throw(a, t) ==
    /\ TakeTurn
    /\ ErasingAt(a, t) \in Erasing \ {"subscription"}
    /\ EndErasure(a, t)
    /\ UNCHANGED <<day, rows, history>>

-----------------------------------------------------------------------------
(* The daily run (purgeExpiredSoftDeletedTenants).  The reads that make    *)
(* the list are one step; each tenant then gets its turn.                  *)

Cron ==
    /\ ~purge.running /\ Expired # {}
    /\ purge' = [NoRun EXCEPT !.running = TRUE, !.queue = Expired]
    /\ UNCHANGED <<day, rows, requests, history, turns>>

Between == purge.running /\ purge.at = "none"

\* A tenant that is gone by now has no owner and is passed over.
Attempt(t) ==
    /\ Between
    /\ First(t) /\ purge.attempted < Limit
    /\ purge' = IF family[t].exists
                THEN [purge EXCEPT !.attempted = @ + 1, !.at = "subscription"]
                ELSE [purge EXCEPT !.attempted = @ + 1, !.queue = @ \ {t}]
    /\ UNCHANGED <<day, rows, requests, history, turns>>

\* The list is done, or the limit or the time budget is used up.
StopRun ==
    /\ Between
    /\ purge' = NoRun
    /\ UNCHANGED <<day, rows, requests, history, turns>>

-----------------------------------------------------------------------------
(* The clock, and the process that ends under a request or a run.          *)

NextDay ==
    /\ day < MaxDay
    /\ day' = day + 1
    /\ UNCHANGED <<rows, requests, purge, history, turns>>

CutRequest(t) ==
    /\ TakeTurn
    /\ \/ /\ deletion[t].at # "idle"
          /\ deletion' = [deletion EXCEPT ![t] = NoRequest] /\ UNCHANGED restore
       \/ /\ restore[t] # "idle"
          /\ restore' = [restore EXCEPT ![t] = "idle"] /\ UNCHANGED deletion
    /\ upset' = upset \cup {t}
    /\ UNCHANGED <<day, rows, purge, due, unseen>>

CutRun ==
    /\ purge.running
    /\ TakeTurn
    /\ purge' = NoRun
    /\ UNCHANGED <<day, rows, requests, history>>

Next ==
    \/ \E t \in Tenants :
          \/ StripeStep(t) \/ AskDelete(t) \/ AskErase(t) \/ AskRestore(t) \/ RequestStep(t)
          \/ \E a \in {"request", "run"} : EraseStep(a, t) \/ Throw(a, t)
          \/ Attempt(t) \/ CutRequest(t)
    \/ Cron \/ StopRun \/ NextDay \/ CutRun

(* A request in flight, an erasure and a run go on, and days pass.  Nobody *)
(* has to delete or restore an account, or to pay.                         *)
Fairness ==
    /\ WF_vars(NextDay) /\ WF_vars(StopRun)
    /\ \A t \in Tenants :
          /\ WF_vars(RequestStep(t))
          /\ \A a \in {"request", "run"} : WF_vars(EraseStep(a, t))

Spec == Init /\ [][Next]_vars /\ Fairness

(* The job is started again and again, and its time budget is not for ever *)
(* spent before the tenant that is first in line and within the limit.     *)
(* The server's own scheduler starts it; no rule of the cloud stack does.  *)
Scheduled == WF_vars(Cron) /\ \A t \in Tenants : SF_vars(Attempt(t))

(* Stripe cancels the subscription of a reliable tenant if asked again and *)
(* again.                                                                  *)
StripeGivesWay ==
    \A t \in Reliable, a \in {"request", "run"} : SF_vars(CancelSubscription(a, t))

-----------------------------------------------------------------------------
(* Properties.                                                             *)

Loses(t) ==
    \/ family[t].children /\ ~family'[t].children
    \/ family[t].exists /\ ~family'[t].exists

Served(t) == due[t] # Unset /\ day >= due[t]

(* Data of a tenant are erased only on or after the day its last delete    *)
(* request promised, and never when that request was undone: through any   *)
(* number of requests, restores, runs and days in any order, except where  *)
(* two requests of the tenant, or a request and the erasure by the job,    *)
(* were under way together, one was cut off, or the restore came when a    *)
(* run had the tenant on its list already.                                 *)
GraceIsServed == [][\A t \in Tenants \ upset : Loses(t) => Served(t)]_vars

(* The same without the exceptions: the promise the code's comments make   *)
(* of the grace period.                                                    *)
GraceSurvivesAll == [][\A t \in Tenants : Loses(t) => Served(t)]_vars

(* A tenant whose delete request was undone loses nothing.                 *)
RestoredIsSpared == [][\A t \in Tenants : Loses(t) => due[t] # Unset]_vars

(* The subscription ends before the data: a tenant that loses its children *)
(* or its family row while Stripe takes its money had that subscription    *)
(* only outside its row when the erasure asked Stripe, as a page open or   *)
(* paid at Stripe, or has opened the page since.                           *)
ErasedIsNotBilled ==
    [][\A t \in Tenants : Loses(t) /\ Billed(t) => t \in unseen]_vars

(* The same without the exception: what the comments say of the order.     *)
NeverErasedWhileBilled ==
    [][\A t \in Tenants : Loses(t) => ~Billed(t)]_vars

(* What a run leaves undone is carried over: where the job is scheduled,   *)
(* an expired tenant that Stripe lets go is erased in the end, also behind *)
(* tenants that Stripe never lets go as long as these are fewer than the   *)
(* limit of a run.  It may be restored instead, keep its row unmarked when *)
(* its erasure was thrown or cut, or be upset.                             *)
CarriedOverIsErased ==
    Scheduled /\ StripeGivesWay =>
       \A t \in Reliable :
          t \in Expired ~> \/ ~family[t].exists
                          \/ t \in upset
                          \/ (Writable(t) /\ Quiet(t))

(* A tenant that has lost its children is gone, is being erased, or is     *)
(* still in reach of the next run.                                         *)
HalfErasedIsRetried ==
    \A t \in Tenants :
       family[t].exists /\ ~family[t].children => family[t].softDeleted \/ ~Quiet(t)

(* Between requests, a tenant that is soft deleted has a date: until then  *)
(* it can be restored, and from then on the job erases it.                 *)
SoftDeletedHasDate ==
    \A t \in Tenants :
       Quiet(t) /\ family[t].exists /\ family[t].softDeleted => family[t].date # Unset

=============================================================================
