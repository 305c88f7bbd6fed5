# A TLA+ model of Ganbari Quest

Ganbari Quest turns a child's daily chores into a game. A child records
activities, earns points and levels, and exchanges points for rewards that a
parent approves. Families pay by subscription (Stripe) and may leave, with a
grace period before their data is erased. The server is a SvelteKit application
that runs in AWS Lambda on Aurora DSQL (optimistic concurrency control); a
self-hosted edition runs the same services on PGlite.

This directory holds TLA+ modules of the parts of that server whose correctness
depends on the order in which things happen, TLC configurations that check them
on small instances, and TLAPS proofs of the theorems that hold for every
instance. Paths below are relative to the repository.

- [Inventory](#inventory)
- [Modules](#modules)
- [Runs](#runs)
- [What the runs found](#what-the-runs-found)
- [Proofs](#proofs)
- [What is only model-checked](#what-is-only-model-checked)
- [What is not modelled](#what-is-not-modelled)
- [Plan](#plan)
- [How to run](#how-to-run)

## Inventory

Which part keeps which state, what changes it, and what must be right.
`S` abbreviates `src/lib/server/services`, `D` abbreviates `src/lib/server/db/dsql`.

| Part | State | Operations | Hard about it | Correct means | Module |
|---|---|---|---|---|---|
| Point transactions (`D/record-activity-core.ts`, `cancel-activity-core.ts`, `point-repo.ts`, `point-write.ts`, `daily-mission-complete.ts`, `occ-retry.ts`, `run-in-transaction.ts`) | `children.total_point`, `point_ledger`, `activity_logs`, `activity_mastery`, `statuses`, `daily_missions` | record, cancel, spend, convert, grant, complete a mission, prune | requests of one child overlap; a conflict aborts at commit and the work runs again; inputs are read before the transaction | balance = sum of the ledger; daily limit; one refund per record; no overdraft; bonus once; a refused request leaves nothing; all of it as if one after the other | `PointDb`, `PointLedger`, `PointTxns` |
| Removal of a child (`D/child-repo.ts`) | all rows of the child | `deleteChild` | runs beside records | nothing is left behind | in `PointLedger` |
| Mastery levels (`src/lib/domain/validation/activity.ts`) | a count per activity | level, count to the next, bonus, refund | a table with gaps, off-by-one at each step | the refund is what was given; the next level is reached where announced | `Mastery` |
| Reward shop (`S/reward-redemption-service.ts`, `D/reward-redemption-repo.ts`, `S/special-reward-service.ts`) | `reward_redemption_requests`, the child's points, `special_rewards` | request, approve, reject, void, expire, show, delete reward | read, charge and update are three statements; two parents, a double submit, a cron job | charged iff approved, once; one pending request per reward | `RewardRedemption` |
| Webhook claim ledger (`D/webhook-event-repo.ts`, `S/stripe-service.ts`) | `stripe_webhook_events` | claim, take over, release, finalize, purge | at-least-once delivery, overlap, death of a function at any point, time limits | one handler at a time, applied once, never lost | `WebhookLease`, `WebhookDedup` |
| Contract state (`S/stripe-service.ts`) | `families.status`, `plan`, `stripe_subscription_id`, `plan_expires_at`, `stripe_customer_id` | five event handlers, return from checkout | events in any order, repeated, their handlers overlapping; read, ask Stripe, write; plans the code does not know | plan, contract, state and date agree; an old contract's event does not show on the new one | `ContractState` |
| Leaving (`S/grace-period-service.ts`, `S/account-deletion-service.ts`, `S/tenant-cleanup-service.ts`) | settings `soft_deleted_at`, `physical_deletion_date`; all rows of the tenant | soft delete, restore, erase, daily run | several statements each, a limit per run, steps that fail, the clock; Stripe's events at any time | nothing is erased early, or while billed for what the row shows; whoever is due is erased in the end | `AccountDeletion` |
| After a record (`S/activity-record-dsql.ts`, `daily-mission-service.ts`, `combo-service.ts`, `recommendation-service.ts`) | `daily_missions`, entries of the day in `point_ledger` | draw missions, mark them, pay missions, combos and the focus bonus | look up, then insert, outside the record's transaction; every part may fail alone | the day's bonuses are all paid in the end, and once if requests do not overlap | `RecordBonus` |
| Login bonus and stamp cards (`S/login-bonus-service.ts`, `stamp-card-service.ts`, `D/login-bonus-repo.ts`, `stamp-card-repo.ts`) | `login_streaks`, `stamp_cards`, `stamp_entries`, entries | claim the day, stamp, redeem a card, redeem last week's card | claim and posting are two transactions; a request served after midnight; cut-offs | the streak counts days; each claim, stamp and card is paid once and in full | `LoginStamp` |
| Checklists (`S/checklist-service.ts`) | `checklist_logs`, items, entries | tick, untick; a parent edits the list | the whole log is written back; the entry comes after the log | the ledger has what the log says of a completed list | `Checklist` |
| Weekly challenges (`S/child-challenge-service.ts`, `D/child-challenge-repo.ts`) | `child_challenges`, entries | make, count a record, complete, claim, delete | read, then write the count; an optional part of a record | paid once, not before it is earned | `Challenge` |
| Membership (`D/auth-repo.ts`, `D/invite-accept.ts`, `S/invite-service.ts`, `S/account-deletion-service.ts`, the members routes) | `users`, `families`, `memberships`, `invites`, the login | first login, invite, accept, remove, leave, hand over, delete | each is a sequence of transactions; two kinds of id | one owner per family, whose name agrees in both tables; one family per person | `Membership` |
| Cloud exports (`S/cloud-export-service.ts`, `D/cloud-export-repo.ts`) | `cloud_exports`, objects in the store | create, build, list, download, import, delete, reclaim | overlapping runs of the job, killed builds, deletions meanwhile | one builder; no row without its file; each export settles | `ExportJob`, `CloudExport` |
| Trials (`S/trial-service.ts`) | `trial_history` | start, expire, upgrade | check before insert | one trial per family | not modelled |
| Everything else | | | | | see [What is not modelled](#what-is-not-modelled) |

How they interact: a page or API route calls a service function; the service
reads what it needs, decides, and calls repository functions, some of which run
a transaction. There is no lock outside the database and no shared memory:
what two requests of a family have in common are rows. Stripe calls the webhook
route; a scheduler calls the cron routes. The reward shop charges through the
spend transaction of `PointTxns`; the webhook handlers of `ContractState` run
under the claims of `WebhookDedup`; the erasure of `AccountDeletion` ends the
subscription that `ContractState` describes.

`PROJECT.json` lists, under `hazards`, each place where this is hard to test,
with the property that covers it or the reason why none does.

## Modules

| Module | Contents |
|---|---|
| `PointDb` | the rows of one child, the requests' inputs, and what each transaction writes, as functions `(current rows, rows seen, request)` |
| `PointLedger` | abstract: each request reads its inputs at some moment and later takes effect in one step on the rows as they then are, or is turned away without effect |
| `PointTxns` | detailed: snapshot, row sets, conflict at commit, bounded retries, rollback; implements `PointLedger` |
| `PointTxnsProofs` | type correctness, `Spec => LedgerSpec`; spend, limit, refund, mission bonus, derived columns |
| `SumTheorems` | sums over finite sets, by the definition of the community modules |
| `RecordBonus` | the optional phase of records and the drawing of missions, statement by statement |
| `RecordBonusProofs` | type correctness; missions, combos and focus bonus are paid |
| `LoginStamp` | a login, its claim, stamp and cards over days and weeks |
| `LoginStampProofs` | type correctness, the streak, the three kinds of payment, last week's card |
| `Checklist` | ticks of a list and its points |
| `Challenge` | the challenge of the week: counted, completed, claimed, deleted |
| `Mastery` | the level table and its functions; recording and cancelling over every count |
| `DailyProofs` | a challenge is paid once and when earned, a checklist as its log says; refunds and announcements of mastery, at every count |
| `RewardRedemption` | calls of a child and of parents, statement by statement |
| `RewardRedemptionProofs` | type correctness, one pending request, charge before approval, no phantom, exact answers |
| `WebhookLease` | abstract: a lease that one delivery holds at a time |
| `WebhookDedup` | detailed: rows of `stripe_webhook_events`, clock, deaths; implements the lease |
| `ContractState` | Stripe's subscriptions, its events, the handlers, the tenant's columns |
| `AccountDeletion` | requests, Stripe's subscription and the row's, erasure, daily run, clock |
| `Membership` | users, families, memberships, invitations, and the requests of the people |
| `MembershipProofs` | type correctness; one owner, the same in both tables; one family per person |
| `ExportJob` | abstract: an export is queued, built by one worker, ready, failed or deleted |
| `CloudExport` | detailed: rows, objects, runs of the job, requests; implements `ExportJob` |
| `TenantProofs` | what is proved of `ContractState`, `WebhookDedup`, `CloudExport` and `AccountDeletion`: types; columns that agree and show their contract; the lease, the handler applied once; one builder, files, quota, the queue; billing and grace |
| `MC...` | constants of the small instances, symmetry; `MCDaily` puts `Challenge`, `Checklist` and `Mastery` into one run. `MCDaily`, `MCWebhookDedup`, `MCCloudExport` and `MCAccountDeletion` take their components by `INSTANCE`, so that one module of proofs can speak of several, whose names would clash |

A definition whose comment starts with "Variant" is not part of the model. It
is the form the definition would take with a plausible bug; put in place of the
definition it stands beside, it must make a property fail.

### Point transactions

`PointDb` has one child, one category and one day. Rows of different children
never meet in one transaction, so one child is enough for every conflict;
one day makes every log count against the daily limit. A request inserts at
most one log and one entry, so the request names both.

The service's reads before the transaction (`activity-record-preparation.ts`,
`activity-cancel-dsql.ts`, `point-service.ts`) are one step, `Ask...`; the gap
between them and the transaction stays, and is where most of the trouble is. An
early return of a service changes nothing and is a stuttering step.

`PointTxns` models the transaction as `run-in-transaction.ts` and `occ-retry.ts`
run it on DSQL. `Begin` takes a snapshot. `RunRecord`, `RunCancel`, `RunSpend`,
`RunEntry`, `RunMission` and `RunDelete` are the work and its commit; the work
sees the snapshot only, so its statements can be merged. `...Rows` name the rows
it writes or locks `FOR UPDATE`. `stale[c]` collects the rows that other
transactions committed since `c` began; the commit succeeds iff it meets none
of them, and otherwise the work starts again, `MaxAttempts` times in all, after
which the caller gets the conflict. `Rollback` is the work throwing. This
behaviour of the database is external to the repository and modelled from how
the code relies on it.

`DecayFloor` is 70% of the peak as `Math.round` computes it in floating point:
it rounds four halves down below a peak of 325 (the set `HalvesRoundedDown`),
which bounds where it is exact.

`completeMissionAndMaybeGrantBonus` is called by tests only; the service that
runs today (`daily-mission-service.ts`) checks and then grants in two steps.
`PointTxns` has the transaction, `RecordBonus` the service.

### Mastery

`calcMasteryLevel` and its relatives are operators over the table of the source,
evaluated at every count from 0 to beyond the last entry. `StepsMatchTable` in
`MCDaily` ties the step function of `PointDb` to the table.

### Reward shop

Each call is a record in `call` with the place it has come to; every `await` of
the service is a place where other calls run and where the call may end
(`Abandon`, which stands for a crash and for exhausted retries). Repository
transactions are single steps, except the insert of a request: its check for a
pending one depends on the lock it takes (`BeginInsert`, `CommitInsert`,
`RetryInsert`). Prices are not edited during a run. The read of the setting for
approval without a parent is merged with the commit of the insert. The expiry
route serves tenant `default` and has no schedule entry; `Expire` may happen at
any time to rows whose call has ended.

### Webhook claims

One event with three deliveries. Every statement of the repository is a step, a
delivery may die before each, and no delivery outlives the Lambda timeout (30 s,
`infra/lib/compute-stack.ts:311`). Times are whole units; clocks agree.

### Contract state

Two subscriptions with events in any order; an event whose completion was not
recorded comes again, and handlers overlap, each with the row as it has read it
(`seen`). Statuses of Stripe that the handlers treat alike are one
value (`trialing` stands with `active`; `incomplete` and `paused` with `unpaid`). The
return from checkout finds the tenant by the session's metadata. A subscription
has two plans: that of its price (`plan`), which may change at Stripe, and the one its
checkout session names (`named`), which does not; either may be none the code
knows (`"none"`), and `planUpdateOrKeep` then leaves the column alone (`WithPlan`). The
checkout event and the return from checkout assign the named one. Two variables
are history: `past`, what each subscription has been at Stripe, and `blind`, that a handler
wrote to a row that another had changed since it was read. Checkout and return
from checkout do not decide by the row's other columns, and are never blind.

### Leaving

A tenant is its rows (`family`) and its subscription, which is at Stripe and in
its row and not always in both (`billing`): a page is open at Stripe, it is paid and
the event is still on its way, it is in the row, it has ended and the row does not know yet.
The events of Stripe reach the row at any time: the hook that keeps a marked tenant
from writing does not stop them. `cancelSubscription` asks Stripe for what the row
shows and for nothing else (`Cancelled`).

The mark is three settings in the code; the one that names the plan has no
effect on control. The erasure is four steps of which each may fail as in the
code: a Stripe refusal ends it, settings and children log their failures and go
on, an exception that is not caught ends it (`Throw`). The owner's membership is
last to go (`deleteMembership` refuses an owner), so only a tenant that is gone
has no owner. The daily run works through a list made at its start, a set here of which it
takes the oldest tenant (`First`); a failed attempt counts against the limit. `infra` has no schedule
for it on AWS; the scheduler of the self-hosted edition runs it every day.

Requests overlap each other, the daily run and the turn of the day; of one tenant there is
one delete and one restore request at a time, and there is one run. Three variables are
history: `due`, the day the last delete request promised; `upset`, the tenants whose
requests met each other or the run, or were cut off; `unseen`, the tenants with a page
or subscription at Stripe that the row did not show when an erasure asked, or that
opened a page after it. `turns` bounds what nobody has to do.

### After a record

The optional phase follows the record's transaction: combos, missions, the
focus bonus, each of which `runOptionalWrite` lets fail alone (`Skip`) and any of
which ends with the request (`CutOff`). A look-up and the insert after it are two
steps, and so are the marking of a mission and the count of those marked. One
record a day per activity, and at most `MaxShort` parts that owe something at a
time, bound the model. The missions drawn are any choice of the right number; a load
that is cut off while it inserts leaves fewer for good. With `LateLoads`
FALSE the missions are drawn before the first record. Of the three combos the mini one is never paid: two
activities are of one category, which is a combo, or of two, which is another. The progress of
challenges, another part of the phase, is in `Challenge`.

### Login and stamps

The UI calls `loginStamp` and `redeemStampCard`, and only these are modelled, call
by call of the repositories. `claimToday` is one conditional statement. A
request lasts less than a day, but one sent before midnight may claim after one
sent later (`behind`). `raced` collects the cards at which two requests were at once,
`lost` the payments that were cut off or failed: the properties say what holds
despite them. Amounts are abstracted: a stamp is worth one.

### Checklist

One child, list and day. A tick reads items and log, computes the new log and the
entry, writes the log and posts the entry: points when the list has become
complete, the points of the log back when it no longer is. The points per item are a
constant (the UI edits only time and visibility of a list). An item a parent
removes may come back, as an override can be removed again. `raced` says that the
list was read or changed while a tick was about to write, `shifted` that a parent
changed a completed list or completed one by a removal.

### Challenge

One child and week. `weekly_auto_guard` lets one challenge exist, the claim is one
transaction with its entry (`reference_id` is unique), and the count of a record is
a read followed by a write. `counted` are the records that read the challenge,
`missed` those cut off before the write.

### Membership

A repository method is a transaction and a step; a request is a sequence of them.
Loops over the members or invitations of a family are one step, and a request its
first reads refuse is none. A person signs in under the `sub` of the login
provider, rows name users by an id of the database, and the model keeps the two
apart as the code does (`CallerKey`). Anybody may log in on two devices at once
at any time; `twice` (history) has who did. A deleted person makes no more requests;
bindings of an invitation to an address or a child are left out.

### Cloud exports

Exports of one family, numbered as they are made. The job reclaims builds older
than ten minutes, lists the oldest queued ones, claims, builds, saves, marks; two
runs may overlap (AWS and the family's own server), and `Stop` ends one at any
step. `GoStale` is the passing of the ten minutes: with `Outlives` FALSE a build
has ended by then, which is what the platform's limits give; TRUE shows what
else would happen. PIN collisions and the erasure of a whole family are left out.

## Runs

`CHECK_DEADLOCK` is off throughout: a run may end with every request answered
or every delivery made.

| Run | Instance | Shows |
|---|---|---|
| `points` (`MCPointTxns.cfg`) | four requests of any kind, one activity twice a day, two missions, two attempts | the optimistic transactions implement the serial ledger; balance, limit, refund, bonus, experience, mastery |
| `record_bonus` (`MCRecordBonus.cfg`) | two requests, four activities in two categories, three missions | combos, missions and focus bonus are paid, whatever overlaps or fails |
| `stamps` (`MCLoginStamp.cfg`) | two requests at a time and four in all, a week of three days and the next, cards of two stamps, one payment lost | streak, login, stamps, cards |
| `daily` (`MCDaily.cfg`) | every mastery count up to 10100, two records back; a list of two items and two ticks at a time; challenges of two records, two requests at a time | refunds and next level; a list's and a challenge's points |
| `shop` (`MCRewardRedemption.cfg`) | two requests over two rewards, two parent calls, spending elsewhere | approval, charge and row agree |
| `webhook` (`MCWebhookDedup.cfg`) | three deliveries, clock to 12 | the lease; applied once |
| `contract` (`MCContractState.cfg`) | two subscriptions of a plan or of none the code knows, three changes at Stripe, two handlers at a time | the columns agree and show their contract, whatever the order |
| `deletion` (`MCAccountDeletion.cfg`) | two tenants, limit 2, three days, three requests, checkouts or cut-offs, one tenant that Stripe never lets go | billing, grace, completion |
| `members` (`MCMembership.cfg`) | two people, two families, one invitation, two requests at a time, every request, double logins | one owner, agreeing tables, one family |
| `exports` (`MCCloudExport.cfg`) | two exports, two runs of the job, two requests, quota 1 | builder, files, quota |
| `exports_settle` (`MCCloudExportSettles.cfg`) | the same with one request and fair scheduling | implements the queue; every export settles |

A twelfth run, `mission_twice`, checks a statement of the repository that TLC
refutes; it opens the next section.

### Properties

`points`. `LedgerSpec`: what all requests together did, they could have done one
after the other. `DerivedColumnsAgree`: `total_point` is the sum of the entries
and of what retention pruned (`BalanceMatchesLedger`), mastery counts the active
logs, experience stays between the decay floor and the peak. `DailyLimitHeld`: no
more active logs than the limit, although requests count before their
transactions. `NoDoubleRefund`: two cancels of one log never both succeed.
`MissionBonusExactlyOnce`: two requests that complete the last two missions side
by side neither both get the bonus nor leave it unpaid, which is what the locks
on the missions still open are for. `SpendNeverOverdraws`.

`record_bonus`. `MissionPaid`, `ComboPaid`, `FocusPaid`: once nobody is between a
record and its posting, what the day is worth has been paid, and what a failed
part left is made up for by a later record; and no more is posted unless two
requests overlapped between look-up and insert. Taking a record back and making it
again pays no combo twice.

`stamps`. `StreakCountsDays`: the streak is the number of claimed days that end
with the last one. `LoginPaidOnce`, `StampPaid`: a claim or stamp has its points once, but
for a payment that was cut off. `CardPaid`: a card is exchanged once, for the points
its row says, which are those of all its stamps. `LastWeekSettled`: after a login
of the following week no card with stamps is left over. `TypeOK` says in
addition that stamps fill a card from the first slot on and never exceed it.

`daily`. `LatestCancelIsExact`: cancelling the latest record returns the bonus
it was given, also at the step of a level. `NextLevelIsReached`: after as many
records as announced, and not before, the level is higher. `ChecklistPaid`: the
ledger holds what the log says of a completed list and nothing for another,
however often items are ticked and unticked. `ChallengePaid`: a reward is posted
once and not before the target (`RewardEarned`, under every interleaving); and
records that do not overlap all count (`RecordsCount`).

`shop`. `OnePendingPerReward`, `ApprovedWasCharged`, `NoPhantomRequest`, and
`SoleDecisionIsExact`: where one call alone decides and is not cut off, its
answer, the row and the ledger agree, even if the cron job expires the row under
it. `TypeOK` has the balance in the naturals. The overlap of two deciders is where
the code fails (below).

`webhook`. `LeaseSpec`: at most one delivery is in the handler, and none after
the completion was recorded. `AppliedOnceUnlessCutOff`: beyond the first, a run
of the handler to its end needs an earlier run that died before it was recorded.

`contract`. `ColumnsAgree`: no plan without a contract (X1 of
`contract-state-matrix.md`), a contract without a plan (X2) only where the session
named no plan the code knows, grace has a contract (X4) and a date (S3).
`RowShowsItsContract`: an event about one subscription shows nothing on another,
so the row has a grace, a suspension or a plan only if the subscription it is bound
to has had them. Both hold until a handler is `blind`; that they hold with handlers that
overlap but write to a row as they read it, and with checkouts that write in
between at any time, is the point. What a blind write does is below
(`NoPlanWithoutContract`).

`deletion`. `ErasedIsNotBilled`: who loses data while Stripe takes money had that
subscription only at Stripe when the erasure asked (`unseen`). `GraceIsServed`: nothing
is erased before the promised day or after the request was undone, but for
tenants that are `upset`. `CarriedOverIsErased` (liveness, premises under
[fairness](#fairness)): an expired tenant whose subscription Stripe lets go is erased in
the end although the tenant before it in the list fails every night, as long as the limit
leaves room for it. The exceptions are where the code fails (below).

`members`. `OneOwner`, `OwnerCacheAgrees` (`families.owner_user_id` names the one
owner), `OneFamily` (one family at most for a person who did not log in twice at a
time, whatever others do, double logins among it).

`exports`. `BuiltByOne`: whoever builds an export is alone with it and nobody has
settled it meanwhile. `FilesFollowRows`: what is listed as ready is in the store,
and a ready or failed export that is deleted takes its object along for good.
`QuotaNearlyKept`: the quota is exceeded by overlapping requests only.

`exports_settle`. `KeepsPromise`: every step is one of the queue of
`async-backup-export.md` §3.2. `QueueSettles`: nothing stays queued or under
construction for ever.

### Bounds and why they are enough

- Four requests are what the interesting cases take: two records and two
  cancels (the residue), a record, two spends and a delete, two missions beside
  a spend and a record. Two attempts show both the retry and the last failure. The mastery
  count starts at 29, one record below the first bonus, so a record and its
  cancel cross the step. The balance starts at 5 with prices of 4: one spend
  fits, two do not. One deletion of the child.
- After a record, two requests meet at every await; three played activities in
  two categories reach both kinds of combo, and three missions their two bonuses.
- Four days reach the second week of a card; two slots make a full card and a
  card that is not.
- A list of two items is completed, opened and changed; two edits add and remove
  an item. A challenge of two records is reached alone, together and after a cut-off;
  `MaxRecords` two above the target lets records overlap after one was missed.
- Two requests and two parents meet at every await of the shop; the balance pays
  for one of the two rewards in some orders only. `ListLimit` is the code's 50
  where it does not matter and 1 where it does.
- Three deliveries: one that holds the claim, one that is refused and one that
  takes over. Timeout 1, stale 2, horizon 4, retention 5 keep the order of the
  code's 30 s, 15 min, 3 days, 30 days; the clock runs until the row is purged.
- Two subscriptions, three changes at Stripe: one contract ends while another is
  bound, or one is bound, fails and recovers or ends. Two handlers meet between any read
  and write; one plan and none are enough for a plan to be kept, replaced or missing. The
  refutation of `GraceDateStands` takes a fourth change.
- Two tenants of which the older is never let go by Stripe, and a limit of two: the second
  waits behind it every night. Grace of 2 and 1 days; three days let the second
  expire, be restored or carried over, and the first expire. Three turns are a delete
  request, a restore and a checkout, or one of them and a cut-off; the refutations take no more.
- Two people suffice for every transfer, for one who joins while another
  leaves, and for one who logs in twice while the other does not; `MaxMembers` 2 makes a
  family full.
- Two exports: one that is built while the other is queued, deleted or counted.

Symmetry is used for requests, parents, deliveries, subscriptions, plans, people
and workers, in runs without liveness properties only.

### Fairness

`AccountDeletion`: days pass, and a request under way, an erasure and a run go
on (weak fairness of `NextDay`, `RequestStep`, `EraseStep`, `StopRun`). No owner has to
delete, restore or pay anything. What else the eventual erasure needs is no part of
`Spec` but a premise of `CarriedOverIsErased`, since not every deployment gives it.
`Scheduled`: the job is started again and again (weak fairness of `Cron`), and a run that
finds a tenant first in line within its limit gets to it some night, although its
time budget may be spent before on others (strong fairness of `Attempt`). The server's
own scheduler (`scripts/scheduler.ts`, the self-hosted edition) starts the job every day;
among the rules of the cloud stack (`infra/lib/compute-stack.ts:20-33`) there is none for
it, so on AWS the premise fails and nothing is erased in the end. `StripeGivesWay`: Stripe
accepts the cancellation of a *reliable* tenant if asked again and again (strong
fairness: each night asks once and may be refused). In the run tenant 2 alone is
reliable; the one before it may be refused for ever.

`CloudExport`: the job is started every five minutes and ten minutes pass (weak
fairness of `Begin` and `GoStale`). A run may be stopped at any step, but is not stopped
at the same one for ever: strong fairness of `Reclaim`, `List` and `Claim`, which
a stop disables and the next run enables again. A build that is neither stopped
nor failing goes on (weak fairness of `Save` and `MarkReady`); a build that is
stopped is given up by the reclaim and needs no fairness. No parent has to
delete or download anything.

## What the runs found

The run `mission_twice` (`MCRecordBonusTwice.cfg`, `MissionBonusOnce`):
`D/daily-mission-repo.ts:17-19` asks that every completion with a bonus go through
`completeMissionAndMaybeGrantBonus`, "count-then-insert の TOCTOU 二重付与を再導入しない".
The optional phase calls `checkMissionCompletion` instead, which looks the bonus up
and then inserts it (`S/daily-mission-service.ts:120`); two records that complete
missions side by side both post it. `PointTxns` shows that the transaction would not
(`MissionBonusExactlyOnce`).

### Further counterexamples

Each property below states what a document or comment of the repository says and
TLC refutes it. To see the counterexample, put the property in the place of the
properties of the configuration named.

Points and bonuses:

- **`NoResidueAfterCancels`** (`MCPointTxns.cfg`; `S/activity-cancel-dsql.ts`).
  `src/lib/domain/validation/activity.ts:388-395`: "record→cancel cycle で mastery_bonus が
  balance に残らない (farming vector 消滅)". The refund is computed from the mastery
  count at the time of the cancel; two records across a step, both prepared below
  it or cancelled oldest first, refund less than they gave.
- **`StreakBonusOncePerDay`** (`MCPointTxns.cfg`; `S/activity-record-preparation.ts:106`:
  "Streak: only award on first record of the day"). Whether a record is the first
  is read before the transaction and not checked again; two records prepared side
  by side are both paid.
- **`DiscretionaryUseNonNegative`** (`MCPointTxns.cfg`; `S/point-service.ts:104`).
  `docs/design/dsql/m3-physical-model.md:396`: "read-modify-write 不変条件は必ず FOR UPDATE
  を伴わせる MUST". `convertPoints` reads the balance, compares, and posts an
  unconditional debit.
- **`NoEntryWithoutChild`** (`MCPointTxns.cfg`; `D/record-activity-core.ts:138`).
  `D/cancel-activity-core.ts:137`: "child 不在 = total_point 共更新不能。throw で txn ごと
  rollback (§5 P7、片肺書込禁止)". `recordActivityCore` does not look whether its UPDATE
  met a row.
- **`ZeroOnlyAtTheCap`** (`MCDaily.cfg`; `src/lib/domain/validation/activity.ts:378`: "if
  (!nextEntry) return 0; // Lv99 (cap)"). The table jumps from 40 to 99 and the code
  looks for level + 1, so it answers 0 at counts 8720 to 9998 as well.
- **`MissionCountKept`** (`MCRecordBonus.cfg`; `S/daily-mission-service.ts:164-170`,
  "二重生成ガード"). Guard and inserts are statements of their own, so two
  loads still draw two sets.
- **`LoginOncePerDay`** (`MCLoginStamp.cfg`; `docs/design/08-データベース設計書.md:683`).
  A claim sent before midnight and served after one of the next day sets
  `last_login_date` back, and the next day is claimed again.
- **`StampOncePerDay`**, **`FullCardsOnly`**, **`LaterLoginRedeems`** (`MCLoginStamp.cfg`;
  `docs/design/26-ゲーミフィケーション設計書.md:621`, `:647`, and the table of 7.3.1). Two taps
  both find the day without a stamp and both pay; a card with any stamp is
  exchanged, and not only a full one; only the card of the week just before is looked at.
- **`PaidAsShown`** (`MCDaily.cfg`; `S/checklist-service.ts:235-238`, "全完了時にポイントを付与する").
  Two ticks of the last item at once are both paid; an item added by a parent
  to a completed list has the whole list paid again; and where the posting was cut
  off, unticking takes back points that were never given.
- **`NoRecordLost`** (`MCDaily.cfg`; `S/child-challenge-service.ts:771-774`). Two records
  read the same count and write the same sum.
- **`WeekPaidOnce`** (`MCDaily.cfg`; `S/child-challenge-service.ts:575-577`, "ポイント二重付与を不可能化する").
  When a parent deletes a challenge whose reward was taken, the next load makes
  another for the same week.

Reward shop:

- **`ChargedAtMostOnce`** (`MCRewardRedemption.cfg`; `docs/design/06-UI設計書.md:2571`: "並行 /
  二重 submit でも残高マイナス・二重減算を起こさない"). `finalizeApproval` spends and then
  updates without a condition on the status; two approvals that both read
  `pending` both spend.
- **`RejectedNotCharged`** (`MCRewardRedemption.cfg`; `docs/design/07-API設計書.md:2181`: "3.
  ポイント減算なし"). `rejectRedemption` updates unconditionally after a read and
  overwrites an approval that has charged meanwhile.
- **`PendingKeepsReward`** (`MCRewardRedemption.cfg`; `docs/design/08-データベース設計書.md:1455`:
  "は hasPendingByReward ガードで拒否する"). Guard and delete are two statements, and the
  insert of a request does not look at the reward again.
- **`NotFoundMeansAbsent`** (`MCRewardRedemptionListed.cfg`; `docs/design/07-API設計書.md:2196`).
  `approveRedemption` looks the request up in the list of the newest 50 rows.

Contract and webhook:

- **`AckedIsInHand`** (`MCWebhookDedup.cfg`; `S/stripe-service.ts:530`: "Stripe の再送は 3
  日続くため、この待ち時間で復旧機会を失うことはない"). While a claim is held every other
  delivery is answered 200, which ends the retries; if the holder then dies the
  event is lost.
- **`EndedContractStaysEnded`** (`MCContractState.cfg`; `S/stripe-service.ts:1084`:
  "これにより到着順に依らず最終状態が一致する"). `handleCheckoutCompleted` writes the contract
  as active without asking Stripe, so a checkout event that arrives after the
  deletion brings an ended contract back.
- **`NoPlanWithoutContract`**, **`ReconcileNeverReplaces`** (`MCContractStateOrphan.cfg`;
  `docs/design/billing-redesign/contract-state-matrix.md:67`, `S/stripe-service.ts:763`). Both
  comparisons read the tenant before the write, and the write has no condition.
- **`GraceDateStands`** (`MCContractStateGrace.cfg`; `S/stripe-service.ts:1109-1110`:
  "毎回書き直すと猶予が延び続け、未払いのまま使い続けられる"). `handlePaymentFailed` writes now + 7
  days on every failed payment.

Leaving and members:

- **`CarriedOverIsErased`** (`MCAccountDeletionStarved.cfg`; `S/grace-period-service.ts:270-271`:
  "残りは翌日の実行に持ち越す"). The list has the same order every day and a failure
  counts against the limit, so as many tenants as the limit that fail every day
  keep the rest from being tried.
- **`HalfErasedIsRetried`** (`MCAccountDeletion.cfg`; `docs/design/account-deletion-flow.md:186`,
  `S/tenant-cleanup-service.ts:107` "取り漏らし禁止"). The settings go first,
  `soft_deleted_at` among them; if a later step throws, the daily run no longer
  finds the tenant.
- **`SoftDeletedHasDate`**, **`GraceSurvivesAll`** (`MCAccountDeletion.cfg`; `S/grace-period-service.ts:4-5`,
  `docs/design/account-deletion-flow.md:136`). Mark and date are written and cleared in
  statements of their own: a mark without a date can neither be restored nor is
  it listed; an old date that a restore left counts for the next mark; and a
  request to delete again, while a run erases, meets a tenant whose mark is gone, and promises
  a day that the run does not wait for.
- **`RestoredIsSpared`** (`MCAccountDeletionSpared.cfg`; `docs/design/account-deletion-flow.md:166`:
  "テナント通常状態に戻る"). The daily run erases what was on its list without reading
  the status again.
- **`NeverErasedWhileBilled`** (`MCAccountDeletionBilled.cfg`;
  `S/account-deletion-service.ts:162-164`: "DB 削除の前に Stripe 側をキャンセルする",
  "ユーザーの課金継続クレームを防ぐため"). `cancelSubscription` answers `not_subscribed` when the row
  has none (`S/stripe-service.ts:297-300`), and the erasure goes on although a page is paid
  whose event has not arrived, or is open and paid later.
- **`OneFamilyEver`** (`MCMembershipTwice.cfg`; `src/lib/server/auth/entities.ts:60`, "1ユーザー=1テナント").
  A first login on two devices looks for a row of the person twice and makes two.
- **`TransferKeepsTarget`** (`MCMembership.cfg`; `docs/design/14-セキュリティ設計書.md:439` and the
  comment of the route). The transfer deletes the target's membership to make it
  again as owner; `owner_guard` refuses a second owner, and the target is out.
- **`LeaveTakesEffect`** (`MCMembership.cfg`; `docs/design/07-API設計書.md:169`). The route
  deletes under the `sub` of the caller, where no row is.
- **`GoneIsEmpty`**, **`BystanderKeepsAccount`** (`MCMembership.cfg`;
  `docs/design/account-deletion-flow.md:60-78`). A request that was under way writes a
  membership of a family that is gone; who joins after the members were counted is
  deleted with an owner who seemed alone.

Exports:

- **`QuotaKept`** (`MCCloudExport.cfg`; `S/cloud-export-service.ts:221`). Count and insert
  are two statements.
- **`RefusedSeesWhy`** (`MCCloudExport.cfg`; `S/cloud-export-service.ts:221`: "既存のエクスポートを削除してください").
  Expired and used-up exports count and are not listed; their clean-up
  (`S/cloud-export-service.ts:466`) has no entry in `schedule-registry.ts`.
- **`DeleteTakesFile`** (`MCCloudExport.cfg`; `docs/design/07-API設計書.md:1099`). An export that is
  deleted while it is built leaves its file.
- **`BuiltByOne`** (`MCCloudExportOutlives.cfg`; `docs/design/async-backup-export.md` §3.2). A build
  that lived longer than ten minutes would write over its reclaim.

## Proofs

TLAPS proves what follows for every set of requests, activities, missions,
deliveries, people, families and exports, every limit, price, target, number of
attempts and time limit that meets the assumptions, and every length of run. The
assumptions are

- `ConstantsAssumption` (`PointDb`): the constants have their types, the sets of
  requests and missions are finite, `Opening` is no request; `MaxAttemptsAssumption`
  (`PointTxns`): there is one attempt at least;
- `RecordBonusAssumption`, `ChallengeAssumption`, `CloudExportAssumption`: types; the sets
  that are counted are finite; the words for "none" name nothing;
- `ChecklistAssumption`, `MasteryAssumption`: types;
- `LoginStampAssumption`: types; at least one day, one day a week, finitely many sessions;
- `RedemptionAssumption`: types; ids of requests are not those of parents or rewards;
- `DedupAssumption` (`WebhookDedup`): a delivery dies before its claim counts as stale,
  and a row outlives every delivery;
- `ContractAssumption`: types; `"none"` names no subscription or plan;
- `DeletionAssumption`: types; tenants are ordered by their number; at least one day;
- `MembershipAssumption`: types; finite sets; the two words that stand for "no user" are
  not people.

TLC evaluates all of them in the runs, those of components that are taken by `INSTANCE`
under the names `DailyAssumption`, `WebhookAssumption`, `ExportAssumption` and
`LeavingAssumption` of the `MC` modules. One condition is not an assumption of a module
but of three theorems, and the table names it: builds end within ten minutes (`~Outlives`),
which the limits of the platform give. Everything else is proved of the specification as it
stands, whatever overlaps and is cut off. Where the code does not keep a property in
some interleaving, the property says so in terms of what happened (`blind`, `upset`, `unseen`,
`twice`, `raced`, `lost`), and a counterexample shows it without that exception
([further counterexamples](#further-counterexamples)).

| Theorem | States |
|---|---|
| `PointTxnsProofs!TypeCorrect` | `Spec => []TypeOK` |
| `PointTxnsProofs!Serializable` | `Spec => LedgerSpec` |
| `PointTxnsProofs!SpendSafe` | `Spec => SpendNeverOverdraws` |
| `PointTxnsProofs!LimitSafe` | `Spec => []DailyLimitHeld` |
| `PointTxnsProofs!RefundSafe` | `Spec => []NoDoubleRefund` |
| `PointTxnsProofs!MissionBonusSafe` | `Spec => []MissionBonusExactlyOnce` |
| `PointTxnsProofs!DerivedColumnsSafe` | `Spec => []DerivedColumnsAgree` |
| `RecordBonusProofs!BonusTyped` | `Spec => []TypeOK` |
| `RecordBonusProofs!MissionBonusIsPaid` | `Spec => []MissionPaid` |
| `RecordBonusProofs!ComboIsPaid` | `Spec => []ComboPaid` |
| `RecordBonusProofs!FocusIsPaid` | `Spec => []FocusPaid` |
| `TenantProofs!DedupTypeCorrect` | `WebhookSpec => []TypeOK` of `WebhookDedup` |
| `TenantProofs!LeaseHeld` | `WebhookSpec => LeaseSpec` |
| `TenantProofs!AppliedOnce` | `WebhookSpec => []AppliedOnceUnlessCutOff` |
| `MembershipProofs!MembershipTyped` | `Spec => []TypeOK` |
| `MembershipProofs!ExactlyOneOwner` | `Spec => []OneOwner` |
| `MembershipProofs!CacheNamesOwner` | `Spec => []OwnerCacheAgrees` |
| `MembershipProofs!OneFamilyEach` | `Spec => []OneFamily` |
| `TenantProofs!ExportsTyped` | `ExportSpec => []TypeOK` of `CloudExport` |
| `TenantProofs!OneBuilder` | `ExportSpec => []BuiltByOne`, if `~Outlives` |
| `TenantProofs!StoreFollowsRows` | `ExportSpec => []FilesFollowRows`, if `~Outlives` |
| `TenantProofs!ServiceIsQueue` | `ExportSpec => KeepsPromise`, if `~Outlives` |
| `TenantProofs!QuotaIsNearlyKept` | `ExportSpec => []QuotaNearlyKept` |
| `DailyProofs!RewardIsEarned` | `Spec => []RewardEarned` |
| `DailyProofs!ChallengeIsPaid` | `Spec => []ChallengePaid` |
| `DailyProofs!ChecklistIsPaid` | `List!Spec => []ChecklistPaid` (`Checklist`) |
| `DailyProofs!CancelIsExact` | `Skill!Spec => []LatestCancelIsExact` (`Mastery`) |
| `DailyProofs!AnnouncementIsExact` | `Skill!Spec => []NextLevelIsReached` (`Mastery`) |
| `RewardRedemptionProofs!ShopTyped` | `Spec => []TypeOK` |
| `RewardRedemptionProofs!OnePending` | `Spec => []OnePendingPerReward` |
| `RewardRedemptionProofs!ApprovedIsCharged` | `Spec => []ApprovedWasCharged` |
| `RewardRedemptionProofs!NoPhantoms` | `Spec => []NoPhantomRequest` |
| `RewardRedemptionProofs!SoleDecision` | `Spec => []SoleDecisionIsExact` |
| `TenantProofs!ColumnsAlwaysAgree` | `Spec => []ColumnsAgree` (`ContractState`, types included) |
| `TenantProofs!ContractIsShown` | `Spec => []RowShowsItsContract` (`ContractState`) |
| `TenantProofs!DeletionTyped` | `LeavingSpec => []TypeOK` of `AccountDeletion` |
| `TenantProofs!ErasedNotBilled` | `LeavingSpec => ErasedIsNotBilled` |
| `TenantProofs!GraceServed` | `LeavingSpec => GraceIsServed` |
| `LoginStampProofs!LoginStampTyped` | `Spec => []TypeOK` |
| `LoginStampProofs!StreakSafe` | `Spec => []StreakCountsDays` |
| `LoginStampProofs!LoginPaid` | `Spec => []LoginPaidOnce` |
| `LoginStampProofs!StampPaidSafe` | `Spec => []StampPaid` |
| `LoginStampProofs!CardPaidSafe` | `Spec => []CardPaid` |
| `LoginStampProofs!LastWeekIsSettled` | `Spec => []LastWeekSettled` |

**Serializability.** A commit computes its writes from the snapshot and not from
the current rows. It is a step of the ledger only if the two agree where the
work looked. That is the invariant `Coherence`, in
three parts. `ChildCoherent`: as long as the row of the child is not stale, the
child still exists and its balance, logs, mastery and experience are those of
the snapshot, because every transaction that writes one of these writes the
child's row too. `MissionsCoherent`: a mission whose row is not stale is as it
was seen, and none is reopened. `OrphansCoherent`: where the snapshot has no
child, only records and missions can still write, and two records of an activity
meet at its mastery row. The invariant is inductive because the rows a commit
reports cover the changes it makes (lemma `Covering`, one case per transaction:
it fails as soon as a row that matters is missing from a `...Rows` operator) and
`Leave` adds them to every other running transaction's `stale`
(`CoveredCommit`). At a commit the reported rows do not meet `stale`, so what
was seen is current and the commit is the ledger's step (`LedgerStep`).
Conflicts with attempts left and `Begin` are stutters; rollbacks and the last
conflict are `TurnAway`. The proof shows, too, what protects the daily limit:
the count of logs is not itself a locked row, it is the row of the child (or of
the mastery) that two records both write. The type
invariant `TypeInv` adds to `TypeOK` that logs on record belong to record
requests, that a cancel names one, and that no running request is answered.

**Safety through the ledger.** The safety theorems use `LedgerStep`: it suffices
that every step of the *ledger* preserves the property (`LedgerCases` lists
them), so snapshots and conflicts do not appear in their proofs. `SpendSafe` reads the guard off `Spend`. `LimitSafe` counts: a
record adds one to the active logs of its activity and is only taken below the
limit; everything else leaves the set alone or shrinks it. `RefundSafe` needs
`RefundInv`: a log that is not absent was answered `ok` (`LogsAnswered`), so its
record never runs again and a cancelled log stays cancelled; and an answered
request keeps its inputs (`AnsweredAsked`).

**Derived columns.** `DerivedColumnsAgree` compares a column with a sum over the
ledger, and the sum is a fold (`MapThenSumSet`), which a prover sees as a `CHOOSE`
over recursive functions. `SumTheorems` gets from it what is
needed, here and for every other sum: the function exists and is unique (`SumsExist`, `SumsUnique`), a sum may be
taken from any member on (`SumsAny`), the empty sum is 0 (`SumOfEmpty`), one member
more adds its amount (`SumOfAdds`), equal amounts have equal sums (`SumOfAgrees`). These are inductions over a
finite set, done without an induction theorem: were there a subset for which the claim
fails there would be a smallest one (`LeastSubset`, from the well-foundedness of `<` on
`Nat`), and taking a member out of it contradicts that. `SumIsOfAmounts` ties the fold to
these sums. Then each transaction of the ledger is a lemma about what it does to rows and
columns (`RecordColumns`, `CancelColumns`, ... `PruneColumns`), `BalanceStep` and `XpStep`
follow, and the count of active logs is a cardinality (`MasteryStep`). `RowsInv` adds to
`RefundInv` that an entry on the ledger is of a request answered `ok`
(`EntriesAnswered`): no request enters one twice.

**Mission bonus.** `MissionInv` adds that the rows of all missions are there
(`NoneAbsent`), so that "no mission is open" means "all are complete". `MissionStep`: a
completion that leaves another one open posts nothing and leaves the day incomplete; the
one that leaves none finds, by the invariant, no entry yet and adds its own, which is a new
one by `EntriesAnswered`; after it no mission is open and no completion posts.

**Bonuses after a record.** That all is paid needs, in every state between a record and its
last posting, somebody who sees it all. For the missions it is the last request to mark: it
counts every mission, whatever the others counted, so as long as the whole bonus is not
posted there is a request that has yet to count, or one about to pay that counted them all
(`MissionOwed`). For combos it is a request that has not looked yet or saw no less than
today's logs are worth (`ComboOwed`), which stays true when a log is added because the table
grows with the activities (`DesiredGrows`, sums of step functions of cardinalities), and
for the focus bonus any request on its way (`FocusOwed`). A part that fails or is cut off
while it owes something enters `short`, and a later posting that makes up for it takes it
out again: the theorems hold for every bound on `short`. That no more is paid is
the other half: while no two requests were in the middle of one bonus, only one is
about to post (`OneCompletion`, `OneCombo`, `OneFocus`), and what it posts, on top of what is
posted, stays below what the day is worth. `ComboPaidOnce` compares with all activities
ever recorded that day, since a record that is taken back leaves its combo.

**Checklists.** While no tick crossed another, the one that is about to write has the
points and the entry that follow from the list as it is (`OneTick`), and the log of a
completed list has the points of all its items (`LogIsAward`). `Agrees` adds up what is posted,
what the ticks have yet to post and what was lost; the two sums are over different sets,
of requests and of lost entries, and `TickMakesUp` shows that what a written log changes is what its
request has yet to post.

**Mastery.** The first 40 entries of the table rise, so a count below its end lies between two
of them, one of the two being the level (`Between`, `SomewhereBetween`, `LevelIs`). That makes
the level at every count known without evaluating the search, and the announcement correct:
it names the distance to the next entry. `SkillInv` says of the bonuses that stand that the
i-th is the one of the count it found, `count - Len(granted) + i - 1`: cancelling the
latest therefore gives back the bonus of the count before. The step functions by which
`PointDb` pays and refunds are compared with the table at all counts (`StepsAreTable`). TLC
samples counts up to 10100; the theorems speak of every count.

`MCDaily` lets one of its three parts move at a time, and `RunHasParts` shows that the run is
a run of each: the theorems about `List!Spec` and `Skill!Spec` hold of what TLC checks.

**Applied once.** `RunsInv` bounds the runs of the handler by the deliveries that died
after theirs (`CutOff`) and one more if a run is recorded or about to be (`Kept`). A run
that ends makes the second summand 1, and it was 0: by `Alone` no other delivery has
handled the event, by `Over` none was recorded.

**One owner.** The inductive invariant of `MembershipProofs` is `TypeOK` with
`UnbornIsEmpty` (a family that was not made has no members), `KnownIsBorn` (who
holds a context, an invitation or a request's family refers to one that was made)
and `OwnerCacheAgrees`. The transactions that write memberships each leave the
owner alone (`owner_guard`: no second owner is inserted, an owner is not deleted)
or change owner and cache together; `OneOwner` follows from the cache. The first
two parts are what makes the founding of a family safe: its owner is the first
and only row.

**One family.** `OneAtMost` alone is not inductive: a login writes a membership some
steps after it has looked for one. `SoleInv` adds what the request still knows then
(`Grounded`: the row it writes is of its own person, who has no living family), that it is
the only login of that person (`LoginsApart`), and that a row nobody uses has no family
(`FreeIsAlone`). The first two are claimed of persons not in `twice` only, a set that grows,
so that a second login takes its person out of the claim and leaves the others in it. A handover cannot add a second family: it is
to someone who is in this one, and what it inserts besides meets `owner_guard`.

**Exports.** With builds that end within the limit, a build is alone: a claim takes
a queued row only, and what is stale is not being built (`StaleIsUnbuilt`), nor is
what a run is about to reclaim (`ReclaimIsUnbuilt`). `SavedIsStored` ties a build that
has saved to its file; `ReadyIsStored` follows. `DeletionsAsked` and `SureIsSettled`
say that an export deleted once it was settled is never built again, hence
`DeletedIsErased`. With these the builder of an export is well defined and every
step maps to a step of `ExportJob` or a stutter. The quota is an argument by
counting: an insert turns one inserting session into one export.

**Challenges.** `EarnedInv`: no value, written or about to be, exceeds the number of
records that were counted (`ValueCounted`), and who is about to mark a challenge has
reached the target (`MarkReached`). So `completed` is earned however records overlap,
and the claim's condition does the rest. `CountInv`: at a challenge that was not raced
there is at most one writer, and it has seen the row as it is (`OneWriter`); with
`Unmade` (what was not made is as in the beginning) that gives the count, the
cardinality of the set of writers being 0 or 1.

**Reward shop.** `IInv` says what a call still knows at each place between two awaits
(`RequestFine`, `ParentFine`). One pending request: an insert that nobody overtook has no
pending request beside it (`InsertClear`), and who was overtaken inserts again. Charge
before approval: a call at `approving` has charged. No phantom: a call that answers
`INSUFFICIENT_POINTS` has taken its row back before it answers. For `SoleDecisionIsExact`,
`SoleInv` follows one call through its decision: if only it decides (`OnlyDecider`), the
request is charged once from its payment on and approved from its end on, and neither
before (`DecidedAlone`); `Untouched` gives the start of that, `Answered` its end. The step
lemmas say of each action which requests it moves and that it leaves the others
(`Unmoved`).

**Contract state.** `Sound` says of the row what the properties say, until a write was blind.
It is inductive with what is known of Stripe, events and handlers (`Typed`): what a
subscription is, and what it is called in its session, it has been (`SubscriptionFine`); an
event says what its subscription has been (`EventFine`), and so does a handler, which has
found the contract to be the family's if it is about to write (`HandlerFine`). None of it is
taken back by what happens at Stripe (`Onward`), so it outlasts every step of others between a
read and a write. A write is then one of two: an assignment, which needs nothing of the row
(`AssignedRow`), or a patch put on the row as it was read (`ContractRow`), since otherwise the
write is blind and the claim ends.

**Leaving.** Billing needs one fact: a tenant whose erasure is past the question to Stripe has
nothing open or billed, or is `unseen` (`AskedIsOver`). It holds whatever overlaps, because
each way back to a subscription starts with a page, and a page opened in that time makes the
tenant `unseen`. The grace period is `PromiseInv`, of the tenants that are not `upset`: a request
that writes mark and date is alone and its date is the promised one (`WritesPromise`); so is
one that erases, and its day has come (`ErasesWhenDue`); mark and date stand together but for
the statements between the two writes (`MarkHasDate`); who is on the list of a run is past the
date and no longer restored (`ListedIsDue`: the list is made once and used later, and a restore
that comes between makes the tenant `upset`). As days only pass and `upset` only grows, none of it
is disturbed by other tenants, by the clock or by the end of a process. Both properties are read
off the state before a step that erases (`LosesWhenErased`).

**Logins and stamps.** The type invariant needs the cards to be dense (`Dense`: used slots
are the first ones, one stamp a day), which rests on what a request at `enter` knows
(`Placed`: its slot is at most one beyond the filled ones, and cards only fill).
`StreakCountsDays` is inductive: the claim reads and writes the row in one statement.
The payments are sums over three places: what is posted, what is lost and how many
requests are about to post. `LoginsAfter` and `StampsAfter` say what a step does to the sum,
`LoginPaidOnce` then needs that a day that is claimed was not claimed before, which is
`StreakCountsDays`. For cards, `OnceInv` adds that a payment is under way, or lost, only for
an exchanged card and never both. What holds in a week whose card no two requests were at
together is `Alone`: at most one request is at the card, and what it read is how the card is
(`KnowsCard`); an entry then goes in (`EnterFills`) and an exchange counts every stamp.
`Settled` says of last week's card that it is exchanged, or empty with nobody at it or on the
way to it; it stays so because later requests are of later weeks (`ComingAfter`,
`WeekMonotone`).

## What is only model-checked

- Liveness (`CarriedOverIsErased`, `QueueSettles`), which needs fairness and `ENABLED`.
- Type invariants of `Checklist` and `Mastery` are part of the invariants above
  (`ListTyped`, `SkillInv`), not theorems of their own.

Every safety property, action property and refinement of the passing runs is proved, those of
the exports but types and quota under `~Outlives`. The finding of `mission_twice` and the further
counterexamples are TLC's.

## What is not modelled

- *Birthday bonus*: marks the year and posts, like a login; its two weak places are
  those of `LoginStamp`.
- *Trials*: one row and a date; everything but the start is a function of the date.
- *Account lockout*: counting of failed logins, left to a security review.
- *Cheers and messages*: one row each; nothing interacts with it.
- *Decay over days*: floating point on one row, once a day; its floor is in `PointDb`.
- *Retention clean-up*: reaches the model as the pruning of ledger entries.
- *Import, restore and templates*: bulk copies and mapping of ids.
- *Sessions and authentication*: Cognito; the write guard on soft-deleted tenants
  is a guard of `AccountDeletion`, the first login is in `Membership`.
- *SQLite, PGlite and demo backends*: the same interfaces, one process.
- *Pages, components, labels, demo data, seeds, scripts, infrastructure*: most of the
  repository's lines; no state that the properties are about.

Within the parts that are modelled: the choice of missions, of a challenge's
category and target, of stamps (a lottery) and of PINs; making and distributing
checklists; insertion of requests by a restore from a backup and the removal of a
tenant's (`insertRedemptionForRestore`, `deleteByTenantId` of the reward shop); the
setup's bulk challenges and copies between children; bindings of an
invitation; the contents of an export.

## Plan

Done: everything under [Inventory](#inventory) but trials. What is left:

1. Liveness of the webhook: an event whose last delivery is not cut off is applied.
2. `Checklist` over several days and with the deletion of a list.

## How to run

    tlc -workers 2 -config MCPointTxns.cfg MCPointTxns
    tlapm PointTxnsProofs.tla
