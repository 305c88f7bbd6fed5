-------------------------- MODULE RewardRedemption --------------------------
(***************************************************************************)
(* The reward shop of one child (reward-redemption-service.ts over         *)
(* reward-redemption-repo.ts): the child asks for a reward, a parent       *)
(* approves or rejects, and the approval charges the child's points.  A    *)
(* call is several statements with awaits between them, so calls           *)
(* interleave there, and a call may be cut off there.  A transaction of    *)
(* the repositories is one step (PointTxns shows the spend to be           *)
(* serializable), except the insert of a request, whose duplicate check    *)
(* depends on the lock it takes and is modelled in two.                    *)
(***************************************************************************)
EXTENDS Integers, FiniteSets, Sequences, SequencesExt

CONSTANTS
    Requests,       \* the child's requestRedemption calls, and the rows they insert
    Parents,        \* the parents' approve, reject and delete calls
    Rewards,
    Cost,           \* the points of each reward
    InitialBalance,
    MaxBalance,     \* bound on what is earned elsewhere
    ListLimit       \* 50: how many rows findRedemptionRequestsByTenant returns

Nothing == "nothing"

(* Requests and rewards are rows of two tables, calls of either are not    *)
(* the same.                                                               *)
ASSUME RedemptionAssumption ==
    /\ Requests \cap Parents = {}
    /\ Requests \cap (Rewards \cup {Nothing}) = {}
    /\ Cost \in [Rewards -> Nat \ {0}]
    /\ InitialBalance \in Nat
    /\ MaxBalance \in Nat
    /\ ListLimit \in Nat \ {0}

VARIABLES
    balance,    \* children.total_point
    shop,       \* the rewards that exist
    row,        \* reward_redemption_requests, by the call that inserted it
    charged,    \* point_ledger rows of type reward_redemption, by reference_id
    order,      \* requests by requested_at, oldest first
    call,       \* where each call is, and what it was answered
    overtaken   \* inserts whose child row another transaction took meanwhile

vars == <<balance, shop, row, charged, order, call, overtaken>>

Calls    == Requests \cup Parents
Statuses == {"absent", "pending", "approved", "rejected", "expired"}
Replies  == {"none", "pending", "approved", "rejected", "deleted",
             "INSUFFICIENT_POINTS", "ALREADY_PENDING", "REWARD_NOT_FOUND",
             "REQUEST_NOT_FOUND", "INVALID_STATUS", "PENDING_REDEMPTION", "lost"}
Places   == {"idle", "applying", "inserting", "paying", "approving", "voiding",
             "rejecting", "deleting", "done"}

Absent  == [status |-> "absent", reward |-> Nothing, price |-> 0, recent |-> FALSE, shown |-> FALSE]
Idle    == [at |-> "idle", on |-> Nothing, price |-> 0, reply |-> "none"]

Prices == {0} \cup {Cost[w] : w \in Rewards}

TypeOK ==
    /\ balance \in Nat
    /\ shop \subseteq Rewards
    /\ row \in [Requests -> [status: Statuses, reward: Rewards \cup {Nothing}, price: Prices,
                             recent: BOOLEAN, shown: BOOLEAN]]
    /\ charged \in [Requests -> Nat]
    /\ order \in Seq(Requests) /\ IsInjective(order)
    /\ call \in [Calls -> [at: Places, on: Requests \cup Rewards \cup {Nothing},
                           price: Prices, reply: Replies]]
    /\ overtaken \subseteq Requests

Init ==
    /\ balance = InitialBalance
    /\ shop = Rewards
    /\ row = [r \in Requests |-> Absent]
    /\ charged = [r \in Requests |-> 0]
    /\ order = <<>>
    /\ call = [c \in Calls |-> Idle]
    /\ overtaken = {}

-----------------------------------------------------------------------------
(* Steps of a call.                                                        *)

At(c, place) == call[c].at = place

Moved(c, place)  == [call EXCEPT ![c].at = place]
Replied(c, text) == [call EXCEPT ![c].at = "done", ![c].reply = text]

(* Another transaction took the child's row from these inserts.            *)
Overtakes(c) == overtaken' = overtaken \cup {r \in Requests \ {c} : At(r, "inserting")}

-----------------------------------------------------------------------------
(* The child asks: requestRedemption.                                      *)

(* Reads the shop and the balance, in statements of their own.             *)
StartRequest(r, w) ==
    /\ At(r, "idle")
    /\ \/ w \notin shop /\ call' = Replied(r, "REWARD_NOT_FOUND") /\ UNCHANGED order
       \/ w \in shop /\ balance < Cost[w] /\ call' = Replied(r, "INSUFFICIENT_POINTS") /\ UNCHANGED order
       \/ /\ w \in shop /\ balance >= Cost[w]
          /\ call' = [call EXCEPT ![r].at = "applying", ![r].on = w]
          /\ order' = Append(order, r)
    /\ UNCHANGED <<balance, shop, row, charged, overtaken>>

Duplicate(w) ==
    \E q \in Requests :
        /\ row[q].reward = w
        /\ row[q].status = "pending" \/ (row[q].status = "approved" /\ row[q].recent)

(* insertRedemptionRequest: locks the child's row, looks for a duplicate   *)
(* and reads the price, 0 if the reward is gone.                           *)
BeginInsert(r) ==
    /\ At(r, "applying")
    /\ LET w == call[r].on
       IN  call' = IF Duplicate(w) THEN Replied(r, "ALREADY_PENDING")
                   ELSE [call EXCEPT ![r].at = "inserting",
                                     ![r].price = IF w \in shop THEN Cost[w] ELSE 0]
    /\ UNCHANGED <<balance, shop, row, charged, order, overtaken>>

(* The insert commits.  Then the family's setting is read: with instant    *)
(* exchange the call goes on to pay, otherwise the child waits.            *)
InsertRow(r) ==
    /\ row' = [row EXCEPT ![r] = [@ EXCEPT !.status = "pending", !.reward = call[r].on,
                                           !.price = call[r].price]]
    /\ call' \in {Moved(r, "paying"), Replied(r, "pending")}
    /\ Overtakes(r)
    /\ UNCHANGED <<balance, shop, charged, order>>

(* Variant: the child's row is read without FOR UPDATE.                    *)
CommitInsertUnlocked(r) == At(r, "inserting") /\ InsertRow(r)

CommitInsert(r) == At(r, "inserting") /\ r \notin overtaken /\ InsertRow(r)

(* 40001: the transaction starts again.                                    *)
RetryInsert(r) ==
    /\ At(r, "inserting") /\ r \in overtaken
    /\ call' = Moved(r, "applying")
    /\ overtaken' = overtaken \ {r}
    /\ UNCHANGED <<balance, shop, row, charged, order>>

-----------------------------------------------------------------------------
(* finalizeApproval, shared by the instant exchange and the parent, and    *)
(* what follows when it fails.                                             *)

RowOf(c)   == IF c \in Requests THEN c ELSE call[c].on
PriceOf(c) == IF c \in Requests THEN Cost[call[c].on] ELSE call[c].price

(* The parent is told; an instant exchange first takes its row back.       *)
Failed(c, toChild, toParent) ==
    IF c \in Requests THEN [call EXCEPT ![c].at = "voiding", ![c].reply = toChild]
    ELSE Replied(c, toParent)

(* spendPointsAtomic, one transaction.                                     *)
Charge(c) ==
    /\ balance' = balance - PriceOf(c)
    /\ charged' = [charged EXCEPT ![RowOf(c)] = @ + 1]
    /\ Overtakes(c)

(* Variant: the balance read before the await is trusted.                  *)
PayUnchecked(c) ==
    /\ At(c, "paying")
    /\ Charge(c)
    /\ call' = Moved(c, "approving")
    /\ UNCHANGED <<shop, row, order>>

(* Variant: the row is approved before the points are spent.               *)
PayLater(c) ==
    /\ At(c, "paying")
    /\ call' = Moved(c, "approving")
    /\ UNCHANGED <<balance, charged, overtaken, shop, row, order>>

Pay(c) ==
    /\ At(c, "paying")
    /\ IF balance >= PriceOf(c)
       THEN Charge(c) /\ call' = Moved(c, "approving")
       ELSE /\ call' = Failed(c, "INSUFFICIENT_POINTS", "INSUFFICIENT_POINTS")
            /\ Overtakes(c) /\ UNCHANGED <<balance, charged>>
    /\ UNCHANGED <<shop, row, order>>

(* updateRedemptionRequestStatus: whatever the row's status is now.  No    *)
(* row, no update.                                                         *)
Updated(r, status) ==
    IF row[r].status = "absent" THEN row
    ELSE [row EXCEPT ![r].status = status, ![r].recent = (status = "approved")]

(* Variant: approved only if still pending, and what was charged is kept.  *)
ApproveIfPending(c) ==
    /\ At(c, "approving")
    /\ row' = IF row[RowOf(c)].status = "pending" THEN Updated(RowOf(c), "approved") ELSE row
    /\ call' = IF row[RowOf(c)].status = "pending" THEN Replied(c, "approved")
               ELSE Failed(c, "REWARD_NOT_FOUND", "REQUEST_NOT_FOUND")
    /\ UNCHANGED <<balance, shop, charged, order, overtaken>>

Approve(c) ==
    /\ At(c, "approving")
    /\ row' = Updated(RowOf(c), "approved")
    /\ call' = IF row[RowOf(c)].status # "absent" THEN Replied(c, "approved")
               ELSE Failed(c, "REWARD_NOT_FOUND", "REQUEST_NOT_FOUND")
    /\ UNCHANGED <<balance, shop, charged, order, overtaken>>

(* Variant: the request is left pending.                                   *)
VoidNothing(r) ==
    /\ At(r, "voiding")
    /\ call' = Moved(r, "done")
    /\ UNCHANGED <<balance, shop, row, charged, order, overtaken>>

(* An instant exchange that could not be paid is put to expired.           *)
Void(r) ==
    /\ At(r, "voiding")
    /\ row' = Updated(r, "expired")
    /\ call' = Moved(r, "done")
    /\ UNCHANGED <<balance, shop, charged, order, overtaken>>

-----------------------------------------------------------------------------
(* A parent answers.                                                       *)

(* findRedemptionRequestsByTenant: the newest ListLimit rows.              *)
Listed ==
    LET there == SelectSeq(order, LAMBDA r : row[r].status # "absent")
        first == IF Len(there) > ListLimit THEN Len(there) - ListLimit + 1 ELSE 1
    IN  {there[i] : i \in first .. Len(there)}

(* approveRedemption and rejectRedemption: the row is read, then acted on. *)
StartAnswer(p, r) ==
    /\ At(p, "idle")
    /\ \/ r \notin Listed /\ call' = Replied(p, "REQUEST_NOT_FOUND")
       \/ r \in Listed /\ row[r].status # "pending" /\ call' = Replied(p, "INVALID_STATUS")
       \/ /\ r \in Listed /\ row[r].status = "pending"
          /\ \E place \in {"paying", "rejecting"} :
                call' = [call EXCEPT ![p].at = place, ![p].on = r, ![p].price = row[r].price]
    /\ UNCHANGED <<balance, shop, row, charged, order, overtaken>>

Reject(p) ==
    /\ At(p, "rejecting")
    /\ row' = Updated(call[p].on, "rejected")
    /\ call' = Replied(p, IF row[call[p].on].status = "absent" THEN "REQUEST_NOT_FOUND" ELSE "rejected")
    /\ UNCHANGED <<balance, shop, charged, order, overtaken>>

(* deleteReward (special-reward-service.ts) looks for pending requests,    *)
StartDelete(p, w) ==
    /\ At(p, "idle") /\ w \in shop
    /\ call' = IF \E r \in Requests : row[r].reward = w /\ row[r].status = "pending"
               THEN Replied(p, "PENDING_REDEMPTION")
               ELSE [call EXCEPT ![p].at = "deleting", ![p].on = w]
    /\ UNCHANGED <<balance, shop, row, charged, order, overtaken>>

(* and then deletes the reward and every request for it.                   *)
Delete(p) ==
    /\ At(p, "deleting")
    /\ shop' = shop \ {call[p].on}
    /\ row' = [r \in Requests |-> IF row[r].reward = call[p].on THEN Absent ELSE row[r]]
    /\ call' = Replied(p, IF call[p].on \in shop THEN "deleted" ELSE "REWARD_NOT_FOUND")
    /\ UNCHANGED <<balance, charged, order, overtaken>>

-----------------------------------------------------------------------------
(* Everything else.                                                        *)

(* The function is cut off between two statements; an open transaction is  *)
(* rolled back.                                                            *)
Abandon(c) ==
    /\ call[c].at \notin {"idle", "done"}
    /\ call' = Replied(c, "lost")
    /\ overtaken' = overtaken \ {c}
    /\ UNCHANGED <<balance, shop, row, charged, order>>

(* The cron route: requests pending for 30 days, none of them in flight.   *)
Expire ==
    \E old \in SUBSET {r \in Requests : row[r].status = "pending" /\ At(r, "done")} :
        /\ old # {}
        /\ row' = [r \in Requests |-> IF r \in old THEN [row[r] EXCEPT !.status = "expired"] ELSE row[r]]
        /\ UNCHANGED <<balance, shop, charged, order, call, overtaken>>

(* REDEMPTION_DEDUP_WINDOW_SEC seconds have passed since the approval.     *)
WindowPasses(r) ==
    /\ row[r].recent
    /\ row' = [row EXCEPT ![r].recent = FALSE]
    /\ UNCHANGED <<balance, shop, charged, order, call, overtaken>>

(* The child's home shows a decided request once.                          *)
Show(r) ==
    /\ row[r].status \in {"approved", "rejected"} /\ ~row[r].shown
    /\ row' = [row EXCEPT ![r].shown = TRUE]
    /\ UNCHANGED <<balance, shop, charged, order, call, overtaken>>

(* Activities earn points and conversions spend them.                      *)
Elsewhere ==
    /\ balance' \in 0 .. MaxBalance
    /\ Overtakes(Nothing)
    /\ UNCHANGED <<shop, row, charged, order, call>>

Next ==
    \/ \E r \in Requests :
          \/ \E w \in Rewards : StartRequest(r, w)
          \/ BeginInsert(r) \/ CommitInsert(r) \/ RetryInsert(r) \/ Void(r)
          \/ WindowPasses(r) \/ Show(r)
    \/ \E c \in Calls : Pay(c) \/ Approve(c) \/ Abandon(c)
    \/ \E p \in Parents :
          \/ \E r \in Requests : StartAnswer(p, r)
          \/ \E w \in Rewards : StartDelete(p, w)
          \/ Reject(p) \/ Delete(p)
    \/ Expire
    \/ Elsewhere

Spec == Init /\ [][Next]_vars

-----------------------------------------------------------------------------
(* Properties.                                                             *)

(* At most one request for a reward is pending, however the child's calls  *)
(* overlap: what the lock in insertRedemptionRequest is for.               *)
OnePendingPerReward ==
    \A r, q \in Requests :
        row[r].status = "pending" /\ row[q].status = "pending" /\ row[r].reward = row[q].reward => r = q

(* A request is approved only once its points were charged, also when      *)
(* calls are cut off halfway and parents answer each other's requests.     *)
ApprovedWasCharged == \A r \in Requests : row[r].status = "approved" => charged[r] > 0

(* A child told that its points do not suffice has no request pending:     *)
(* requestRedemption takes the row back, so that no phantom stays on the   *)
(* parent's list.                                                          *)
NoPhantomRequest ==
    \A r \in Requests :
        At(r, "done") /\ call[r].reply = "INSUFFICIENT_POINTS" => row[r].status # "pending"

(* The calls that decided about request r or may have.                     *)
Deciders(r) ==
    {p \in Parents : call[p].on = r} \cup {q \in {r} : call[q].reply # "pending"}

(* As long as one call alone decides about a request and is not cut off,   *)
(* its answer, the row's status and the ledger agree: approved and charged *)
(* once, or neither, even if the cron job expires the row under it.        *)
SoleDecisionIsExact ==
    \A r \in Requests, c \in Calls :
        /\ Deciders(r) = {c} /\ At(c, "done") /\ call[c].reply # "lost"
        /\ row[r].status # "absent"
        => /\ charged[r] = IF call[c].reply = "approved" THEN 1 ELSE 0
           /\ row[r].status = "approved" <=> call[c].reply = "approved"

(* What the design documents say of the shop.                              *)

(* 06-UI: concurrent and repeated submits never charge twice.              *)
ChargedAtMostOnce == \A r \in Requests : charged[r] <= 1

(* 06-UI: a rejected request charges nothing.                              *)
RejectedNotCharged ==
    \A r \in Requests : row[r].status = "rejected" => charged[r] = 0

(* 08-DB: a reward is not deleted while a request for it is pending.       *)
PendingKeepsReward ==
    \A r \in Requests : row[r].status = "pending" => row[r].reward \in shop

(* 07-API: REQUEST_NOT_FOUND is the answer for a request that does not     *)
(* exist.                                                                  *)
NotFoundMeansAbsent ==
    [][\A p \in Parents, r \in Requests :
          StartAnswer(p, r) /\ call'[p].reply = "REQUEST_NOT_FOUND" => row[r].status = "absent"]_vars
=============================================================================
