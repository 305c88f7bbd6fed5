----------------------- MODULE RewardRedemptionProofs -----------------------
(***************************************************************************)
(* What the shop keeps for any number of calls, rewards and prices: the    *)
(* types and a balance in the naturals, one pending request per reward, no *)
(* approval without a charge, no phantom request, and exact answers where  *)
(* one call alone decides.                                                 *)
(***************************************************************************)
EXTENDS RewardRedemption, TLAPS

USE DEF RedemptionAssumption

RowType  == [status: Statuses, reward: Rewards \cup {Nothing}, price: Prices,
             recent: BOOLEAN, shown: BOOLEAN]
CallType == [at: Places, on: Requests \cup Rewards \cup {Nothing}, price: Prices, reply: Replies]

Typed ==
    /\ balance \in Nat
    /\ shop \subseteq Rewards
    /\ row \in [Requests -> RowType]
    /\ charged \in [Requests -> Nat]
    /\ call \in [Calls -> CallType]
    /\ overtaken \subseteq Requests

(* An insert that was not overtaken has no pending request for its reward  *)
(* beside it.                                                              *)
InsertClear(r) ==
    At(r, "inserting") /\ r \notin overtaken =>
        \A q \in Requests : ~ (row[q].status = "pending" /\ row[q].reward = call[r].on)

(* A child's call names its reward; its row appears when the call inserts  *)
(* it; it approves only what it has charged; and a child sent away for its *)
(* points has no pending row, from the moment its row has been taken back. *)
RequestFine(r) ==
    /\ call[r].at \in {"applying", "inserting", "paying", "approving", "voiding"} => call[r].on \in Rewards
    /\ call[r].at \in {"idle", "applying", "inserting"} => row[r].status = "absent"
    /\ InsertClear(r)
    /\ At(r, "approving") => charged[r] > 0
    /\ At(r, "done") /\ call[r].reply = "INSUFFICIENT_POINTS" => row[r].status # "pending"

(* A parent's call names the request it answers, and approves only what    *)
(* has been charged.                                                       *)
ParentFine(p) ==
    /\ call[p].at \in {"paying", "approving", "rejecting"} => call[p].on \in Requests
    /\ At(p, "approving") => charged[call[p].on] > 0

(* Each request is in the order once, from the moment it is made.          *)
Ordered ==
    /\ order \in Seq(Requests) /\ IsInjective(order)
    /\ \A i \in DOMAIN order : call[order[i]].at # "idle"

IInv ==
    /\ Typed
    /\ \A r \in Requests : RequestFine(r)
    /\ \A p \in Parents : ParentFine(p)
    /\ OnePendingPerReward
    /\ ApprovedWasCharged
    /\ Ordered

-----------------------------------------------------------------------------
(* The prices are naturals; nobody is a parent and a child's call at once. *)
LEMMA Basics ==
    /\ Prices \subseteq Nat
    /\ \A w \in Rewards : Cost[w] \in Prices
    /\ Requests \cap Parents = {}
BY RedemptionAssumption DEF Prices

(* A call that moves on, or is answered, keeps the type of a call.         *)
LEMMA CallTyped ==
    ASSUME Typed, NEW c \in Calls
    PROVE  /\ \A place \in Places : Moved(c, place) \in [Calls -> CallType]
           /\ \A text \in Replies : Replied(c, text) \in [Calls -> CallType]
<1>1. ASSUME NEW place \in Places PROVE Moved(c, place) \in [Calls -> CallType]
  <2>1. [call[c] EXCEPT !.at = place] \in CallType
    BY DEF Typed, CallType
  <2>2. [call EXCEPT ![c] = [call[c] EXCEPT !.at = place]] \in [Calls -> CallType]
    BY <2>1 DEF Typed
  <2>3. Moved(c, place) = [call EXCEPT ![c] = [call[c] EXCEPT !.at = place]]
    BY DEF Moved, Typed
  <2> QED BY <2>2, <2>3
<1>2. ASSUME NEW text \in Replies PROVE Replied(c, text) \in [Calls -> CallType]
  <2>1. "done" \in Places
    BY DEF Places
  <2>2. [call[c] EXCEPT !.at = "done", !.reply = text] \in CallType
    BY <2>1 DEF Typed, CallType
  <2>3. [call EXCEPT ![c] = [call[c] EXCEPT !.at = "done", !.reply = text]] \in [Calls -> CallType]
    BY <2>2 DEF Typed
  <2>4. Replied(c, text) = [call EXCEPT ![c] = [call[c] EXCEPT !.at = "done", !.reply = text]]
    BY DEF Replied, Typed
  <2> QED BY <2>3, <2>4
<1> QED BY <1>1, <1>2

(* A row keeps its type when its status is set.                            *)
LEMMA RowTyped ==
    ASSUME Typed, NEW r \in Requests, NEW status \in Statuses
    PROVE  Updated(r, status) \in [Requests -> RowType]
<1>1. [row[r] EXCEPT !.status = status, !.recent = (status = "approved")] \in RowType
  BY DEF Typed, RowType
<1>2. [row EXCEPT ![r] = [row[r] EXCEPT !.status = status, !.recent = (status = "approved")]]
         \in [Requests -> RowType]
  BY <1>1 DEF Typed
<1>3. [row EXCEPT ![r].status = status, ![r].recent = (status = "approved")]
        = [row EXCEPT ![r] = [row[r] EXCEPT !.status = status, !.recent = (status = "approved")]]
  BY DEF Typed
<1>4. row \in [Requests -> RowType]
  BY DEF Typed
<1> QED BY <1>2, <1>3, <1>4 DEF Updated

(* What a call's move, its answer and a row's update change, and what not. *)
LEMMA MovedIs ==
    ASSUME Typed, NEW c \in Calls, NEW place, NEW d \in Calls
    PROVE  /\ Moved(c, place)[d].at = IF d = c THEN place ELSE call[d].at
           /\ Moved(c, place)[d].on = call[d].on
           /\ Moved(c, place)[d].price = call[d].price
           /\ Moved(c, place)[d].reply = call[d].reply
           /\ d # c => Moved(c, place)[d] = call[d]
BY DEF Typed, CallType, Moved

LEMMA RepliedIs ==
    ASSUME Typed, NEW c \in Calls, NEW text, NEW d \in Calls
    PROVE  /\ Replied(c, text)[d].at = IF d = c THEN "done" ELSE call[d].at
           /\ Replied(c, text)[d].on = call[d].on
           /\ Replied(c, text)[d].price = call[d].price
           /\ Replied(c, text)[d].reply = IF d = c THEN text ELSE call[d].reply
           /\ d # c => Replied(c, text)[d] = call[d]
BY DEF Typed, CallType, Replied

LEMMA FailedIs ==
    ASSUME Typed, NEW c \in Calls, NEW toChild, NEW toParent
    PROVE  LET new == Failed(c, toChild, toParent)
           IN  /\ \A d \in Calls \ {c} : new[d] = call[d]
               /\ c \in Requests => /\ new[c].at = "voiding" /\ new[c].on = call[c].on
                                    /\ new[c].reply = toChild
               /\ c \notin Requests => new[c].at = "done"
<1>1. CASE c \in Requests
  BY <1>1 DEF Typed, CallType, Failed
<1>2. CASE c \notin Requests
  BY <1>2, RepliedIs DEF Failed
<1> QED BY <1>1, <1>2

LEMMA UpdatedIs ==
    ASSUME Typed, NEW r \in Requests, NEW status, NEW q \in Requests
    PROVE  /\ Updated(r, status)[q].status
                = IF q = r /\ row[r].status # "absent" THEN status ELSE row[q].status
           /\ Updated(r, status)[q].reward = row[q].reward
BY DEF Typed, RowType, Updated

(* What each action does to the types.                                     *)
LEMMA TypedStep ==
    ASSUME IInv, Next
    PROVE  Typed'
<1> USE Basics
<1> DEFINE T == Typed'
<1>t. Typed BY DEF IInv
<1> USE <1>t
<1>a. \A c \in Calls : call[c].at \in Places /\ call[c].price \in Prices
                       /\ call[c].on \in Requests \cup Rewards \cup {Nothing}
  BY DEF Typed, CallType
<1>b. "applying" \in Places /\ "inserting" \in Places /\ "paying" \in Places /\ "approving" \in Places
      /\ "voiding" \in Places /\ "rejecting" \in Places /\ "deleting" \in Places /\ "done" \in Places
  BY DEF Places
<1>c. Requests \subseteq Calls /\ Parents \subseteq Calls
  BY DEF Calls
<1>1. ASSUME NEW r \in Requests, NEW w \in Rewards, StartRequest(r, w) PROVE T
  <2>1. call' \in [Calls -> CallType]
    <3>1. "REWARD_NOT_FOUND" \in Replies /\ "INSUFFICIENT_POINTS" \in Replies BY DEF Replies
    <3>2. [call[r] EXCEPT !.at = "applying", !.on = w] \in CallType
      BY <1>b, <1>c DEF Typed, CallType
    <3>3. [call EXCEPT ![r].at = "applying", ![r].on = w]
            = [call EXCEPT ![r] = [call[r] EXCEPT !.at = "applying", !.on = w]]
      BY <1>c DEF Typed
    <3>4. [call EXCEPT ![r] = [call[r] EXCEPT !.at = "applying", !.on = w]] \in [Calls -> CallType]
      BY <3>2, <1>c DEF Typed
    <3>5. \/ call' = Replied(r, "REWARD_NOT_FOUND") \/ call' = Replied(r, "INSUFFICIENT_POINTS")
          \/ call' = [call EXCEPT ![r].at = "applying", ![r].on = w]
      BY <1>1 DEF StartRequest
    <3>6. \A text \in Replies : Replied(r, text) \in [Calls -> CallType]
      BY <1>c, CallTyped
    <3> QED BY <3>1, <3>3, <3>4, <3>5, <3>6
  <2> QED BY <1>1, <2>1 DEF StartRequest, Typed
<1>2. ASSUME NEW r \in Requests, BeginInsert(r) PROVE T
  <2>1. call[r].on \in Rewards BY <1>2 DEF BeginInsert, At, IInv, RequestFine
  <2> DEFINE price == IF call[r].on \in shop THEN Cost[call[r].on] ELSE 0
  <2>2. price \in Prices BY <2>1 DEF Prices
  <2>3. call' \in [Calls -> CallType]
    <3>1. "ALREADY_PENDING" \in Replies BY DEF Replies
    <3>2. [call[r] EXCEPT !.at = "inserting", !.price = price] \in CallType
      BY <1>b, <1>c, <2>2 DEF Typed, CallType
    <3>3. [call EXCEPT ![r].at = "inserting", ![r].price = price]
            = [call EXCEPT ![r] = [call[r] EXCEPT !.at = "inserting", !.price = price]]
      BY <1>c DEF Typed
    <3>4. [call EXCEPT ![r] = [call[r] EXCEPT !.at = "inserting", !.price = price]] \in [Calls -> CallType]
      BY <3>2, <1>c DEF Typed
    <3>5. \/ call' = Replied(r, "ALREADY_PENDING")
          \/ call' = [call EXCEPT ![r].at = "inserting", ![r].price = price]
      BY <1>2 DEF BeginInsert
    <3>6. Replied(r, "ALREADY_PENDING") \in [Calls -> CallType]
      BY <3>1, <1>c, CallTyped
    <3> QED BY <3>3, <3>4, <3>5, <3>6
  <2> QED BY <1>2, <2>3 DEF BeginInsert, Typed
<1>3. ASSUME NEW r \in Requests, CommitInsert(r) PROVE T
  <2>1. call[r].on \in Rewards BY <1>3 DEF CommitInsert, At, IInv, RequestFine
  <2>2. call' \in [Calls -> CallType]
    <3>1. "pending" \in Replies BY DEF Replies
    <3> QED BY <1>3, <3>1, <1>b, <1>c, CallTyped DEF CommitInsert, InsertRow
  <2>3. row' \in [Requests -> RowType]
    <3>1. "pending" \in Statuses BY DEF Statuses
    <3>2. [row[r] EXCEPT !.status = "pending", !.reward = call[r].on, !.price = call[r].price] \in RowType
      BY <3>1, <2>1, <1>a, <1>c DEF Typed, RowType
    <3>3. row' = [row EXCEPT ![r] = [row[r] EXCEPT !.status = "pending", !.reward = call[r].on,
                                                   !.price = call[r].price]]
      BY <1>3 DEF CommitInsert, InsertRow
    <3> QED BY <3>2, <3>3 DEF Typed
  <2>4. overtaken' \subseteq Requests
    BY <1>3 DEF CommitInsert, InsertRow, Overtakes, Typed
  <2> QED BY <1>3, <2>2, <2>3, <2>4 DEF CommitInsert, InsertRow, Typed
<1>4. ASSUME NEW r \in Requests, RetryInsert(r) PROVE T
  BY <1>4, <1>b, <1>c, CallTyped DEF RetryInsert, Typed
<1>5. ASSUME NEW r \in Requests, Void(r) PROVE T
  <2>1. "expired" \in Statuses BY DEF Statuses
  <2>2. row' \in [Requests -> RowType] BY <1>5, <2>1, RowTyped DEF Void
  <2>3. call' \in [Calls -> CallType] BY <1>5, <1>b, <1>c, CallTyped DEF Void
  <2> QED BY <1>5, <2>2, <2>3 DEF Void, Typed
<1>6. ASSUME NEW r \in Requests, WindowPasses(r) PROVE T
  BY <1>6 DEF WindowPasses, RowType, Typed
<1>7. ASSUME NEW r \in Requests, Show(r) PROVE T
  BY <1>7 DEF Show, RowType, Typed
<1>f. ASSUME NEW c \in Calls, NEW toChild \in Replies, NEW toParent \in Replies
      PROVE  Failed(c, toChild, toParent) \in [Calls -> CallType]
  <2>1. [call[c] EXCEPT !.at = "voiding", !.reply = toChild] \in CallType
    BY <1>b DEF Typed, CallType
  <2>2. [call EXCEPT ![c].at = "voiding", ![c].reply = toChild]
          = [call EXCEPT ![c] = [call[c] EXCEPT !.at = "voiding", !.reply = toChild]]
    BY DEF Typed
  <2>3. [call EXCEPT ![c] = [call[c] EXCEPT !.at = "voiding", !.reply = toChild]] \in [Calls -> CallType]
    BY <2>1 DEF Typed
  <2> QED BY <2>2, <2>3, CallTyped DEF Failed
<1>8. ASSUME NEW c \in Calls, Pay(c) PROVE T
  <2>1. PriceOf(c) \in Nat /\ RowOf(c) \in Requests
    <3>1. CASE c \in Requests
      BY <1>8, <3>1 DEF Pay, PriceOf, RowOf, At, IInv, RequestFine, Typed
    <3>2. CASE c \notin Requests
      BY <1>8, <3>2, <1>a DEF Pay, PriceOf, RowOf, At, Calls, IInv, ParentFine
    <3> QED BY <3>1, <3>2
  <2>2. call' \in [Calls -> CallType]
    <3>1. "INSUFFICIENT_POINTS" \in Replies BY DEF Replies
    <3> QED BY <1>8, <3>1, <1>f, <1>b, CallTyped DEF Pay
  <2>3. balance' \in Nat /\ charged' \in [Requests -> Nat]
    BY <1>8, <2>1 DEF Pay, Charge, Typed
  <2>4. overtaken' \subseteq Requests
    BY <1>8 DEF Pay, Charge, Overtakes, Typed
  <2> QED BY <1>8, <2>2, <2>3, <2>4 DEF Pay, Typed
<1>9. ASSUME NEW c \in Calls, Approve(c) PROVE T
  <2>1. RowOf(c) \in Requests
    BY <1>9 DEF Approve, RowOf, At, Calls, IInv, ParentFine
  <2>2. call' \in [Calls -> CallType]
    <3>1. "approved" \in Replies /\ "REWARD_NOT_FOUND" \in Replies /\ "REQUEST_NOT_FOUND" \in Replies
      BY DEF Replies
    <3> QED BY <1>9, <3>1, <1>f, CallTyped DEF Approve
  <2>3. "approved" \in Statuses BY DEF Statuses
  <2>4. row' \in [Requests -> RowType]
    BY <1>9, <2>1, <2>3, RowTyped DEF Approve
  <2> QED BY <1>9, <2>2, <2>4 DEF Approve, Typed
<1>10. ASSUME NEW c \in Calls, Abandon(c) PROVE T
  <2>1. "lost" \in Replies BY DEF Replies
  <2> QED BY <1>10, <2>1, CallTyped DEF Abandon, Typed
<1>11. ASSUME NEW p \in Parents, NEW r \in Requests, StartAnswer(p, r) PROVE T
  <2>1. row[r].price \in Prices BY DEF RowType, Typed
  <2>2. ASSUME NEW place \in Places
        PROVE  [call EXCEPT ![p].at = place, ![p].on = r, ![p].price = row[r].price] \in [Calls -> CallType]
    <3>1. [call[p] EXCEPT !.at = place, !.on = r, !.price = row[r].price] \in CallType
      BY <2>1, <1>c DEF Typed, CallType
    <3>2. [call EXCEPT ![p].at = place, ![p].on = r, ![p].price = row[r].price]
            = [call EXCEPT ![p] = [call[p] EXCEPT !.at = place, !.on = r, !.price = row[r].price]]
      BY <1>c DEF Typed
    <3>3. [call EXCEPT ![p] = [call[p] EXCEPT !.at = place, !.on = r, !.price = row[r].price]]
             \in [Calls -> CallType]
      BY <3>1, <1>c DEF Typed
    <3> QED BY <3>2, <3>3
  <2>3. "REQUEST_NOT_FOUND" \in Replies /\ "INVALID_STATUS" \in Replies BY DEF Replies
  <2>4. call' \in [Calls -> CallType]
    <3>1. \A text \in Replies : Replied(p, text) \in [Calls -> CallType]
      BY <1>c, CallTyped
    <3>2. CASE \E place \in {"paying", "rejecting"} :
                 call' = [call EXCEPT ![p].at = place, ![p].on = r, ![p].price = row[r].price]
      <4>1. PICK place \in {"paying", "rejecting"} :
                 call' = [call EXCEPT ![p].at = place, ![p].on = r, ![p].price = row[r].price]
        BY <3>2
      <4>2. place \in Places BY <1>b
      <4>3. [call EXCEPT ![p].at = place, ![p].on = r, ![p].price = row[r].price] \in [Calls -> CallType]
        BY <4>2, <2>2
      <4> QED BY <4>1, <4>3
    <3>3. CASE call' = Replied(p, "REQUEST_NOT_FOUND") \/ call' = Replied(p, "INVALID_STATUS")
      BY <3>1, <3>3, <2>3
    <3> QED BY <1>11, <3>2, <3>3 DEF StartAnswer
  <2> QED BY <1>11, <2>4 DEF StartAnswer, Typed
<1>12. ASSUME NEW p \in Parents, NEW w \in Rewards, StartDelete(p, w) PROVE T
  <2>1. [call[p] EXCEPT !.at = "deleting", !.on = w] \in CallType
    BY <1>b, <1>c DEF Typed, CallType
  <2>2. [call EXCEPT ![p].at = "deleting", ![p].on = w]
          = [call EXCEPT ![p] = [call[p] EXCEPT !.at = "deleting", !.on = w]]
    BY <1>c DEF Typed
  <2>3. [call EXCEPT ![p] = [call[p] EXCEPT !.at = "deleting", !.on = w]] \in [Calls -> CallType]
    BY <2>1, <1>c DEF Typed
  <2>4. "PENDING_REDEMPTION" \in Replies BY DEF Replies
  <2>5. call' \in [Calls -> CallType]
    BY <1>12, <2>2, <2>3, <2>4, <1>c, CallTyped DEF StartDelete
  <2> QED BY <1>12, <2>5 DEF StartDelete, Typed
<1>13. ASSUME NEW p \in Parents, Reject(p) PROVE T
  <2>1. call[p].on \in Requests BY <1>13 DEF Reject, At, IInv, ParentFine
  <2>2. "rejected" \in Statuses BY DEF Statuses
  <2>3. row' \in [Requests -> RowType] BY <1>13, <2>1, <2>2, RowTyped DEF Reject
  <2>4. "REQUEST_NOT_FOUND" \in Replies /\ "rejected" \in Replies BY DEF Replies
  <2>5. call' \in [Calls -> CallType] BY <1>13, <2>4, <1>c, CallTyped DEF Reject
  <2> QED BY <1>13, <2>3, <2>5 DEF Reject, Typed
<1>14. ASSUME NEW p \in Parents, Delete(p) PROVE T
  <2>1. Absent \in RowType BY DEF RowType, Absent, Statuses, Prices
  <2>2. row' \in [Requests -> RowType] BY <1>14, <2>1 DEF Delete, Typed
  <2>3. "deleted" \in Replies /\ "REWARD_NOT_FOUND" \in Replies BY DEF Replies
  <2>4. call' \in [Calls -> CallType] BY <1>14, <2>3, <1>c, CallTyped DEF Delete
  <2> QED BY <1>14, <2>2, <2>4 DEF Delete, Typed
<1>15. CASE Expire
  BY <1>15 DEF Expire, RowType, Statuses, Typed
<1>16. CASE Elsewhere
  BY <1>16, RedemptionAssumption DEF Elsewhere, Overtakes, Typed
<1> QED
  BY <1>1, <1>2, <1>3, <1>4, <1>5, <1>6, <1>7, <1>8, <1>9, <1>10, <1>11, <1>12, <1>13, <1>14,
     <1>15, <1>16 DEF Next

-----------------------------------------------------------------------------
(* A call is as it was, or it has been made and is fine where it is now.   *)
Kept(d) == call'[d] = call[d] /\ (d \in overtaken => d \in overtaken')

(* No row becomes pending, and none approved that was not charged.         *)
Settles ==
    \A q \in Requests :
        \/ /\ row'[q].status = row[q].status
           /\ row[q].status = "pending" => row'[q].reward = row[q].reward
        \/ /\ row[q].status # "absent"
           /\ \/ row'[q].status \in {"absent", "rejected", "expired"}
              \/ row'[q].status = "approved" /\ charged[q] > 0

ChargesKept == \A q \in Requests : charged'[q] >= charged[q]

(* What a step that adds no request has to show: the calls it moves.       *)
LEMMA Framed ==
    ASSUME IInv, Typed', Settles, ChargesKept,
           \A d \in Requests : Kept(d) \/ (call'[d].at # "idle" /\ RequestFine(d)'),
           \A d \in Parents : Kept(d) \/ ParentFine(d)'
    PROVE  /\ \A r \in Requests : RequestFine(r)'
           /\ \A p \in Parents : ParentFine(p)'
           /\ OnePendingPerReward'
           /\ ApprovedWasCharged'
           /\ order' = order => Ordered'
<1> USE DEF IInv
<1>1. \A q \in Requests : charged[q] \in Nat /\ charged'[q] \in Nat
  BY DEF Typed
<1>2. \A q \in Requests : /\ row'[q].status = "pending" => row[q].status = "pending" /\ row'[q].reward = row[q].reward
                          /\ row[q].status = "absent" => row'[q].status = "absent"
  BY DEF Settles
<1>3. ASSUME NEW r \in Requests PROVE RequestFine(r)'
  <2>1. CASE Kept(r)
    BY <1>1, <1>2, <2>1 DEF Kept, RequestFine, InsertClear, At, ChargesKept
  <2> QED BY <2>1
<1>4. ASSUME NEW p \in Parents PROVE ParentFine(p)'
  <2>1. CASE Kept(p)
    BY <1>1, <2>1 DEF Kept, ParentFine, At, ChargesKept
  <2> QED BY <2>1
<1>5. OnePendingPerReward'
  BY <1>2 DEF OnePendingPerReward
<1>6. ApprovedWasCharged'
  BY <1>1 DEF ApprovedWasCharged, Settles, ChargesKept
<1>7. ASSUME order' = order PROVE Ordered'
  <2>1. \A i \in DOMAIN order : order[i] \in Requests
    BY DEF Ordered
  <2>2. \A d \in Requests : call[d].at # "idle" => call'[d].at # "idle"
    BY DEF Kept
  <2> QED BY <1>7, <2>1, <2>2 DEF Ordered
<1> QED BY <1>3, <1>4, <1>5, <1>6, <1>7

LEMMA SameRows ==
    ASSUME row' = row PROVE Settles
BY DEF Settles

LEMMA SameCharges ==
    ASSUME Typed, charged' = charged PROVE ChargesKept
BY DEF ChargesKept, Typed

(* A row that is updated settles.                                          *)
LEMMA UpdateSettles ==
    ASSUME Typed, NEW r \in Requests, NEW status \in {"rejected", "expired", "approved"},
           status = "approved" => charged[r] > 0, row' = Updated(r, status)
    PROVE  Settles
<1>1. \A q \in Requests :
         /\ row'[q].status = IF q = r /\ row[r].status # "absent" THEN status ELSE row[q].status
         /\ row'[q].reward = row[q].reward
  BY UpdatedIs
<1> QED BY <1>1 DEF Settles

(* The invariant's other parts, action by action.                          *)
LEMMA FineStep ==
    ASSUME IInv, Typed', Next
    PROVE  /\ \A r \in Requests : RequestFine(r)'
           /\ \A p \in Parents : ParentFine(p)'
           /\ OnePendingPerReward'
           /\ ApprovedWasCharged'
           /\ Ordered'
<1> DEFINE Fine == /\ \A r \in Requests : RequestFine(r)'
                   /\ \A p \in Parents : ParentFine(p)'
                   /\ OnePendingPerReward'
                   /\ ApprovedWasCharged'
                   /\ Ordered'
<1>t. Typed BY DEF IInv
<1>c. Requests \subseteq Calls /\ Parents \subseteq Calls /\ Requests \cap Parents = {}
  BY Basics DEF Calls
<1> USE <1>t, <1>c
(* A child's call moves, and no row is added. *)
<1>r. ASSUME NEW r \in Requests, Settles, ChargesKept, order' = order,
             \A d \in Calls \ {r} : call'[d] = call[d], overtaken \ {r} \subseteq overtaken',
             call'[r].at # "idle", RequestFine(r)'
      PROVE  Fine
  <2>1. \A d \in Requests : Kept(d) \/ (call'[d].at # "idle" /\ RequestFine(d)')
    BY <1>r DEF Kept
  <2>2. \A d \in Parents : Kept(d) \/ ParentFine(d)'
    BY <1>r DEF Kept
  <2> QED BY <1>r, <2>1, <2>2, Framed
(* A parent's call moves. *)
<1>p. ASSUME NEW p \in Parents, Settles, ChargesKept, order' = order,
             \A d \in Calls \ {p} : call'[d] = call[d], overtaken \ {p} \subseteq overtaken',
             ParentFine(p)'
      PROVE  Fine
  <2>1. \A d \in Requests : Kept(d) \/ (call'[d].at # "idle" /\ RequestFine(d)')
    BY <1>p DEF Kept
  <2>2. \A d \in Parents : Kept(d) \/ ParentFine(d)'
    BY <1>p DEF Kept
  <2> QED BY <1>p, <2>1, <2>2, Framed
(* No call moves. *)
<1>n. ASSUME Settles, ChargesKept, order' = order, call' = call, overtaken \subseteq overtaken'
      PROVE  Fine
  <2>1. \A d \in Calls : Kept(d)
    BY <1>n DEF Kept
  <2> QED BY <1>n, <2>1, Framed
<1>1. ASSUME NEW r \in Requests, NEW w \in Rewards, StartRequest(r, w) PROVE Fine
  <2>1. /\ Settles /\ ChargesKept /\ overtaken' = overtaken /\ row' = row
        /\ row[r].status = "absent" /\ call[r].at = "idle"
    BY <1>1, SameRows, SameCharges DEF StartRequest, IInv, RequestFine, At
  <2>2. CASE /\ order' = order
             /\ \/ call' = Replied(r, "REWARD_NOT_FOUND")
                \/ call' = Replied(r, "INSUFFICIENT_POINTS")
    <3>1. /\ \A d \in Calls \ {r} : call'[d] = call[d]
          /\ call'[r].at = "done"
      BY <2>2, RepliedIs
    <3>2. RequestFine(r)'
      BY <2>1, <3>1 DEF RequestFine, InsertClear, At
    <3> QED BY <2>1, <2>2, <3>1, <3>2, <1>r
  <2>3. CASE /\ order' = Append(order, r)
             /\ call' = [call EXCEPT ![r].at = "applying", ![r].on = w]
    <3>1. /\ \A d \in Calls \ {r} : call'[d] = call[d]
          /\ call'[r].at = "applying" /\ call'[r].on = w
      BY <2>3 DEF Typed, CallType
    <3>2. RequestFine(r)'
      BY <2>1, <3>1 DEF RequestFine, InsertClear, At
    <3>3. /\ \A d \in Requests : Kept(d) \/ (call'[d].at # "idle" /\ RequestFine(d)')
          /\ \A d \in Parents : Kept(d) \/ ParentFine(d)'
      BY <2>1, <3>1, <3>2 DEF Kept
    <3>4. /\ order \in Seq(Requests) /\ IsInjective(order)
          /\ \A i \in 1 .. Len(order) : order[i] \in Requests /\ order[i] # r /\ call[order[i]].at # "idle"
      BY <2>1 DEF IInv, Ordered
    <3>5. /\ order' \in Seq(Requests) /\ Len(order') = Len(order) + 1
          /\ order'[Len(order) + 1] = r
          /\ \A i \in 1 .. Len(order) : order'[i] = order[i]
      BY <2>3, <3>4
    <3>6. \A i \in DOMAIN order' : call'[order'[i]].at # "idle"
      BY <3>1, <3>4, <3>5
    <3>7. IsInjective(order')
      BY <3>4, <3>5 DEF IsInjective
    <3>8. Ordered'
      BY <3>5, <3>6, <3>7 DEF Ordered
    <3> QED BY <2>1, <3>3, <3>8, Framed
  <2> QED BY <1>1, <2>2, <2>3 DEF StartRequest
<1>2. ASSUME NEW r \in Requests, BeginInsert(r) PROVE Fine
  <2>1. /\ Settles /\ ChargesKept /\ overtaken' = overtaken /\ row' = row /\ order' = order
        /\ row[r].status = "absent" /\ call[r].on \in Rewards
    BY <1>2, SameRows, SameCharges DEF BeginInsert, IInv, RequestFine, At
  <2>2. /\ \A d \in Calls \ {r} : call'[d] = call[d]
        /\ \/ call'[r].at = "done" /\ call'[r].reply = "ALREADY_PENDING"
           \/ call'[r].at = "inserting" /\ call'[r].on = call[r].on /\ ~ Duplicate(call[r].on)
    <3>1. CASE Duplicate(call[r].on)
      BY <1>2, <3>1, RepliedIs DEF BeginInsert
    <3>2. CASE ~ Duplicate(call[r].on)
      BY <1>2, <3>2 DEF BeginInsert, Typed, CallType
    <3> QED BY <3>1, <3>2
  <2>3. RequestFine(r)'
    BY <2>1, <2>2 DEF RequestFine, InsertClear, At, Duplicate
  <2> QED BY <2>1, <2>2, <2>3, <1>r
<1>3. ASSUME NEW r \in Requests, CommitInsert(r) PROVE Fine
  <2>1. /\ call[r].at = "inserting" /\ call[r].on \in Rewards /\ RequestFine(r)
        /\ \A q \in Requests : ~ (row[q].status = "pending" /\ row[q].reward = call[r].on)
    BY <1>3 DEF CommitInsert, IInv, RequestFine, InsertClear, At
  <2>2. /\ \A d \in Calls \ {r} : call'[d] = call[d]
        /\ call'[r].on = call[r].on
        /\ call'[r].at = "paying" \/ (call'[r].at = "done" /\ call'[r].reply = "pending")
    BY <1>3, MovedIs, RepliedIs DEF CommitInsert, InsertRow
  <2>3. /\ row'[r].status = "pending" /\ row'[r].reward = call[r].on
        /\ \A q \in Requests \ {r} : row'[q] = row[q]
    BY <1>3 DEF CommitInsert, InsertRow, Typed, RowType
  <2>4. /\ \A q \in Requests \ {r} : At(q, "inserting") => q \in overtaken'
        /\ charged' = charged /\ order' = order
    BY <1>3 DEF CommitInsert, InsertRow, Overtakes
  <2>5. ASSUME NEW q \in Requests PROVE RequestFine(q)'
    <3>1. CASE q = r
      BY <3>1, <2>1, <2>2 DEF RequestFine, InsertClear, At
    <3>2. CASE q # r
      BY <3>2, <2>2, <2>3, <2>4 DEF IInv, RequestFine, InsertClear, At
    <3> QED BY <3>1, <3>2
  <2>6. \A p \in Parents : ParentFine(p)'
    BY <2>2, <2>4 DEF IInv, ParentFine, At
  <2>7. OnePendingPerReward'
    BY <2>1, <2>3 DEF IInv, OnePendingPerReward
  <2>8. ApprovedWasCharged'
    BY <2>3, <2>4 DEF IInv, ApprovedWasCharged
  <2>9. Ordered'
    <3>1. \A i \in DOMAIN order : order[i] \in Requests
      BY DEF IInv, Ordered
    <3> QED BY <2>2, <2>4, <3>1 DEF IInv, Ordered
  <2> QED BY <2>5, <2>6, <2>7, <2>8, <2>9
<1>4. ASSUME NEW r \in Requests, RetryInsert(r) PROVE Fine
  <2>1. \A d \in Calls \ {r} : call'[d] = call[d]
    BY <1>4, MovedIs DEF RetryInsert
  <2>2. call'[r].at = "applying" /\ call'[r].on = call[r].on
    BY <1>4, MovedIs DEF RetryInsert
  <2>3. RequestFine(r)'
    BY <1>4, <2>2 DEF RetryInsert, IInv, RequestFine, InsertClear, At
  <2>4. Settles /\ ChargesKept
    BY <1>4, SameRows, SameCharges DEF RetryInsert
  <2> QED BY <1>4, <2>1, <2>2, <2>3, <2>4, <1>r DEF RetryInsert
<1>5. ASSUME NEW r \in Requests, Void(r) PROVE Fine
  <2>1. \A d \in Calls \ {r} : call'[d] = call[d]
    BY <1>5, MovedIs DEF Void
  <2>2. call'[r].at = "done"
    BY <1>5, MovedIs DEF Void
  <2>3. row'[r].status # "pending"
    BY <1>5, UpdatedIs DEF Void
  <2>4. RequestFine(r)'
    BY <2>2, <2>3 DEF RequestFine, InsertClear, At
  <2>5. Settles /\ ChargesKept
    BY <1>5, UpdateSettles, SameCharges DEF Void
  <2> QED BY <1>5, <2>1, <2>2, <2>4, <2>5, <1>r DEF Void
<1>6. ASSUME NEW r \in Requests, WindowPasses(r) PROVE Fine
  <2>1. Settles
    BY <1>6 DEF WindowPasses, Settles, Typed, RowType
  <2> QED BY <1>6, <2>1, SameCharges, <1>n DEF WindowPasses
<1>7. ASSUME NEW r \in Requests, Show(r) PROVE Fine
  <2>1. Settles
    BY <1>7 DEF Show, Settles, Typed, RowType
  <2> QED BY <1>7, <2>1, SameCharges, <1>n DEF Show
<1>8. ASSUME NEW c \in Calls, Pay(c) PROVE Fine
  <2>1. /\ Settles /\ order' = order /\ overtaken \subseteq overtaken'
        /\ call[c].at = "paying" /\ c \in Requests => call[c].on \in Rewards
    BY <1>8, SameRows DEF Pay, Charge, Overtakes, IInv, RequestFine, At
  <2>2. RowOf(c) \in Requests
    BY <1>8 DEF Pay, RowOf, At, Calls, IInv, ParentFine
  <2>3. CASE balance >= PriceOf(c)
    <3>1. charged' = [charged EXCEPT ![RowOf(c)] = @ + 1] /\ call' = Moved(c, "approving")
      BY <1>8, <2>3 DEF Pay, Charge
    <3>2. ChargesKept /\ charged'[RowOf(c)] > 0
      BY <2>2, <3>1 DEF ChargesKept, Typed
    <3>3. /\ \A d \in Calls \ {c} : call'[d] = call[d]
          /\ call'[c].at = "approving" /\ call'[c].on = call[c].on
      BY <3>1, MovedIs
    <3>4. CASE c \in Requests
      <4>1. RequestFine(c)'
        BY <1>8, <2>1, <3>2, <3>3, <3>4 DEF Pay, RowOf, IInv, RequestFine, InsertClear, At
      <4> QED BY <2>1, <3>2, <3>3, <3>4, <4>1, <1>r
    <3>5. CASE c \notin Requests
      <4>1. c \in Parents
        BY <3>5 DEF Calls
      <4>2. ParentFine(c)'
        BY <2>2, <3>2, <3>3, <3>5 DEF RowOf, ParentFine, At
      <4> QED BY <2>1, <3>2, <3>3, <4>1, <4>2, <1>p
    <3> QED BY <3>4, <3>5
  <2>4. CASE ~ (balance >= PriceOf(c))
    <3>1. charged' = charged /\ call' = Failed(c, "INSUFFICIENT_POINTS", "INSUFFICIENT_POINTS")
      BY <1>8, <2>4 DEF Pay
    <3>2. ChargesKept
      BY <3>1, SameCharges
    <3>3. /\ \A d \in Calls \ {c} : call'[d] = call[d]
          /\ c \in Requests => call'[c].at = "voiding" /\ call'[c].on = call[c].on
          /\ c \notin Requests => call'[c].at = "done"
      BY <3>1, FailedIs
    <3>4. CASE c \in Requests
      <4>1. RequestFine(c)'
        BY <1>8, <2>1, <3>3, <3>4 DEF Pay, IInv, RequestFine, InsertClear, At
      <4> QED BY <2>1, <3>2, <3>3, <3>4, <4>1, <1>r
    <3>5. CASE c \notin Requests
      <4>1. c \in Parents
        BY <3>5 DEF Calls
      <4>2. ParentFine(c)'
        BY <3>3, <3>5 DEF ParentFine, At
      <4> QED BY <2>1, <3>2, <3>3, <4>1, <4>2, <1>p
    <3> QED BY <3>4, <3>5
  <2> QED BY <2>3, <2>4
<1>9. ASSUME NEW c \in Calls, Approve(c) PROVE Fine
  <2>1. /\ order' = order /\ overtaken' = overtaken /\ charged' = charged
        /\ row' = Updated(RowOf(c), "approved")
        /\ \/ call' = Replied(c, "approved")
           \/ call' = Failed(c, "REWARD_NOT_FOUND", "REQUEST_NOT_FOUND")
    BY <1>9 DEF Approve
  <2>2. RowOf(c) \in Requests /\ charged[RowOf(c)] > 0
    BY <1>9 DEF Approve, RowOf, At, Calls, IInv, RequestFine, ParentFine
  <2>3. Settles /\ ChargesKept
    BY <2>1, <2>2, UpdateSettles, SameCharges
  <2>4. /\ \A d \in Calls \ {c} : call'[d] = call[d]
        /\ \/ call'[c].at = "done" /\ call'[c].reply = "approved"
           \/ c \in Requests /\ call'[c].at = "voiding" /\ call'[c].on = call[c].on
           \/ c \notin Requests /\ call'[c].at = "done"
    BY <2>1, RepliedIs, FailedIs
  <2>5. CASE c \in Requests
    <3>1. call[c].at = "approving" /\ RequestFine(c)
      BY <1>9, <2>5 DEF Approve, IInv, At
    <3>2. RequestFine(c)'
      BY <2>4, <2>5, <3>1 DEF RequestFine, InsertClear, At
    <3> QED BY <2>1, <2>3, <2>4, <2>5, <3>2, <1>r
  <2>6. CASE c \notin Requests
    <3>1. c \in Parents
      BY <2>6 DEF Calls
    <3>2. ParentFine(c)'
      BY <2>4, <2>6 DEF ParentFine, At
    <3> QED BY <2>1, <2>3, <2>4, <3>1, <3>2, <1>p
  <2> QED BY <2>5, <2>6
<1>10. ASSUME NEW c \in Calls, Abandon(c) PROVE Fine
  <2>1. \A d \in Calls \ {c} : call'[d] = call[d]
    BY <1>10, RepliedIs DEF Abandon
  <2>2. call'[c].at = "done" /\ call'[c].reply = "lost"
    BY <1>10, RepliedIs DEF Abandon
  <2>3. RequestFine(c)' /\ ParentFine(c)'
    BY <2>2 DEF RequestFine, ParentFine, InsertClear, At
  <2>4. Settles /\ ChargesKept
    BY <1>10, SameRows, SameCharges DEF Abandon
  <2> QED BY <1>10, <2>1, <2>2, <2>3, <2>4, <1>r, <1>p DEF Abandon, Calls
<1>11. ASSUME NEW p \in Parents, NEW r \in Requests, StartAnswer(p, r) PROVE Fine
  <2>1. /\ Settles /\ ChargesKept /\ order' = order /\ overtaken' = overtaken
    BY <1>11, SameRows, SameCharges DEF StartAnswer
  <2>2. /\ \A d \in Calls \ {p} : call'[d] = call[d]
        /\ \/ call'[p].at = "done"
           \/ call'[p].at \in {"paying", "rejecting"} /\ call'[p].on = r
    <3>1. CASE call' = Replied(p, "REQUEST_NOT_FOUND") \/ call' = Replied(p, "INVALID_STATUS")
      BY <3>1, RepliedIs
    <3>2. ASSUME NEW place \in {"paying", "rejecting"},
                 call' = [call EXCEPT ![p].at = place, ![p].on = r, ![p].price = row[r].price]
          PROVE  /\ \A d \in Calls \ {p} : call'[d] = call[d]
                 /\ call'[p].at = place /\ call'[p].on = r
      BY <3>2 DEF Typed, CallType
    <3> QED BY <1>11, <3>1, <3>2 DEF StartAnswer
  <2>3. ParentFine(p)'
    BY <2>2 DEF ParentFine, At
  <2> QED BY <2>1, <2>2, <2>3, <1>p
<1>12. ASSUME NEW p \in Parents, NEW w \in Rewards, StartDelete(p, w) PROVE Fine
  <2>1. /\ Settles /\ ChargesKept /\ order' = order /\ overtaken' = overtaken
    BY <1>12, SameRows, SameCharges DEF StartDelete
  <2>2. /\ \A d \in Calls \ {p} : call'[d] = call[d]
        /\ call'[p].at \in {"done", "deleting"}
    <3>1. CASE call' = Replied(p, "PENDING_REDEMPTION")
      BY <3>1, RepliedIs
    <3>2. CASE call' = [call EXCEPT ![p].at = "deleting", ![p].on = w]
      BY <3>2 DEF Typed, CallType
    <3> QED BY <1>12, <3>1, <3>2 DEF StartDelete
  <2>3. ParentFine(p)'
    BY <2>2 DEF ParentFine, At
  <2> QED BY <2>1, <2>2, <2>3, <1>p
<1>13. ASSUME NEW p \in Parents, Reject(p) PROVE Fine
  <2>1. \A d \in Calls \ {p} : call'[d] = call[d]
    BY <1>13, RepliedIs DEF Reject
  <2>2. call'[p].at = "done"
    BY <1>13, RepliedIs DEF Reject
  <2>3. ParentFine(p)'
    BY <2>2 DEF ParentFine, At
  <2>4. call[p].on \in Requests
    BY <1>13 DEF Reject, At, IInv, ParentFine
  <2>5. Settles /\ ChargesKept
    BY <1>13, <2>4, UpdateSettles, SameCharges DEF Reject
  <2> QED BY <1>13, <2>1, <2>3, <2>5, <1>p DEF Reject
<1>14. ASSUME NEW p \in Parents, Delete(p) PROVE Fine
  <2>1. \A d \in Calls \ {p} : call'[d] = call[d]
    BY <1>14, RepliedIs DEF Delete
  <2>2. call'[p].at = "done"
    BY <1>14, RepliedIs DEF Delete
  <2>3. ParentFine(p)'
    BY <2>2 DEF ParentFine, At
  <2>4. Settles /\ ChargesKept
    BY <1>14, SameCharges DEF Delete, Settles, Absent
  <2> QED BY <1>14, <2>1, <2>3, <2>4, <1>p DEF Delete
<1>15. CASE Expire
  <2>1. Settles
    BY <1>15 DEF Expire, Settles, Typed, RowType
  <2> QED BY <1>15, <2>1, SameCharges, <1>n DEF Expire
<1>16. CASE Elsewhere
  BY <1>16, SameRows, SameCharges, <1>n DEF Elsewhere, Overtakes
<1> QED
  BY <1>1, <1>2, <1>3, <1>4, <1>5, <1>6, <1>7, <1>8, <1>9, <1>10, <1>11, <1>12, <1>13, <1>14,
     <1>15, <1>16 DEF Next

LEMMA InitHolds == Init => IInv
<1> SUFFICES ASSUME Init PROVE IInv
  OBVIOUS
<1>1. Typed
  BY RedemptionAssumption
     DEF Init, Typed, RowType, CallType, Absent, Idle, Statuses, Places, Replies, Prices
<1>2. \A r \in Requests : RequestFine(r)
  BY DEF Init, Absent, Idle, Calls, RequestFine, InsertClear, At
<1>3. \A p \in Parents : ParentFine(p)
  BY DEF Init, Idle, Calls, ParentFine, At
<1>4. OnePendingPerReward /\ ApprovedWasCharged
  BY DEF Init, Absent, OnePendingPerReward, ApprovedWasCharged
<1>5. Ordered
  BY DEF Init, Ordered, IsInjective
<1> QED BY <1>1, <1>2, <1>3, <1>4, <1>5 DEF IInv

LEMMA NextKeeps == IInv /\ [Next]_vars => IInv'
<1> SUFFICES ASSUME IInv, [Next]_vars PROVE IInv'
  OBVIOUS
<1>1. CASE Next
  BY <1>1, TypedStep, FineStep DEF IInv
<1>2. CASE UNCHANGED vars
  BY <1>2 DEF vars, IInv, Typed, RequestFine, ParentFine, InsertClear, At, OnePendingPerReward,
              ApprovedWasCharged, Ordered
<1> QED BY <1>1, <1>2 DEF vars

LEMMA InvariantHolds == Spec => []IInv
BY InitHolds, NextKeeps, PTL DEF Spec

(* Every reachable state of the shop has its types; the balance never goes *)
(* below zero, and no request is in the list twice.                        *)
THEOREM ShopTyped == Spec => []TypeOK
<1>1. IInv => TypeOK
  BY DEF IInv, Typed, RowType, CallType, Ordered, TypeOK
<1> QED BY <1>1, InvariantHolds, PTL

(* insertRedemptionRequest leaves one pending request for a reward, for    *)
(* any number of overlapping calls of the child.                           *)
THEOREM OnePending == Spec => []OnePendingPerReward
<1>1. IInv => OnePendingPerReward
  BY DEF IInv
<1> QED BY <1>1, InvariantHolds, PTL

(* finalizeApproval charges first: nothing is approved that was not paid,  *)
(* however many parents answer at once and wherever a call is cut off.     *)
THEOREM ApprovedIsCharged == Spec => []ApprovedWasCharged
<1>1. IInv => ApprovedWasCharged
  BY DEF IInv
<1> QED BY <1>1, InvariantHolds, PTL

(* requestRedemption takes back the row of a child it sends away for its   *)
(* points before it answers.                                               *)
THEOREM NoPhantoms == Spec => []NoPhantomRequest
<1>1. IInv => NoPhantomRequest
  BY DEF IInv, RequestFine, NoPhantomRequest
<1> QED BY <1>1, InvariantHolds, PTL

-----------------------------------------------------------------------------
(* The sole decision about a request.                                      *)

(* Nobody but c decides about r, or has.                                   *)
OnlyDecider(c, r) ==
    /\ \A p \in Parents : call[p].on = r => p = c
    /\ call[r].reply # "pending" => r = c

Approves(c, r) == RowOf(c) = r /\ At(c, "done") /\ call[c].reply = "approved"

(* Call c has charged for r and has approved, or is about to.              *)
Charges(c, r) == RowOf(c) = r /\ (At(c, "approving") \/ Approves(c, r))

DecidedAlone(r) ==
    \A c \in Calls :
        OnlyDecider(c, r) /\ ~ (At(c, "done") /\ call[c].reply = "lost") /\ row[r].status # "absent"
        => /\ charged[r] = IF Charges(c, r) THEN 1 ELSE 0
           /\ row[r].status = "approved" <=> Approves(c, r)

(* Nobody answers a request before its row is there, and no call has its   *)
(* answer before it ends, but for one that takes its row back.             *)
Untouched(r) ==
    call[r].at \in {"idle", "applying", "inserting"} =>
        charged[r] = 0 /\ \A p \in Parents : call[p].on # r

Answered(c) ==
    /\ call[c].at \notin {"done", "voiding"} => call[c].reply = "none"
    /\ At(c, "voiding") => call[c].reply \notin {"pending", "approved"}

SoleInv ==
    /\ \A r \in Requests : DecidedAlone(r) /\ Untouched(r)
    /\ \A c \in Calls : Answered(c)
    /\ \A p \in Parents : At(p, "idle") => call[p].on = Nothing

-----------------------------------------------------------------------------
(* A step leaves alone what was charged for r and whether it is approved.  *)
Unmoved(r) ==
    /\ charged'[r] = charged[r]
    /\ row'[r].status # "absent" =>
          /\ row[r].status # "absent"
          /\ row'[r].status = "approved" <=> row[r].status = "approved"

Early == {"idle", "applying", "inserting"}

(* A step of call a that does not move request r.                          *)
LEMMA SoleFramed ==
    ASSUME IInv, SoleInv, NEW a \in Calls, NEW r \in Requests, Unmoved(r),
           \A d \in Calls \ {a} : call'[d] = call[d], ~ At(a, "done"),
           a \in Parents => \/ call'[a].on = call[a].on
                            \/ call[a].at = "idle" /\ (call'[a].on = r => row[r].status # "absent"),
           a = r => call'[r].reply # "pending" /\ (call'[r].at \in Early => call[r].at \in Early),
           \/ call'[a].at = "done" /\ call'[a].reply = "lost"
           \/ (Charges(a, r)' <=> Charges(a, r)) /\ (Approves(a, r)' <=> Approves(a, r))
    PROVE  DecidedAlone(r)' /\ Untouched(r)'
<1> USE Basics DEF Calls
<1>1. DecidedAlone(r) /\ Untouched(r) /\ call[r].at \in Early => row[r].status = "absent"
  BY DEF SoleInv, IInv, RequestFine, Early
<1>2. a \in Parents /\ call[a].at = "idle" => call[a].on # r
  <2>1. Nothing # r
    BY RedemptionAssumption
  <2> QED BY <2>1 DEF SoleInv, At
<1>3. Untouched(r)'
  <2>1. call'[r].at \in Early => call[r].at \in Early
    BY DEF Early
  <2>2. call'[r].at \in Early => \A p \in Parents : call'[p].on # r
    BY <1>1, <2>1 DEF SoleInv, Untouched, Early
  <2> QED BY <1>1, <2>1, <2>2 DEF Untouched, Early, Unmoved, SoleInv
<1>4. ASSUME NEW c \in Calls, OnlyDecider(c, r)', ~ (At(c, "done") /\ call[c].reply = "lost")',
             row'[r].status # "absent"
      PROVE  /\ charged'[r] = IF Charges(c, r)' THEN 1 ELSE 0
             /\ row'[r].status = "approved" <=> Approves(c, r)'
  <2>1. \A p \in Parents : call[p].on = r => p = c
    BY <1>2, <1>4 DEF OnlyDecider
  <2>2. call[r].reply # "pending" => r = c
    BY <1>4 DEF OnlyDecider
  <2>3. OnlyDecider(c, r)
    BY <2>1, <2>2 DEF OnlyDecider
  <2>4. ~ (At(c, "done") /\ call[c].reply = "lost")
    BY <1>4 DEF At
  <2>5. /\ charged[r] = IF Charges(c, r) THEN 1 ELSE 0
        /\ row[r].status = "approved" <=> Approves(c, r)
    BY <2>3, <2>4, <1>4 DEF SoleInv, DecidedAlone, Unmoved
  <2>6. (Charges(c, r)' <=> Charges(c, r)) /\ (Approves(c, r)' <=> Approves(c, r))
    <3>1. CASE c = a
      BY <1>4, <3>1 DEF At
    <3>2. CASE c # a
      BY <3>2 DEF Charges, Approves, RowOf, At
    <3> QED BY <3>1, <3>2
  <2> QED BY <2>5, <2>6, <1>4 DEF Unmoved
<1> QED BY <1>3, <1>4 DEF DecidedAlone

(* A step of call a that is about request q, of which a is a decider.      *)
LEMMA SoleOwn ==
    ASSUME IInv, SoleInv, NEW a \in Calls, NEW q \in Requests,
           \A d \in Calls \ {a} : call'[d] = call[d], ~ At(a, "done"),
           RowOf(a) = q, call'[a].on = call[a].on, call[a].at \notin Early, call'[a].at \notin Early,
           a = q => call'[q].reply # "pending",
           OnlyDecider(a, q) /\ row'[q].status # "absent" =>
                \/ call'[a].at = "done" /\ call'[a].reply = "lost"
                \/ /\ charged'[q] = IF Charges(a, q)' THEN 1 ELSE 0
                   /\ row'[q].status = "approved" <=> Approves(a, q)'
    PROVE  DecidedAlone(q)' /\ Untouched(q)'
<1> USE Basics DEF Calls
<1>1. call[q].at \notin Early
  <2>1. CASE a = q
    BY <2>1
  <2>2. CASE a # q
    <3>1. a \in Parents /\ call[a].on = q
      BY <2>2 DEF RowOf
    <3> QED BY <3>1 DEF SoleInv, Untouched, Early
  <2> QED BY <2>1, <2>2
<1>2. Untouched(q)'
  BY <1>1 DEF Untouched, Early
<1>3. ASSUME NEW c \in Calls, OnlyDecider(c, q)', ~ (At(c, "done") /\ call[c].reply = "lost")',
             row'[q].status # "absent"
      PROVE  /\ charged'[q] = IF Charges(c, q)' THEN 1 ELSE 0
             /\ row'[q].status = "approved" <=> Approves(c, q)'
  <2>1. c = a
    <3>1. CASE a = q
      BY <1>3, <3>1 DEF OnlyDecider
    <3>2. CASE a # q
      BY <1>3, <3>2 DEF OnlyDecider, RowOf
    <3> QED BY <3>1, <3>2
  <2>2. OnlyDecider(a, q)
    <3>1. \A p \in Parents : call[p].on = q => p = a
      BY <1>3, <2>1 DEF OnlyDecider
    <3>2. call[q].reply # "pending" => q = a
      BY <1>3, <2>1 DEF OnlyDecider
    <3> QED BY <3>1, <3>2 DEF OnlyDecider
  <2> QED BY <1>3, <2>1, <2>2 DEF At
<1> QED BY <1>2, <1>3 DEF DecidedAlone

(* A step of no call.                                                      *)
LEMMA SoleRows ==
    ASSUME SoleInv, call' = call, \A r \in Requests : Unmoved(r)
    PROVE  SoleInv'
<1>1. ASSUME NEW r \in Requests PROVE DecidedAlone(r)' /\ Untouched(r)'
  BY <1>1 DEF SoleInv, Unmoved, DecidedAlone, Untouched, OnlyDecider, Charges, Approves, RowOf, At
<1> QED BY <1>1 DEF SoleInv, Answered, At

LEMMA SoleStep ==
    ASSUME IInv, IInv', SoleInv, Next
    PROVE  SoleInv'
<1>t. Typed BY DEF IInv
<1>c. Requests \subseteq Calls /\ Parents \subseteq Calls /\ Requests \cap Parents = {}
  BY Basics DEF Calls
<1> USE <1>t, <1>c
<1>s. ASSUME NEW a \in Calls, \A d \in Calls \ {a} : call'[d] = call[d], call'[a].at # "idle",
             Answered(a)', \A r \in Requests : DecidedAlone(r)' /\ Untouched(r)'
      PROVE  SoleInv'
  <2>1. \A d \in Calls : Answered(d)'
    BY <1>s DEF SoleInv, Answered, At
  <2>2. \A p \in Parents : At(p, "idle")' => call'[p].on = Nothing
    BY <1>s DEF SoleInv, At
  <2> QED BY <1>s, <2>1, <2>2 DEF SoleInv
(* The rows and what was charged stay as they are. *)
<1>u. ASSUME row' = row, charged' = charged PROVE \A r \in Requests : Unmoved(r)
  BY <1>u DEF Unmoved
<1>1. ASSUME NEW r \in Requests, NEW w \in Rewards, StartRequest(r, w) PROVE SoleInv'
  <2>1. /\ \A d \in Calls \ {r} : call'[d] = call[d]
        /\ At(r, "idle") /\ row' = row /\ charged' = charged /\ call[r].reply = "none"
        /\ \/ call'[r].at = "done" /\ call'[r].reply \in {"REWARD_NOT_FOUND", "INSUFFICIENT_POINTS"}
           \/ call'[r].at = "applying" /\ call'[r].reply = "none"
    <3>1. At(r, "idle") /\ row' = row /\ charged' = charged
      BY <1>1 DEF StartRequest
    <3>2. call[r].reply = "none"
      BY <3>1 DEF SoleInv, Answered, At
    <3>3. CASE call' = Replied(r, "REWARD_NOT_FOUND") \/ call' = Replied(r, "INSUFFICIENT_POINTS")
      BY <3>1, <3>2, <3>3, RepliedIs
    <3>4. CASE call' = [call EXCEPT ![r].at = "applying", ![r].on = w]
      BY <3>1, <3>2, <3>4 DEF Typed, CallType
    <3> QED BY <1>1, <3>3, <3>4 DEF StartRequest
  <2>2. Answered(r)'
    BY <2>1 DEF Answered, At
  <2>3. ASSUME NEW q \in Requests PROVE DecidedAlone(q)' /\ Untouched(q)'
    <3>1. (Charges(r, q)' <=> Charges(r, q)) /\ (Approves(r, q)' <=> Approves(r, q))
      BY <2>1 DEF Charges, Approves, At
    <3>2. r = q => call'[q].reply # "pending" /\ (call'[q].at \in Early => call[q].at \in Early)
      BY <2>1 DEF Early, At
    <3> QED BY <2>1, <3>1, <3>2, <1>u, SoleFramed DEF At
  <2>4. call'[r].at # "idle"
    BY <2>1
  <2> QED BY <2>1, <2>2, <2>3, <2>4, <1>s
<1>2. ASSUME NEW r \in Requests, BeginInsert(r) PROVE SoleInv'
  <2>1. /\ \A d \in Calls \ {r} : call'[d] = call[d]
        /\ At(r, "applying") /\ row' = row /\ charged' = charged /\ call[r].reply = "none"
        /\ \/ call'[r].at = "done" /\ call'[r].reply = "ALREADY_PENDING"
           \/ call'[r].at = "inserting" /\ call'[r].reply = "none"
    <3>1. At(r, "applying") /\ row' = row /\ charged' = charged
      BY <1>2 DEF BeginInsert
    <3>2. call[r].reply = "none"
      BY <3>1 DEF SoleInv, Answered, At
    <3>3. CASE Duplicate(call[r].on)
      BY <1>2, <3>1, <3>2, <3>3, RepliedIs DEF BeginInsert
    <3>4. CASE ~ Duplicate(call[r].on)
      BY <1>2, <3>1, <3>2, <3>4 DEF BeginInsert, Typed, CallType
    <3> QED BY <3>3, <3>4
  <2>2. Answered(r)'
    BY <2>1 DEF Answered, At
  <2>3. ASSUME NEW q \in Requests PROVE DecidedAlone(q)' /\ Untouched(q)'
    <3>1. (Charges(r, q)' <=> Charges(r, q)) /\ (Approves(r, q)' <=> Approves(r, q))
      BY <2>1 DEF Charges, Approves, At
    <3>2. r = q => call'[q].reply # "pending" /\ (call'[q].at \in Early => call[q].at \in Early)
      BY <2>1 DEF Early, At
    <3> QED BY <2>1, <3>1, <3>2, <1>u, SoleFramed DEF At
  <2>4. call'[r].at # "idle"
    BY <2>1
  <2> QED BY <2>1, <2>2, <2>3, <2>4, <1>s
<1>3. ASSUME NEW r \in Requests, CommitInsert(r) PROVE SoleInv'
  <2>1. /\ At(r, "inserting") /\ charged' = charged /\ call[r].reply = "none"
        /\ charged[r] = 0 /\ \A p \in Parents : call[p].on # r
    BY <1>3 DEF CommitInsert, InsertRow, SoleInv, Answered, Untouched, At
  <2>2. /\ \A d \in Calls \ {r} : call'[d] = call[d]
        /\ \/ call'[r].at = "paying" /\ call'[r].reply = "none"
           \/ call'[r].at = "done" /\ call'[r].reply = "pending"
    BY <1>3, <2>1, MovedIs, RepliedIs DEF CommitInsert, InsertRow
  <2>3. /\ row'[r].status = "pending"
        /\ \A q \in Requests \ {r} : row'[q] = row[q]
    BY <1>3 DEF CommitInsert, InsertRow, Typed, RowType
  <2>4. Answered(r)' /\ call'[r].at # "idle"
    BY <2>2 DEF Answered, At
  <2>5. ASSUME NEW q \in Requests, q # r PROVE DecidedAlone(q)' /\ Untouched(q)'
    <3>1. Unmoved(q)
      BY <2>1, <2>3, <2>5 DEF Unmoved
    <3>2. (Charges(r, q)' <=> Charges(r, q)) /\ (Approves(r, q)' <=> Approves(r, q))
      BY <2>5 DEF Charges, Approves, RowOf
    <3>3. ~ At(r, "done")
      BY <2>1 DEF At
    <3> QED BY <2>2, <2>5, <3>1, <3>2, <3>3, SoleFramed
  <2>6. DecidedAlone(r)' /\ Untouched(r)'
    <3>1. ASSUME NEW c \in Calls PROVE ~ Charges(c, r)' /\ ~ Approves(c, r)'
      <4>1. CASE c = r
        BY <2>2, <4>1 DEF Charges, Approves, At
      <4>2. CASE c # r
        BY <2>1, <2>2, <4>2 DEF Charges, Approves, RowOf, Calls
      <4> QED BY <4>1, <4>2
    <3>2. Untouched(r)'
      BY <2>2 DEF Untouched
    <3> QED BY <2>1, <2>3, <3>1, <3>2 DEF DecidedAlone
  <2> QED BY <2>2, <2>4, <2>5, <2>6, <1>s
<1>4. ASSUME NEW r \in Requests, RetryInsert(r) PROVE SoleInv'
  <2>1. /\ \A d \in Calls \ {r} : call'[d] = call[d]
        /\ At(r, "inserting") /\ row' = row /\ charged' = charged /\ call[r].reply = "none"
        /\ call'[r].at = "applying" /\ call'[r].reply = "none"
    BY <1>4, MovedIs DEF RetryInsert, SoleInv, Answered, At
  <2>2. Answered(r)' /\ call'[r].at # "idle"
    BY <2>1 DEF Answered, At
  <2>3. ASSUME NEW q \in Requests PROVE DecidedAlone(q)' /\ Untouched(q)'
    <3>1. (Charges(r, q)' <=> Charges(r, q)) /\ (Approves(r, q)' <=> Approves(r, q))
      BY <2>1 DEF Charges, Approves, At
    <3>2. r = q => call'[q].reply # "pending" /\ (call'[q].at \in Early => call[q].at \in Early)
      BY <2>1 DEF Early, At
    <3> QED BY <2>1, <3>1, <3>2, <1>u, SoleFramed DEF At
  <2> QED BY <2>1, <2>2, <2>3, <1>s
<1>5. ASSUME NEW r \in Requests, Void(r) PROVE SoleInv'
  <2>1. /\ \A d \in Calls \ {r} : call'[d] = call[d]
        /\ At(r, "voiding") /\ charged' = charged /\ call[r].reply \notin {"pending", "approved"}
        /\ call'[r].at = "done" /\ call'[r].reply = call[r].reply /\ call'[r].on = call[r].on
    BY <1>5, MovedIs DEF Void, SoleInv, Answered, At
  <2>2. \A q \in Requests : row'[q].status = IF q = r /\ row[r].status # "absent" THEN "expired"
                                             ELSE row[q].status
    BY <1>5, UpdatedIs DEF Void
  <2>3. Answered(r)' /\ call'[r].at # "idle"
    BY <2>1 DEF Answered, At
  <2>4. ASSUME NEW q \in Requests, q # r PROVE DecidedAlone(q)' /\ Untouched(q)'
    <3>1. Unmoved(q)
      BY <2>1, <2>2, <2>4 DEF Unmoved
    <3>2. (Charges(r, q)' <=> Charges(r, q)) /\ (Approves(r, q)' <=> Approves(r, q))
      BY <2>4 DEF Charges, Approves, RowOf
    <3>3. ~ At(r, "done")
      BY <2>1 DEF At
    <3> QED BY <2>1, <2>4, <3>1, <3>2, <3>3, SoleFramed
  <2>5. DecidedAlone(r)' /\ Untouched(r)'
    <3>1. ~ Charges(r, r)' /\ ~ Approves(r, r)' /\ ~ Charges(r, r) /\ ~ Approves(r, r)
      BY <2>1 DEF Charges, Approves, At
    <3>2. OnlyDecider(r, r) /\ row'[r].status # "absent" => charged'[r] = 0 /\ row'[r].status # "approved"
      BY <2>1, <2>2, <3>1 DEF SoleInv, DecidedAlone, At
    <3>3. /\ RowOf(r) = r /\ ~ At(r, "done") /\ call[r].at \notin Early /\ call'[r].at \notin Early
          /\ call'[r].reply # "pending"
      BY <2>1 DEF RowOf, At, Early
    <3> QED BY <2>1, <3>1, <3>2, <3>3, SoleOwn
  <2> QED BY <2>1, <2>3, <2>4, <2>5, <1>s
<1>6. ASSUME NEW r \in Requests, WindowPasses(r) PROVE SoleInv'
  <2>1. \A q \in Requests : Unmoved(q)
    BY <1>6 DEF WindowPasses, Unmoved, Typed, RowType
  <2> QED BY <1>6, <2>1, SoleRows DEF WindowPasses
<1>7. ASSUME NEW r \in Requests, Show(r) PROVE SoleInv'
  <2>1. \A q \in Requests : Unmoved(q)
    BY <1>7 DEF Show, Unmoved, Typed, RowType
  <2> QED BY <1>7, <2>1, SoleRows DEF Show
<1>8. ASSUME NEW c \in Calls, Pay(c) PROVE SoleInv'
  <2>q. PICK q \in Requests : RowOf(c) = q
    BY <1>8 DEF Pay, RowOf, At, Calls, IInv, ParentFine
  <2>1. call[c].at = "paying" /\ call[c].reply = "none" /\ row' = row /\ RowOf(c) = q
    BY <1>8, <2>q DEF Pay, SoleInv, Answered, At
  <2>2. /\ \A d \in Calls \ {c} : call'[d] = call[d]
        /\ call'[c].on = call[c].on
        /\ \/ call'[c].at = "approving" /\ call'[c].reply = "none" /\ charged' = [charged EXCEPT ![q] = @ + 1]
           \/ /\ call'[c].at \in {"voiding", "done"} /\ call'[c].reply = "INSUFFICIENT_POINTS"
              /\ charged' = charged
    <3>1. CASE balance >= PriceOf(c)
      BY <1>8, <2>1, <3>1, MovedIs DEF Pay, Charge
    <3>2. CASE ~ (balance >= PriceOf(c))
      <4>1. charged' = charged /\ call' = Failed(c, "INSUFFICIENT_POINTS", "INSUFFICIENT_POINTS")
        BY <1>8, <3>2 DEF Pay
      <4>2. CASE c \in Requests
        BY <4>1, <4>2, FailedIs
      <4>3. CASE c \notin Requests
        BY <4>1, <4>3, RepliedIs DEF Failed
      <4> QED BY <4>2, <4>3
    <3> QED BY <3>1, <3>2
  <2>3. \A r \in Requests : row'[r] = row[r] /\ (r # q => charged'[r] = charged[r])
    BY <2>1, <2>2 DEF Typed
  <2>4. Answered(c)' /\ call'[c].at # "idle"
    BY <2>2 DEF Answered, At
  <2>5. ASSUME NEW r \in Requests, r # q PROVE DecidedAlone(r)' /\ Untouched(r)'
    <3>1. Unmoved(r)
      BY <2>3, <2>5 DEF Unmoved
    <3>2. (Charges(c, r)' <=> Charges(c, r)) /\ (Approves(c, r)' <=> Approves(c, r))
      BY <2>1, <2>2, <2>5 DEF Charges, Approves, RowOf
    <3>3. ~ At(c, "done") /\ c # r
      BY <2>1, <2>5 DEF At, RowOf
    <3> QED BY <2>2, <3>1, <3>2, <3>3, SoleFramed
  <2>6. DecidedAlone(q)' /\ Untouched(q)'
    <3>1. ~ Charges(c, q) /\ ~ Approves(c, q) /\ ~ (At(c, "done") /\ call[c].reply = "lost")
      BY <2>1 DEF Charges, Approves, At
    <3>2. OnlyDecider(c, q) /\ row'[q].status # "absent" => charged[q] = 0 /\ row'[q].status # "approved"
      BY <2>1, <3>1 DEF SoleInv, DecidedAlone
    <3>3. ~ Approves(c, q)'
      BY <2>2 DEF Approves, At
    <3>4. charged[q] \in Nat
      BY <2>1 DEF Typed
    <3>5. CASE call'[c].at = "approving"
      <4>1. charged'[q] = charged[q] + 1
        BY <2>1, <2>2, <3>5 DEF Typed
      <4>2. Charges(c, q)'
        BY <2>1, <2>2, <3>5 DEF Charges, RowOf, At
      <4>3. OnlyDecider(c, q) /\ row'[q].status # "absent" =>
                 /\ charged'[q] = IF Charges(c, q)' THEN 1 ELSE 0
                 /\ row'[q].status = "approved" <=> Approves(c, q)'
        BY <3>2, <3>3, <3>4, <4>1, <4>2
      <4>4. ~ At(c, "done") /\ call[c].at \notin Early /\ call'[c].at \notin Early
            /\ (c = q => call'[q].reply # "pending")
        BY <2>1, <2>2, <3>5 DEF At, Early
      <4> QED BY <2>1, <2>2, <4>3, <4>4, SoleOwn
    <3>6. CASE call'[c].at # "approving"
      <4>1. charged'[q] = charged[q]
        BY <2>2, <3>6
      <4>2. ~ Charges(c, q)'
        BY <3>3, <3>6 DEF Charges, At
      <4>3. OnlyDecider(c, q) /\ row'[q].status # "absent" =>
                 /\ charged'[q] = IF Charges(c, q)' THEN 1 ELSE 0
                 /\ row'[q].status = "approved" <=> Approves(c, q)'
        BY <3>2, <3>3, <4>1, <4>2
      <4>4. ~ At(c, "done") /\ call[c].at \notin Early /\ call'[c].at \notin Early
            /\ (c = q => call'[q].reply # "pending")
        BY <2>1, <2>2, <3>6 DEF At, Early
      <4> QED BY <2>1, <2>2, <4>3, <4>4, SoleOwn
    <3> QED BY <3>5, <3>6
  <2> QED BY <2>2, <2>4, <2>5, <2>6, <1>s
<1>9. ASSUME NEW c \in Calls, Approve(c) PROVE SoleInv'
  <2>q. PICK q \in Requests : RowOf(c) = q
    BY <1>9 DEF Approve, RowOf, At, Calls, IInv, ParentFine
  <2>1. call[c].at = "approving" /\ call[c].reply = "none" /\ charged' = charged /\ RowOf(c) = q
    BY <1>9, <2>q DEF Approve, SoleInv, Answered, At
  <2>2. /\ \A d \in Calls \ {c} : call'[d] = call[d]
        /\ call'[c].on = call[c].on
        /\ \/ row[q].status # "absent" /\ call'[c].at = "done" /\ call'[c].reply = "approved"
           \/ /\ row[q].status = "absent" /\ call'[c].at \in {"voiding", "done"}
              /\ call'[c].reply \in {"REWARD_NOT_FOUND", "REQUEST_NOT_FOUND"}
    <3>1. CASE row[q].status # "absent"
      BY <1>9, <2>1, <3>1, RepliedIs DEF Approve
    <3>2. CASE row[q].status = "absent"
      <4>1. call' = Failed(c, "REWARD_NOT_FOUND", "REQUEST_NOT_FOUND")
        BY <1>9, <2>1, <3>2 DEF Approve
      <4>2. CASE c \in Requests
        BY <3>2, <4>1, <4>2, FailedIs
      <4>3. CASE c \notin Requests
        BY <3>2, <4>1, <4>3, RepliedIs DEF Failed
      <4> QED BY <4>2, <4>3
    <3> QED BY <3>1, <3>2
  <2>3. \A r \in Requests :
           /\ row'[r].status = IF r = q /\ row[q].status # "absent" THEN "approved" ELSE row[r].status
           /\ charged'[r] = charged[r]
    BY <1>9, <2>1, UpdatedIs DEF Approve
  <2>4. Answered(c)' /\ call'[c].at # "idle"
    BY <2>2 DEF Answered, At
  <2>5. ASSUME NEW r \in Requests, r # q PROVE DecidedAlone(r)' /\ Untouched(r)'
    <3>1. Unmoved(r)
      BY <2>3, <2>5 DEF Unmoved
    <3>2. (Charges(c, r)' <=> Charges(c, r)) /\ (Approves(c, r)' <=> Approves(c, r))
      BY <2>1, <2>2, <2>5 DEF Charges, Approves, RowOf
    <3>3. ~ At(c, "done") /\ c # r
      BY <2>1, <2>5 DEF At, RowOf
    <3> QED BY <2>2, <3>1, <3>2, <3>3, SoleFramed
  <2>6. DecidedAlone(q)' /\ Untouched(q)'
    <3>1. Charges(c, q) /\ ~ (At(c, "done") /\ call[c].reply = "lost")
      BY <2>1 DEF Charges, At
    <3>2. OnlyDecider(c, q) /\ row[q].status # "absent" => charged[q] = 1
      BY <2>1, <3>1 DEF SoleInv, DecidedAlone
    <3>3. row'[q].status # "absent" => /\ row[q].status # "absent" /\ row'[q].status = "approved"
                                       /\ Approves(c, q)' /\ Charges(c, q)'
      BY <2>1, <2>2, <2>3 DEF Approves, Charges, RowOf, At
    <3>4. OnlyDecider(c, q) /\ row'[q].status # "absent" =>
                 /\ charged'[q] = IF Charges(c, q)' THEN 1 ELSE 0
                 /\ row'[q].status = "approved" <=> Approves(c, q)'
      BY <2>1, <3>2, <3>3
    <3>5. ~ At(c, "done") /\ call[c].at \notin Early /\ call'[c].at \notin Early
          /\ (c = q => call'[q].reply # "pending")
      BY <2>1, <2>2 DEF At, Early
    <3> QED BY <2>1, <2>2, <3>4, <3>5, SoleOwn
  <2> QED BY <2>2, <2>4, <2>5, <2>6, <1>s
<1>10. ASSUME NEW c \in Calls, Abandon(c) PROVE SoleInv'
  <2>1. /\ \A d \in Calls \ {c} : call'[d] = call[d]
        /\ call[c].at \notin {"idle", "done"} /\ row' = row /\ charged' = charged
        /\ call'[c].at = "done" /\ call'[c].reply = "lost" /\ call'[c].on = call[c].on
    BY <1>10, RepliedIs DEF Abandon
  <2>2. Answered(c)' /\ call'[c].at # "idle"
    BY <2>1 DEF Answered, At
  <2>3. ASSUME NEW q \in Requests PROVE DecidedAlone(q)' /\ Untouched(q)'
    <3>1. c = q => call'[q].reply # "pending" /\ (call'[q].at \in Early => call[q].at \in Early)
      BY <2>1 DEF Early
    <3> QED BY <2>1, <3>1, <1>u, SoleFramed DEF At
  <2> QED BY <2>1, <2>2, <2>3, <1>s
<1>11. ASSUME NEW p \in Parents, NEW r \in Requests, StartAnswer(p, r) PROVE SoleInv'
  <2>1. /\ \A d \in Calls \ {p} : call'[d] = call[d]
        /\ At(p, "idle") /\ row' = row /\ charged' = charged /\ call[p].reply = "none"
        /\ \/ /\ call'[p].at = "done" /\ call'[p].reply \in {"REQUEST_NOT_FOUND", "INVALID_STATUS"}
              /\ call'[p].on = call[p].on
           \/ /\ call'[p].at \in {"paying", "rejecting"} /\ call'[p].reply = "none"
              /\ call'[p].on = r /\ row[r].status = "pending"
    <3>1. At(p, "idle") /\ row' = row /\ charged' = charged
      BY <1>11 DEF StartAnswer
    <3>2. call[p].reply = "none"
      BY <3>1 DEF SoleInv, Answered, At
    <3>3. CASE call' = Replied(p, "REQUEST_NOT_FOUND") \/ call' = Replied(p, "INVALID_STATUS")
      BY <3>1, <3>2, <3>3, RepliedIs
    <3>4. ASSUME NEW place \in {"paying", "rejecting"}, row[r].status = "pending",
                 call' = [call EXCEPT ![p].at = place, ![p].on = r, ![p].price = row[r].price]
          PROVE  /\ \A d \in Calls \ {p} : call'[d] = call[d]
                 /\ call'[p].at = place /\ call'[p].on = r /\ call'[p].reply = call[p].reply
      BY <3>4 DEF Typed, CallType
    <3> QED BY <1>11, <3>1, <3>2, <3>3, <3>4 DEF StartAnswer
  <2>2. Answered(p)' /\ call'[p].at # "idle"
    BY <2>1 DEF Answered, At
  <2>3. ASSUME NEW q \in Requests PROVE DecidedAlone(q)' /\ Untouched(q)'
    <3>1. (Charges(p, q)' <=> Charges(p, q)) /\ (Approves(p, q)' <=> Approves(p, q))
      BY <2>1 DEF Charges, Approves, At
    <3>2. \/ call'[p].on = call[p].on
          \/ call[p].at = "idle" /\ (call'[p].on = q => row[q].status # "absent")
      BY <2>1 DEF At
    <3> QED BY <2>1, <3>1, <3>2, <1>u, SoleFramed DEF At
  <2> QED BY <2>1, <2>2, <2>3, <1>s
<1>12. ASSUME NEW p \in Parents, NEW w \in Rewards, StartDelete(p, w) PROVE SoleInv'
  <2>1. /\ \A d \in Calls \ {p} : call'[d] = call[d]
        /\ At(p, "idle") /\ row' = row /\ charged' = charged /\ call[p].reply = "none"
        /\ \/ call'[p].at = "done" /\ call'[p].reply = "PENDING_REDEMPTION" /\ call'[p].on = call[p].on
           \/ call'[p].at = "deleting" /\ call'[p].reply = "none" /\ call'[p].on = w
    <3>1. At(p, "idle") /\ row' = row /\ charged' = charged
      BY <1>12 DEF StartDelete
    <3>2. call[p].reply = "none"
      BY <3>1 DEF SoleInv, Answered, At
    <3>3. CASE call' = Replied(p, "PENDING_REDEMPTION")
      BY <3>1, <3>2, <3>3, RepliedIs
    <3>4. CASE call' = [call EXCEPT ![p].at = "deleting", ![p].on = w]
      BY <3>1, <3>2, <3>4 DEF Typed, CallType
    <3> QED BY <1>12, <3>3, <3>4 DEF StartDelete
  <2>2. Answered(p)' /\ call'[p].at # "idle"
    BY <2>1 DEF Answered, At
  <2>3. ASSUME NEW q \in Requests PROVE DecidedAlone(q)' /\ Untouched(q)'
    <3>1. (Charges(p, q)' <=> Charges(p, q)) /\ (Approves(p, q)' <=> Approves(p, q))
      BY <2>1 DEF Charges, Approves, At
    <3>2. w # q
      BY RedemptionAssumption
    <3>3. \/ call'[p].on = call[p].on
          \/ call[p].at = "idle" /\ (call'[p].on = q => row[q].status # "absent")
      BY <2>1, <3>2 DEF At
    <3> QED BY <2>1, <3>1, <3>3, <1>u, SoleFramed DEF At
  <2> QED BY <2>1, <2>2, <2>3, <1>s
<1>13. ASSUME NEW p \in Parents, Reject(p) PROVE SoleInv'
  <2>q. PICK q \in Requests : call[p].on = q
    BY <1>13 DEF Reject, At, IInv, ParentFine
  <2>1. /\ call[p].at = "rejecting" /\ call[p].reply = "none" /\ charged' = charged
        /\ call[p].on = q /\ RowOf(p) = q
    BY <1>13, <2>q DEF Reject, RowOf, SoleInv, Answered, At
  <2>2. /\ \A d \in Calls \ {p} : call'[d] = call[d]
        /\ call'[p].on = call[p].on /\ call'[p].at = "done"
        /\ call'[p].reply \in {"rejected", "REQUEST_NOT_FOUND"}
    BY <1>13, RepliedIs DEF Reject
  <2>3. \A r \in Requests :
           /\ row'[r].status = IF r = q /\ row[q].status # "absent" THEN "rejected" ELSE row[r].status
           /\ charged'[r] = charged[r]
    BY <1>13, <2>1, UpdatedIs DEF Reject
  <2>4. Answered(p)' /\ call'[p].at # "idle"
    BY <2>2 DEF Answered, At
  <2>5. ASSUME NEW r \in Requests, r # q PROVE DecidedAlone(r)' /\ Untouched(r)'
    <3>1. Unmoved(r)
      BY <2>3, <2>5 DEF Unmoved
    <3>2. (Charges(p, r)' <=> Charges(p, r)) /\ (Approves(p, r)' <=> Approves(p, r))
      BY <2>1, <2>2, <2>5 DEF Charges, Approves, RowOf
    <3>3. ~ At(p, "done") /\ p # r
      BY <2>1, <2>5 DEF At, RowOf
    <3> QED BY <2>2, <3>1, <3>2, <3>3, SoleFramed
  <2>6. DecidedAlone(q)' /\ Untouched(q)'
    <3>1. /\ ~ Charges(p, q) /\ ~ Approves(p, q) /\ ~ (At(p, "done") /\ call[p].reply = "lost")
          /\ ~ Charges(p, q)' /\ ~ Approves(p, q)'
      BY <2>1, <2>2 DEF Charges, Approves, At
    <3>2. OnlyDecider(p, q) /\ row'[q].status # "absent" => charged'[q] = 0 /\ row'[q].status # "approved"
      BY <2>1, <2>3, <3>1 DEF SoleInv, DecidedAlone
    <3>3. ~ At(p, "done") /\ call[p].at \notin Early /\ call'[p].at \notin Early /\ p # q
      BY <2>1, <2>2 DEF At, Early
    <3> QED BY <2>1, <2>2, <3>1, <3>2, <3>3, SoleOwn
  <2> QED BY <2>2, <2>4, <2>5, <2>6, <1>s
<1>14. ASSUME NEW p \in Parents, Delete(p) PROVE SoleInv'
  <2>1. /\ \A d \in Calls \ {p} : call'[d] = call[d]
        /\ At(p, "deleting") /\ charged' = charged /\ call[p].reply = "none"
        /\ call'[p].at = "done" /\ call'[p].on = call[p].on
        /\ call'[p].reply \in {"deleted", "REWARD_NOT_FOUND"}
    BY <1>14, RepliedIs DEF Delete, SoleInv, Answered, At
  <2>2. \A q \in Requests : Unmoved(q)
    BY <1>14 DEF Delete, Unmoved, Absent
  <2>3. Answered(p)' /\ call'[p].at # "idle"
    BY <2>1 DEF Answered, At
  <2>4. ASSUME NEW q \in Requests PROVE DecidedAlone(q)' /\ Untouched(q)'
    <3>1. (Charges(p, q)' <=> Charges(p, q)) /\ (Approves(p, q)' <=> Approves(p, q))
      BY <2>1 DEF Charges, Approves, At
    <3> QED BY <2>1, <2>2, <3>1, SoleFramed DEF At
  <2> QED BY <2>1, <2>3, <2>4, <1>s
<1>15. CASE Expire
  <2>1. \A q \in Requests : Unmoved(q)
    BY <1>15 DEF Expire, Unmoved, Typed, RowType
  <2> QED BY <1>15, <2>1, SoleRows DEF Expire
<1>16. CASE Elsewhere
  BY <1>16, SoleRows DEF Elsewhere, Unmoved
<1> QED
  BY <1>1, <1>2, <1>3, <1>4, <1>5, <1>6, <1>7, <1>8, <1>9, <1>10, <1>11, <1>12, <1>13, <1>14,
     <1>15, <1>16 DEF Next

LEMMA SoleHolds == Spec => []SoleInv
<1>1. Init => SoleInv
  <2> SUFFICES ASSUME Init PROVE SoleInv
    OBVIOUS
  <2>1. \A r \in Requests : row[r].status = "absent" /\ charged[r] = 0
    BY DEF Init, Absent
  <2>2. \A c \in Calls : call[c] = Idle
    BY DEF Init
  <2>3. \A r \in Requests : Nothing # r
    BY RedemptionAssumption
  <2> QED BY <2>1, <2>2, <2>3 DEF SoleInv, DecidedAlone, Untouched, Answered, At, Idle, Calls
<1>2. IInv /\ IInv' /\ SoleInv /\ [Next]_vars => SoleInv'
  <2> SUFFICES ASSUME IInv, IInv', SoleInv, [Next]_vars PROVE SoleInv'
    OBVIOUS
  <2>1. CASE UNCHANGED vars
    BY <2>1, SoleRows DEF vars, Unmoved
  <2> QED BY <2>1, SoleStep
<1> QED BY <1>1, <1>2, InvariantHolds, PTL DEF Spec

(* Where one call alone decides about a request and is not cut off, its    *)
(* answer, the row and the ledger agree: finalizeApproval has charged once *)
(* and approved, or neither, whatever else goes on in the shop.            *)
THEOREM SoleDecision == Spec => []SoleDecisionIsExact
<1>1. IInv /\ SoleInv => SoleDecisionIsExact
  <2> SUFFICES ASSUME SoleInv, NEW r \in Requests, NEW c \in Calls,
                      Deciders(r) = {c}, At(c, "done"), call[c].reply # "lost", row[r].status # "absent"
               PROVE  /\ charged[r] = IF call[c].reply = "approved" THEN 1 ELSE 0
                      /\ row[r].status = "approved" <=> call[c].reply = "approved"
    BY DEF SoleDecisionIsExact
  <2>1. OnlyDecider(c, r)
    BY DEF OnlyDecider, Deciders
  <2>2. RowOf(c) = r
    BY Basics DEF Deciders, RowOf
  <2>3. Approves(c, r) <=> call[c].reply = "approved"
    BY <2>2 DEF Approves
  <2>4. Charges(c, r) <=> Approves(c, r)
    BY <2>2 DEF Charges, At
  <2> QED BY <2>1, <2>3, <2>4 DEF SoleInv, DecidedAlone
<1> QED BY <1>1, SoleHolds, InvariantHolds, PTL
=============================================================================
