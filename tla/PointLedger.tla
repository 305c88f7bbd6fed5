----------------------------- MODULE PointLedger -----------------------------
(***************************************************************************)
(* What the point transactions promise: each request reads its inputs at   *)
(* some moment (the service function, outside any transaction) and later   *)
(* takes effect in one indivisible step on the rows as they then are, or   *)
(* is turned away and changes nothing.  PointTxns implements this with     *)
(* snapshots and optimistic concurrency control.                           *)
(***************************************************************************)
EXTENDS PointDb

VARIABLES
    db,      \* the child's rows
    req,     \* the inputs each request carries into its transaction
    result   \* "none" until the request has been answered

ledgerVars == <<db, req, result>>

LedgerInit ==
    /\ db = OpeningDb
    /\ req = [c \in Requests |-> NoRequest]
    /\ result = [c \in Requests |-> "none"]

-----------------------------------------------------------------------------
(* The service functions: guards and inputs from reads outside the         *)
(* transaction.  A guard that fails answers the caller and changes nothing,*)
(* so early returns are stuttering steps.                                  *)

Ask(c, r) ==
    /\ req[c] = NoRequest
    /\ req' = [req EXCEPT ![c] = r]
    /\ UNCHANGED <<db, result>>

(* The streak bonus belongs to the first record of the day, the mastery    *)
(* bonus to the level read here.                                           *)
AskRecord(c, a) ==
    /\ db.exists
    /\ ~LimitReached(db, req, a)
    /\ Ask(c, [op       |-> "record",
               activity |-> a,
               points   |-> BasePoints[a],
               streak   |-> IF ActiveLogs(db, req, a) = {} THEN StreakBonus ELSE 0,
               bonus    |-> MasteryBonusAt(db.mastery[a])])

(* The refund is the log's points and streak bonus and a mastery bonus     *)
(* recomputed from the count read here.                                    *)
AskCancel(c, l) ==
    /\ db.log[l] = "active"
    /\ \E known \in BOOLEAN :
          Ask(c, [op          |-> "cancel",
                  log         |-> l,
                  refund      |-> req[l].points + req[l].streak
                                    + MasteryRefund(db.mastery[req[l].activity]),
                  hasCategory |-> known])

AskSpend(c, n) == Ask(c, [op |-> "spend", amount |-> n])

(* grantInitialPoints and the other unconditional grants.                  *)
AskGrant(c, n) == db.exists /\ Ask(c, [op |-> "entry", amount |-> n])

(* convertPoints checks the balance here and writes a plain entry later.   *)
AskConvert(c, n) ==
    /\ db.exists
    /\ db.total >= n
    /\ Ask(c, [op |-> "entry", amount |-> - n])

AskMission(c, m) == Ask(c, [op |-> "mission", mission |-> m])

AskDelete(c) ==
    /\ db.exists
    /\ \A b \in Requests : req[b].op # "delete"     \* bound: one deletion
    /\ Ask(c, [op |-> "delete"])

ServiceReads(c) ==
    \/ \E a \in Activities : AskRecord(c, a)
    \/ \E l \in Requests : AskCancel(c, l)
    \/ \E n \in SpendAmounts : AskSpend(c, n) \/ AskConvert(c, n)
    \/ \E n \in GrantAmounts : AskGrant(c, n)
    \/ \E m \in Missions : AskMission(c, m)
    \/ AskDelete(c)

-----------------------------------------------------------------------------
(* The transactions, one at a time.                                        *)

Pending(c, op) == req[c].op = op /\ result[c] = "none"

Answer(c, reply) == result' = [result EXCEPT ![c] = reply] /\ UNCHANGED req

Record(c) ==
    /\ Pending(c, "record")
    /\ ~LimitReached(db, req, req[c].activity)
    /\ db' = Recorded(db, db, c, req[c])
    /\ Answer(c, "ok")

Cancel(c) ==
    /\ Pending(c, "cancel")
    /\ db.log[req[c].log] = "active"
    /\ db.exists
    /\ db' = Cancelled(db, db, c, req[c], req[req[c].log].activity)
    /\ Answer(c, "ok")

Spend(c) ==
    /\ Pending(c, "spend")
    /\ db.exists
    /\ db.total >= req[c].amount
    /\ db' = Posted(db, db, c, req[c])
    /\ Answer(c, "ok")

Entry(c) ==
    /\ Pending(c, "entry")
    /\ db.exists
    /\ db' = Posted(db, db, c, req[c])
    /\ Answer(c, "ok")

CompleteMission(c) ==
    /\ Pending(c, "mission")
    /\ db' = MissionCompleted(db, db, c, req[c])
    /\ Answer(c, "ok")

DeleteChild(c) ==
    /\ Pending(c, "delete")
    /\ db' = ChildDeleted(db)
    /\ Answer(c, "ok")

(* A request may be turned away, whatever the reason: it has no effect.    *)
Rejections ==
    {"ALREADY_RECORDED", "DAILY_LIMIT_REACHED", "ALREADY_CANCELLED",
     "INSUFFICIENT_POINTS", "CHILD_NOT_FOUND", "OCC_CONFLICT"}

TurnAway(c) ==
    /\ req[c] # NoRequest
    /\ result[c] = "none"
    /\ \E reason \in Rejections : Answer(c, reason)
    /\ UNCHANGED db

(* Retention removes old entries and leaves the balance alone.             *)
PruneOpening ==
    /\ Opening \in db.ledger
    /\ db' = [db EXCEPT !.ledger = @ \ {Opening}, !.pruned = @ + OpeningBalance]
    /\ UNCHANGED <<req, result>>

LedgerNext ==
    \/ PruneOpening
    \/ \E c \in Requests :
          \/ ServiceReads(c)
          \/ Record(c)
          \/ Cancel(c)
          \/ Spend(c)
          \/ Entry(c)
          \/ CompleteMission(c)
          \/ DeleteChild(c)
          \/ TurnAway(c)

LedgerSpec == LedgerInit /\ [][LedgerNext]_ledgerVars

=============================================================================
