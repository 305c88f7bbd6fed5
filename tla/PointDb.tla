------------------------------- MODULE PointDb -------------------------------
(***************************************************************************)
(* The rows of one child that the point-moving transactions of the DSQL    *)
(* backend share, and what each transaction writes, as functions of the    *)
(* state the transaction has seen.  PointLedger applies them to the        *)
(* current state (one transaction at a time), PointTxns to a snapshot.     *)
(*                                                                         *)
(* A request inserts at most one activity log and one ledger entry, so the *)
(* request itself names both rows, and their columns are those of the      *)
(* request that wrote them.  The model covers one day (every log counts    *)
(* against the daily limit), one category (one row of statuses) and one    *)
(* child: rows of different children never conflict.                       *)
(***************************************************************************)
EXTENDS Integers, FiniteSets

CONSTANTS
    Requests,       \* HTTP requests, each runs at most one transaction
    Activities,
    Missions,       \* today's daily missions of the child
    DailyLimit,     \* Activities -> Nat, 0 = unlimited (null is 1)
    BasePoints,     \* Activities -> Nat, after the multipliers
    StreakBonus,    \* bonus of the first record of the day
    MissionBonus,   \* bonus for completing every mission
    SpendAmounts,   \* points a reward or a conversion costs
    GrantAmounts,   \* points of an unconditional grant
    Opening,        \* the ledger entry that holds the opening balance
    OpeningBalance,
    OpeningMastery  \* Activities -> Nat, records before the modelled day

ASSUME ConstantsAssumption ==
    /\ IsFiniteSet(Requests)
    /\ IsFiniteSet(Missions)
    /\ DailyLimit \in [Activities -> Nat]
    /\ BasePoints \in [Activities -> Nat]
    /\ StreakBonus \in Nat
    /\ MissionBonus \in Nat
    /\ SpendAmounts \subseteq Nat
    /\ GrantAmounts \subseteq Nat
    /\ Opening \notin Requests
    /\ OpeningBalance \in Nat
    /\ OpeningMastery \in [Activities -> Nat]

Entries == Requests \cup {Opening}

-----------------------------------------------------------------------------
(* The mastery bonus, floor(level / 5), as a step function of the count:   *)
(* level 5k is reached at the k-th of these counts, level 99 at 9999.      *)
(* MCDaily compares it with the level table of the source.               *)
BonusSteps == {30, 170, 520, 1120, 2080, 3570, 5770, 8720}

MasteryBonusAt(count) ==
    IF count >= 9999 THEN 19 ELSE Cardinality({n \in BonusSteps : n <= count})

(* calcMasteryBonusRefundOnCancel: the bonus of the level before the       *)
(* record that brought the count to postRecordCount.                       *)
MasteryRefund(postRecordCount) ==
    IF postRecordCount <= 0 THEN 0 ELSE MasteryBonusAt(postRecordCount - 1)

(* clampDecayFloor: XP never drops below 70% of its peak, rounded by       *)
(* Math.round, which takes a few halves down in floating point (bound:     *)
(* those below a peak of 325).                                             *)
HalvesRoundedDown == {45, 85, 165, 175}

DecayFloor(peak) == (7 * peak + (IF peak \in HalvesRoundedDown THEN 0 ELSE 5)) \div 10

RevertXp(xp, refund, peak) ==
    LET clamped == IF xp - refund >= DecayFloor(peak) THEN xp - refund ELSE DecayFloor(peak)
    IN  IF clamped >= 0 THEN clamped ELSE 0

-----------------------------------------------------------------------------
NoRequest == [op |-> "none"]

(* The inputs each service function hands to its transaction.              *)
RecordRequest  == [op : {"record"}, activity : Activities, points : Nat, streak : Nat, bonus : Nat]
CancelRequest  == [op : {"cancel"}, log : Requests, refund : Int, hasCategory : BOOLEAN]
SpendRequest   == [op : {"spend"}, amount : Nat]
EntryRequest   == [op : {"entry"}, amount : Int]
MissionRequest == [op : {"mission"}, mission : Missions]
DeleteRequest  == [op : {"delete"}]

Request == RecordRequest \cup CancelRequest \cup SpendRequest \cup EntryRequest
             \cup MissionRequest \cup DeleteRequest

(* The amount column of the ledger entry that request r inserts.           *)
Amount(r) ==
    CASE r.op = "record"  -> r.points + r.streak + r.bonus
      [] r.op = "cancel"  -> - r.refund
      [] r.op = "spend"   -> - r.amount
      [] r.op = "entry"   -> r.amount
      [] r.op = "mission" -> MissionBonus
      [] OTHER            -> 0

-----------------------------------------------------------------------------
(* The child's rows: children (exists, total), activity_logs, point_ledger *)
(* (the entries present; pruned is the sum retention has removed),         *)
(* activity_mastery, statuses (xp, peak) and daily_missions.               *)
Database ==
    [exists   : BOOLEAN,
     total    : Int,
     log      : [Requests -> {"absent", "active", "cancelled"}],
     ledger   : SUBSET Entries,
     pruned   : Int,
     mastery  : [Activities -> Nat],
     xp       : Nat,
     peak     : Nat,
     missions : [Missions -> {"absent", "open", "completed"}]]

OpeningDb ==
    [exists   |-> TRUE,
     total    |-> OpeningBalance,
     log      |-> [c \in Requests |-> "absent"],
     ledger   |-> {Opening},
     pruned   |-> 0,
     mastery  |-> OpeningMastery,
     xp       |-> 0,
     peak     |-> 0,
     missions |-> [m \in Missions |-> "open"]]

ActiveLogs(d, req, a) ==
    {c \in Requests : d.log[c] = "active" /\ req[c].activity = a}

LimitReached(d, req, a) ==
    DailyLimit[a] # 0 /\ Cardinality(ActiveLogs(d, req, a)) >= DailyLimit[a]

LimitReason(a) == IF DailyLimit[a] = 1 THEN "ALREADY_RECORDED" ELSE "DAILY_LIMIT_REACHED"

OpenMissions(d) == {m \in Missions : d.missions[m] = "open"}

-----------------------------------------------------------------------------
(* What each transaction makes of the current rows cur, when it saw the    *)
(* rows seen.  The UPDATE of children matches no row when the child is     *)
(* gone: only record and mission leave that unchecked.                     *)
AddPoints(cur, seen, amount) ==
    IF seen.exists THEN seen.total + amount ELSE cur.total

Recorded(cur, seen, c, r) ==
    LET xp == seen.xp + Amount(r)
    IN  [cur EXCEPT !.log[c] = "active",
                    !.mastery[r.activity] = seen.mastery[r.activity] + 1,
                    !.ledger = @ \cup {c},
                    !.total = AddPoints(cur, seen, Amount(r)),
                    !.xp = xp,
                    !.peak = IF xp >= seen.peak THEN xp ELSE seen.peak]

Cancelled(cur, seen, c, r, a) ==
    [cur EXCEPT !.log[r.log] = "cancelled",
                !.mastery[a] = IF seen.mastery[a] > 0 THEN seen.mastery[a] - 1 ELSE @,
                !.ledger = @ \cup {c},
                !.total = seen.total + Amount(r),
                !.xp = IF r.hasCategory THEN RevertXp(seen.xp, r.refund, seen.peak) ELSE @]

(* Variant: the entry is written and the balance is not.                   *)
PostedEntryOnly(cur, seen, c, r) == [cur EXCEPT !.ledger = @ \cup {c}]

Posted(cur, seen, c, r) ==
    [cur EXCEPT !.ledger = @ \cup {c}, !.total = seen.total + Amount(r)]

(* The bonus goes to the transaction that completes the last open mission. *)
CompletesAll(seen, m) == OpenMissions(seen) = {m}

MissionCompleted(cur, seen, c, r) ==
    IF seen.missions[r.mission] # "open" THEN cur
    ELSE IF ~CompletesAll(seen, r.mission)
         THEN [cur EXCEPT !.missions[r.mission] = "completed"]
         ELSE [cur EXCEPT !.missions[r.mission] = "completed",
                          !.ledger = @ \cup {c},
                          !.total = AddPoints(cur, seen, MissionBonus)]

(* deleteChild: every row of the child goes in one transaction.            *)
ChildDeleted(cur) ==
    [cur EXCEPT !.exists = FALSE,
                !.total = 0,
                !.log = [c \in Requests |-> "absent"],
                !.ledger = {},
                !.pruned = 0,
                !.mastery = [a \in Activities |-> 0],
                !.xp = 0,
                !.peak = 0,
                !.missions = [m \in Missions |-> "absent"]]

=============================================================================
