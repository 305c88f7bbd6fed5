------------------------------- MODULE Mastery -------------------------------
(***************************************************************************)
(* The mastery level of an activity (domain/validation/activity.ts): its   *)
(* level table, the bonus a level earns, and a child who records the       *)
(* activity and takes the latest record back.  PointDb uses the bonus as a *)
(* step function of the count; here it comes from the table.               *)
(***************************************************************************)
EXTENDS Integers, Sequences, FiniteSetsExt

CONSTANTS
    MaxCount,       \* bound on the records before the first modelled one
    MaxRecords      \* bound on the records not yet cancelled

MasteryAssumption == MaxCount \in Nat /\ MaxRecords \in Nat

VARIABLES
    count,      \* activity_mastery.total_count
    granted,    \* the bonus of each record that still stands, oldest first
    bonuses     \* what the mastery bonuses add to the balance

vars == <<count, granted, bonuses>>

-----------------------------------------------------------------------------
(* MASTERY_LEVEL_TABLE: level n is reached at the n-th count; after level  *)
(* 40 comes level 99.                                                      *)
MinCounts ==
    <<0, 5, 10, 20, 30, 50, 70, 100, 130, 170, 220, 280, 350, 430, 520, 620, 730,
      850, 980, 1120, 1280, 1450, 1640, 1850, 2080, 2330, 2600, 2900, 3220, 3570,
      3950, 4360, 4800, 5270, 5770, 6300, 6860, 7450, 8070, 8720>>

MasteryLevelTable ==
    {[minCount |-> MinCounts[n], level |-> n] : n \in DOMAIN MinCounts}
      \cup {[minCount |-> 9999, level |-> 99]}

(* The last entry of the table the count has reached.                      *)
calcMasteryLevel(totalCount) ==
    Max({1} \cup {e.level : e \in {t \in MasteryLevelTable : totalCount >= t.minCount}})

(* Variant: an entry further on is taken for the next one.                 *)
countToNextMasteryLevelFar(totalCount) ==
    LET level == calcMasteryLevel(totalCount)
        next == {t \in MasteryLevelTable : t.level = level + 2}
    IN  IF next = {} THEN 0 ELSE (CHOOSE t \in next : TRUE).minCount - totalCount

(* 0 when the table has no entry for the next level.                       *)
countToNextMasteryLevel(totalCount) ==
    LET level == calcMasteryLevel(totalCount)
        next == {t \in MasteryLevelTable : t.level = level + 1}
    IN  IF next = {} THEN 0 ELSE (CHOOSE t \in next : TRUE).minCount - totalCount

calcMasteryBonus(level) == level \div 5

(* Variant: the bonus of the level after the record.                       *)
RefundOfNewLevel(postRecordCount) == calcMasteryBonus(calcMasteryLevel(postRecordCount))

calcMasteryBonusRefundOnCancel(postRecordCount) ==
    IF postRecordCount <= 0 THEN 0
    ELSE calcMasteryBonus(calcMasteryLevel(postRecordCount - 1))

-----------------------------------------------------------------------------
Init ==
    /\ count \in 0 .. MaxCount
    /\ granted = <<>>
    /\ bonuses = 0

(* The bonus of the level before the record.                               *)
Record ==
    /\ Len(granted) < MaxRecords
    /\ LET bonus == calcMasteryBonus(calcMasteryLevel(count))
       IN  /\ granted' = Append(granted, bonus)
           /\ bonuses' = bonuses + bonus
    /\ count' = count + 1

(* The latest record is cancelled.                                         *)
CancelLatest ==
    /\ granted # <<>>
    /\ granted' = SubSeq(granted, 1, Len(granted) - 1)
    /\ bonuses' = bonuses - calcMasteryBonusRefundOnCancel(count)
    /\ count' = count - 1

Next == Record \/ CancelLatest

Spec == Init /\ [][Next]_vars

-----------------------------------------------------------------------------
(* Cancelling the latest record gives back exactly its mastery bonus, at   *)
(* every count and across every level: what remains is the sum of the      *)
(* bonuses of the records that stand.                                      *)
LatestCancelIsExact ==
    bonuses = MapThenSumSet(LAMBDA i : granted[i], DOMAIN granted)

(* The announced number of records does reach the next level, and no       *)
(* smaller number does.                                                    *)
NextLevelIsReached ==
    LET more == countToNextMasteryLevel(count)
    IN  more > 0 =>
            /\ calcMasteryLevel(count + more) > calcMasteryLevel(count)
            /\ calcMasteryLevel(count + more - 1) = calcMasteryLevel(count)

(* The comment in countToNextMasteryLevel: 0 says that the level is 99,    *)
(* the cap.                                                                *)
ZeroOnlyAtTheCap == countToNextMasteryLevel(count) = 0 => calcMasteryLevel(count) = 99

=============================================================================
