------------------------------ MODULE MCDaily ------------------------------
(***************************************************************************)
(* Three small parts of a child's day in one run: the challenge of the     *)
(* week, a checklist, the mastery of an activity.  They share no row but   *)
(* the balance, and no property relates one to another, so each moves      *)
(* while the others rest.                                                  *)
(***************************************************************************)
EXTENDS Challenge, TLC

CONSTANTS
    Items, Given, PerItem, Bonus, MaxEdits, MaxLost, MaxPosted,     \* Checklist
    MaxCount, MaxStanding                                           \* Mastery

VARIABLES
    items, log, posted, tick, edits, lost, crossed, shifted,        \* Checklist
    count, granted, bonuses                                         \* Mastery

List  == INSTANCE Checklist WITH request <- tick, raced <- crossed
Skill == INSTANCE Mastery   WITH MaxRecords <- MaxStanding

ASSUME DailyAssumption == List!ChecklistAssumption /\ Skill!MasteryAssumption

listVars  == <<items, log, posted, tick, edits, lost, crossed, shifted>>
skillVars == <<count, granted, bonuses>>

MCInit == Init /\ List!Init /\ Skill!Init

SkillRests == count = 0 /\ granted = <<>>

MCNext == \/ Next       /\ SkillRests /\ List!Init  /\ UNCHANGED <<listVars, skillVars>>
          \/ List!Next  /\ SkillRests /\ Init       /\ UNCHANGED <<vars, skillVars>>
          \/ Skill!Next /\ Init       /\ List!Init  /\ UNCHANGED <<vars, listVars>>

MCSpec == MCInit /\ [][MCNext]_<<vars, listVars, skillVars>>

\* The ledger agrees with the log of a checklist (Checklist).
ChecklistPaid == List!ChecklistPaid

Db == INSTANCE PointDb WITH
    Requests <- {}, Activities <- {}, Missions <- {}, DailyLimit <- <<>>, BasePoints <- <<>>,
    StreakBonus <- 0, MissionBonus <- 0, SpendAmounts <- {}, GrantAmounts <- {},
    Opening <- 0, OpeningBalance <- 0, OpeningMastery <- <<>>

\* The step functions PointDb uses for bonus and refund are those of the table.
StepsMatchTable ==
    /\ Db!MasteryBonusAt(count) = Skill!calcMasteryBonus(Skill!calcMasteryLevel(count))
    /\ Db!MasteryRefund(count) = Skill!calcMasteryBonusRefundOnCancel(count)

\* Cancelling the latest record gives back its mastery bonus, at every count (Mastery), and
\* the point transactions pay and refund the same.
LatestCancelIsExact == Skill!LatestCancelIsExact /\ StepsMatchTable

\* The announced number of records reaches the next level (Mastery).
NextLevelIsReached == Skill!NextLevelIsReached

\* What Checklist and Mastery say of promises that are not kept.
PaidAsShown      == List!PaidAsShown
ZeroOnlyAtTheCap == Skill!ZeroOnlyAtTheCap

----------------------------------------------------------------------------
MCSymmetry == Permutations(Sessions) \cup Permutations(Given)
=============================================================================
