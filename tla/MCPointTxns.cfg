SPECIFICATION Spec
CONSTANTS
  r1 = r1
  r2 = r2
  r3 = r3
  r4 = r4
  walk = walk
  m1 = m1
  m2 = m2
  opening = opening
  Requests <- FourRequests
  Activities <- OneActivity
  Missions <- TwoMissions
  DailyLimit <- TwiceADay
  BasePoints <- Points
  StreakBonus = 2
  MissionBonus = 20
  SpendAmounts = {4}
  GrantAmounts = {10}
  Opening = opening
  OpeningBalance = 5
  OpeningMastery <- NearBonus
  MaxAttempts = 2
SYMMETRY Symmetry
INVARIANT DerivedColumnsAgree
INVARIANT DailyLimitHeld
INVARIANT NoDoubleRefund
INVARIANT MissionBonusExactlyOnce
PROPERTY SpendNeverOverdraws
PROPERTY LedgerSpec
CHECK_DEADLOCK FALSE
