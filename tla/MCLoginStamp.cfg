\* Two requests at a time, cards of two stamps, a week of three days and the days after it.
CONSTANTS
    LastDay = 4
    WeekDays = 3
    Slots = 2
    Sessions = {s1, s2}
    MaxCalls = 4
    Calls = {"loginStamp", "redeemStampCard"}
    MaxLost = 1
SPECIFICATION Spec
SYMMETRY MCSymmetry
INVARIANT CardPaid
INVARIANT TypeOK
INVARIANT StreakCountsDays
INVARIANT LoginPaidOnce
INVARIANT StampPaid
INVARIANT LastWeekSettled
CHECK_DEADLOCK FALSE
