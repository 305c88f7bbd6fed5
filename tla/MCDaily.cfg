\* All counts of the level table; two items, one of them given; a challenge of two records.
CONSTANTS
    MaxCount = 10100
    MaxStanding = 2
    Items = {i1, i2}
    Given = {i1}
    PerItem = 1
    Bonus = 1
    MaxEdits = 2
    MaxLost = 1
    MaxPosted = 3
    Target = 2
    MaxRecords = 4
    MaxMade = 2
    Sessions = {s1, s2}
SPECIFICATION MCSpec
SYMMETRY MCSymmetry
INVARIANT LatestCancelIsExact
INVARIANT NextLevelIsReached
INVARIANT ChecklistPaid
INVARIANT ChallengePaid
CHECK_DEADLOCK FALSE
