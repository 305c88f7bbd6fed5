\* Two completions of missions that overlap.
CONSTANTS
    a1 = a1
    a2 = a2
    a3 = a3
    a4 = a4
    Activities = {a1, a2, a3, a4}
    Category <- MCCategory
    MissionCount = 3
    Recommended = {a1, a2}
    Played = {a1, a2, a3}
    Cancelled = {a3}
    MaxShort = 1
    LateLoads = FALSE
    Sessions = {s1, s2}
SPECIFICATION Spec
SYMMETRY MCSymmetry
INVARIANT MissionBonusOnce
CHECK_DEADLOCK FALSE
