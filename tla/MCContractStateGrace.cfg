\* One handler after the other: does the grace keep its date?
CONSTANTS
    s1 = s1
    s2 = s2
    standard = standard
    Subs = {s1, s2}
    Plans = {standard}
    MaxChanges = 4
    MaxHandlers = 1
SPECIFICATION Spec
SYMMETRY MCSymmetry
PROPERTY GraceDateStands
CHECK_DEADLOCK FALSE
