\* Events in any order, two handlers that overlap.
CONSTANTS
    s1 = s1
    s2 = s2
    standard = standard
    Subs = {s1, s2}
    Plans = {standard}
    MaxChanges = 3
    MaxHandlers = 2
SPECIFICATION Spec
SYMMETRY MCSymmetry
INVARIANT ColumnsAgree
INVARIANT RowShowsItsContract
CHECK_DEADLOCK FALSE
