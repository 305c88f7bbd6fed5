\* Overlapping handlers: does a plan outlive its subscription?  (ReconcileNeverReplaces is refuted here, too.)
CONSTANTS
    s1 = s1
    s2 = s2
    standard = standard
    Subs = {s1, s2}
    Plans = {standard}
    MaxChanges = 3
    MaxHandlers = 2
SPECIFICATION Spec
SYMMETRY MCSymmetry
INVARIANT NoPlanWithoutContract
CHECK_DEADLOCK FALSE
