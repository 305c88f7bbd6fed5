\* Two requests, for the same reward or different ones, and two parent calls; every call may have been made.
CONSTANTS
    r1 = r1
    r2 = r2
    p1 = p1
    p2 = p2
    snack = snack
    film = film
    Requests = {r1, r2}
    Parents = {p1, p2}
    Rewards = {snack, film}
    Cost <- MCCost
    InitialBalance = 2
    MaxBalance = 2
    ListLimit = 50
SPECIFICATION Spec
SYMMETRY MCSymmetry
INVARIANT TypeOK
INVARIANT OnePendingPerReward
INVARIANT ApprovedWasCharged
INVARIANT NoPhantomRequest
INVARIANT SoleDecisionIsExact
CHECK_DEADLOCK FALSE
