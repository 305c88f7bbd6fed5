\* Is a request that exists found?  The list holds one row here.
CONSTANTS
    r1 = r1
    r2 = r2
    p1 = p1
    p2 = p2
    snack = snack
    film = film
    Requests = {r1, r2}
    Parents = {p1, p2}
    Rewards = {snack, film}
    Cost <- MCCost
    InitialBalance = 2
    MaxBalance = 2
    ListLimit = 1
SPECIFICATION Spec
SYMMETRY MCSymmetry
PROPERTY NotFoundMeansAbsent
CHECK_DEADLOCK FALSE
