\* As many tenants that Stripe never lets go as a run tries.
CONSTANTS
    Tenants = {1, 2}
    Grace <- MCGrace
    PurgeLimit = 1
    Reliable = {2}
    MaxDay = 3
    MaxTurns = 2
SPECIFICATION LeavingSpec
PROPERTY CarriedOverIsErased
CHECK_DEADLOCK FALSE
