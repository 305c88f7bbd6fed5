\* A page paid at Stripe that the row does not show when the erasure asks.
CONSTANTS
    Tenants = {1, 2}
    Grace <- MCGrace
    PurgeLimit = 2
    Reliable = {2}
    MaxDay = 3
    MaxTurns = 3
SPECIFICATION LeavingSpec
PROPERTY NeverErasedWhileBilled
CHECK_DEADLOCK FALSE
