\* Three requests, checkouts or cut-offs.  Stripe never lets the first tenant go.
CONSTANTS
    Tenants = {1, 2}
    Grace <- MCGrace
    PurgeLimit = 2
    Reliable = {2}
    MaxDay = 3
    MaxTurns = 3
SPECIFICATION LeavingSpec
PROPERTY ErasedIsNotBilled
PROPERTY GraceIsServed
PROPERTY CarriedOverIsErased
CHECK_DEADLOCK FALSE
