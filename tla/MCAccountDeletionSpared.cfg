\* A restore request is under way when its tenant expires, and a run has listed it.
CONSTANTS
    Tenants = {1, 2}
    Grace <- MCGrace
    PurgeLimit = 2
    Reliable = {2}
    MaxDay = 3
    MaxTurns = 2
SPECIFICATION LeavingSpec
PROPERTY RestoredIsSpared
CHECK_DEADLOCK FALSE
