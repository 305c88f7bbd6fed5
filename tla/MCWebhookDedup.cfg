\* Three deliveries within the horizon; the clock runs on until the row has been purged.
CONSTANTS
    d1 = d1
    d2 = d2
    d3 = d3
    Deliveries = {d1, d2, d3}
    Timeout = 1
    StaleAfter = 2
    Horizon = 4
    Retention = 5
    MaxTime = 12
SPECIFICATION WebhookSpec
SYMMETRY WebhookSymmetry
INVARIANT AppliedOnceUnlessCutOff
PROPERTY LeaseSpec
CHECK_DEADLOCK FALSE
