\* Two runs of the job that take two exports each, one request at a time, the schedule fair.
CONSTANTS
    MaxExports = 2
    Quota = 2
    MaxDownloads = 0
    Expiring = {}
    RunLimit = 2
    Workers = {w1, w2}
    Sessions = {s1}
    Outlives = FALSE
    Refuses = TRUE
    NoWorker = NoWorker
SPECIFICATION FairExportSpec
PROPERTY KeepsPromise
PROPERTY QueueSettles
CHECK_DEADLOCK FALSE
