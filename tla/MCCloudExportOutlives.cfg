\* A build that takes more than ten minutes.
CONSTANTS
    MaxExports = 2
    Quota = 1
    MaxDownloads = 1
    Expiring = {1}
    RunLimit = 1
    Workers = {w1, w2}
    Sessions = {s1}
    Outlives = TRUE
    Refuses = TRUE
    NoWorker = NoWorker
SPECIFICATION ExportSpec
INVARIANT BuiltByOne
CHECK_DEADLOCK FALSE
