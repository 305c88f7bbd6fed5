\* Two runs of the job, two requests at a time, a plan that keeps one export.
CONSTANTS
    MaxExports = 2
    Quota = 1
    MaxDownloads = 1
    Expiring = {1}
    RunLimit = 1
    Workers = {w1, w2}
    Sessions = {s1, s2}
    Outlives = FALSE
    Refuses = TRUE
    NoWorker = NoWorker
SPECIFICATION ExportSpec
SYMMETRY ExportSymmetry
INVARIANT FilesFollowRows
INVARIANT BuiltByOne
INVARIANT QuotaNearlyKept
CHECK_DEADLOCK FALSE
