SPECIFICATION FairSpec
CONSTANTS
    Threads = {t1, t2, t3}
    NoJob = NoJob
    Handlers = {"answers", "calls"}
    MaxJobs = 3
INVARIANT OnlyLateJobsAreLost
PROPERTY CloseReleases
CHECK_DEADLOCK FALSE
