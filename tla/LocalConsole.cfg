CONSTANTS
    j1 = j1
    j2 = j2
    Jobs <- MCJobs
    NoJob = NoJob
    MaxHistory = 1
    MaxServes = 2
SPECIFICATION FairSpec
INVARIANTS
    SingleFlight
    StopIsClean
    CompletedIsEarned
PROPERTIES
    JobsEnd
CHECK_DEADLOCK FALSE
