CONSTANTS
    j1 = j1
    j2 = j2
    Jobs <- MCJobs
    NoJob = NoJob
    MaxHistory = 1
    MaxServes = 2
SPECIFICATION Spec
INVARIANT OneTrialAtATime
CHECK_DEADLOCK FALSE
