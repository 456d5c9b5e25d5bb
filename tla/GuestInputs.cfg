CONSTANTS
    v1 = v1
    v2 = v2
    Contents <- MCContents
    OverlaysOf <- MCOverlaysOf
    Baselines = 1
    MaxSlots = 3
    MaxResumes = 2
    MaxEdits = 1
SPECIFICATION FairSpec
INVARIANTS
    BootsAreEquipped
    BootedOverWholeHistory
    SatisfiedIsTrue
PROPERTIES
    InvocationEnds
\* A run that has ended, or that nobody resumes, stops.
CHECK_DEADLOCK FALSE
