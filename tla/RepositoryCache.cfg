CONSTANTS
    t1 = t1
    t2 = t2
    k1 = k1
    k2 = k2
    NoTrial = NoTrial
    Trials <- MCTrials
    Keys <- MCKeys
    MaxEntries = 2
    MaxAttempts = 2
SPECIFICATION PinSpec
INVARIANTS
    PinnedIsWhole
    CacheIsBounded
    RetryIsAlone
PROPERTIES
    PinEnds
\* Once every trial has ended nothing happens.
CHECK_DEADLOCK FALSE
