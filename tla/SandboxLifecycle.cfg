CONSTANTS
    s1 = s1
    s2 = s2
    Sandboxes <- MCSandboxes
    NoSandbox = NoSandbox
SPECIFICATION FairSpec
INVARIANTS
    SandboxesAreAccounted
    FailClosed
    EvidenceIsTrue
PROPERTIES
    NoCreateAfterCancel
    EverySessionEnds
    ImplementsOwnership
CHECK_DEADLOCK FALSE
