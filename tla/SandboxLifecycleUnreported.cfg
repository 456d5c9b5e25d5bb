CONSTANTS
    s1 = s1
    s2 = s2
    Sandboxes <- MCSandboxes
    NoSandbox = NoSandbox
SPECIFICATION Spec
INVARIANT UncleanIsReported
CHECK_DEADLOCK FALSE
