CONSTANTS
    r1 = r1
    r2 = r2
    Runs <- MCRuns
    MaxStarts = 2
SPECIFICATION Spec
INVARIANTS
    AnswersAreTrue
PROPERTIES
    RowsAreAccounted
CHECK_DEADLOCK FALSE
