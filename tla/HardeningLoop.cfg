CONSTANTS
    Findings <- MCFindings
    Satisfied <- MCSatisfied
    TmpWriters <- MCTmpWriters
    MaxJourneys = 2
SPECIFICATION FairSpec
INVARIANTS
    SearchIsOrderly
    FinalIsEarned
PROPERTIES
    Ends
CHECK_DEADLOCK FALSE
