CONSTANTS
    Findings <- MCFindingsCaps
    Satisfied <- MCSatisfiedCaps
    TmpWriters <- MCTmpWriters
    Plans <- MCPlans
    MaxJourneys = 1
    MaxResumes = 0
SPECIFICATION FairSpec
INVARIANTS
    CompletedWasDecided
CHECK_DEADLOCK FALSE
