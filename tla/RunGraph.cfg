CONSTANTS
    Findings <- MCFindings
    Satisfied <- MCSatisfied
    TmpWriters <- MCTmpWriters
    Plans <- MCPlans
    MaxJourneys = 1
    MaxResumes = 1
SPECIFICATION FairSpec
INVARIANTS
    DiskIsReplayable
    CompletedIsEarned
    StageHistoryFits
PROPERTIES
    RepetitionIsHarmless
    InvocationsEnd
    ImplementsLoop
CHECK_DEADLOCK FALSE
