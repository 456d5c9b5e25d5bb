CONSTANTS
    Services <- MCServices
    Probed <- MCProbed
    Urls <- MCUrls
    MaxRedirects = 1
    Plans <- MCPlans
    MaxChanges = 1
SPECIFICATION FairSpec
INVARIANTS
    PassIsReady
    EvidenceIsExecution
    LedgerIsPaired
    TokenIsEarned
    RecordIsEarned
PROPERTY
    TrialEnds
CHECK_DEADLOCK FALSE
