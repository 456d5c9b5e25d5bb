CONSTANTS
    MaxUses <- MCMaxUses
    MaxCancels <- MCMaxCancels
SPECIFICATION Spec
INVARIANTS
    LeftoverIsReported
    EvidenceIsTrue
    TemplateUsable
PROPERTIES
    InvocationEnds
    ImplementsCustody
\* A provider that lost custody, or an event loop that was torn down, stops.
CHECK_DEADLOCK FALSE
