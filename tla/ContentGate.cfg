SPECIFICATION Spec
CONSTANTS
    MaxCrashes = 1
    People = {ann, bob, cat}
    Analysts = {ann, bob, cat}
    Approvers = {bob, cat}
    Grants = {g1}
    Accesses = {x1, x2}
    Nobody = nobody
    DualApproval = TRUE
    TriageAllowed = TRUE
INVARIANTS
    TypeOK
    RecordedGrantIsSpent
    GrantUsedMeansRead
    MissingBodyIsDue
PROPERTIES
    TextReturnsOnlyByRace
    TwoPeopleOpen
    DueIsPurged
CHECK_DEADLOCK FALSE
