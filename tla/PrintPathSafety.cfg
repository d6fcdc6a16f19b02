SPECIFICATION Spec
CONSTANTS
    Analysts = {a1}
    Documents <- LayeredDocuments
    Policies <- StrictQueues
    MaxRuns = 2
    Disturbances <- RaceDisturbances
INVARIANTS
    TypeOK
    PrintNeedsAuthority
    GapIsNotClean
    ReprintsFollowBreaks
CHECK_DEADLOCK FALSE
