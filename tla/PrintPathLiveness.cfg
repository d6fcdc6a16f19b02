SPECIFICATION FairSpec
CONSTANTS
    Analysts = {a1}
    Documents <- ScanAndPlot
    Policies <- MixedQueues
    MaxRuns = 2
    Disturbances <- LiveDisturbances
INVARIANTS
    PendingScanIsQueued
PROPERTIES
    BackendTerminates
    PendingScanEnds
CHECK_DEADLOCK FALSE
