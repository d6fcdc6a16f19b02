SPECIFICATION Spec
CONSTANTS
    Analysts = {a1}
    Documents <- LayeredDocuments
    Policies <- StrictQueues
    MaxRuns = 2
    Disturbances = {"inspector_error", "cupsd_restart"}
INVARIANTS
    RuleHoldSurvivesCleanOcr
CHECK_DEADLOCK FALSE
