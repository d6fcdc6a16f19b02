SPECIFICATION Spec
CONSTANTS
    Analysts = {a1}
    Documents <- TwoDocuments
    Policies <- AllQueues
    MaxRuns = 2
    Disturbances = {"spool_reset"}
INVARIANTS
    ClearanceIsForThisDocument
CHECK_DEADLOCK FALSE
