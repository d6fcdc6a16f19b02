SPECIFICATION Spec
CONSTANTS
    Analysts = {a1}
    Documents <- KeyOnly
    Policies <- AllQueues
    MaxRuns = 1
    Disturbances = {}
INVARIANTS
    HeldRowMeansHeldJob
CHECK_DEADLOCK FALSE
