SPECIFICATION Spec
CONSTANTS
    Analysts = {a1}
    Documents <- CardOnly
    Policies <- AllQueues
    MaxRuns = 2
    Disturbances = {}
PROPERTIES
    GrantExistsWhenResumed
CHECK_DEADLOCK FALSE
