SPECIFICATION FairSpec
CONSTANTS
    Analysts = {a1}
    Documents <- CardOnly
    Policies <- AllQueues
    MaxRuns = 2
    Disturbances = {}
PROPERTIES
    DecisionsAreRecorded
CHECK_DEADLOCK FALSE
