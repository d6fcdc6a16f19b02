SPECIFICATION Spec
CONSTANTS
    Queues = {office}
    Uris = {u1, u2}
    Jobs = {j1}
    Requests = {t1, t2}
    Viewers = {v1}
    Gone = gone
    ClientUri = clientUri
    MaxEdits = 3
INVARIANTS
    TypeOK
    OkMeansInspected
    OkMeansUnshared
    NoStrandedDevice
    HeldJobsSurviveDelete
    ReportIsTrue
SYMMETRY Interchangeable
CHECK_DEADLOCK FALSE
