SPECIFICATION Spec
CONSTANTS
    Root = root
    Users = {root, bo}
    Tokens = {k1, k2}
    Txns = {t1, t2}
    Grantable = {"analyst", "admin"}
    MaxEdits = 3
INVARIANTS
    TypeOK
    SessionsEndAtRevocation
PROPERTIES
    AdminsLostOnlyByRace
SYMMETRY Interchangeable
CHECK_DEADLOCK FALSE
