SPECIFICATION Spec
CONSTANTS
    Rules = {shipped, local}
    Validators = {badge}
    Shipped = {shipped}
    Editors = {e1, e2}
    None = none
    MaxClock = 2
INVARIANTS
    TypeOK
    StaleRulesOnlyByRace
    RulesResolve
SYMMETRY Interchangeable
CHECK_DEADLOCK FALSE
