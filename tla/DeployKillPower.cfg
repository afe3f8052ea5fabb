CONSTANTS
    Procs = {p1}
    Ids <- MCIds
    NoId = NoId
    Nobody = Nobody
    Retained = 2
    Faults <- MCKillPower
    MonotoneClock = TRUE
SPECIFICATION Spec
INVARIANTS JointAtomicity
