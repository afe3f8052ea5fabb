CONSTANTS
    Procs = {p1, p2}
    Ids <- MCIdsTwo
    NoId = NoId
    Nobody = Nobody
    Retained = 1
    Faults <- MCKillIo
    MonotoneClock = FALSE
SPECIFICATION CrashSpec
INVARIANTS IndInv JointAtomicity ViewIsCurrent
PROPERTIES ImplementsJointPublish EveryOperationEnds
