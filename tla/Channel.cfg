CONSTANTS
    t1 = t1
    t2 = t2
    r1 = r1
    r2 = r2
    Requests = {r1, r2}
    Sessions <- MCSessions
    Tuis = {t1, t2}
    Owners <- MCOwners
    Nobody = Nobody
    MaxPending = 1
    Kinds = {"login", "closure", "confirm"}
SPECIFICATION MeetingSpec
INVARIANTS OneAsked NoneForgotten SlotsMatch ClosureOwner
PROPERTIES LeavingEnds
CHECK_DEADLOCK FALSE
