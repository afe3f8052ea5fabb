CONSTANTS
    t1 = t1
    t2 = t2
    r1 = r1
    r2 = r2
    Requests = {r1}
    Sessions <- MCSessions
    Tuis = {t1, t2}
    Owners <- MCOwners
    Nobody = Nobody
    MaxPending = 1
    Kinds = {"secrets"}
SPECIFICATION Spec
CHECK_DEADLOCK FALSE
INVARIANT OverIsDropped
