CONSTANTS
    Requests = {r1, r2}
    Sessions = {1, 2}
    Nobody = Nobody
    MaxRequests = 2
    MaxQueue = 2
    MaxFrontends = 8
    Tuis = {t1}
    MaxFaults = 0
    MaxWrites = 0
SPECIFICATION Spec
INVARIANT AnswerIsForClaim
