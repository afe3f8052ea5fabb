CONSTANTS
    Requests = {r1, r2}
    Sessions = {1, 2, 3}
    Nobody = Nobody
    MaxRequests = 2
    MaxQueue = 2
    MaxFrontends = 8
    Tuis = {t1}
    MaxFaults = 1
    MaxWrites = 0
SPECIFICATION Spec
INVARIANTS TypeOK PendingOffered ClaimsAreOwned SentOnce ReviewIsOfClaim ApprovedWasApplied ClaimIsAtHand CompletedIsOver
PROPERTIES AnswersAreFinal
SYMMETRY Interchangeable
