CONSTANTS
    Requests = {r1}
    Sessions = {1, 2, 3}
    Nobody = Nobody
    MaxRequests = 2
    MaxQueue = 2
    MaxFrontends = 8
    Tuis = {t1}
    MaxFaults = 1
    MaxWrites = 1
SPECIFICATION FairSpec
PROPERTIES PendingIsTaken
