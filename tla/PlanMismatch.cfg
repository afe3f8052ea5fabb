CONSTANTS
    Values = {"g", "x", "d", "e", "p", "q", "h", "b", "c", "k", "n"}
    Own = {"g", "d", "e", "p", "q", "h", "b", "c", "k", "n"}
    Optional = {"n"}
    Kind <- MCKind
    Source <- MCSource
    Minimum <- MCMinimum
    Requested <- MCMismatch
    Receivers = {1, 2}
    MaxDeployments = 1
    MaxEvents = 0
SPECIFICATION ExchangeSpec
INVARIANT MismatchStopsNothing
CHECK_DEADLOCK FALSE
