CONSTANTS
    Procs = {p1, p2}
    Ids <- MCIds
    NoId = NoId
    Nobody = Nobody
    Retained = 2
    Faults <- MCPower
    MonotoneClock = TRUE
    Values = {"g", "x", "d", "e", "p", "q", "h", "b", "c", "k", "n"}
    Own = {"g", "d", "e", "p", "q", "h", "b", "c", "k", "n"}
    Optional = {"n"}
    Kind <- MCKind
    Source <- MCSource
    Minimum <- MCMinimum
    Requested <- MCRequested
    Receivers = {1, 2}
    MaxDeployments = 2
    MaxEvents = 1
    Defaults = {"d1", "d2"}
    MaxChanges = 2
    DeclaredSecrets <- MCSecrets
    StatusInterval = 2
    LogInterval = 3
    MaxPolls = 6
    MaxTreeChanges = 3
    e1 = e1
    e2 = e2
    k1 = k1
    Tuis = {t1, t2}
    HostKeys = {e1, e2, k1}
    Algorithm <- MCAlgorithm
    MaxScans = 3
    MaxMeddling = 2
    Frontends = {f1, f2}
    MaxLaunched = 3
    MaxEnds = 1
SPECIFICATION FilesSpec
VIEW SceneView
INVARIANTS NoDangling JointAtomicity AckedInstalled InstalledKeyWorks ReportIsRecent
           NoKeyReplaced KnownHostsWhole OneBroker
PROPERTIES ReportIsTrue InstalledIsKept DefaultYields
CHECK_DEADLOCK FALSE
