CONSTANTS
    r1 = r1
    r2 = r2
    c1 = c1
    d1 = d1
    p1 = p1
    p2 = p2
    Procs = {p1, p2}
    Labels = {"a"}
    MaxProcedures = 1
    MaxStep = 2
    MaxStream = 2
    MaxReports = 1
    Requests = {r1, r2, d1, c1}
    Deployments = {d1}
    Confirmations = {c1}
    Alone = Alone
    Home <- MCHome
    Declared <- MCDeclared
    Paths = {a}
    Threads = {t1, t2}
    Profiles = {n1, n2}
    MaxProfiles = 1
    MaxQuarantine = 1
    FeedLimit = 1
    MaxVersion = 2
    MaxStoreFaults = 1
    MaxEdit = 2
    MaxOther = 1
    MaxCommits = 2
    MaxSaves = 2
    Asks = {r1, r2}
    ReminderAt = 1
    Deadlines = {0, 2}
    MaxNow = 1
    MaxScreen = 3
    MaxBusFaults = 1
SPECIFICATION ComponentsSpec
VIEW SceneView
INVARIANTS NothingWaitsUnseen LatestStepKnown ViewConverges RecipientsSurvive CallsForOperator
PROPERTIES FailureIsSeen WritesKeepOthers OnlyManagedCommitted NoSilentLoss
CHECK_DEADLOCK FALSE
