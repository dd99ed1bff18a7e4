CONSTANTS
    a1 = a1
    a2 = a2
    n1 = n1
    n2 = n2
    p1 = p1
    p2 = p2
    c1 = c1
    c2 = c2
    Agents = {a1, a2}
    Names = {n1, n2}
    Panes = {p1, p2}
    Clients = {c1, c2}
    Boot = Boot
    Requests <- MCRequests
    NoAgent = NoAgent
    NoName = NoName
    FirstAgent = a1
    FirstName = n1
    FirstPane = p1
    MaxIncs = 3
    MaxRuns = 3
    MaxWorld = 1
    MaxFaults = 1
    MaxCrashes = 1
SPECIFICATION MCSpec
INVARIANTS TypeOK RetiredMeansGone AtMostOneLaunch FailedStartLeftNothing
PROPERTIES RecoveryLeavesLiveWork ContinuesOnlyTheStopped
CHECK_DEADLOCK FALSE
