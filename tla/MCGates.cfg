CONSTANTS
    c1 = c1
    p1 = p1
    Clears = {c1}
    n1 = n1
    r1 = r1
    Prompts = {p1, n1, r1}
    Notices = {n1}
    Reminders = {r1}
    Policies <- MCPolicies
    MaxCycles = 2
    MaxSessions = 1
    MaxCrashes = 1
SPECIFICATION MCSpec
INVARIANTS TypeOK ClearExcludesRenew OneClearPerCycle PolicyStaysArmed PrepareAskEndsWithCycle
PROPERTIES GatedWritesAwaitClear InjectedCycleEnds
CHECK_DEADLOCK FALSE
