CONSTANTS
    k1 = k1
    k2 = k2
    n1 = n1
    n2 = n2
    a1 = a1
    a2 = a2
    r1 = r1
    r2 = r2
    Keys = {k1, k2}
    Names = {n1, n2}
    Agents = {a1, a2}
    MaxMsgs = 2
    Readers = {r1, r2}
    NoName = NoName
    FirstKey = k1
    FirstName = n1
    Grace = 3
    Wire = 1
    Budgets <- MCBudgets
SPECIFICATION Spec
INVARIANTS TypeOK WaiterNameExclusive
PROPERTIES ExpiredHadItsGrace QueuedLeaves PulledEventsAreAcked
CHECK_DEADLOCK FALSE
