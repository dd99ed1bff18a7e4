CONSTANTS
    c1 = c1
    c2 = c2
    c3 = c3
    Clients = {c1, c2, c3}
    Asks <- MCAsks
    Workers = {"w1", "w2"}
    Panes = {"p1", "p2"}
    PanesOf <- MCPanesOf
    NoJob = NoJob
SPECIFICATION FairSpec
INVARIANTS TypeOK LaneIsExclusive SnapshotIsFresh
PROPERTIES NoWriteAfterVerdict EveryClientIsReleased
CHECK_DEADLOCK FALSE
