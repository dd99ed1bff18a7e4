CONSTANTS
    alice = alice
    bob = bob
    sock = sock
    a1 = a1
    a2 = a2
    r1 = r1
    r2 = r2
    t1 = t1
    t2 = t2
    t3 = t3
    HerdrAgents = {bob}
    SocketWaiters = {sock}
    Asks = {a1}
    Replies = {r1, r2}
    Tells = {t2}
    Waiting <- MCWaiting
    Owing <- MCOwing
    PullAsks = {}
    ReplyTo <- MCReplyTo
    Final = {r1}
    TellTo <- MCTellTo
    Key <- MCKey
    Firings = {}
    PrepareAsks = {}
    Work = {}
    Schedules = {"later"}
    MaxIncarnation = 2
    MaxCrashes = 0
    MaxParked = 2
    MaxPrompts = 9
SPECIFICATION Spec
INVARIANTS NoSilentClose EndedWaiterIsDrained
CONSTRAINT FewParked
CHECK_DEADLOCK FALSE
