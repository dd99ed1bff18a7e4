CONSTANTS
    alice = alice
    bob = bob
    a1 = a1
    r1 = r1
    r2 = r2
    HerdrAgents = {alice, bob}
    SocketWaiters = {}
    Asks = {a1}
    Replies = {r1}
    Tells = {}
    Waiting <- MCWaiting
    Owing <- MCOwing
    PullAsks = {}
    ReplyTo <- MCReplyTo
    Final = {r1}
    TellTo <- MCTellTo
    Key <- MCKey
    Firings = {}
    PrepareAsks = {}
    Work = {}
    Schedules = {"now"}
    MaxIncarnation = 1
    MaxCrashes = 1
    MaxParked = 2
SPECIFICATION Spec
PROPERTIES InFlightFinalHoldsOrphan
CHECK_DEADLOCK FALSE
