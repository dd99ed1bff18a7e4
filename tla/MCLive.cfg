CONSTANTS
    alice = alice
    bob = bob
    sock = sock
    a1 = a1
    a2 = a2
    r1 = r1
    r2 = r2
    t1 = t1
    t2 = t2
    t3 = t3
    HerdrAgents = {alice, bob}
    SocketWaiters = {}
    Asks = {a2}
    Replies = {r2}
    Tells = {}
    Waiting <- MCWaiting
    Owing <- MCOwing
    PullAsks = {a2}
    ReplyTo <- MCReplyTo
    Final = {r2}
    TellTo <- MCTellTo
    Key <- MCKey
    Firings = {}
    PrepareAsks = {}
    Work <- MCWork
    Schedules = {"later"}
    MaxIncarnation = 1
    MaxCrashes = 1
    MaxParked = 9
    MaxPrompts = 9
SPECIFICATION FairSpec
PROPERTIES StrandedAskSettles DueDeliveryLeavesQueue
CHECK_DEADLOCK FALSE
