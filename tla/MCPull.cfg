CONSTANTS
    alice = alice
    bob = bob
    sock = sock
    a1 = a1
    a2 = a2
    r1 = r1
    r2 = r2
    t1 = t1
    t2 = t2
    t3 = t3
    HerdrAgents = {alice, bob}
    SocketWaiters = {}
    Asks = {a2}
    Replies = {}
    Tells = {t1, t3}
    Waiting <- MCWaiting
    Owing <- MCOwing
    PullAsks = {a2}
    ReplyTo <- MCReplyTo
    Final = {}
    TellTo <- MCTellTo
    Key <- MCKey
    Firings = {t3}
    PrepareAsks = {}
    Work = {}
    Schedules = {"later", "due"}
    MaxIncarnation = 1
    MaxCrashes = 1
    MaxParked = 2
    MaxPrompts = 2
SPECIFICATION Spec
INVARIANTS TypeOK AtMostOneWrite KeyLandsOnce OutcomeIsHonest LiveWriteIsSubmitted
PROPERTIES SettledDeliveryStays
CONSTRAINTS FewParked FewPrompts
CHECK_DEADLOCK FALSE
