CONSTANTS
    alice = alice
    bob = bob
    a1 = a1
    r1 = r1
    r2 = r2
    HerdrAgents = {alice, bob}
    SocketWaiters = {}
    Asks = {a1}
    Replies = {r1, r2}
    Tells = {}
    Waiting <- MCWaiting
    Owing <- MCOwing
    PullAsks = {}
    ReplyTo <- MCReplyTo
    Final = {r1, r2}
    TellTo <- MCTellTo
    Key <- MCKey
    Firings = {}
    PrepareAsks = {a1}
    Work = {}
    Schedules = {"now"}
    MaxIncarnation = 1
    MaxCrashes = 1
    MaxParked = 2
SPECIFICATION Spec
INVARIANTS ResolvedByAcceptedFinal AcceptedPromptFinalResolves
PROPERTIES KeepsReplyContract
CONSTRAINT FewParked
CHECK_DEADLOCK FALSE
SYMMETRY SymmetricReplies
