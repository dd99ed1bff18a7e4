----------------------------- MODULE MCPickup ------------------------------
(* TLC instance of Messaging for the rows an agent picks up itself: an ask of *)
(* a socket waiter, a pull ask, a tell to each kind of recipient, and the     *)
(* firing of a recurring schedule.                                            *)
EXTENDS Messaging

CONSTANTS alice, bob, sock, a1, a2, r1, r2, t1, t2, t3, MaxParked, MaxPrompts

\* Bounds: prompts parked at the same time, and client prompts recorded at all.
FewParked == Cardinality({j \in Jobs : job[j] # "none"}) <= MaxParked
FewPrompts == Cardinality({m \in ClientMsgs : op[m] # "none"}) <= MaxPrompts

MCWaiting == [a \in Asks |-> IF a = a1 THEN sock ELSE alice]
MCOwing == [a \in Asks |-> bob]
\* Each instance has one ask, which all its replies answer.
MCReplyTo == [r \in Replies |-> CHOOSE a \in Asks : TRUE]
MCTellTo == [t \in Tells |-> IF t = t2 THEN sock ELSE bob]
\* The client uses one key for its ask and its tell, and another for replies; a
\* schedule's firing has a key of its own.
MCKey == [m \in ClientMsgs |-> IF m[2] \in Firings THEN 2
                          ELSE IF m[1] = "reply" THEN 1 ELSE 0]
\* A clear of the one who owes the answer; a start, say, of the one who waits.
MCWork == {<<"clear", bob>>, <<"other", alice>>}
============================================================================
