---------------------------- MODULE MCMessaging ----------------------------
(* TLC instance of Messaging: one ask between two Herdr agents, and one or   *)
(* two final replies to it, each recorded under a key of its own.            *)
EXTENDS Messaging, TLC

CONSTANTS alice, bob, a1, r1, r2

CONSTANT MaxParked
\* Bound: prompts parked at the same time.
FewParked == Cardinality({j \in Jobs : job[j] # "none"}) <= MaxParked

MCWaiting == [a \in {a1} |-> alice]
MCOwing == [a \in {a1} |-> bob]
MCReplyTo == [r \in Replies |-> a1]
MCTellTo == [t \in {} |-> alice]
MCKey == [m \in ClientMsgs |-> m]
SymmetricReplies == Permutations(Replies)
============================================================================
