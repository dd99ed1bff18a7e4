--------------------------- MODULE ReplyContract ---------------------------
(***************************************************************************)
(* What Kelpie promises about a reply obligation, without saying how a     *)
(* reply travels: an ask is opened once; it is settled at most once; it is *)
(* resolved only in the step in which the waiter receives a final reply to *)
(* that very ask, and that reply is recorded as the answer; otherwise it   *)
(* may be closed, and a settled ask never changes again.                   *)
(***************************************************************************)
CONSTANTS Asks, Replies, ReplyTo, Final

VARIABLES
    state,     \* of each ask's obligation
    answer,    \* the final reply that resolved the ask, as a set
    received   \* final replies the waiter has received

contract == <<state, answer, received>>

Waits(a) == state[a] \in {"open", "in_progress"}

Init ==
    /\ state = [a \in Asks |-> "none"]
    /\ answer = [a \in Asks |-> {}]
    /\ received = {}

Stay(a) == state'[a] = state[a] /\ answer'[a] = answer[a]

Open(a) ==
    /\ state[a] = "none"
    /\ state'[a] = "open"
    /\ answer'[a] = answer[a]

Progress(a) ==
    /\ Waits(a)
    /\ state'[a] = "in_progress"
    /\ answer'[a] = answer[a]

Answer(a) ==
    /\ Waits(a)
    /\ state'[a] = "resolved"
    /\ \E r \in Final :
          /\ ReplyTo[r] = a
          /\ r \notin received
          /\ r \in received'
          /\ answer'[a] = {r}

\* Cancelled by someone, or orphaned by Kelpie.
Close(a) ==
    /\ Waits(a)
    /\ state'[a] \in {"cancelled", "orphaned"}
    /\ answer'[a] = answer[a]

\* Ending a waiter or one absence sweep closes several asks in one step.
Next ==
    /\ received \subseteq received'
    /\ \A a \in Asks : Stay(a) \/ Open(a) \/ Progress(a) \/ Answer(a) \/ Close(a)

Spec == Init /\ [][Next]_contract
============================================================================
