------------------------------ MODULE MCGates ------------------------------
(* TLC instance of Gates.  To bound what happens at once, a run starts where    *)
(* some of the work is already over: two renew cycles remain, or the client's   *)
(* clear and its prompt, or one cycle with either or, without a crash, both, or *)
(* the notices and reminders of the daemon with a clear or with a cycle.        *)
EXTENDS Gates, TLC

CONSTANTS c1, p1, n1, r1

\* A recurring policy that gives up a cycle on timeout, and a one-shot that does not.
MCPolicies == {[every |-> TRUE, onTimeout |-> "abort"], [every |-> FALSE, onTimeout |-> "proceed"]}

Refused == [NewClear EXCEPT !.at = "answered"]
NoCycle == [NewRow EXCEPT !.phase = "aborted"]
LastCycleOnly == [k \in Cycles |-> IF k = MaxCycles THEN NewRow ELSE NoCycle]

\* Only these prompts are still to come.
ToCome(ps) == [p \in Prompts |-> IF p \in ps THEN "none" ELSE "done"]

MCStart ==
    \/ /\ clear = [c \in Clears |-> Refused] /\ prompt = ToCome({})
       /\ row = [k \in Cycles |-> NewRow] /\ crashes = 0
    \/ /\ clear = [c \in Clears |-> NewClear] /\ prompt = ToCome({})
       /\ row = LastCycleOnly /\ crashes = 0
    \/ /\ clear = [c \in Clears |-> Refused] /\ prompt = ToCome({p1})
       /\ row = LastCycleOnly /\ crashes = 0
    \/ /\ clear = [c \in Clears |-> NewClear] /\ prompt = ToCome({p1})
       /\ \/ row = LastCycleOnly /\ crashes = MaxCrashes
          \/ row = [k \in Cycles |-> NoCycle] /\ crashes = 0
    \/ /\ clear = [c \in Clears |-> NewClear] /\ prompt = ToCome({n1, r1})
       /\ row = [k \in Cycles |-> NoCycle] /\ crashes = 0
    \/ /\ clear = [c \in Clears |-> Refused] /\ prompt = ToCome({n1})
       /\ row = LastCycleOnly /\ crashes = MaxCrashes

MCInit ==
    /\ timing \in ClearProtocols
    /\ live = 0 /\ recorded = 0 /\ ready = TRUE
    /\ MCStart
    /\ unproven = {} /\ spacing = FALSE
    /\ due = [p \in Prompts |-> "later"]
    /\ policy = [state |-> "none", cycle |-> 0]
    /\ lane = <<>> /\ sent = FALSE

MCSpec == MCInit /\ [][Next]_vars /\ Fairness
============================================================================
