------------------------------ MODULE MCInbox ------------------------------
(* TLC instance of Inbox.  Each behaviour spends its budget on one of three    *)
(* things: names, one waiter's connection, or the pull ask.                   *)
EXTENDS Inbox

CONSTANTS k1, k2, n1, n2, a1, a2, r1, r2

Budget(names, messages, retires, claims, drops, events, leases, faults, crashes) ==
    [names |-> names, messages |-> messages, retires |-> retires, claims |-> claims,
     drops |-> drops, events |-> events, leases |-> leases, faults |-> faults,
     crashes |-> crashes]

MCBudgets == {Budget(4, 0, 1, 0, 0, 0, 0, 0, 0),
              Budget(0, 2, 1, 2, 1, 0, 0, 1, 1),
              Budget(0, 0, 0, 0, 0, 3, 3, 0, 1)}
============================================================================
