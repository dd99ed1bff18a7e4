---------------------------- MODULE MCIdentities ----------------------------
(* TLC instance of Identities: one running agent, one more that may be minted, *)
(* and two requests at a time.  In one behaviour two of the three disturbances *)
(* happen at most: a change in Herdr, a fault of a job, a crash of the daemon.  *)
EXTENDS Identities, TLC

CONSTANTS a1, a2, n1, n2, p1, p2, c1, c2

Request(method, agent, name, pane) ==
    [method |-> method, agent |-> agent, name |-> name, pane |-> pane]

MCRequests ==
    c1 :> {Request("handoff", a1, n1, p2),
           Request("rename", a1, n2, p1), Request("close", a1, NoName, p1)}
        @@ c2 :> {Request("start", NoAgent, n2, p2), Request("adopt", NoAgent, NoName, p2),
                  Request("retire", a1, NoName, p1), Request("recover", NoAgent, NoName, p1),
                  Request("whoami", NoAgent, NoName, p2), Request("alias", NoAgent, n2, p1)}

Disturbances == {[world |-> w, faults |-> f, crashes |-> k] : w, f, k \in 0..1}

MCInit ==
    /\ db = OneReady /\ herdr = OneRunning
    /\ req = [c \in Clients \cup {Boot} |-> Idle]
    /\ launch = <<1>>
    /\ used \in {u \in Disturbances : u.world + u.faults + u.crashes = 1}

MCSpec == MCInit /\ [][Next]_vars
=============================================================================
