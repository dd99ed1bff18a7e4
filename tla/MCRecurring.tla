---------------------------- MODULE MCRecurring ----------------------------
(* TLC instance of Recurring: one ask or one schedule in a behaviour, which   *)
(* share nothing but the clock and the agent.                                 *)
EXTENDS Recurring

CONSTANTS a1, s1
============================================================================
