------------------------------ MODULE MCLanes ------------------------------
(* TLC instance of Lanes: two panes and the snapshot, and enough readers     *)
(* that one is in flight, one is queued and one joins the queued one.  The   *)
(* panes are alike, so prompts are for the first of them; a cancel's second  *)
(* notice, and the rename before a prompt, are for the same pane or not.     *)
EXTENDS Lanes, TLC

CONSTANTS c1, c2, c3

MCAsks ==
    c1 :> {"alias", "prompt", "cancel"}
        @@ c2 :> {"report", "read", "liveReport"}
        @@ c3 :> {"read"}

MCPanesOf == [j \in Job |-> IF j = <<c1, 2>> THEN {"p1", "p2"} ELSE {"p1"}]
============================================================================
