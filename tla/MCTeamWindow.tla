----------------------------- MODULE MCTeamWindow -----------------------------
(* Two threads with their stacks, and a semaphore.  Three scenarios: the   *)
(* windows of both threads opened and reopened, updated and closed; the    *)
(* lists made while the team changes; and a little of everything.          *)
EXTENDS TeamWindow, TLC
MCThread == {1, 2}
MCObject == 1 .. 5
MCKindOf == <<"threads", "threads", "areas", "areas", "sems">>
MCStackArea == 1 :> 3 @@ 2 :> 4
MCSem == 1 :> 5 @@ 2 :> 0
MCHolder == 5 :> 2
Bound(live, window, open, click, tick, ask, change) ==
  [live |-> live,
   left |-> [window |-> window, open |-> open, click |-> click, tick |-> tick,
             ask |-> ask, change |-> change]]
MCScenario ==
  { Bound(1 .. 5, 3, 3, 1, 0, 0, 1),
    Bound({1, 3, 5}, 0, 0, 2, 2, 2, 2),
    Bound({1, 3, 5}, 1, 1, 1, 1, 1, 1) }
MCDeed == {"window", "open", "click", "tick", "ask", "change"}
==============================================================================
