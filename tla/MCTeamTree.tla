------------------------------ MODULE MCTeamTree ------------------------------
(* The kernel and three other teams, all there at first or two of them      *)
(* started later, with one act of the user; three teams, one of them        *)
(* started later or none, with a user who does more; and team windows, of   *)
(* two teams or of the kernel alone, that scripts ask for and that are used.*)
EXTENDS TeamTree
MCScenario ==
    {[teams |-> 4, starts |-> 0, picks |-> 1, uses |-> 0], [teams |-> 2, starts |-> 2, picks |-> 1, uses |-> 0],
     [teams |-> 3, starts |-> 0, picks |-> 3, uses |-> 0], [teams |-> 2, starts |-> 1, picks |-> 3, uses |-> 0],
     [teams |-> 2, starts |-> 0, picks |-> 3, uses |-> 1], [teams |-> 2, starts |-> 0, picks |-> 2, uses |-> 2],
     [teams |-> 1, starts |-> 0, picks |-> 2, uses |-> 3]}
==============================================================================
