------------------------- MODULE MCTschAssociation -------------------------
(* TLC instance of TschAssociation: two neighbors; EBs advertise a join     *)
(* priority of 0, just below the maximum, at the maximum, or 0xff.          *)
EXTENDS TschAssociation

CONSTANTS N1, N2, NoAddr

MCNbrs == {N1, N2}
MCEbJoinPriorities == {0, MaxJoinPriority - 2, MaxJoinPriority, 255}
=============================================================================
