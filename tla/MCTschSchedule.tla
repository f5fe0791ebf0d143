--------------------------- MODULE MCTschSchedule ---------------------------
(* TLC instance of TschSchedule: two slotframe handles, slotframes of 1 or *)
(* 2 slots, broadcast and one or two unicast neighbors.                     *)
EXTENDS TschSchedule

CONSTANTS A, B, Bc

MCAddrs == {A, Bc}
MCAddrsTwoNbrs == {A, B, Bc}
MCLinkOptionSets == {{TX}, {RX}, {TX, RX, SHARED}}
=============================================================================
