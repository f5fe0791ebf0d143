------------------------------ MODULE Orchestra ------------------------------
(***************************************************************************)
(* Orchestra's tracking of whether the RPL parent knows this node          *)
(* (orchestra.c): the parent address follows the TSCH time source through  *)
(* orchestra_callback_new_time_source, and orchestra_parent_knows_us is    *)
(* set by the network-layer sniffer when a DAO to that parent is           *)
(* acknowledged.  The operators are handlers over two variables; a module  *)
(* that models the time source and the MAC queue declares the variables    *)
(* and calls them (TschAssociation).                                       *)
(*                                                                         *)
(* The address is written by the rules' new_time_source callbacks (the     *)
(* unicast rule copies the new time source's address, or linkaddr_null),  *)
(* which orchestra.c calls in its loop; the rules themselves are not in    *)
(* this repository and are otherwise not modelled.                         *)
(***************************************************************************)
CONSTANTS
    None,                                     \* linkaddr_null
    HCK_MOD_NO_PATH_DAO_FOR_ORCHESTRA_PARENT  \* No-Path DAOs do not count

VARIABLES
    orchestra_parent_linkaddr,
    orchestra_parent_knows_us   \* 0 or 1

orchestraVars == <<orchestra_parent_linkaddr, orchestra_parent_knows_us>>

\* orchestra_init and the static initialiser of orchestra_parent_knows_us.
orchestra_init ==
    /\ orchestra_parent_linkaddr = None
    /\ orchestra_parent_knows_us = 0

\* TSCH_CALLBACK_NEW_TIME_SOURCE(old, new): a new parent does not know us
\* yet; the rules' callbacks then record its address.
orchestra_callback_new_time_source(old, new) ==
    IF new # old
    THEN /\ orchestra_parent_knows_us' = 0
         /\ orchestra_parent_linkaddr' = new
    ELSE UNCHANGED orchestraVars

\* Mutant of orchestra_packet_sent: the receiver is not compared with the
\* parent address.
packet_sent_AnyReceiver(dest, status, noPath) ==
    /\ IF /\ orchestra_parent_knows_us = 0
          /\ status = "OK"
          /\ ~(HCK_MOD_NO_PATH_DAO_FOR_ORCHESTRA_PARENT /\ noPath)
          /\ orchestra_parent_linkaddr # None
       THEN orchestra_parent_knows_us' = 1
       ELSE UNCHANGED orchestra_parent_knows_us
    /\ UNCHANGED orchestra_parent_linkaddr

(***************************************************************************)
(* orchestra_packet_sent(mac_status), the sniffer's output callback, for a *)
(* DAO (No-Path or not) sent to dest.  Other frames fail the ICMPv6/DAO    *)
(* test and leave the state alone.                                         *)
(***************************************************************************)
orchestra_packet_sent(dest, status, noPath) ==
    /\ IF /\ orchestra_parent_knows_us = 0
          /\ status = "OK"
          /\ ~(HCK_MOD_NO_PATH_DAO_FOR_ORCHESTRA_PARENT /\ noPath)
          /\ orchestra_parent_linkaddr # None
          /\ orchestra_parent_linkaddr = dest
       THEN orchestra_parent_knows_us' = 1
       ELSE UNCHANGED orchestra_parent_knows_us
    /\ UNCHANGED orchestra_parent_linkaddr
=============================================================================
