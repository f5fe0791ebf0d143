---------------------------- MODULE AppSequence ----------------------------
(***************************************************************************)
(* The application-level duplicate window of the UDP server               *)
(* (udp-server.c, APP_SEQNO_DUPLICATE_CHECK): udp_rx_callback takes the   *)
(* low 16 bits of the 32-bit application sequence number, drops the        *)
(* message when app_up_sequence_is_duplicate says so, and registers it    *)
(* otherwise.  The window stores numbers in a uint8_t field.               *)
(*                                                                         *)
(* The ghost variable accepted[s] lists the accepted counts from s, most   *)
(* recent first, trimmed to the acceptances that can still matter.        *)
(***************************************************************************)
EXTENDS Naturals, Sequences, FiniteSets, FiniteSetsExt

CONSTANTS
    NODE_NUM,
    AppSeqnos,          \* 32-bit application sequence numbers received
    APP_SEQNO_HISTORY,
    APP_SEQNO_MAX_AGE,  \* in clock ticks; > 0
    MaxTime             \* bound on clock_time() for model checking

ASSUME APP_SEQNO_HISTORY >= 1 /\ APP_SEQNO_MAX_AGE > 0

VARIABLES app_up_received_seqnos, now, accepted

vars == <<app_up_received_seqnos, now, accepted>>

NodeIds == 1..NODE_NUM

\* uip address bytes 14..15 give the sender id; index NODE_NUM is rejected
SenderIds == 1..(NODE_NUM + 1)

Count(a) == a % 65536               \* app_received_seqno % (1 << 16)

Uint8(x) == x % 256                 \* the uint8_t app_up_seqno field

EmptyWindow == [i \in 1..APP_SEQNO_HISTORY |->
                  [app_up_seqno |-> 0, app_up_timestamp |-> 0]]

(***************************************************************************)
(* app_up_sequence_is_duplicate(sender_id, count): the first entry equal   *)
(* to the 16-bit count decides by its age.                                 *)
(***************************************************************************)
app_up_sequence_is_duplicate(s, c) ==
    LET w == app_up_received_seqnos[s]
        hits == {i \in 1..APP_SEQNO_HISTORY : w[i].app_up_seqno = c}
    IN hits # {} /\ now - w[Min(hits)].app_up_timestamp <= APP_SEQNO_MAX_AGE

(***************************************************************************)
(* app_up_sequence_register_seqno on window w: as the MAC window, with the *)
(* count truncated to 8 bits when stored.                                  *)
(***************************************************************************)
RegisterAppSeqno(w, c, t) ==
    LET hits == {i \in 1..APP_SEQNO_HISTORY : w[i].app_up_seqno = c}
        last == IF hits = {} THEN APP_SEQNO_HISTORY ELSE Min(hits)
    IN [i \in 1..APP_SEQNO_HISTORY |->
          IF i = 1 THEN [app_up_seqno |-> Uint8(c), app_up_timestamp |-> t]
          ELSE IF i <= last THEN w[i - 1] ELSE w[i]]

TrimApp(h, t) ==
    LET live == {k \in DOMAIN h :
                   /\ Cardinality({h[i].count : i \in 1..(k - 1)}) < APP_SEQNO_HISTORY
                   /\ t - h[k].timestamp <= APP_SEQNO_MAX_AGE}
    IN SubSeq(h, 1, Cardinality(live))

(***************************************************************************)
(* udp_rx_callback for a message from sender id s with sequence number a.  *)
(***************************************************************************)
udp_rx_callback ==
    \E s \in SenderIds, a \in AppSeqnos :
        LET c == Count(a)
        IN IF s - 1 = NODE_NUM \/ app_up_sequence_is_duplicate(s, c)
           THEN UNCHANGED vars     \* out of index, or dropped as duplicate
           ELSE /\ app_up_received_seqnos' = [app_up_received_seqnos EXCEPT
                       ![s] = RegisterAppSeqno(@, c, now)]
                /\ accepted' = [accepted EXCEPT ![s] =
                       TrimApp(<<[count |-> c, timestamp |-> now]>> \o @, now)]
                /\ UNCHANGED now

Tick ==
    /\ now < MaxTime
    /\ now' = now + 1
    /\ accepted' = [s \in NodeIds |-> TrimApp(accepted[s], now')]
    /\ UNCHANGED app_up_received_seqnos

Init ==
    /\ app_up_received_seqnos = [s \in NodeIds |-> EmptyWindow]
    /\ now = 0
    /\ accepted = [s \in NodeIds |-> <<>>]

Next == udp_rx_callback \/ Tick

Spec == Init /\ [][Next]_vars

(***************************************************************************)
(* Properties.                                                             *)
(***************************************************************************)

\* Reference: count c of s is a recent duplicate when its latest acceptance
\* is young enough and fewer than APP_SEQNO_HISTORY other counts were
\* accepted from s since; TrimApp keeps exactly those acceptances.
RecentlyAcceptedApp(s, c) ==
    LET h == accepted[s]
        at == {k \in DOMAIN h : h[k].count = c}
    IN at # {}

\* udp_rx_callback drops a message iff a message with the same 16-bit
\* count from the same sender was accepted recently (the duplicate check
\* of app_up_sequence_is_duplicate against what register_seqno stored).
AppDuplicateIffRecentlyAccepted ==
    \A s \in NodeIds, a \in AppSeqnos :
        app_up_sequence_is_duplicate(s, Count(a)) <=> RecentlyAcceptedApp(s, Count(a))
=============================================================================
