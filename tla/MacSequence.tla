---------------------------- MODULE MacSequence ----------------------------
(***************************************************************************)
(* The MAC duplicate-frame window of mac-sequence.c (the                   *)
(* HCK_MODIFIED_MAC_SEQNO_DUPLICATE_CHECK variant) of one receiving node. *)
(* TschMacPath instantiates it once per receiver and drives it from       *)
(* packet_input in tsch.c: a frame carrying a sequence number is dropped  *)
(* when mac_sequence_is_duplicate says so, and registered otherwise.       *)
(*                                                                         *)
(* received_seqnos[s] is the array of sender s, index 1 = most recent.     *)
(* The ghost variable accepted[s] lists every frame accepted from s, most  *)
(* recent first; it is the history the window summarises.                 *)
(***************************************************************************)
EXTENDS Naturals, Sequences, FiniteSets, FiniteSetsExt

CONSTANTS
    NodeIds,        \* the valid node ids 1..NODE_NUM
    SenderIds,      \* ids a sender address can map to, valid or not
    Seqnos,         \* MAC sequence numbers a frame may carry
    NoSeqno,        \* 0xffff: the frame carries no sequence number
    MAX_SEQNOS,     \* NETSTACK_CONF_MAC_SEQNO_HISTORY
    SEQNO_MAX_AGE,  \* in clock ticks; > 0 in this build
    MaxTime         \* bound on clock_time() for model checking

ASSUME MAX_SEQNOS >= 1 /\ SEQNO_MAX_AGE > 0 /\ NodeIds \subseteq SenderIds

VARIABLES received_seqnos, now, accepted

vars == <<received_seqnos, now, accepted>>

Entry == [seqno : Seqnos \cup {0}, timestamp : 0..MaxTime]

\* static storage starts zeroed
EmptyWindow == [i \in 1..MAX_SEQNOS |-> [seqno |-> 0, timestamp |-> 0]]

\* Mutant of mac_sequence_is_duplicate: an entry exactly SEQNO_MAX_AGE old
\* no longer counts (< for <=).
IsDuplicateStrictAge(s, q) ==
    IF s \notin NodeIds THEN TRUE
    ELSE LET w == received_seqnos[s]
             hits == {i \in 1..MAX_SEQNOS : w[i].seqno = q}
         IN hits # {} /\ now - w[Min(hits)].timestamp < SEQNO_MAX_AGE

(***************************************************************************)
(* mac_sequence_is_duplicate: an invalid sender is a duplicate; otherwise *)
(* the first entry with the same number decides by its age.               *)
(***************************************************************************)
mac_sequence_is_duplicate(s, q) ==
    IF s \notin NodeIds THEN TRUE
    ELSE LET w == received_seqnos[s]
             hits == {i \in 1..MAX_SEQNOS : w[i].seqno = q}
         IN hits # {} /\ now - w[Min(hits)].timestamp <= SEQNO_MAX_AGE

\* Mutant of RegisterSeqno: the matching index is not skipped (no i++).
RegisterSeqnoNoSkip(w, q, t) ==
    LET hits == {i \in 1..MAX_SEQNOS : w[i].seqno = q}
        last == IF hits = {} THEN MAX_SEQNOS ELSE Min(hits) - 1
    IN [i \in 1..MAX_SEQNOS |->
          IF i = 1 THEN [seqno |-> q, timestamp |-> t]
          ELSE IF i <= last THEN w[i - 1] ELSE w[i]]

\* Mutant of RegisterSeqno: the number is pushed in front without moving
\* or evicting anything (the window grows past MAX_SEQNOS).
RegisterSeqnoNoEvict(w, q, t) == <<[seqno |-> q, timestamp |-> t]>> \o w

(***************************************************************************)
(* mac_sequence_register_seqno on window w: the entries before the one     *)
(* holding q (or all but the last, if none does) move down by one, and q  *)
(* goes to the front with the current time.                               *)
(***************************************************************************)
RegisterSeqno(w, q, t) ==
    LET hits == {i \in 1..MAX_SEQNOS : w[i].seqno = q}
        last == IF hits = {} THEN MAX_SEQNOS ELSE Min(hits)
    IN [i \in 1..MAX_SEQNOS |->
          IF i = 1 THEN [seqno |-> q, timestamp |-> t]
          ELSE IF i <= last THEN w[i - 1] ELSE w[i]]

\* The ghost history keeps only the acceptances that can still make a
\* frame a duplicate at time t: young enough, and with fewer than
\* MAX_SEQNOS distinct numbers accepted since (a prefix of h).
Trim(h, t) ==
    LET live == {k \in DOMAIN h :
                   /\ Cardinality({h[i].seqno : i \in 1..(k - 1)}) < MAX_SEQNOS
                   /\ t - h[k].timestamp <= SEQNO_MAX_AGE}
    IN SubSeq(h, 1, Cardinality(live))

(***************************************************************************)
(* Properties.                                                             *)
(***************************************************************************)
TypeOK ==
    /\ received_seqnos \in [NodeIds -> [1..MAX_SEQNOS -> Entry]]
    /\ now \in 0..MaxTime

\* Reference: q is a recent duplicate of s when its latest acceptance is
\* no older than the maximum age and fewer than MAX_SEQNOS other numbers
\* were accepted from s since.
RecentlyAccepted(s, q) ==
    LET h == accepted[s]
        at == {k \in DOMAIN h : h[k].seqno = q}
    IN /\ at # {}
       /\ Cardinality({h[k].seqno : k \in 1..(Min(at) - 1)}) < MAX_SEQNOS
       /\ now - h[Min(at)].timestamp <= SEQNO_MAX_AGE

\* The window answers mac_sequence_is_duplicate exactly as the history of
\* accepted frames says: a frame is dropped iff the same number from the
\* same sender was accepted recently, with the window's eviction by
\* register_seqno and the age check of is_duplicate combined.
DuplicateIffRecentlyAccepted ==
    \A s \in NodeIds, q \in Seqnos :
        mac_sequence_is_duplicate(s, q) <=> RecentlyAccepted(s, q)
=============================================================================
