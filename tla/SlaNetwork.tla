----------------------------- MODULE SlaNetwork -----------------------------
(***************************************************************************)
(* SLA slot-length changes spreading through a TSCH network (tsch.c,      *)
(* tsch-packet.c, WITH_SLA).  Node 0 is the coordinator; node n > 0 has   *)
(* node n - 1 as time source (a chain).  The coordinator's sla_timer picks *)
(* a next timeslot length and a triggering ASN; EBs carry the current and *)
(* next length and the triggering ASN; a node learns them when it          *)
(* associates (tsch_associate) or from its time source's EBs (eb_input),  *)
(* and broadcasts EBs rapidly while the next length differs, until the    *)
(* triggering ASN.  The slot operation switches to the next length when   *)
(* the ASN reaches the triggering ASN.                                    *)
(*                                                                         *)
(* All associated nodes share tsch_current_asn (asn).  A received EB waits *)
(* in the input ring until tsch_rx_process_pending hands it to eb_input,   *)
(* while slots go on.  The next length the coordinator computes is any of  *)
(* Lengths and the trigger any ASN up to MaxAhead slots ahead             *)
(* (SlaObservation checks that arithmetic).                               *)
(***************************************************************************)
EXTENDS Naturals, Sequences

CONSTANTS
    NumNodes,       \* nodes 0..NumNodes-1, 0 the coordinator
    Lengths,        \* timeslot lengths in use
    DefaultLen,     \* tsch_default_timing_us[tsch_ts_timeslot_length]
    MaxAhead,       \* slots from now to a triggering ASN
    MaxAsn,         \* bound on tsch_current_asn
    MaxDeterminations,
    INPUT_RING      \* TSCH_MAX_INCOMING_PACKETS

ASSUME NumNodes >= 2 /\ DefaultLen \in Lengths /\ MaxAhead >= 1

Node == 0..(NumNodes - 1)
Coordinator == 0
Parent(n) == n - 1

VARIABLES
    proc,               \* tsch_process of n: "scan" or "run"
    tsch_is_associated,
    ts_len,             \* tsch_timing_us[tsch_ts_timeslot_length]
    sla_next_timeslot_length,
    sla_triggering_asn,
    sla_in_rapid_eb_broadcasting,
    sla_eb_send_timer,  \* ctimer armed
    sla_timer,          \* the coordinator's ctimer armed
    eb_queued,          \* an EB is in the n_eb queue of n
    input,              \* input[n]: EBs in n's input ring, oldest first
    asn,                \* tsch_current_asn
    determinations      \* number of sla_timer callbacks so far

vars == <<proc, tsch_is_associated, ts_len, sla_next_timeslot_length,
          sla_triggering_asn, sla_in_rapid_eb_broadcasting, sla_eb_send_timer,
          sla_timer, eb_queued, input, asn, determinations>>

slaVars == <<ts_len, sla_next_timeslot_length, sla_triggering_asn>>
rapidVars == <<sla_in_rapid_eb_broadcasting, sla_eb_send_timer, eb_queued>>

Asns == 0..(MaxAsn + MaxAhead)

Eb == [curr : Lengths, next : Lengths, trig : Asns]

\* Mutant of EbOf: the lengths IE is written over the triggering-ASN IE.
EbOfLenInTrig(n) == [curr |-> ts_len[n], next |-> sla_next_timeslot_length[n],
                     trig |-> sla_next_timeslot_length[n]]

\* The SLA fields of the EB n transmits now: tsch_packet_create_eb puts
\* them in and sla_packet_update_eb rewrites them before transmission.
EbOf(n) == [curr |-> ts_len[n], next |-> sla_next_timeslot_length[n],
            trig |-> sla_triggering_asn[n]]

\* TSCH_ASN_DIFF(tsch_current_asn, sla_triggering_asn) >= 0
Passed(t) == asn >= t

(***************************************************************************)
(* sla_rapid_eb_broadcast at n, being associated or not (a), with the     *)
(* triggering ASN t and the timer state timer at the call.  ebOk: the EB  *)
(* period is positive, the DODAG joined and the node not a leaf (always   *)
(* so at the coordinator); enqOk: tsch_queue_add_packet finds room.  The  *)
(* flag is set before the checks.                                          *)
(***************************************************************************)
\* Mutant of RapidEb: the timer is not re-armed while the ASN is ahead.
RapidEbNoRearm(n, a, t, timer) ==
    \E ebOk, enqOk \in BOOLEAN :
        /\ n = Coordinator => ebOk
        /\ IF a /\ ebOk
           THEN /\ eb_queued' = [eb_queued EXCEPT ![n] = @ \/ enqOk]
                /\ sla_in_rapid_eb_broadcasting' =
                       [sla_in_rapid_eb_broadcasting EXCEPT ![n] = IF Passed(t) THEN 0 ELSE 1]
                /\ sla_eb_send_timer' = [sla_eb_send_timer EXCEPT ![n] = FALSE]
           ELSE /\ sla_in_rapid_eb_broadcasting' = [sla_in_rapid_eb_broadcasting EXCEPT ![n] = 1]
                /\ sla_eb_send_timer' = [sla_eb_send_timer EXCEPT ![n] = timer]
                /\ UNCHANGED eb_queued

RapidEb(n, a, t, timer) ==
    \E ebOk, enqOk \in BOOLEAN :
        /\ n = Coordinator => ebOk
        /\ IF a /\ ebOk
           THEN /\ eb_queued' = [eb_queued EXCEPT ![n] = @ \/ enqOk]
                /\ sla_in_rapid_eb_broadcasting' =
                       [sla_in_rapid_eb_broadcasting EXCEPT ![n] = IF Passed(t) THEN 0 ELSE 1]
                /\ sla_eb_send_timer' = [sla_eb_send_timer EXCEPT ![n] = ~Passed(t)]
           ELSE /\ sla_in_rapid_eb_broadcasting' = [sla_in_rapid_eb_broadcasting EXCEPT ![n] = 1]
                /\ sla_eb_send_timer' = [sla_eb_send_timer EXCEPT ![n] = timer]
                /\ UNCHANGED eb_queued

\* Start rapid broadcasting at n if the next length differs from the
\* current one and none is running.
MaybeRapidEb(n, a, next, t) ==
    IF ts_len[n] # next /\ sla_in_rapid_eb_broadcasting[n] = 0
    THEN RapidEb(n, a, t, sla_eb_send_timer[n])
    ELSE UNCHANGED rapidVars

(***************************************************************************)
(* Actions.                                                                *)
(***************************************************************************)

\* tsch_process on the coordinator: tsch_start_coordinator, then sla_timer
\* is armed.
tsch_start_coordinator ==
    /\ proc[Coordinator] = "scan"
    /\ proc' = [proc EXCEPT ![Coordinator] = "run"]
    /\ tsch_is_associated' = [tsch_is_associated EXCEPT ![Coordinator] = TRUE]
    /\ sla_timer' = TRUE
    /\ UNCHANGED <<slaVars, rapidVars, input, asn, determinations>>

\* sla_timer fires: sla_determine_next_timeslot_length_and_trig_asn picks
\* the next length and triggering ASN and starts rapid broadcasting if
\* the length changes.  The two writes (tsch.c:997 and :1000) are one step
\* here; in the code the slot interrupt may run between them.
sla_determine_next_timeslot_length_and_trig_asn ==
    /\ sla_timer
    /\ determinations < MaxDeterminations
    /\ \E next \in Lengths, d \in 1..MaxAhead :
         LET t == asn + d
         IN /\ t <= MaxAsn
            /\ sla_next_timeslot_length' = [sla_next_timeslot_length EXCEPT ![Coordinator] = next]
            /\ sla_triggering_asn' = [sla_triggering_asn EXCEPT ![Coordinator] = t]
            /\ MaybeRapidEb(Coordinator, tsch_is_associated[Coordinator], next, t)
    /\ determinations' = determinations + 1
    /\ UNCHANGED <<proc, tsch_is_associated, ts_len, sla_timer, input, asn>>

\* sla_eb_send_timer fires at n: sla_rapid_eb_broadcast
sla_eb_send_timer_expired(n) ==
    /\ sla_eb_send_timer[n]
    /\ RapidEb(n, tsch_is_associated[n], sla_triggering_asn[n], FALSE)
    /\ UNCHANGED <<proc, tsch_is_associated, slaVars, sla_timer, input, asn,
                   determinations>>

\* tsch_send_eb_process at n enqueues an EB if none is queued.
tsch_send_eb_process(n) ==
    /\ tsch_is_associated[n]
    /\ ~eb_queued[n]
    /\ eb_queued' = [eb_queued EXCEPT ![n] = TRUE]
    /\ UNCHANGED <<proc, tsch_is_associated, slaVars, sla_in_rapid_eb_broadcasting,
                   sla_eb_send_timer, sla_timer, input, asn, determinations>>

\* The slot operation moves to the next slot; a node whose triggering ASN
\* it is switches length (sla_apply_next_timeslot_length).
slot_operation ==
    /\ asn < MaxAsn
    /\ asn' = asn + 1
    /\ ts_len' = [n \in Node |->
                    IF tsch_is_associated[n] /\ sla_triggering_asn[n] = asn + 1
                    THEN sla_next_timeslot_length[n] ELSE ts_len[n]]
    /\ UNCHANGED <<proc, tsch_is_associated, sla_next_timeslot_length,
                   sla_triggering_asn, rapidVars, sla_timer, input,
                   determinations>>

(***************************************************************************)
(* tsch_associate at scanning node c on EB e: the SLA fields are taken    *)
(* after the early checks and before the late ones, so an EB rejected     *)
(* late leaves them in place.                                             *)
(***************************************************************************)
tsch_associate(c, e, ok) ==
    /\ ts_len' = [ts_len EXCEPT ![c] = e.curr]
    /\ sla_next_timeslot_length' = [sla_next_timeslot_length EXCEPT ![c] = e.next]
    /\ sla_triggering_asn' = [sla_triggering_asn EXCEPT ![c] = e.trig]
    /\ tsch_is_associated' = [tsch_is_associated EXCEPT ![c] = ok]
    /\ proc' = [proc EXCEPT ![c] = IF ok THEN "run" ELSE "scan"]
    /\ UNCHANGED input

(***************************************************************************)
(* The slot operation sends n's queued EB (once) in an EB slot.  Its       *)
(* child hears it or not; a scanning child tries to associate on it, an    *)
(* associated one puts it in its input ring if there is room.             *)
(***************************************************************************)
eb_tx(n) ==
    /\ tsch_is_associated[n]
    /\ eb_queued[n]
    /\ eb_queued' = [eb_queued EXCEPT ![n] = FALSE]
    /\ LET c == n + 1
       IN \/ UNCHANGED <<proc, tsch_is_associated, slaVars, input>>
          \/ /\ c \in Node
             /\ proc[c] = "scan"
             /\ \E ok \in BOOLEAN : tsch_associate(c, EbOf(n), ok)
          \/ /\ c \in Node
             /\ tsch_is_associated[c]
             /\ Len(input[c]) < INPUT_RING
             /\ input' = [input EXCEPT ![c] = Append(@, EbOf(n))]
             /\ UNCHANGED <<proc, tsch_is_associated, slaVars>>
    /\ UNCHANGED <<sla_in_rapid_eb_broadcasting, sla_eb_send_timer, sla_timer,
                   asn, determinations>>

\* tsch_disassociate: leave the network if associated.
tsch_disassociate(n) ==
    tsch_is_associated' = [tsch_is_associated EXCEPT ![n] = FALSE]

(***************************************************************************)
(* eb_input at n on EB e from its time source.  The time source is set    *)
(* from association until tsch_reset, so the SLA block runs even after    *)
(* leaving: a current length other than n's disassociates; otherwise n    *)
(* takes the next length and triggering ASN and starts rapid broadcasting *)
(* if the length changes.  The EB's rx_asn is not consulted.              *)
(***************************************************************************)
eb_input(n, e) ==
    IF proc[n] = "run"
    THEN IF ts_len[n] # e.curr
         THEN /\ tsch_disassociate(n)
              /\ UNCHANGED <<sla_next_timeslot_length, sla_triggering_asn, rapidVars>>
         ELSE /\ sla_next_timeslot_length' = [sla_next_timeslot_length EXCEPT ![n] = e.next]
              /\ sla_triggering_asn' = [sla_triggering_asn EXCEPT ![n] = e.trig]
              /\ MaybeRapidEb(n, tsch_is_associated[n], e.next, e.trig)
              /\ UNCHANGED tsch_is_associated
    ELSE UNCHANGED <<tsch_is_associated, sla_next_timeslot_length,
                     sla_triggering_asn, rapidVars>>

\* tsch_rx_process_pending hands the oldest EB of n's ring to eb_input
\* and removes it.
tsch_rx_process_pending(n) ==
    /\ input[n] # <<>>
    /\ input' = [input EXCEPT ![n] = Tail(@)]
    /\ eb_input(n, Head(input[n]))
    /\ UNCHANGED <<proc, ts_len, sla_timer, asn, determinations>>

\* tsch_reset after leaving: queues flushed, time source cleared, timing
\* and SLA fields back to defaults; the rapid-EB flag and timer stay.
tsch_reset(n) ==
    /\ n # Coordinator
    /\ proc[n] = "run"
    /\ ~tsch_is_associated[n]
    /\ proc' = [proc EXCEPT ![n] = "scan"]
    /\ ts_len' = [ts_len EXCEPT ![n] = DefaultLen]
    /\ sla_next_timeslot_length' = [sla_next_timeslot_length EXCEPT ![n] = DefaultLen]
    /\ sla_triggering_asn' = [sla_triggering_asn EXCEPT ![n] = 0]
    /\ eb_queued' = [eb_queued EXCEPT ![n] = FALSE]
    /\ UNCHANGED <<tsch_is_associated, sla_in_rapid_eb_broadcasting,
                   sla_eb_send_timer, sla_timer, input, asn, determinations>>

Init ==
    /\ proc = [n \in Node |-> "scan"]
    /\ tsch_is_associated = [n \in Node |-> FALSE]
    /\ ts_len = [n \in Node |-> DefaultLen]
    /\ sla_next_timeslot_length = [n \in Node |-> DefaultLen]
    /\ sla_triggering_asn = [n \in Node |-> 0]
    /\ sla_in_rapid_eb_broadcasting = [n \in Node |-> 0]
    /\ sla_eb_send_timer = [n \in Node |-> FALSE]
    /\ sla_timer = FALSE
    /\ eb_queued = [n \in Node |-> FALSE]
    /\ input = [n \in Node |-> <<>>]
    /\ asn = 0
    /\ determinations = 0

Next ==
    \/ tsch_start_coordinator
    \/ sla_determine_next_timeslot_length_and_trig_asn
    \/ slot_operation
    \/ \E n \in Node :
         \/ sla_eb_send_timer_expired(n)
         \/ tsch_send_eb_process(n)
         \/ eb_tx(n)
         \/ tsch_rx_process_pending(n)
         \/ tsch_reset(n)

(***************************************************************************)
(* The slot operation runs from the rtimer every slot; ctimer callbacks    *)
(* run when they expire; the pending-events process is polled after every *)
(* slot that received a frame.                                             *)
(***************************************************************************)
Fairness ==
    /\ WF_vars(slot_operation)
    /\ \A n \in Node : WF_vars(sla_eb_send_timer_expired(n)) /\ WF_vars(tsch_rx_process_pending(n))

Spec == Init /\ [][Next]_vars /\ Fairness

(***************************************************************************)
(* Properties.                                                             *)
(***************************************************************************)
TypeOK ==
    /\ proc \in [Node -> {"scan", "run"}]
    /\ ts_len \in [Node -> Lengths]
    /\ sla_next_timeslot_length \in [Node -> Lengths]
    /\ sla_triggering_asn \in [Node -> Asns]
    /\ sla_in_rapid_eb_broadcasting \in [Node -> {0, 1}]
    /\ input \in [Node -> Seq(Eb)]
    /\ \A n \in Node : Len(input[n]) <= INPUT_RING

\* Rapid EB broadcasting started by the coordinator always ends: the timer
\* chain of sla_rapid_eb_broadcast runs until the triggering ASN passes.
CoordinatorRapidEbEnds ==
    sla_in_rapid_eb_broadcasting[Coordinator] = 1
        ~> sla_in_rapid_eb_broadcasting[Coordinator] = 0

\* sla_in_rapid_eb_broadcasting is cleared only from the timer chain, and
\* while it is set no new rapid broadcast starts: whenever it is set the
\* timer must be armed, or the node never again spreads a change.
RapidEbNeverStuck ==
    \A n \in Node : sla_in_rapid_eb_broadcasting[n] = 1 => sla_eb_send_timer[n]

\* eb_input disassociates a node only when its slot length really differs
\* from its time source's: a node that follows the change correctly is
\* never dropped from the network.
NoSpuriousDisassociation ==
    [][\A n \in Node \ {Coordinator} :
          tsch_is_associated[n] /\ ~tsch_is_associated'[n]
              => ts_len[n] # ts_len[Parent(n)]]_vars
====
