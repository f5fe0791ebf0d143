--------------------------- MODULE SlaObservation ---------------------------
(***************************************************************************)
(* SLA (adaptive slot length) on the coordinator, tsch.c under WITH_SLA:  *)
(* tsch_rx_process_pending records the length of every received frame in *)
(* the current observation window; the sla_timer callback                 *)
(* sla_determine_next_timeslot_length_and_trig_asn takes the k-th         *)
(* percentile of the window as the next representative length, moves to  *)
(* the next window and clears it.                                          *)
(*                                                                         *)
(* The callback also updates the reference hop distance from the deepest *)
(* hop distance recorded in the window (sla_record_max_hop_distance) and  *)
(* reported by RPL, and computes the triggering ASN from it               *)
(* (sla_calculate_triggering_asn).  sla_trig_ahead is the ASN distance    *)
(* from the determination to sla_triggering_asn.                          *)
(*                                                                         *)
(* Frame kinds (broadcast, unicast, ACK) use identical code on separate   *)
(* arrays; Kinds says which are modelled.  The timeslot length and rapid  *)
(* EB part of the callback is modelled in SlaNetwork.  The ghost          *)
(* variables recorded[k] and recorded_hops list the raw lengths and hop   *)
(* distances recorded in the current window since it was cleared.          *)
(***************************************************************************)
EXTENDS Naturals, Sequences, FiniteSets

CONSTANTS
    Kinds,                           \* frame kinds, e.g. {"bc", "uc"}
    FrameLens,                       \* raw frame lengths that are received
    RADIO_PHY_OVERHEAD,
    SLA_SHIFT_BITS,
    SLA_FRAME_LEN_QUANTIZED_LEVELS,
    SLA_OBSERVATION_WINDOWS,
    SLA_K_TH_PERCENTILE,
    SLA_MAX_FRAME_LEN,
    MaxFrames,                       \* frames recorded per window (bound)
    Hops,                            \* hop distances packets show
    DaoHops,                         \* sla_get_rpl_dao_max_hop_distance() values
    MaxHopRecords,                   \* hop records per window (bound)
    SLA_INITIAL_HOP_DISTANCE,
    SLA_ZERO_HOP_DISTANCE_OFFSET,
    SLA_TRIGGERING_ASN_INCREMENT,
    ORCHESTRA_CONF_EBSF_PERIOD,
    SLA_TRIGGERING_ASN_MULTIPLIER,
    CS_SIZE                          \* size of the common slotframe

VARIABLES sla_current_window_index, sla_observed_length, sla_observed_count,
          sla_curr_ref_len, sla_next_ref_len, recorded,
          sla_max_hop_distance, sla_curr_ref_hop_distance, sla_trig_ahead,
          recorded_hops,
          asn_rem       \* tsch_current_asn modulo CS_SIZE

vars == <<sla_current_window_index, sla_observed_length, sla_observed_count,
          sla_curr_ref_len, sla_next_ref_len, recorded,
          sla_max_hop_distance, sla_curr_ref_hop_distance, sla_trig_ahead,
          recorded_hops, asn_rem>>

hopVars == <<sla_max_hop_distance, sla_curr_ref_hop_distance, sla_trig_ahead,
             recorded_hops, asn_rem>>

Levels == 0..(SLA_FRAME_LEN_QUANTIZED_LEVELS - 1)

Windows == 0..(SLA_OBSERVATION_WINDOWS - 1)

\* sla_quantize_frame_len_with_radio_phy_overhead(frame_len + overhead)
Quantize(len) == ((len + RADIO_PHY_OVERHEAD - 1) \div (2 ^ SLA_SHIFT_BITS)) + 1

\* sla_get_frame_len_with_radio_phy_overhead
LenOfLevel(q) == q * (2 ^ SLA_SHIFT_BITS)

\* every length that is received falls into a bucket of the arrays
ASSUME \A len \in FrameLens : Quantize(len) \in Levels

EmptyHistogram == [q \in Levels |-> 0]

(***************************************************************************)
(* sla_record_{bc,uc}_frame_len / sla_record_ack_len                       *)
(***************************************************************************)
sla_record_frame_len ==
    \E k \in Kinds, len \in FrameLens :
        LET w == sla_current_window_index
        IN /\ sla_observed_count[k][w] < MaxFrames
           /\ sla_observed_length' = [sla_observed_length EXCEPT
                    ![k][w][Quantize(len)] = @ + 1]
           /\ sla_observed_count' = [sla_observed_count EXCEPT ![k][w] = @ + 1]
           /\ recorded' = [recorded EXCEPT ![k] = Append(@, len)]
           /\ UNCHANGED <<sla_current_window_index, sla_curr_ref_len,
                          sla_next_ref_len>>
           /\ UNCHANGED hopVars

\* sla_record_max_hop_distance(hops)
sla_record_max_hop_distance ==
    \E h \in Hops :
        LET w == sla_current_window_index
        IN /\ Len(recorded_hops) < MaxHopRecords
           /\ sla_max_hop_distance' = [sla_max_hop_distance EXCEPT
                    ![w] = IF h > @ THEN h ELSE @]
           /\ recorded_hops' = Append(recorded_hops, h)
           /\ UNCHANGED <<sla_current_window_index, sla_observed_length,
                          sla_observed_count, sla_curr_ref_len, sla_next_ref_len,
                          recorded, sla_curr_ref_hop_distance, sla_trig_ahead, asn_rem>>

\* accum_count after the scan has reached bucket i
RECURSIVE SuffixSum(_, _)
SuffixSum(hist, i) ==
    IF i > SLA_FRAME_LEN_QUANTIZED_LEVELS - 1 THEN 0
    ELSE hist[i] + SuffixSum(hist, i + 1)

\* Mutant of NextRefLen: the scan stops as soon as the count reaches the
\* reference count (>= instead of >).
NextRefLenGeq(hist, count, curr) ==
    LET ref == (count * (100 - SLA_K_TH_PERCENTILE)) \div 100
        Above(i) == SuffixSum(hist, i)
        hits == {i \in Levels : Above(i) # 0 /\ Above(i) >= ref}
    IN IF Above(0) > 0
       THEN LenOfLevel(IF hits = {} THEN 0 ELSE CHOOSE i \in hits : \A j \in hits : j <= i)
       ELSE curr

(***************************************************************************)
(* sla_calculate_next_ref_{bc,uc}_frame_len / _ack_len: scanning from the  *)
(* top bucket down, the first bucket at which the accumulated count        *)
(* exceeds count * (100 - k) / 100; the current reference if the window   *)
(* is empty.  The scan is written as the suffix sums it accumulates.      *)
(***************************************************************************)
NextRefLen(hist, count, curr) ==
    LET ref == (count * (100 - SLA_K_TH_PERCENTILE)) \div 100
        Above(i) == SuffixSum(hist, i)
        hits == {i \in Levels : Above(i) # 0 /\ Above(i) > ref}
    IN IF Above(0) > 0
       THEN LenOfLevel(IF hits = {} THEN 0 ELSE CHOOSE i \in hits : \A j \in hits : j <= i)
       ELSE curr

Larger(a, b) == IF a >= b THEN a ELSE b

\* The new sla_curr_ref_hop_distance from the window's maximum m and the
\* DAO distance dao.
RefHopDistance(ref, m, dao) ==
    LET mx == Larger(m, dao)
        cm == IF mx # 0 THEN mx ELSE SLA_ZERO_HOP_DISTANCE_OFFSET
    IN IF ref <= cm THEN cm ELSE Larger(ref - 1, cm)

\* Mutant of TrigAhead: the remainder is taken of the current ASN, before
\* the propagation duration is added.
TrigAheadEarlyMod(ref, a) ==
    LET prop == ((ref + SLA_TRIGGERING_ASN_INCREMENT) * ORCHESTRA_CONF_EBSF_PERIOD
                   * SLA_TRIGGERING_ASN_MULTIPLIER) % 65536
    IN prop + CS_SIZE - (a % CS_SIZE)

\* sla_calculate_triggering_asn, as the distance from the current ASN, whose
\* remainder modulo the common slotframe size is a; the propagation
\* duration is a uint16_t.
TrigAhead(ref, a) ==
    LET prop == ((ref + SLA_TRIGGERING_ASN_INCREMENT) * ORCHESTRA_CONF_EBSF_PERIOD
                   * SLA_TRIGGERING_ASN_MULTIPLIER) % 65536
    IN prop + CS_SIZE - ((a + prop) % CS_SIZE)

(***************************************************************************)
(* The sla_timer callback: current := next, next := percentile of the     *)
(* current window, then advance the window index and clear that window.   *)
(***************************************************************************)
sla_determine_next_timeslot_length_and_trig_asn ==
    LET w == sla_current_window_index
        nw == (w + 1) % SLA_OBSERVATION_WINDOWS
    IN /\ \E dao \in DaoHops :
            LET ref == RefHopDistance(sla_curr_ref_hop_distance,
                                      sla_max_hop_distance[w], dao)
            IN /\ sla_curr_ref_hop_distance' = ref
               /\ sla_trig_ahead' = TrigAhead(ref, asn_rem)
       /\ sla_max_hop_distance' = [sla_max_hop_distance EXCEPT ![nw] = 0]
       /\ recorded_hops' = <<>>
       /\ sla_curr_ref_len' = sla_next_ref_len
       /\ sla_next_ref_len' = [k \in Kinds |->
              NextRefLen(sla_observed_length[k][w], sla_observed_count[k][w],
                         sla_next_ref_len[k])]
       /\ sla_current_window_index' = nw
       /\ sla_observed_length' = [k \in Kinds |->
              [sla_observed_length[k] EXCEPT ![nw] = EmptyHistogram]]
       /\ sla_observed_count' = [k \in Kinds |->
              [sla_observed_count[k] EXCEPT ![nw] = 0]]
       /\ recorded' = [k \in Kinds |-> <<>>]
       /\ UNCHANGED asn_rem

\* The slot operation moves to the next timeslot (TSCH_ASN_INC).
AdvanceAsn ==
    /\ asn_rem' = (asn_rem + 1) % CS_SIZE
    /\ UNCHANGED <<sla_current_window_index, sla_observed_length,
                   sla_observed_count, sla_curr_ref_len, sla_next_ref_len,
                   recorded, sla_max_hop_distance, sla_curr_ref_hop_distance,
                   sla_trig_ahead, recorded_hops>>

\* tsch_reset (SLA part) with zero-initialised arrays, as after boot
Init ==
    /\ sla_current_window_index = 0
    /\ sla_observed_length = [k \in Kinds |-> [w \in Windows |-> EmptyHistogram]]
    /\ sla_observed_count = [k \in Kinds |-> [w \in Windows |-> 0]]
    /\ sla_curr_ref_len = [k \in Kinds |-> SLA_MAX_FRAME_LEN]
    /\ sla_next_ref_len = [k \in Kinds |-> SLA_MAX_FRAME_LEN]
    /\ recorded = [k \in Kinds |-> <<>>]
    /\ sla_max_hop_distance = [w \in Windows |-> 0]
    /\ sla_curr_ref_hop_distance = SLA_INITIAL_HOP_DISTANCE
    /\ sla_trig_ahead = 0
    /\ recorded_hops = <<>>
    /\ asn_rem = 0

Next ==
    \/ sla_record_frame_len
    \/ sla_record_max_hop_distance
    \/ AdvanceAsn
    \/ sla_determine_next_timeslot_length_and_trig_asn

Spec == Init /\ [][Next]_vars

(***************************************************************************)
(* Properties.                                                             *)
(***************************************************************************)
\* The abstract specification, with the arrays forgotten.
Abs == INSTANCE SlaDetermination WITH
           curr_ref <- sla_curr_ref_len, next_ref <- sla_next_ref_len,
           hops <- recorded_hops, hop_ref <- sla_curr_ref_hop_distance,
           trig_ahead <- sla_trig_ahead

\* SlaObservation implements SlaDetermination.  Every determination takes
\* as next reference length exactly the percentile of the frames recorded
\* since the previous one, and the current reference is the previous next
\* one.  The reference hop distance follows the deepest hop distance of
\* exactly that period.  The triggering ASN is the first common-slotframe
\* boundary after the propagation duration.  So the histogram scan, the
\* counts, the window rotation and clearing, and the ASN arithmetic lose
\* or mix in nothing.
ImplementsSlaDetermination == Abs!Spec
=============================================================================
