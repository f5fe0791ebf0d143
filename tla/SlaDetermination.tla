--------------------------- MODULE SlaDetermination ---------------------------
(***************************************************************************)
(* What the SLA determination of tsch.c promises, without histograms or   *)
(* windows.  The coordinator remembers the lengths of the frames and the  *)
(* hop distances recorded since the last determination.  Each             *)
(* determination then does three things:                                  *)
(*   - the previous next reference length becomes the current one, and    *)
(*     the k-th percentile of the remembered lengths (as a quantized      *)
(*     length) becomes the next one;                                      *)
(*   - the reference hop distance follows the deepest hop distance seen   *)
(*     (recorded or reported by RPL DAOs) and decays by at most one;      *)
(*   - the triggering ASN is the first common-slotframe boundary strictly *)
(*     after the expected propagation duration.                           *)
(*                                                                         *)
(* SlaObservation implements this specification.  The mapping forgets    *)
(* the arrays and keeps its ghost lists of what was recorded.              *)
(***************************************************************************)
EXTENDS Naturals, Sequences, FiniteSets

CONSTANTS Kinds, FrameLens, RADIO_PHY_OVERHEAD, SLA_SHIFT_BITS,
          SLA_K_TH_PERCENTILE, SLA_MAX_FRAME_LEN, MaxFrames,
          Hops, DaoHops, MaxHopRecords, SLA_INITIAL_HOP_DISTANCE,
          SLA_ZERO_HOP_DISTANCE_OFFSET, SLA_TRIGGERING_ASN_INCREMENT,
          ORCHESTRA_CONF_EBSF_PERIOD, SLA_TRIGGERING_ASN_MULTIPLIER, CS_SIZE

VARIABLES recorded, curr_ref, next_ref, hops, hop_ref, trig_ahead,
          asn_rem     \* the current ASN modulo CS_SIZE

vars == <<recorded, curr_ref, next_ref, hops, hop_ref, trig_ahead, asn_rem>>

Quantize(len) == ((len + RADIO_PHY_OVERHEAD - 1) \div (2 ^ SLA_SHIFT_BITS)) + 1

Larger(a, b) == IF a >= b THEN a ELSE b

\* The quantized length of the (r+1)-th longest frame of rec, with
\* r = n * (100 - k) / 100; curr if rec is empty.
Percentile(rec, curr) ==
    LET n == Len(rec)
        r == (n * (100 - SLA_K_TH_PERCENTILE)) \div 100
        lv(i) == Quantize(rec[i])
        Longer(v) == Cardinality({i \in 1..n : lv(i) > v})
        AtLeast(v) == Cardinality({i \in 1..n : lv(i) >= v})
    IN IF n = 0 THEN curr
       ELSE (CHOOSE v \in {lv(i) : i \in 1..n} :
                 Longer(v) <= r /\ r < AtLeast(v)) * (2 ^ SLA_SHIFT_BITS)

\* The deepest of the hop distances h and the DAO distance dao; the offset
\* if both are zero.
Deepest(h, dao) ==
    LET m == CHOOSE x \in {dao} \cup {h[i] : i \in DOMAIN h} :
                 \A i \in DOMAIN h : x >= h[i] /\ x >= dao
    IN IF m # 0 THEN m ELSE SLA_ZERO_HOP_DISTANCE_OFFSET

\* ASN distance from a determination at an ASN with remainder a modulo the
\* common slotframe size to the first boundary strictly after the
\* expected propagation duration for reference hop distance ref.
TriggerAhead(ref, a) ==
    LET prop == (ref + SLA_TRIGGERING_ASN_INCREMENT)
                  * ORCHESTRA_CONF_EBSF_PERIOD * SLA_TRIGGERING_ASN_MULTIPLIER
    IN CHOOSE d \in (prop + 1)..(prop + CS_SIZE) : (a + d) % CS_SIZE = 0

Init ==
    /\ recorded = [k \in Kinds |-> <<>>]
    /\ curr_ref = [k \in Kinds |-> SLA_MAX_FRAME_LEN]
    /\ next_ref = [k \in Kinds |-> SLA_MAX_FRAME_LEN]
    /\ hops = <<>>
    /\ hop_ref = SLA_INITIAL_HOP_DISTANCE
    /\ trig_ahead = 0
    /\ asn_rem = 0

\* A frame of kind k and length len is received.
Record ==
    \E k \in Kinds, len \in FrameLens :
        /\ Len(recorded[k]) < MaxFrames
        /\ recorded' = [recorded EXCEPT ![k] = Append(@, len)]
        /\ UNCHANGED <<curr_ref, next_ref, hops, hop_ref, trig_ahead, asn_rem>>

\* A packet shows a hop distance h.
RecordHops ==
    \E h \in Hops :
        /\ Len(hops) < MaxHopRecords
        /\ hops' = Append(hops, h)
        /\ UNCHANGED <<recorded, curr_ref, next_ref, hop_ref, trig_ahead, asn_rem>>

\* A timeslot passes.
AdvanceAsn ==
    /\ asn_rem' = (asn_rem + 1) % CS_SIZE
    /\ UNCHANGED <<recorded, curr_ref, next_ref, hops, hop_ref, trig_ahead>>

\* A determination, with RPL reporting dao.
Determine ==
    \E dao \in DaoHops :
        LET ref == Larger(Deepest(hops, dao), hop_ref - 1)
        IN /\ curr_ref' = next_ref
           /\ next_ref' = [k \in Kinds |-> Percentile(recorded[k], next_ref[k])]
           /\ recorded' = [k \in Kinds |-> <<>>]
           /\ hop_ref' = ref
           /\ trig_ahead' = TriggerAhead(ref, asn_rem)
           /\ hops' = <<>>
           /\ UNCHANGED asn_rem

Next == Record \/ RecordHops \/ AdvanceAsn \/ Determine

Spec == Init /\ [][Next]_vars
=============================================================================
