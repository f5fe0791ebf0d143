----------------------------- MODULE TschMacPath -----------------------------
(***************************************************************************)
(* The unicast MAC path of tsch.c between one sender Me and its           *)
(* neighbors: send_packet numbers a frame and enqueues it for its         *)
(* receiver; the slot operation transmits the head of a neighbor queue    *)
(* over a link that loses frames and ACKs and retransmits it until it is  *)
(* ACKed or max_transmissions is reached; tsch_tx_process_pending reports *)
(* the outcome to the upper layer.  At each receiver the slot operation   *)
(* puts the frame in the input ring buffer, and tsch_rx_process_pending   *)
(* hands it to packet_input, which filters it through the receiver's      *)
(* MacSequence window.                                                    *)
(*                                                                         *)
(* Ghost variables: status[id] is what the sent callback of packet id     *)
(* reported, upCount[id] and upAt[id] how many copies of it packet_input  *)
(* passed up and when the last one was passed.                            *)
(***************************************************************************)
EXTENDS Naturals, Sequences

CONSTANTS
    Me,                            \* node id of the sender
    Neighbors,                     \* its unicast neighbors (receivers)
    SeqnoStart,                    \* values random_rand() may seed the counter with
    TSCH_QUEUE_NUM_PER_NEIGHBOR,
    MaxTx,                         \* TSCH_MAC_MAX_FRAME_RETRIES + 1
    INPUT_RING,                    \* TSCH_MAX_INCOMING_PACKETS
    MAX_SEQNOS, SEQNO_MAX_AGE,
    MaxSends,                      \* packets handed to send_packet (bound)
    MaxTime                        \* bound on clock_time()

VARIABLES
    tsch_is_associated, tsch_packet_seqno,
    queue,            \* queue[n]: packets for neighbor n, head first
    dequeued,         \* dequeued_ringbuf: packets done, awaiting callback
    input,            \* input[n]: input_ringbuf of receiver n
    received_seqnos,  \* received_seqnos[n]: window of receiver n, by sender
    now,
    accepted,         \* accepted[n]: ghost history of MacSequence
    nsent, status, upCount, upAt

vars == <<tsch_is_associated, tsch_packet_seqno, queue, dequeued, input,
          received_seqnos, now, accepted, nsent, status, upCount, upAt>>

Ids == 1..MaxSends

\* The duplicate window of receiver n; Me is the only sender it hears.
W(n) == INSTANCE MacSequence WITH
            NodeIds <- {Me}, SenderIds <- {Me}, Seqnos <- 1..255,
            NoSeqno <- 65535,
            received_seqnos <- received_seqnos[n], accepted <- accepted[n]

\* Mutant of NextSeqno: the counter wraps to 0 instead of skipping it.
NextSeqnoNoSkip(x) == (x + 1) % 256

\* ++tsch_packet_seqno on the uint8_t counter, skipping 0
NextSeqno(x) == IF (x + 1) % 256 = 0 THEN 1 ELSE (x + 1) % 256

(***************************************************************************)
(* send_packet for a unicast packet to dest.  Not associated: MAC_TX_ERR  *)
(* at once.  Otherwise the counter is incremented and the packet enqueued; *)
(* a full queue (tsch_queue_add_packet returning NULL) is MAC_TX_ERR.     *)
(***************************************************************************)
send_packet ==
    \E dest \in Neighbors :
        LET id == nsent + 1
            seq == NextSeqno(tsch_packet_seqno)
        IN /\ nsent < MaxSends
           /\ nsent' = id
           /\ IF ~tsch_is_associated
              THEN /\ status' = [status EXCEPT ![id] = "ERR"]
                   /\ UNCHANGED <<tsch_packet_seqno, queue>>
              ELSE /\ tsch_packet_seqno' = seq
                   /\ IF Len(queue[dest]) < TSCH_QUEUE_NUM_PER_NEIGHBOR
                      THEN /\ queue' = [queue EXCEPT ![dest] = Append(@,
                                  [id |-> id, seqno |-> seq, tx |-> 0])]
                           /\ status' = [status EXCEPT ![id] = "queued"]
                      ELSE /\ status' = [status EXCEPT ![id] = "ERR"]
                           /\ UNCHANGED queue
           /\ UNCHANGED <<tsch_is_associated, dequeued, input, received_seqnos,
                          now, accepted, upCount, upAt>>

\* Mutant of slot_tx: a failed transmission is not counted.
SlotTxNoCount(n) ==
    /\ queue[n] # <<>>
    /\ \E frameLost, ackLost \in BOOLEAN :
         LET p == Head(queue[n])
             heard == ~frameLost /\ Len(input[n]) < INPUT_RING
             acked == heard /\ ~ackLost
         IN /\ input' = IF heard
                        THEN [input EXCEPT ![n] = Append(@, [id |-> p.id, seqno |-> p.seqno])]
                        ELSE input
            /\ queue' = IF acked THEN [queue EXCEPT ![n] = Tail(@)] ELSE queue
            /\ dequeued' = IF acked THEN Append(dequeued, [id |-> p.id, ret |-> "OK"])
                           ELSE dequeued
    /\ UNCHANGED <<tsch_is_associated, tsch_packet_seqno, received_seqnos, now,
                   accepted, nsent, status, upCount, upAt>>

(***************************************************************************)
(* One transmission of the head packet for n in a slot (the slot          *)
(* operation).  The frame reaches n unless it is lost or n's input ring   *)
(* is full; it is ACKed unless the ACK is lost.  An ACKed packet, or one  *)
(* that used its max_transmissions, is moved to dequeued_ringbuf.         *)
(***************************************************************************)
slot_tx(n) ==
    /\ queue[n] # <<>>
    /\ \E frameLost, ackLost \in BOOLEAN :
         LET p == Head(queue[n])
             tx == p.tx + 1
             heard == ~frameLost /\ Len(input[n]) < INPUT_RING
             acked == heard /\ ~ackLost
             done == acked \/ tx >= MaxTx
         IN /\ input' = IF heard
                        THEN [input EXCEPT ![n] = Append(@, [id |-> p.id, seqno |-> p.seqno])]
                        ELSE input
            /\ queue' = [queue EXCEPT ![n] = IF done THEN Tail(@)
                                             ELSE <<[p EXCEPT !.tx = tx]>> \o Tail(@)]
            /\ dequeued' = IF done
                           THEN Append(dequeued, [id |-> p.id,
                                         ret |-> IF acked THEN "OK" ELSE "NOACK"])
                           ELSE dequeued
    /\ UNCHANGED <<tsch_is_associated, tsch_packet_seqno, received_seqnos, now,
                   accepted, nsent, status, upCount, upAt>>

\* tsch_tx_process_pending: the sent callback of the oldest done packet
tsch_tx_process_pending ==
    /\ dequeued # <<>>
    /\ status' = [status EXCEPT ![Head(dequeued).id] = Head(dequeued).ret]
    /\ dequeued' = Tail(dequeued)
    /\ UNCHANGED <<tsch_is_associated, tsch_packet_seqno, queue, input,
                   received_seqnos, now, accepted, nsent, upCount, upAt>>

\* Mutant of packet_input: the frame is passed up without the window.
PacketInputNoCheck(n, f) ==
    /\ upCount' = [upCount EXCEPT ![f.id] = @ + 1]
    /\ upAt' = [upAt EXCEPT ![f.id] = now]
    /\ UNCHANGED <<received_seqnos, accepted>>

(***************************************************************************)
(* packet_input at receiver n for frame f from Me: a duplicate is dropped; *)
(* otherwise the number is registered and the frame passed up             *)
(* (NETSTACK_NETWORK.input).                                               *)
(***************************************************************************)
packet_input(n, f) ==
    IF W(n)!mac_sequence_is_duplicate(Me, f.seqno)
    THEN UNCHANGED <<received_seqnos, accepted, upCount, upAt>>
    ELSE /\ received_seqnos' = [received_seqnos EXCEPT
                ![n][Me] = W(n)!RegisterSeqno(@, f.seqno, now)]
         /\ accepted' = [accepted EXCEPT ![n][Me] =
                W(n)!Trim(<<[seqno |-> f.seqno, timestamp |-> now]>> \o @, now)]
         /\ upCount' = [upCount EXCEPT ![f.id] = @ + 1]
         /\ upAt' = [upAt EXCEPT ![f.id] = now]

\* tsch_rx_process_pending at receiver n takes one data frame of its ring
\* (the slot operation may add frames between two iterations of the loop).
tsch_rx_process_pending(n) ==
    /\ input[n] # <<>>
    /\ packet_input(n, Head(input[n]))
    /\ input' = [input EXCEPT ![n] = Tail(@)]
    /\ UNCHANGED <<tsch_is_associated, tsch_packet_seqno, queue, dequeued, now,
                   nsent, status>>

\* clock_time() advances at the receivers.
Tick ==
    /\ now < MaxTime
    /\ now' = now + 1
    /\ accepted' = [n \in Neighbors |-> [s \in {Me} |-> W(n)!Trim(accepted[n][s], now')]]
    /\ UNCHANGED <<tsch_is_associated, tsch_packet_seqno, queue, dequeued, input,
                   received_seqnos, nsent, status, upCount, upAt>>

\* All nodes have just booted: tsch_init seeds tsch_packet_seqno with
\* random_rand(), so it may hold any value of SeqnoStart, and the windows
\* of the receivers are zeroed static storage.
Init ==
    /\ tsch_is_associated \in BOOLEAN
    /\ tsch_packet_seqno \in SeqnoStart
    /\ queue = [n \in Neighbors |-> <<>>]
    /\ dequeued = <<>>
    /\ input = [n \in Neighbors |-> <<>>]
    /\ received_seqnos = [n \in Neighbors |-> [s \in {Me} |->
                             [i \in 1..MAX_SEQNOS |-> [seqno |-> 0, timestamp |-> 0]]]]
    /\ now = 0
    /\ accepted = [n \in Neighbors |-> [s \in {Me} |-> <<>>]]
    /\ nsent = 0
    /\ status = [id \in Ids |-> "none"]
    /\ upCount = [id \in Ids |-> 0]
    /\ upAt = [id \in Ids |-> 0]

Next ==
    \/ send_packet
    \/ \E n \in Neighbors : slot_tx(n)
    \/ tsch_tx_process_pending
    \/ \E n \in Neighbors : tsch_rx_process_pending(n)
    \/ Tick

(***************************************************************************)
(* The slot operation runs every timeslot from the rtimer and a link to   *)
(* each neighbor recurs every slotframe; tsch_tx_process_pending and      *)
(* tsch_rx_process_pending run whenever the TSCH pending process is       *)
(* polled, which the slot operation does after each slot.                 *)
(***************************************************************************)
Fairness ==
    /\ \A n \in Neighbors : WF_vars(slot_tx(n)) /\ WF_vars(tsch_rx_process_pending(n))
    /\ WF_vars(tsch_tx_process_pending)

Spec == Init /\ [][Next]_vars /\ Fairness

(***************************************************************************)
(* Properties.                                                             *)
(***************************************************************************)
TypeOK == \A n \in Neighbors : W(n)!TypeOK

\* Every receiver's window answers mac_sequence_is_duplicate as its
\* history of accepted frames says, under the traffic of the real sender:
\* retransmissions, copies waiting in the input ring, and time passing.
WindowsMatchHistory == \A n \in Neighbors : W(n)!DuplicateIffRecentlyAccepted

\* A packet whose frame was ACKed (the sent callback reports MAC_TX_OK, or
\* will) has been passed up at its receiver, or a copy of it still waits in
\* the receiver's input ring: the duplicate filter never drops the only
\* copy of an ACKed frame, whatever value tsch_packet_seqno starts from.
AckedIsDelivered ==
    \A id \in Ids :
        (status[id] = "OK" \/ \E i \in DOMAIN dequeued : dequeued[i] = [id |-> id, ret |-> "OK"])
            => \/ upCount[id] > 0
               \/ \E n \in Neighbors : \E i \in DOMAIN input[n] : input[n][i].id = id

\* A retransmitted copy of a packet is passed up again only when more than
\* SEQNO_MAX_AGE ticks have passed since the previous copy was passed up
\* (packet_input with the window's age check).
NoEarlyDuplicateDelivery ==
    [][\A id \in Ids :
          upCount'[id] > upCount[id] /\ upCount[id] > 0
              => now - upAt[id] > SEQNO_MAX_AGE]_vars

\* Every packet send_packet enqueues is eventually reported to the upper
\* layer as ACKed or as not ACKed after max_transmissions.
EveryPacketReported ==
    \A id \in Ids : status[id] = "queued" ~> status[id] \in {"OK", "NOACK"}
=============================================================================
