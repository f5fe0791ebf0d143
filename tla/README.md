# TLA+ models of the ASAP TSCH stack

This directory holds TLA+ models of the TSCH MAC layer in `src/os/net/mac/tsch/`, as modified by ASAP. It also holds the TLC configurations that check them and `PROJECT.json`. `PROJECT.json` lists every component, run, mutant, finding and hazard, and maps each definition to the source lines it translates.

## The system and how its parts interact

- **Schedule store** (`tsch-schedule.c`).
  - Slotframes and links live in fixed memory pools (`memb`) and linked lists.
  - Background code (RPL, Orchestra, association) changes the store through `tsch_schedule_add_slotframe`, `tsch_schedule_add_link`, `tsch_schedule_remove_link`, `tsch_schedule_remove_link_by_timeslot`, `tsch_schedule_remove_slotframe` and `tsch_schedule_create_minimal`.
  - Each of these calls `tsch_get_lock`. That call waits until the slot operation is between slots, so every call is one atomic step between two slots.
  - Adding and removing a Tx link updates `tx_links_count` and `dedicated_tx_links_count` of the neighbor. `tsch_queue_free_unused_neighbors` reads those counters.
- **Slot selector** (`tsch_schedule_get_next_active_link`).
  - At the end of every slot, the slot operation (in interrupt context) scans all links of all slotframes. It picks the link with the earliest next timeslot and breaks ties with `default_tsch_link_comparator`.
  - It also keeps a *backup* Rx link for the case where the chosen link is Tx-only and has nothing to send.
  - The slot operation keeps both pointers (`current_link`, `backup_link`) until the next slot starts.
- **Association and keep-alive** (`tsch.c`).
  - `tsch_process` scans for EBs and associates through `tsch_associate`, or starts as coordinator.
  - It then runs until the node leaves and calls `tsch_reset`.
  - While it runs, the pending-events process delivers these events:
    - EBs (`eb_input`);
    - keep-alive scheduling requests (`tsch_keepalive_process_pending`);
    - keep-alive results (`tsch_tx_process_pending` → `keepalive_packet_sent`). On a NOACK this calls `resynchronize`, which may switch the time source to the last EB sender.
  - The slot operation signals synchronisation and de-synchronisation. RPL changes the time source on a parent switch.
- **Orchestra parent tracking** (`orchestra.c`).
  - `tsch_queue_update_time_source` calls `orchestra_callback_new_time_source` whenever the time source changes. That happens on association, RPL parent switch, `resynchronize` and `tsch_reset`.
  - The callback clears `orchestra_parent_knows_us`. The rules' callbacks then record the new parent's address.
  - The network-layer sniffer `orchestra_packet_sent` sets the flag when a DAO to that address is acknowledged. It runs from `tsch_tx_process_pending`, after the slot operation got the ACK.
- **MAC send/receive path** (`tsch.c`, `mac-sequence.c`).
  - `send_packet` numbers each frame with `++tsch_packet_seqno`. The counter is a `uint8_t` that skips 0 and is seeded by `random_rand()` in `tsch_init`. The frame then goes to the neighbor's queue.
  - The slot operation transmits the head of the queue and retransmits it until it is ACKed or has used `max_transmissions`. The done packet goes to `dequeued_ringbuf`, and `tsch_tx_process_pending` calls its sent callback.
  - At the receiver, the slot operation puts each frame in `input_ringbuf`. `tsch_rx_process_pending` hands the frames to `packet_input`, which drops a duplicate with `mac_sequence_is_duplicate` and otherwise registers the number.
- **SLA** (`tsch.c`, `WITH_SLA`).
  - Every frame's length is recorded in a histogram of the current observation window, and every hop distance in the window's maximum.
  - The `sla_timer` callback `sla_determine_next_timeslot_length_and_trig_asn` then does three things:
    - it takes the k-th percentile of the window as the next reference length;
    - it lowers the reference hop distance by at most one per period (`sla_calculate_triggering_asn`);
    - it puts the triggering ASN on the first common-slotframe boundary after the expected propagation duration.
  - Rapid EB broadcasting then spreads the new length until the triggering ASN.

## Modules

| Module | Models | State ↔ code |
|---|---|---|
| `TschSchedule` | Schedule store, selector, slot start/end | `slotframe_list`/`sf_size` ↔ `slotframe_list` and the slotframe pool; `links_list` ↔ each slotframe's `links_list`; `link_memb` ↔ the link pool (index = pool slot, `memb_alloc` takes the lowest free slot); `nbr_table`, `tx_links_count`, `dedicated_tx_links_count` ↔ the TSCH neighbor table; `current_link`, `backup_link`, `asn`, `in_slot` ↔ the slot operation; `acting`, `freed` are ghost variables. |
| `MacSequence` | MAC duplicate window (`mac-sequence.c`): an operator library, instantiated once per receiver by `TschMacPath` | `received_seqnos[s]` ↔ the per-sender array (index 1 = entry 0); `now` ↔ `clock_time()`; `accepted` is a ghost history of accepted frames, trimmed to the entries that can still decide a query. |
| `TschMacPath` | Unicast MAC path: `send_packet`, transmission with retries over a lossy link, `tsch_tx_process_pending`, the input ring, `tsch_rx_process_pending` and `packet_input` | `tsch_packet_seqno` ↔ the global counter; `queue[n]` ↔ the neighbor queue (with each packet's transmission count); `dequeued` ↔ `dequeued_ringbuf`; `input[n]` ↔ the `input_ringbuf` of receiver n; `received_seqnos[n]` ↔ receiver n's window (through `W(n) == INSTANCE MacSequence`). `status`, `upCount` and `upAt` are ghost variables: the reported outcome of each packet, and how many copies were passed up and when. |
| `AppSequence` | UDP server duplicate window (`udp-server.c`) | `app_up_received_seqnos[s]` ↔ the per-sender array with its `uint8_t` field; `udp_rx_callback` takes the 16-bit count; `accepted` is a ghost history as in `MacSequence`. |
| `SlaObservation` | SLA observation and determination (coordinator): frame lengths, hop distances, percentile, reference hop distance, triggering ASN | `sla_observed_length`, `sla_observed_count`, `sla_current_window_index`, `sla_curr_ref_len`/`sla_next_ref_len`, `sla_max_hop_distance`, `sla_curr_ref_hop_distance` ↔ the globals of `tsch.c`; `sla_trig_ahead` ↔ `sla_triggering_asn` minus the ASN of the determination; `asn_rem` ↔ the current ASN modulo the common slotframe size. `recorded` and `recorded_hops` are ghost lists of the values recorded since the last determination. |
| `SlaDetermination` | What a determination promises (abstract) | The next reference length is the k-th percentile of the recorded lengths, computed as an order statistic over the list. The new reference hop distance is the deepest recorded hop (or the DAO distance), or the old one minus one. The trigger distance is the smallest delay past the propagation duration that lands on a slotframe boundary. |
| `SlaNetwork` | SLA slot-length changes across a chain of nodes (coordinator 0, node n's time source n-1) | `ts_len`, `sla_next_timeslot_length`, `sla_triggering_asn`, `sla_in_rapid_eb_broadcasting` ↔ the per-node globals of `tsch.c`; `sla_eb_send_timer`, `sla_timer` ↔ the ctimers being armed; `eb_queued` ↔ an EB in the `n_eb` queue; `input[n]` ↔ EBs in the input ring; `proc[n]` ↔ `tsch_process` scanning or running (the time source being set); `asn` ↔ the shared `tsch_current_asn`; actions `tsch_start_coordinator`, `sla_determine_next_timeslot_length_and_trig_asn`, `sla_eb_send_timer_expired`, `tsch_send_eb_process`, `eb_tx` (slot operation sending an EB, received or lost; a scanning child runs `tsch_associate` on it), `tsch_rx_process_pending` (calls `eb_input`), `slot_operation` (calls `sla_apply_next_timeslot_length`), `tsch_reset`. The determination's two writes (`tsch.c:997`, `:1000`) are one step. |
| `TschAssociation` | `tsch_process`, EB input, keep-alive, resynchronisation | Variables keep the names of the `tsch.c` globals. `proc` is the position in `tsch_process` (scan/run). `keepalive_timer` is whether the ctimer is armed. `ka_queue` holds the destinations of the keep-alives in the MAC queue. `dao_queue` holds the DAOs that RPL handed to the MAC, and `dao_acked` is a ghost set of the neighbors that acknowledged one this session. `tsch_scan` calls `tsch_associate` on a received EB. `UpdateTimeSource` is `tsch_queue_update_time_source` with its Orchestra callback. `keepalive_packet_sent` and `dao_packet_sent` deliver the outcome of the oldest keep-alive or DAO for its destination (each neighbor queue is FIFO); the DAO outcome goes to `orchestra_packet_sent`. `rpl_send_dao` is the RPL environment. |
| `Orchestra` | Orchestra's parent tracking, as handlers that `TschAssociation` instantiates | `orchestra_init`, `orchestra_callback_new_time_source` (including the unicast rule recording the new time source's address) and `orchestra_packet_sent` over `orchestra_parent_linkaddr` and `orchestra_parent_knows_us`. |

### How `TschSchedule` models the code

- Each store call is a pure record-to-record operator: `AddLink`, `RemoveLink`, `RemoveSlotframe` and the others, composed with `FoldLeft` as the code loops. The action `Background(S)` installs the result in one step. This is exact, because the lock makes each call atomic with respect to the slot operation.
- Inputs range over small sets. `tsch_schedule_add_link` also gets the out-of-range timeslot `size`, which the code rejects.
- The selector is a fold (`SelectStep`) over the links in list order. It follows lines 804–858. `SelectorMatchesReference` compares it to a declarative reference:
  - the chosen link is the first link, in list order, among the links due soonest that no other due link beats;
  - the backup is an Rx link due at the same time.
- The slot operation itself (`tsch-slot-operation.c`) is not in this repository, so it is modelled from the specification:
  - `SlotStart` acts on `current_link`, or on `backup_link` when the current link has no Rx option, its queue is empty and a backup exists.
  - `SlotEnd` advances the ASN and selects the next link.
- ASN is kept modulo the product of the slotframe sizes. The selector only depends on `ASN mod size`, so this is exact.
- Counters are `uint8_t` and are modelled `% 256`.

### How `TschAssociation` models the code

- EB contents are abstracted to the fields the handlers branch on: sender, join priority, and whether the checks pass. The checks are: security, PAN ID and hopping sequence for `tsch_associate`, and ASN for `eb_input`.
- `tsch_associate` writes `tsch_join_priority` before its checks, as the code does (line 1730).
- `KeepaliveSend` models `keepalive_send` followed by `send_packet`. When the queue is full, `send_packet` calls the callback with `MAC_TX_ERR`.
- `KeepaliveSent` models `keepalive_packet_sent` with `resynchronize` inlined.

## Runs

| Run | Config | Expect | Shows |
|---|---|---|---|
| `schedule_store` | `MCTschSchedule.cfg` | pass | Any sequence of store calls and neighbor frees, interleaved with slot starts and ends, keeps the Tx counters equal to the Tx links. The one-pass selector always agrees with the reference order and gives a valid backup. The type invariant includes "every link's timeslot is below its slotframe's size". |
| `schedule_backup_dangling` | `MCTschScheduleBackup.cfg` | violation | The slot operation can act on a backup link that was removed, or replaced through `do_remove`, after it was selected. `remove_link` clears only `current_link` (line 605). |
| `schedule_nbr_table_full` | `MCTschScheduleNbrFull.cfg` | violation | The neighbor table is full, so `add_link` does not count a Tx link. The neighbor is added later, and removing the link wraps its counter to 255. |
| `association_keepalive` | `MCTschAssociation.cfg` | pass | While associated and not coordinator, a keep-alive is always requested, armed or queued. This holds through every Tx outcome, resynchronisation, parent switch and leave. `ParentKnowsUsOnlyAfterDaoAck`: Orchestra believes its parent knows the node only when that parent is the current time source and acknowledged one of its DAOs this session, even though DAO outcomes arrive after time-source changes. |
| `association_alternate_record` | `MCTschAssociationAlt.cfg` | violation | `eb_input` records the time source itself as the alternate for resynchronisation (line 1373). |
| `association_resync_join_priority` | `MCTschAssociationJp.cfg` | violation | `resynchronize` sets a join priority at or above `TSCH_MAX_JOIN_PRIORITY` (line 1234). |
| `mac_path` | `MCTschMacPath.cfg` | pass | This run checks five properties of real sender traffic: lost frames, lost ACKs, retransmissions and full input rings. (1) Each receiver's window drops a frame exactly when its history of accepted frames says so (`WindowsMatchHistory`). (2) An ACKed packet has always been passed up, or still waits in the input ring, even across the seqno wrap (`AckedIsDelivered`). (3) A copy is passed up again only after `SEQNO_MAX_AGE` (`NoEarlyDuplicateDelivery`). (4) Every enqueued packet is eventually reported as OK or NOACK (`EveryPacketReported`). (5) `TypeOK`. |
| `app_duplicate_window_wide_counts` | `MCAppSequenceWide.cfg` | violation | Counts from 256 on are stored in 8 bits but compared in 16. After count 257 is accepted, a fresh count 1 is dropped, and a repeated 257 is accepted again. |
| `sla_determination` | `MCSlaObservation.cfg` | pass | `SlaObservation` implements `SlaDetermination` (`ImplementsSlaDetermination == Abs!Spec`, with a refinement mapping that renames the code's globals). Each determination does three things: (1) it picks exactly the k-th percentile of the frames recorded since the previous one, across window rotation and clearing; (2) it sets the reference hop distance from exactly that period's hops; (3) it sets the triggering ASN on the first common-slotframe boundary after the propagation duration. |
| `sla_network` | `MCSlaNetwork.cfg` | pass | `CoordinatorRapidEbEnds`: in a three-node chain, with lost EBs, EBs waiting in input rings, children associating, leaving and resetting, and a second determination arriving during a rapid broadcast, the coordinator's rapid EB broadcasting always ends. |
| `sla_rapid_eb_stuck` | `MCSlaNetworkStuck.cfg` | violation | A child associates before it may send EBs (not yet in the DODAG), then learns a new length from its parent's EB. `eb_input` calls `sla_rapid_eb_broadcast`, which sets the flag before its checks and arms no timer. The flag stays set, and `tsch_reset` does not clear it. |
| `sla_stale_eb` | `MCSlaNetworkStaleEb.cfg` | violation | The parent sends an EB one slot before the triggering ASN and the child receives it. The slot operation then switches both nodes to the new length. Only after that does `tsch_rx_process_pending` hand the EB to `eb_input`. `eb_input` compares the EB's old current length with the node's new length, not with the length at `rx_asn`, so it disassociates a child that followed the change correctly. |

Every property of a passing run has a mutant in `PROJECT.json`: a plausible bug in a mapped definition that TLC catches under the run's own configuration.

## Bounds and why they are enough

- `TschSchedule`: two slotframe handles with sizes 1 and 2, and one channel offset.
  - A one-cell slotframe is enough for `add_link` with `do_remove` to replace a link. Two slotframes give same-offset ties between slotframes, which the tie-break and backup logic is about.
  - 2 links fill the pool, so `memb_alloc` failure and slot reuse both happen. Two links due in the same slot are enough for every tie-break rule and for the backup.
  - Option sets Tx, Rx and Tx|Rx|Shared cover dedicated, shared, Rx-only and Tx-only links.
  - Queue lengths are 0 and 1. The comparator only compares counts, and 0 is what triggers the backup path.
  - The neighbor table holds 2 entries. With three addresses (two unicast and broadcast) it can be full.
- `TschAssociation`: two neighbors, so a time source and a distinct alternate exist. `MaxJoinPriority` is 8, and EB join priorities are 0, `MAX-2`, `MAX` and 255, which cover accept, the boundary, reject and the uint8 wrap. The keep-alive queue holds 2, so queue-full happens. Timeouts are 0 and 1 (off and on). Two DAOs can be queued. That is enough for a DAO to the old parent to be pending across a switch, and for two DAOs to one destination to be delivered in order. About 2.4 million distinct states, in under 2 minutes.

- `TschMacPath`: one sender and two receivers, so the two windows must stay separate. The queue holds 2 and three packets are sent, so the queue can be full. `MaxTx` is 2, so a packet can be retransmitted and can also exhaust its transmissions. Each input ring holds 2, so a heard frame can be dropped for lack of room. The window holds 2 entries with a maximum age of 1 and time runs to 2, so an entry can expire while a retransmission is on its way. The counter starts at 255, so the second packet crosses the wrap, where the code skips 0.
- `MacSequence` (in `TschMacPath`) and `AppSequence`: a window of 2 entries and three sequence numbers, so eviction happens. The maximum age is 1 and time runs to 3, so entries expire and are re-accepted, which exercises moving a matching entry to the front. There are two senders (plus invalid ids for the MAC), which checks that the per-sender arrays stay separate. In the MAC model, 0 is never a sequence number: `send_packet` skips it (`tsch.c:2288`), and the zeroed storage holds 0.
- `SlaObservation`: one frame kind, since the three kinds run identical code on separate arrays. Three frame lengths fall in three buckets, up to 3 frames are recorded per window, there are 2 windows, and k = 50, so the percentile is not just the maximum. There are two hop distances (1 and 3), and the DAO distances 0 and 2. So the deepest hop can come from either source, a zero maximum takes the offset, and a reference of 3 decays to 2 rather than to the observed 1. The common slotframe has 2 slots and the ASN remainder cycles through both, so both the "already aligned" and the "one slot short" cases of the alignment occur.
- `SlaNetwork`: a chain of three nodes in the pass run, so a plan crosses two hops and a relay both receives and sends it. The violation runs use two nodes. There are two lengths, the triggering ASN is 1–2 slots ahead, the ASN is bounded by 4 and there are at most two determinations. The second determination can therefore come while the first one's rapid broadcast is still running. An input ring of one EB is enough for an EB to wait across the switch. The run reaches about 1.2 million distinct states in about 1½ minutes.

## Fairness

Two modules state liveness properties. `TschMacPath` checks `EveryPacketReported`. Its specification assumes weak fairness of three actions:
- `slot_tx(n)` for each neighbor. The slot operation runs from the rtimer every timeslot, and a link to each neighbor recurs every slotframe.
- `tsch_rx_process_pending(n)` and `tsch_tx_process_pending`. The slot operation polls the pending process after each slot that produced work.

Fairness of `send_packet` and `Tick` is not assumed, because the upper layer and time may stop. `MCTschMacPath.cfg` therefore sets `CHECK_DEADLOCK FALSE`: once the bounded traffic is delivered and the clock bound is reached, the model idles. Each transmission loses the frame or the ACK nondeterministically, with no fairness on the loss. The property still holds, because the retry count bounds every packet's stay in the queue.

`SlaNetwork` checks `CoordinatorRapidEbEnds` under weak fairness of three actions:
- `slot_operation`, because the rtimer runs it every slot;
- `sla_eb_send_timer_expired(n)`, because an armed ctimer fires;
- `tsch_rx_process_pending(n)`, because the process is polled after a slot that received a frame.

The coordinator's determinations, EB enqueue and EB transmission are not assumed fair. The ASN is bounded, so `MCSlaNetwork.cfg` sets `CHECK_DEADLOCK FALSE`. Determinations are bounded so that their triggering ASN lies within that bound.

The other properties are safety properties. Keep-alive continuity is stated as "a keep-alive is always pending somewhere", not as a leads-to, because the code's progress depends on ctimers and the process scheduler, which are not modelled.

## Not modelled (see `PROJECT.json` components)

- In SLA: the DAO hop distance from RPL is an input, and the absolute ASN is kept only modulo the common slotframe size. The timeslot-length arithmetic and the evaluation-only skip of the first determination are not modelled. `WITH_SLA`, `HCK_MODIFIED_MAC_SEQNO_DUPLICATE_CHECK` and `APP_SEQNO_DUPLICATE_CHECK` are set by the project configuration, which is not in this repository. The models assume they are enabled, as in ASAP's configurations.
- The slot operation's SLA side is not in this repository. That side covers switching length at the triggering ASN, EB transmission and reception, and the EB update before sending. `SlaNetwork` models it from the specification: `slot_operation` calls `sla_apply_next_timeslot_length` when the ASN equals the triggering ASN, and `eb_tx` sends the EB built by `sla_packet_update_eb`. In `SlaNetwork`, `eb_input`'s ASN-drift and join-priority checks, time-source autoselection and keep-alive leaves are not modelled. Those are the other causes of disassociation, and `TschAssociation` covers them.
- In the MAC path: broadcast and EB frames (the sequence number is assigned the same way), the framer's byte-level encoding, security, and the slot operation's timing. The slot operation is not in this repository, so `slot_tx` and `Tick` are modelled from the specification.
- The split of the SLA determination by the slot interrupt. `sla_next_timeslot_length` is written at `tsch.c:997` and `sla_triggering_asn` at `:1000`, so an EB sent between the two writes carries the new length with the previous trigger. `SlaNetwork` makes the determination one step. Whether the mixed EB does harm depends on the `sla_timer` period and the triggering distance, which are build constants that are not in this repository. It is listed as a hazard without a property.
- The other parts of `udp-server.c` (the RPL root set-up and the statistics printing), which are I/O only.
- Byte-level frame building and parsing (`tsch-packet.c`).
- ACK acceptance in a shared slot (`tsch_packet_parse_eack`, `tsch-packet.c:274`). With two senders and one captured frame, the other sender accepts an ACK that has no destination address when its 8-bit seqno matches. Whether the ACK carries a destination is set by `TSCH_PACKET_EACK_WITH_DEST_ADDR`, which is not in this repository. `TschMacPath` has a single sender, so every ACK it sees is for its own frame. This is listed as an uncovered hazard.
- The Orchestra rules, which are not in this repository. `Orchestra` assumes that the unicast rule sets `orchestra_parent_linkaddr` to the new time source, which is what Orchestra's documented design requires (`orchestra.c:162`). `orchestra_callback_packet_ready`, `orchestra_callback_child_added` and `orchestra_callback_child_removed` only loop over the rules.
- The DAO acknowledgement and its Orchestra callback are one step. The comment at `orchestra.c:186` claims that the flag means the ACK came after the latest decision to use that parent. That claim would need the ACK in the slot operation split from `tsch_tx_process_pending`, and it is not checked.
- Node-information and timing tables, which hold constant data.
- The ALICE and OST variants, which are compiled out of this build.
- `tsch_queue_free_unused_neighbors` does not see the time-source exclusion, because `TschSchedule` has no time source. It may therefore free more than the code does. No checked trace relies on freeing a time source.

## Plan for further work

1. Compose association and schedule for `TSCH_INIT_SCHEDULE_FROM_EB` partial failure (`tsch.c:1838`).
2. Link `TschAssociation` and `SlaNetwork` into one model of `eb_input`, so that ASN drift and the SLA length check interact.
3. A second sender in `TschMacPath` sharing a slot with capture, to check `AckedIsDelivered` against `tsch_packet_parse_eack`'s acceptance rule.
4. A run with three slotframe handles showing the `WITH_OST_CEHCK` typo (`tsch-schedule.c:824`).
