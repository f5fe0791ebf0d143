---------------------------- MODULE TschSchedule ----------------------------
(***************************************************************************)
(* The TSCH schedule store of tsch-schedule.c: slotframes and links held   *)
(* in fixed pools (memb) and kept in lists, the per-neighbor Tx-link       *)
(* counters the store maintains in tsch-queue, and the slot selector       *)
(* tsch_schedule_get_next_active_link.  The slot operation that consumes   *)
(* the selector's result (current_link, backup_link) runs in the timer     *)
(* interrupt; tsch_get_lock busy-waits until it is outside a slot, so each *)
(* background call below is one atomic step that can only fall between    *)
(* two slots, and the slot operation is two steps: the start of a slot     *)
(* (which link it acts on) and the end of a slot (selection of the next).  *)
(* The slot operation and tsch-queue live outside this repository and are  *)
(* modelled from the specification.                                        *)
(***************************************************************************)
EXTENDS Naturals, Sequences, FiniteSets, SequencesExt, Functions

CONSTANTS
    Handles,          \* slotframe handles used by the upper layers
    Sizes,            \* slotframe lengths passed to add_slotframe (all > 0)
    ChannelOffsets,   \* channel offsets passed to add_link
    Addrs,            \* link addresses, tsch_broadcast_address among them
    Broadcast,        \* tsch_broadcast_address
    LinkOptionSets,   \* link_options values passed to add_link
    DoRemoveValues,   \* do_remove values passed to add_link
    QueueLens,        \* packet counts a neighbor queue may hold
    MaxLinks,         \* TSCH_SCHEDULE_MAX_LINKS (size of link_memb)
    MaxSlotframes,    \* TSCH_SCHEDULE_MAX_SLOTFRAMES (size of slotframe_memb)
    NbrTableSize,     \* capacity of the tsch-queue neighbor table
    DefaultLength     \* TSCH_SCHEDULE_DEFAULT_LENGTH

ASSUME /\ 0 \in Handles /\ DefaultLength \in Sizes /\ Broadcast \in Addrs
       /\ \A s \in Sizes : s > 0

NULL == 0
LinkSlots == 1..MaxLinks
NoLink == [free |-> TRUE]
TX == "TX"
RX == "RX"
SHARED == "SH"

\* ASN is kept modulo a common multiple of all slotframe lengths: every
\* quantity the store computes from it is ASN mod size.
AsnPeriod == FoldSet(LAMBDA a, b : a * b, 1, Sizes)

LinkRec == [options : LinkOptionSets, sf : Handles, ts : Nat,
            ch : ChannelOffsets, addr : Addrs]

VARIABLES
    slotframe_list,            \* handles of the slotframes, in list order
    sf_size,                   \* handle -> size, 0 when no such slotframe
    links_list,                \* handle -> pool slots of its links, in list order
    link_memb,                 \* pool slot -> link record or NoLink
    nbr_table,                 \* addresses with a tsch-queue neighbor entry
    tx_links_count,            \* neighbor counters (uint8_t)
    dedicated_tx_links_count,
    asn,                       \* tsch_current_asn mod AsnPeriod
    current_link,              \* slot operation's next link (NULL = 0)
    backup_link,
    in_slot,                   \* tsch_in_slot_operation
    acting,                    \* link the running slot acts on
    freed                      \* pool slots freed since the last selection

vars == <<slotframe_list, sf_size, links_list, link_memb, nbr_table,
          tx_links_count, dedicated_tx_links_count, asn, current_link,
          backup_link, in_slot, acting, freed>>

(***************************************************************************)
(* The store as a record, so that a call made of several internal calls    *)
(* (remove_slotframe, add_link with do_remove, create_minimal) is written  *)
(* as the composition of their state transformers.                         *)
(***************************************************************************)
Store == [sfl |-> slotframe_list, size |-> sf_size, links |-> links_list,
          memb |-> link_memb, nbrs |-> nbr_table, tx |-> tx_links_count,
          ded |-> dedicated_tx_links_count, cur |-> current_link,
          freed |-> freed]

Install(S) ==
    /\ slotframe_list' = S.sfl
    /\ sf_size' = S.size
    /\ links_list' = S.links
    /\ link_memb' = S.memb
    /\ nbr_table' = S.nbrs
    /\ tx_links_count' = S.tx
    /\ dedicated_tx_links_count' = S.ded
    /\ current_link' = S.cur
    /\ freed' = S.freed

IsTx(lk) == TX \in lk.options
IsRx(lk) == RX \in lk.options
IsDedicatedTx(lk) == IsTx(lk) /\ SHARED \notin lk.options
Bump(x, d) == (x + d) % 256     \* uint8_t ++ and --

\* tsch_queue_add_nbr: the entry if present, else a zeroed new entry if the
\* table has room, else NULL (the store is returned unchanged).
AddNbr(S, a) ==
    IF a \in S.nbrs \/ Cardinality(S.nbrs) >= NbrTableSize THEN S
    ELSE [S EXCEPT !.nbrs = @ \cup {a}, !.tx[a] = 0, !.ded[a] = 0]

\* Mutant of RemoveLink: the dedicated counter decremented for shared links
\* too.
RemoveLinkAnyDedicated(S, h, l) ==
    LET lk == S.memb[l]
        counted == IsTx(lk) /\ lk.addr \in S.nbrs
    IN [S EXCEPT !.cur = IF @ = l THEN NULL ELSE @,
                 !.links[h] = SelectSeq(@, LAMBDA x : x # l),
                 !.memb[l] = NoLink, !.freed = @ \cup {l},
                 !.tx[lk.addr] = IF counted THEN Bump(@, -1) ELSE @,
                 !.ded[lk.addr] = IF counted THEN Bump(@, -1) ELSE @]

\* tsch_schedule_remove_link, after its guard: clear current_link if it is
\* the link, unlink and free it, then decrement the neighbor counters.
RemoveLink(S, h, l) ==
    LET lk == S.memb[l]
        counted == IsTx(lk) /\ lk.addr \in S.nbrs
    IN [S EXCEPT !.cur = IF @ = l THEN NULL ELSE @,
                 !.links[h] = SelectSeq(@, LAMBDA x : x # l),
                 !.memb[l] = NoLink,
                 !.freed = @ \cup {l},
                 !.tx[lk.addr] = IF counted THEN Bump(@, -1) ELSE @,
                 !.ded[lk.addr] = IF counted /\ IsDedicatedTx(lk)
                                  THEN Bump(@, -1) ELSE @]

\* tsch_schedule_remove_link_by_timeslot: every matching link of the list.
RemoveLinkByTimeslot(S, h, ts, ch) ==
    FoldLeft(LAMBDA acc, l :
                IF S.memb[l].ts = ts /\ S.memb[l].ch = ch
                THEN RemoveLink(acc, h, l) ELSE acc,
             S, S.links[h])

\* tsch_schedule_remove_slotframe: its links, then the slotframe itself.
RemoveSlotframe(S, h) ==
    LET S1 == FoldLeft(LAMBDA acc, l : RemoveLink(acc, h, l), S, S.links[h])
    IN [S1 EXCEPT !.sfl = SelectSeq(@, LAMBDA x : x # h), !.size[h] = 0]

\* tsch_schedule_remove_all_slotframes
RemoveAllSlotframes(S) ==
    FoldLeft(LAMBDA acc, h : RemoveSlotframe(acc, h), S, S.sfl)

\* tsch_schedule_add_slotframe: NULL on size 0, an existing handle or a
\* full pool; otherwise appended to slotframe_list.
AddSlotframe(S, h, size) ==
    IF size = 0 \/ S.size[h] # 0 \/ Len(S.sfl) >= MaxSlotframes THEN S
    ELSE [S EXCEPT !.sfl = Append(@, h), !.size[h] = size]

\* The Tx-link counters update at the end of add_link.
CountTxLink(S, lk) ==
    LET S1 == AddNbr(S, lk.addr)
    IN IF lk.addr \in S1.nbrs
       THEN [S1 EXCEPT !.tx[lk.addr] = Bump(@, 1),
                       !.ded[lk.addr] = IF IsDedicatedTx(lk) THEN Bump(@, 1)
                                        ELSE @]
       ELSE S1

\* Mutant of AddLink: the timeslot check off by one (ts > size).
AddLinkOffByOne(S, h, options, addr, ts, ch, doRemove) ==
    IF S.size[h] = 0 \/ ts > S.size[h] THEN S
    ELSE
      LET S1 == IF doRemove THEN RemoveLinkByTimeslot(S, h, ts, ch) ELSE S
          free == {i \in LinkSlots : S1.memb[i] = NoLink}
          i == CHOOSE i \in free : \A j \in free : i <= j
          lk == [options |-> options, sf |-> h, ts |-> ts, ch |-> ch,
                 addr |-> addr]
          S2 == [S1 EXCEPT !.links[h] = Append(@, i), !.memb[i] = lk]
      IN CASE free = {} -> S1
           [] IsTx(lk)  -> CountTxLink(S2, lk)
           [] OTHER     -> S2

\* tsch_schedule_add_link on an existing slotframe h.  memb_alloc hands
\* out the first free slot.
AddLink(S, h, options, addr, ts, ch, doRemove) ==
    IF S.size[h] = 0 \/ ts > S.size[h] - 1 THEN S
    ELSE
      LET S1 == IF doRemove THEN RemoveLinkByTimeslot(S, h, ts, ch) ELSE S
          free == {i \in LinkSlots : S1.memb[i] = NoLink}
          i == CHOOSE i \in free : \A j \in free : i <= j
          lk == [options |-> options, sf |-> h, ts |-> ts, ch |-> ch,
                 addr |-> addr]
          S2 == [S1 EXCEPT !.links[h] = Append(@, i), !.memb[i] = lk]
      IN CASE free = {} -> S1
           [] IsTx(lk)  -> CountTxLink(S2, lk)
           [] OTHER     -> S2

\* tsch_schedule_create_minimal
CreateMinimal(S) ==
    AddLink(AddSlotframe(RemoveAllSlotframes(S), 0, DefaultLength),
            0, {RX, TX, SHARED}, Broadcast, 0, 0, TRUE)

(***************************************************************************)
(* tsch_schedule_get_next_active_link: one pass over the links of every    *)
(* slotframe in list order, keeping the earliest link, a tie-break among   *)
(* links at the same offset, and a backup link with Rx.  The OST block     *)
(* under WITH_OST_CEHCK and the ssq override are compiled out.             *)
(***************************************************************************)
AllLinks == FoldLeft(LAMBDA acc, h : acc \o links_list[h], <<>>, slotframe_list)

TimeToTimeslot(l, t) ==
    LET lk == link_memb[l]
        ts == t % sf_size[lk.sf]
    IN IF lk.ts > ts THEN lk.ts - ts ELSE sf_size[lk.sf] + lk.ts - ts

\* Packets queued to the neighbor of a link, 0 without a neighbor entry.
PacketCount(l, q) ==
    IF link_memb[l].addr \in nbr_table THEN q[link_memb[l].addr] ELSE 0

\* default_tsch_link_comparator(a, b)
LinkComparator(a, b, q) ==
    CASE ~IsTx(link_memb[a])                       -> a
      [] link_memb[a].addr = link_memb[b].addr     -> a
      [] PacketCount(a, q) >= PacketCount(b, q)    -> a
      [] OTHER                                     -> b

\* new_best of two overlapping links: l, curr_best, or NULL to keep curr_best.
TieBreak(best, l, q) ==
    LET b == link_memb[best]
        lk == link_memb[l]
    IN CASE IsTx(b) = IsTx(lk) /\ lk.sf # b.sf -> IF lk.sf < b.sf THEN l ELSE NULL
         [] IsTx(b) = IsTx(lk)                 -> LinkComparator(best, l, q)
         [] IsTx(lk)                           -> l
         [] OTHER                              -> NULL

\* Mutant of SelectStep: a later link due as soon as the best one replaces
\* it without the tie-break (<= for <).
SelectStepLaterWins(acc, l, t, q) ==
    LET d == TimeToTimeslot(l, t)
        nb == TieBreak(acc.best, l, q)
        bk1 == IF nb # l /\ IsRx(link_memb[l]) THEN l ELSE NULL
        bk == CASE acc.backup # NULL -> acc.backup
                [] nb # acc.best /\ IsRx(link_memb[acc.best]) -> acc.best
                [] OTHER -> bk1
    IN CASE acc.best = NULL \/ d <= acc.off ->
              [best |-> l, off |-> d, backup |-> NULL]
         [] d = acc.off ->
              [best |-> IF nb # NULL THEN nb ELSE acc.best, off |-> d,
               backup |-> bk]
         [] OTHER -> acc

SelectStep(acc, l, t, q) ==
    LET d == TimeToTimeslot(l, t)
        nb == TieBreak(acc.best, l, q)
        bk1 == IF nb # l /\ IsRx(link_memb[l]) THEN l ELSE NULL
        bk == CASE acc.backup # NULL -> acc.backup
                [] nb # acc.best /\ IsRx(link_memb[acc.best]) -> acc.best
                [] OTHER -> bk1
    IN CASE acc.best = NULL \/ d < acc.off ->
              [best |-> l, off |-> d, backup |-> NULL]
         [] d = acc.off ->
              [best |-> IF nb # NULL THEN nb ELSE acc.best, off |-> d,
               backup |-> bk]
         [] OTHER -> acc

GetNextActiveLink(t, q) ==
    FoldLeft(LAMBDA acc, l : SelectStep(acc, l, t, q),
             [best |-> NULL, off |-> 0, backup |-> NULL], AllLinks)

(***************************************************************************)
(* Actions.  Background calls run only between slots.                     *)
(***************************************************************************)
Background(S) ==
    /\ ~in_slot
    /\ Install(S)
    /\ UNCHANGED <<asn, backup_link, in_slot, acting>>

tsch_schedule_add_slotframe ==
    \E h \in Handles, size \in Sizes :
        /\ sf_size[h] = 0
        /\ Len(slotframe_list) < MaxSlotframes
        /\ Background(AddSlotframe(Store, h, size))

tsch_schedule_add_link ==
    \E h \in Range(slotframe_list), o \in LinkOptionSets, a \in Addrs,
       ch \in ChannelOffsets, rm \in DoRemoveValues :
        \E ts \in 0..sf_size[h] :
            Background(AddLink(Store, h, o, a, ts, ch, rm))

tsch_schedule_remove_link ==
    \E h \in Range(slotframe_list) :
        \E l \in Range(links_list[h]) : Background(RemoveLink(Store, h, l))

tsch_schedule_remove_link_by_timeslot ==
    \E h \in Range(slotframe_list), ch \in ChannelOffsets :
        \E ts \in 0..(sf_size[h] - 1) :
            Background(RemoveLinkByTimeslot(Store, h, ts, ch))

tsch_schedule_remove_slotframe ==
    \E h \in Range(slotframe_list) : Background(RemoveSlotframe(Store, h))

tsch_schedule_create_minimal ==
    Background(CreateMinimal(Store))

\* tsch-queue: a packet for a new neighbor creates its entry.
tsch_queue_add_nbr ==
    \E a \in Addrs \ nbr_table : Background(AddNbr(Store, a))

\* tsch-queue: tsch_queue_free_unused_neighbors frees an entry that is not
\* the broadcast neighbor, has no Tx link and an empty queue.
tsch_queue_free_unused_neighbors ==
    \E a \in nbr_table \ {Broadcast} :
        /\ tx_links_count[a] = 0
        /\ Background([Store EXCEPT !.nbrs = @ \ {a}])

\* Slot start: skip the slot without a current link; a link without Rx and
\* with nothing to send gives way to the backup link.
SlotStart ==
    /\ ~in_slot
    /\ in_slot' = TRUE
    /\ \E hasPacket \in BOOLEAN :
         acting' = IF current_link # NULL /\ ~hasPacket
                      /\ ~IsRx(link_memb[current_link]) /\ backup_link # NULL
                   THEN backup_link ELSE current_link
    /\ UNCHANGED <<slotframe_list, sf_size, links_list, link_memb, nbr_table,
                   tx_links_count, dedicated_tx_links_count, asn,
                   current_link, backup_link, freed>>

\* Slot end: select the next link and move ASN to it (one slot if none).
SlotEnd ==
    /\ in_slot
    /\ \E q \in [Addrs -> QueueLens] :
         LET r == GetNextActiveLink(asn, q)
         IN /\ current_link' = r.best
            /\ backup_link' = r.backup
            /\ asn' = (asn + IF r.best = NULL THEN 1 ELSE r.off) % AsnPeriod
    /\ in_slot' = FALSE
    /\ acting' = NULL
    /\ freed' = {}
    /\ UNCHANGED <<slotframe_list, sf_size, links_list, link_memb, nbr_table,
                   tx_links_count, dedicated_tx_links_count>>

Init ==
    /\ slotframe_list = <<>>
    /\ sf_size = [h \in Handles |-> 0]
    /\ links_list = [h \in Handles |-> <<>>]
    /\ link_memb = [i \in LinkSlots |-> NoLink]
    /\ nbr_table = {Broadcast}
    /\ tx_links_count = [a \in Addrs |-> 0]
    /\ dedicated_tx_links_count = [a \in Addrs |-> 0]
    /\ asn = 0
    /\ current_link = NULL
    /\ backup_link = NULL
    /\ in_slot = FALSE
    /\ acting = NULL
    /\ freed = {}

\* Calls of the upper layers and the neighbor table, without the slot
\* operation running.
StoreNext ==
    \/ tsch_schedule_add_slotframe
    \/ tsch_schedule_add_link
    \/ tsch_schedule_remove_link
    \/ tsch_schedule_remove_link_by_timeslot
    \/ tsch_schedule_remove_slotframe
    \/ tsch_schedule_create_minimal
    \/ tsch_queue_add_nbr
    \/ tsch_queue_free_unused_neighbors

Next == StoreNext \/ SlotStart \/ SlotEnd

StoreSpec == Init /\ [][StoreNext]_vars
Spec == Init /\ [][Next]_vars

(***************************************************************************)
(* Properties.                                                             *)
(***************************************************************************)
Allocated == {i \in LinkSlots : link_memb[i] # NoLink}

TypeOK ==
    /\ slotframe_list \in Seq(Handles)
    /\ sf_size \in [Handles -> Sizes \cup {0}]
    /\ links_list \in [Handles -> Seq(LinkSlots)]
    /\ link_memb \in [LinkSlots -> LinkRec \cup {NoLink}]
    /\ \A i \in Allocated : link_memb[i].ts < sf_size[link_memb[i].sf]
    /\ nbr_table \subseteq Addrs
    /\ tx_links_count \in [Addrs -> 0..255]
    /\ dedicated_tx_links_count \in [Addrs -> 0..255]
    /\ asn \in 0..(AsnPeriod - 1)
    /\ {current_link, backup_link, acting} \subseteq LinkSlots \cup {NULL}
    /\ in_slot \in BOOLEAN
    /\ freed \subseteq LinkSlots

\* Every neighbor that some Tx link points to has a neighbor entry, and the
\* entry's tx_links_count and dedicated_tx_links_count equal the number of
\* Tx (and Tx non-shared) links to it: add_link, remove_link, the removals
\* inside remove_slotframe and add_link's do_remove, and the neighbor
\* table's own frees must keep the two in step across any call sequence.
TxLinkCountConsistent ==
    \A a \in Addrs :
        LET txl == {i \in Allocated : IsTx(link_memb[i]) /\ link_memb[i].addr = a}
            ded == {i \in txl : IsDedicatedTx(link_memb[i])}
        IN /\ txl # {} => a \in nbr_table
           /\ a \in nbr_table => /\ tx_links_count[a] = Cardinality(txl)
                                 /\ dedicated_tx_links_count[a] = Cardinality(ded)

\* A neighbor's tx_links_count and dedicated_tx_links_count never wrap
\* below zero: each uint8_t decrement in remove_link matches an increment
\* made by add_link for the same link, even when the neighbor table was
\* full at add_link time and the entry was created or freed since.
TxLinkCountNoWrap ==
    \A a \in nbr_table :
        /\ tx_links_count[a] <= MaxLinks
        /\ dedicated_tx_links_count[a] <= MaxLinks

\* The link a slot actually acts on, current or backup, was not freed
\* between its selection at the end of the previous slot and this slot.
SlotActsOnLiveLink ==
    acting # NULL => acting \notin freed

(***************************************************************************)
(* Reference definition of the selector: among the links due soonest, a   *)
(* Tx link beats a non-Tx one, then the lower slotframe handle wins, then *)
(* within one slotframe the Tx link whose neighbor has more packets; the   *)
(* first such link in list order is chosen.  The backup is an Rx link due  *)
(* at the same time, which must exist whenever the chosen link lacks Rx   *)
(* and some other due link has it.                                        *)
(***************************************************************************)
MinOffset(t) ==
    LET offs == {TimeToTimeslot(l, t) : l \in Range(AllLinks)}
    IN CHOOSE d \in offs : \A e \in offs : d <= e

Beats(m, l, q) ==
    LET a == link_memb[m]
        b == link_memb[l]
    IN \/ IsTx(a) /\ ~IsTx(b)
       \/ IsTx(a) = IsTx(b) /\ a.sf < b.sf
       \/ IsTx(a) /\ IsTx(b) /\ a.sf = b.sf /\ PacketCount(m, q) > PacketCount(l, q)

\* The first link in list order among the due links no other due link beats.
RefBest(due, q) ==
    LET top == {l \in due : \A m \in due : ~Beats(m, l, q)}
    IN CHOOSE k \in DOMAIN AllLinks :
           /\ AllLinks[k] \in top
           /\ \A j \in 1..(k - 1) : AllLinks[j] \notin top

\* get_next_active_link returns the reference choice at the earliest offset,
\* and a backup usable by the slot operation, for every ASN and every queue
\* state: the one-pass tie-break and backup bookkeeping of the code agree
\* with the order the selector is meant to implement.
SelectorMatchesReference ==
    AllLinks # <<>> =>
    \A t \in 0..(AsnPeriod - 1), q \in [Addrs -> QueueLens] :
        LET r == GetNextActiveLink(t, q)
            off == MinOffset(t)
            due == {l \in Range(AllLinks) : TimeToTimeslot(l, t) = off}
            rxOthers == {l \in due \ {r.best} : IsRx(link_memb[l])}
        IN /\ r.best = AllLinks[RefBest(due, q)]
           /\ r.off = off
           /\ r.backup # NULL => r.backup \in due /\ IsRx(link_memb[r.backup])
           /\ ~IsRx(link_memb[r.best]) =>
                 IF rxOthers = {} THEN r.backup = NULL ELSE r.backup \in rxOthers
=============================================================================
