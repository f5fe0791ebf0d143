--------------------------- MODULE TschAssociation ---------------------------
(***************************************************************************)
(* The association and synchronisation state machine of one node in        *)
(* tsch.c: the main process (scan or start as coordinator, run, reset on   *)
(* leaving), EB processing while associated, keep-alive scheduling, the    *)
(* keep-alive sent callback and resynchronisation to the last EB sender.   *)
(* Packet contents are abstracted to the fields the handlers branch on:    *)
(* the sender, the advertised join priority, and whether the checks that  *)
(* precede them (parse, security, PAN ID, hopping length, ASN) succeed.    *)
(* The slot operation and tsch-queue are outside this repository: their    *)
(* effects on this state (synchronisation with the time source, loss of    *)
(* sync, delivery of keep-alives with a status, RPL changing the time      *)
(* source) are environment actions modelled from the specification.       *)
(*                                                                         *)
(* Orchestra's parent tracking is composed in: every change of the time   *)
(* source (tsch_queue_update_time_source) calls                           *)
(* orchestra_callback_new_time_source, and DAOs that RPL hands to the MAC  *)
(* share the neighbor queues and tsch_tx_process_pending with the          *)
(* keep-alives; their sent callbacks reach orchestra_packet_sent.          *)
(***************************************************************************)
EXTENDS Naturals, Sequences

CONSTANTS
    Nbrs,               \* neighbors that send EBs and may be time source
    None,               \* linkaddr_null / no time source
    MaxJoinPriority,    \* TSCH_MAX_JOIN_PRIORITY
    EbJoinPriorities,   \* join priorities advertised in received EBs
    KaTimeouts,         \* values of tsch_current_ka_timeout (0 stops KAs)
    KaQueueLen,         \* room for keep-alives in the time source's queue
    DaoQueueLen,        \* room for DAOs in the neighbor queues
    HCK_MOD_NO_PATH_DAO_FOR_ORCHESTRA_PARENT

ASSUME None \notin Nbrs /\ MaxJoinPriority \in 1..255
       /\ EbJoinPriorities \subseteq 0..255

UNCHANGED_ == "UNCHANGED"                 \* KEEPALIVE_SCHEDULING_UNCHANGED
SCHEDULE_OR_STOP == "SCHEDULE_OR_STOP"    \* KEEPALIVE_SCHEDULE_OR_STOP
SEND_IMMEDIATELY == "SEND_IMMEDIATELY"    \* KEEPALIVE_SEND_IMMEDIATELY
MacTxStatus == {"OK", "NOACK", "ERR"}

VARIABLES
    tsch_is_coordinator,
    tsch_is_associated,
    proc,                   \* tsch_process: "scan" (associating) or "run"
    tsch_join_priority,     \* uint8_t
    time_source,            \* tsch_queue_get_time_source address, or None
    last_eb_nbr_addr,
    last_eb_nbr_jp,         \* uint8_t
    keepalive_status,
    keepalive_timer,        \* the ctimer is armed
    ka_queue,               \* destinations of keep-alives handed to the MAC
    sync_count,             \* 0, or 1 for "at least one sync this session"
    tsch_current_ka_timeout,
    dao_queue,              \* DAOs handed to the MAC: [dest, noPath], oldest first
    dao_acked,              \* ghost: neighbors that ACKed a DAO this session
    orchestra_parent_linkaddr,
    orchestra_parent_knows_us

Orch == INSTANCE Orchestra

orchVars == <<dao_queue, dao_acked, orchestra_parent_linkaddr, orchestra_parent_knows_us>>

vars == <<tsch_is_coordinator, tsch_is_associated, proc, tsch_join_priority,
          time_source, last_eb_nbr_addr, last_eb_nbr_jp, keepalive_status,
          keepalive_timer, ka_queue, sync_count, tsch_current_ka_timeout,
          orchVars>>

\* tsch_queue_update_time_source(new): the time source changes and, if it
\* is another neighbor, TSCH_CALLBACK_NEW_TIME_SOURCE runs.
UpdateTimeSource(new) ==
    /\ time_source' = new
    /\ Orch!orchestra_callback_new_time_source(time_source, new)

Uint8(x) == x % 256

\* tsch_schedule_keepalive(immediate), on a keepalive_status value.
ScheduleKeepalive(status, immediate) ==
    IF immediate THEN SEND_IMMEDIATELY
    ELSE IF status # SEND_IMMEDIATELY THEN SCHEDULE_OR_STOP ELSE status

(***************************************************************************)
(* keepalive_send, entered with keepalive_status = status: stop the timer; *)
(* when associated with a time source, hand an empty frame to the MAC.     *)
(* send_packet reports a full queue at once through                        *)
(* keepalive_packet_sent(MAC_TX_ERR), which reschedules.                   *)
(***************************************************************************)
KeepaliveSendFullOffByOne(status) ==
    /\ keepalive_timer' = FALSE
    /\ IF tsch_is_associated /\ time_source # None
       THEN IF Len(ka_queue) <= KaQueueLen
            THEN /\ ka_queue' = Append(ka_queue, time_source)
                 /\ keepalive_status' = status
            ELSE /\ ka_queue' = ka_queue
                 /\ keepalive_status' = ScheduleKeepalive(status, FALSE)
       ELSE /\ ka_queue' = ka_queue
            /\ keepalive_status' = status

KeepaliveSend(status) ==
    /\ keepalive_timer' = FALSE
    /\ IF tsch_is_associated /\ time_source # None
       THEN IF Len(ka_queue) < KaQueueLen
            THEN /\ ka_queue' = Append(ka_queue, time_source)
                 /\ keepalive_status' = status
            ELSE /\ ka_queue' = ka_queue
                 /\ keepalive_status' = ScheduleKeepalive(status, FALSE)
       ELSE /\ ka_queue' = ka_queue
            /\ keepalive_status' = status

\* tsch_disassociate
Disassociate == tsch_is_associated' = FALSE

(***************************************************************************)
(* Actions of tsch_process.                                                *)
(***************************************************************************)

(***************************************************************************)
(* tsch_associate on an EB from s advertising join priority j.  ok: the    *)
(* frame parses and passes the security, PAN ID and hopping-sequence       *)
(* checks; nbrOk: tsch_queue_add_nbr finds room.  The join priority is     *)
(* written before any check.                                               *)
(***************************************************************************)
tsch_associate(s, j, ok, nbrOk) ==
    LET jp == Uint8(j + 1)
    IN /\ tsch_join_priority' = jp
       /\ IF ok /\ j # 255 /\ jp < MaxJoinPriority /\ nbrOk
          THEN /\ UpdateTimeSource(s)
               /\ tsch_is_associated' = TRUE
               /\ sync_count' = 0
               /\ keepalive_status' = ScheduleKeepalive(keepalive_status, FALSE)
               /\ proc' = "run"
          ELSE UNCHANGED <<time_source, tsch_is_associated, sync_count,
                           keepalive_status, proc, orchestra_parent_linkaddr,
                           orchestra_parent_knows_us>>

\* tsch_scan: while neither associated nor coordinator, listen and call
\* tsch_associate on a received EB (a scan round hearing nothing, or an
\* EB with an insane timestamp, changes nothing).
tsch_scan ==
    /\ proc = "scan" /\ ~tsch_is_associated /\ ~tsch_is_coordinator
    /\ \E s \in Nbrs, j \in EbJoinPriorities, ok, nbrOk \in BOOLEAN :
         tsch_associate(s, j, ok, nbrOk)
    /\ UNCHANGED <<tsch_is_coordinator, last_eb_nbr_addr, last_eb_nbr_jp,
                   keepalive_timer, ka_queue, tsch_current_ka_timeout,
                   dao_queue, dao_acked>>

tsch_start_coordinator ==
    /\ proc = "scan" /\ ~tsch_is_associated /\ tsch_is_coordinator
    /\ tsch_is_associated' = TRUE
    /\ tsch_join_priority' = 0
    /\ proc' = "run"
    /\ UNCHANGED <<tsch_is_coordinator, time_source, last_eb_nbr_addr,
                   last_eb_nbr_jp, keepalive_status, keepalive_timer, ka_queue,
                   sync_count, tsch_current_ka_timeout, orchVars>>

\* After the yield on !tsch_is_associated: tsch_reset.  Its queue reset
\* flushes queued keep-alives and DAOs (their MAC_TX_ERR callbacks only
\* reschedule, which the reset of keepalive_status then undoes, and are
\* ignored by Orchestra); the time source is cleared.
tsch_reset ==
    /\ proc = "run" /\ ~tsch_is_associated
    /\ proc' = "scan"
    /\ ka_queue' = <<>>
    /\ dao_queue' = <<>>
    /\ dao_acked' = {}
    /\ UpdateTimeSource(None)
    /\ tsch_join_priority' = 255
    /\ last_eb_nbr_addr' = None
    /\ keepalive_status' = UNCHANGED_
    /\ UNCHANGED <<tsch_is_coordinator, tsch_is_associated, last_eb_nbr_jp,
                   keepalive_timer, sync_count, tsch_current_ka_timeout>>

(***************************************************************************)
(* Handlers run by the pending-events process and by timers.  Frames and   *)
(* transmissions of the session are handled until tsch_reset, including    *)
(* after a disassociation.                                                 *)
(***************************************************************************)

\* eb_input: an EB from s with join priority j whose ASN matches (asnOk).
eb_input ==
    /\ proc = "run"
    /\ \E s \in Nbrs, j \in EbJoinPriorities, asnOk \in BOOLEAN :
         LET ts == time_source
             record == ts = None \/ last_eb_nbr_addr # ts
             fromTs == ts # None /\ s = ts
         IN /\ last_eb_nbr_addr' = IF record THEN s ELSE last_eb_nbr_addr
            /\ last_eb_nbr_jp' = IF record THEN j ELSE last_eb_nbr_jp
            /\ IF fromTs /\ (~asnOk \/ j >= MaxJoinPriority)
               THEN Disassociate
               ELSE UNCHANGED tsch_is_associated
    /\ UNCHANGED <<tsch_is_coordinator, proc, tsch_join_priority, time_source,
                   keepalive_status, keepalive_timer, ka_queue, sync_count,
                   tsch_current_ka_timeout, orchVars>>

\* The keep-alive ctimer fires: keepalive_send.
keepalive_timer_expired ==
    /\ keepalive_timer
    /\ KeepaliveSend(keepalive_status)
    /\ UNCHANGED <<tsch_is_coordinator, tsch_is_associated, proc,
                   tsch_join_priority, time_source, last_eb_nbr_addr,
                   last_eb_nbr_jp, sync_count, tsch_current_ka_timeout,
                   orchVars>>

tsch_keepalive_process_pending ==
    /\ keepalive_status # UNCHANGED_
    /\ IF ~tsch_is_coordinator /\ tsch_is_associated
       THEN CASE keepalive_status = SEND_IMMEDIATELY ->
                   KeepaliveSend(UNCHANGED_)
              [] OTHER ->
                   /\ keepalive_timer' = (tsch_current_ka_timeout > 0)
                   /\ keepalive_status' = UNCHANGED_
                   /\ UNCHANGED ka_queue
       ELSE /\ keepalive_timer' = FALSE
            /\ keepalive_status' = UNCHANGED_
            /\ UNCHANGED ka_queue
    /\ UNCHANGED <<tsch_is_coordinator, tsch_is_associated, proc,
                   tsch_join_priority, time_source, last_eb_nbr_addr,
                   last_eb_nbr_jp, sync_count, tsch_current_ka_timeout,
                   orchVars>>

(***************************************************************************)
(* keepalive_packet_sent for the keep-alive to dest with the given status; *)
(* on MAC_TX_NOACK, resynchronize(dest) decides whether to reschedule.     *)
(***************************************************************************)
\* Mutant of KeepaliveSent: only an acknowledged keep-alive reschedules.
KeepaliveSentOkOnly(dest, status) ==
    LET changed == time_source # None /\ time_source # dest
        noAlt == last_eb_nbr_addr = None
    IN CASE status = "NOACK" /\ ~changed /\ ~noAlt ->
              /\ UpdateTimeSource(last_eb_nbr_addr)
              /\ tsch_join_priority' = Uint8(last_eb_nbr_jp + 1)
              /\ keepalive_status' = ScheduleKeepalive(keepalive_status, TRUE)
              /\ UNCHANGED tsch_is_associated
         [] status = "NOACK" /\ ~changed ->
              /\ IF sync_count = 0 THEN Disassociate
                 ELSE UNCHANGED tsch_is_associated
              /\ keepalive_status' = ScheduleKeepalive(keepalive_status, FALSE)
              /\ UNCHANGED <<time_source, tsch_join_priority, orchestra_parent_linkaddr,
                              orchestra_parent_knows_us>>
         [] status = "ERR" ->
              UNCHANGED <<keepalive_status, time_source, tsch_join_priority,
                          tsch_is_associated, orchestra_parent_linkaddr,
                              orchestra_parent_knows_us>>
         [] OTHER ->
              /\ keepalive_status' = ScheduleKeepalive(keepalive_status, FALSE)
              /\ UNCHANGED <<time_source, tsch_join_priority, tsch_is_associated,
                              orchestra_parent_linkaddr,
                              orchestra_parent_knows_us>>

KeepaliveSent(dest, status) ==
    LET changed == time_source # None /\ time_source # dest
        noAlt == last_eb_nbr_addr = None
    IN CASE status = "NOACK" /\ ~changed /\ ~noAlt ->
              \* resynchronize switches to the last EB sender and returns 1
              /\ UpdateTimeSource(last_eb_nbr_addr)
              /\ tsch_join_priority' = Uint8(last_eb_nbr_jp + 1)
              /\ keepalive_status' = ScheduleKeepalive(keepalive_status, TRUE)
              /\ UNCHANGED tsch_is_associated
         [] status = "NOACK" /\ ~changed ->
              \* no EB heard: leave if never synchronised; returns 0
              /\ IF sync_count = 0 THEN Disassociate
                 ELSE UNCHANGED tsch_is_associated
              /\ keepalive_status' = ScheduleKeepalive(keepalive_status, FALSE)
              /\ UNCHANGED <<time_source, tsch_join_priority, orchestra_parent_linkaddr,
                              orchestra_parent_knows_us>>
         [] OTHER ->
              /\ keepalive_status' = ScheduleKeepalive(keepalive_status, FALSE)
              /\ UNCHANGED <<time_source, tsch_join_priority, tsch_is_associated,
                              orchestra_parent_linkaddr,
                              orchestra_parent_knows_us>>

\* tsch_tx_process_pending delivers the outcome of one queued keep-alive,
\* the oldest one to its destination (each neighbor queue is FIFO).
keepalive_packet_sent ==
    /\ proc = "run"
    /\ \E i \in DOMAIN ka_queue, status \in MacTxStatus :
         /\ \A k \in 1..(i - 1) : ka_queue[k] # ka_queue[i]
         /\ ka_queue' = [k \in 1..(Len(ka_queue) - 1) |->
                           IF k < i THEN ka_queue[k] ELSE ka_queue[k + 1]]
         /\ KeepaliveSent(ka_queue[i], status)
    /\ UNCHANGED <<tsch_is_coordinator, proc, last_eb_nbr_addr, last_eb_nbr_jp,
                   keepalive_timer, sync_count, tsch_current_ka_timeout,
                   dao_queue, dao_acked>>

(***************************************************************************)
(* tsch_tx_process_pending delivers the outcome of a queued DAO: the       *)
(* oldest one to its destination (each neighbor queue is FIFO), with the   *)
(* status the slot operation got; the sniffer calls orchestra_packet_sent. *)
(***************************************************************************)
dao_packet_sent ==
    /\ proc = "run"
    /\ \E i \in DOMAIN dao_queue, status \in MacTxStatus :
         LET d == dao_queue[i]
         IN /\ \A k \in 1..(i - 1) : dao_queue[k].dest # d.dest
            /\ dao_queue' = [k \in 1..(Len(dao_queue) - 1) |->
                               IF k < i THEN dao_queue[k] ELSE dao_queue[k + 1]]
            /\ dao_acked' = IF status = "OK" /\ ~d.noPath
                            THEN dao_acked \cup {d.dest} ELSE dao_acked
            /\ Orch!orchestra_packet_sent(d.dest, status, d.noPath)
    /\ UNCHANGED <<tsch_is_coordinator, tsch_is_associated, proc,
                   tsch_join_priority, time_source, last_eb_nbr_addr,
                   last_eb_nbr_jp, keepalive_status, keepalive_timer, ka_queue,
                   sync_count, tsch_current_ka_timeout>>

tsch_set_ka_timeout ==
    \E t \in KaTimeouts :
        /\ tsch_current_ka_timeout' = t
        /\ keepalive_status' = ScheduleKeepalive(keepalive_status, FALSE)
        /\ UNCHANGED <<tsch_is_coordinator, tsch_is_associated, proc,
                       tsch_join_priority, time_source, last_eb_nbr_addr,
                       last_eb_nbr_jp, keepalive_timer, ka_queue, sync_count,
                       orchVars>>

(***************************************************************************)
(* Environment: the slot operation and RPL.                                *)
(***************************************************************************)

\* The slot operation synchronises with the time source (sync_count++).
slot_sync ==
    /\ tsch_is_associated /\ time_source # None
    /\ sync_count' = 1
    /\ UNCHANGED <<tsch_is_coordinator, tsch_is_associated, proc,
                   tsch_join_priority, time_source, last_eb_nbr_addr,
                   last_eb_nbr_jp, keepalive_status, keepalive_timer, ka_queue,
                   tsch_current_ka_timeout, orchVars>>

\* The slot operation has not synchronised for too long and leaves.
slot_desync ==
    /\ tsch_is_associated /\ ~tsch_is_coordinator
    /\ Disassociate
    /\ UNCHANGED <<tsch_is_coordinator, proc, tsch_join_priority, time_source,
                   last_eb_nbr_addr, last_eb_nbr_jp, keepalive_status,
                   keepalive_timer, ka_queue, sync_count, tsch_current_ka_timeout,
                   orchVars>>

\* RPL switches parent: tsch_queue_update_time_source(parent).
rpl_parent_switch ==
    /\ tsch_is_associated /\ ~tsch_is_coordinator
    /\ \E n \in Nbrs \ {time_source} : UpdateTimeSource(n)
    /\ UNCHANGED <<tsch_is_coordinator, tsch_is_associated, proc,
                   tsch_join_priority, last_eb_nbr_addr, last_eb_nbr_jp,
                   keepalive_status, keepalive_timer, ka_queue, sync_count,
                   tsch_current_ka_timeout, dao_queue, dao_acked>>

\* RPL hands a DAO to the MAC: to the preferred parent (the time source),
\* or a No-Path DAO to any neighbor (the parent it left).
rpl_send_dao ==
    /\ tsch_is_associated /\ ~tsch_is_coordinator /\ time_source # None
    /\ Len(dao_queue) < DaoQueueLen
    /\ \E dest \in Nbrs, noPath \in BOOLEAN :
         /\ noPath \/ dest = time_source
         /\ dao_queue' = Append(dao_queue, [dest |-> dest, noPath |-> noPath])
    /\ UNCHANGED <<tsch_is_coordinator, tsch_is_associated, proc,
                   tsch_join_priority, time_source, last_eb_nbr_addr,
                   last_eb_nbr_jp, keepalive_status, keepalive_timer, ka_queue,
                   sync_count, tsch_current_ka_timeout, dao_acked,
                   orchestra_parent_linkaddr, orchestra_parent_knows_us>>

\* After tsch_init: the role is fixed by the application, tsch_reset has
\* run, and the keep-alive timeout has its configured, positive value.
Init ==
    /\ tsch_is_coordinator \in BOOLEAN
    /\ tsch_is_associated = FALSE
    /\ proc = "scan"
    /\ tsch_join_priority = 255
    /\ time_source = None
    /\ last_eb_nbr_addr = None
    /\ last_eb_nbr_jp = 0
    /\ keepalive_status = UNCHANGED_
    /\ keepalive_timer = FALSE
    /\ ka_queue = <<>>
    /\ sync_count = 0
    /\ tsch_current_ka_timeout = CHOOSE t \in KaTimeouts : \A u \in KaTimeouts : u <= t
    /\ dao_queue = <<>>
    /\ dao_acked = {}
    /\ Orch!orchestra_init

Next ==
    \/ tsch_scan
    \/ tsch_start_coordinator
    \/ tsch_reset
    \/ eb_input
    \/ keepalive_timer_expired
    \/ tsch_keepalive_process_pending
    \/ keepalive_packet_sent
    \/ dao_packet_sent
    \/ tsch_set_ka_timeout
    \/ slot_sync
    \/ slot_desync
    \/ rpl_parent_switch
    \/ rpl_send_dao

Spec == Init /\ [][Next]_vars

(***************************************************************************)
(* Properties.                                                             *)
(***************************************************************************)
TypeOK ==
    /\ tsch_is_coordinator \in BOOLEAN /\ tsch_is_associated \in BOOLEAN
    /\ proc \in {"scan", "run"}
    /\ tsch_join_priority \in 0..255 /\ last_eb_nbr_jp \in 0..255
    /\ time_source \in Nbrs \cup {None}
    /\ last_eb_nbr_addr \in Nbrs \cup {None}
    /\ keepalive_status \in {UNCHANGED_, SCHEDULE_OR_STOP, SEND_IMMEDIATELY}
    /\ keepalive_timer \in BOOLEAN
    /\ ka_queue \in Seq(Nbrs) /\ Len(ka_queue) <= KaQueueLen
    /\ sync_count \in {0, 1}
    /\ tsch_current_ka_timeout \in KaTimeouts
    /\ dao_queue \in Seq([dest : Nbrs, noPath : BOOLEAN]) /\ Len(dao_queue) <= DaoQueueLen
    /\ dao_acked \subseteq Nbrs
    /\ orchestra_parent_linkaddr \in Nbrs \cup {None}
    /\ orchestra_parent_knows_us \in {0, 1}

\* While associated as a non-coordinator with a positive keep-alive timeout,
\* a keep-alive is always on its way: requested from the pending-events
\* process, armed in the ctimer, or queued at the MAC.  Every path through
\* keepalive_send, keepalive_packet_sent (OK, NOACK with each outcome of
\* resynchronize, ERR), tsch_keepalive_process_pending and
\* tsch_set_ka_timeout must hand it on; a dropped one silences the node
\* towards its time source.
KeepaliveNeverLost ==
    (tsch_is_associated /\ ~tsch_is_coordinator /\ tsch_current_ka_timeout > 0)
        => \/ keepalive_status # UNCHANGED_
           \/ keepalive_timer
           \/ ka_queue # <<>>

\* Orchestra believes its parent knows this node only when that parent is
\* the current time source and has acknowledged one of this node's DAOs
\* in this session.  DAO outcomes reach orchestra_packet_sent after the
\* slot operation, through tsch_tx_process_pending, possibly after the
\* time source moved on (RPL switch, resynchronize, tsch_reset); the
\* receiver comparison and the reset in orchestra_callback_new_time_source
\* must keep a stale acknowledgement from counting for the new parent.
ParentKnowsUsOnlyAfterDaoAck ==
    orchestra_parent_knows_us = 1
        => /\ orchestra_parent_linkaddr = time_source
           /\ time_source \in dao_acked

\* The "last alternate" used by resynchronize is only ever set from an EB
\* of a neighbor other than the current time source (eb_input).
AlternateRecordFromOthers ==
    [][last_eb_nbr_addr' # last_eb_nbr_addr /\ last_eb_nbr_addr' # None
         => last_eb_nbr_addr' # time_source]_vars

\* An associated non-coordinator advertises a join priority between 1 and
\* TSCH_MAX_JOIN_PRIORITY - 1: tsch_associate and eb_input enforce it for
\* the time source, and resynchronize must keep it when it switches.
JoinPriorityBelowMax ==
    (tsch_is_associated /\ ~tsch_is_coordinator)
        => tsch_join_priority \in 1..(MaxJoinPriority - 1)
=============================================================================
