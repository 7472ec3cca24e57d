------------------------------ MODULE FirewallCt ------------------------------
(***************************************************************************)
(* The connection-tracking engine of firewall.bpf.c: the conntrack table   *)
(* fire2_conn_map, the per-entry bpf_timer and its callback                *)
(* timer_clean_callback, the packet path (lookup_or_create_ct,             *)
(* insert_new_nat_timer, ct_state_transition) and the metric pipeline      *)
(* (firewall_metric_accumulate, firewall_metric_try_report).               *)
(*                                                                         *)
(* Packet handlers and timer callbacks run to completion, one at a time on *)
(* each CPU and in parallel across CPUs; none of them holds a lock.  Every *)
(* step below is one helper call or one atomic primitive of the C code, so *)
(* TLC interleaves the handlers exactly where the kernel can.              *)
(*                                                                         *)
(* Data abstraction.  The four counters of an entry are updated and        *)
(* drained by the same code, one atomic primitive each, and never steer    *)
(* control: the model keeps one counter per direction (packets) and        *)
(* touches both directions in one step.  Addresses, ports, flow_id and     *)
(* create_time only label events and are left out; an event is identified  *)
(* by the entry it speaks of.                                              *)
(***************************************************************************)
EXTENDS Integers, Sequences, FiniteSetsExt

CONSTANTS
    CPUs,              \* processors; each runs one handler or callback at a time
    Entries,           \* storage slots for conntrack values, one timer each
    Keys,              \* firewall_conntrack_key values; records with ip_protocol
    NULL,              \* a failed lookup / an unset local
    REPORT_INTERVAL,   \* ticks between two metric reports of an entry
    CONN_EST_TIMEOUT,  \* refresh / stage duration
    CONN_TCP_RELEASE,  \* final-release timer, TCP
    CONN_UDP_RELEASE,  \* final-release timer, everything else
    Word,              \* 2^w for the model's unsigned integers (u64 in the code)
    StartClock,        \* bpf_ktime_get_ns() when the model starts
    MaxClock,          \* bound: the clock stops here
    MaxPackets,        \* bound: packets handled in a behaviour
    MaxRun,            \* bound: ticks that pass while one handler runs
    MaxLate,           \* bound: ticks an expired timer waits for its callback
    LastArrival,       \* bound: no packet arrives after this clock value
    MapCapacity,       \* max_entries of fire2_conn_map
    RingCapacity,      \* events each ring buffer holds
    TimerMigrates,     \* FALSE: a callback runs on the CPU that armed the timer
    ReuseStorage       \* TRUE: an insert may get the storage of a deleted entry

ASSUME /\ CPUs # {} /\ Keys # {} /\ Entries # {}
       /\ NULL \notin CPUs \cup Entries \cup Keys
       /\ {TimerMigrates, ReuseStorage} \subseteq BOOLEAN /\ RingCapacity \in Nat
       /\ \A k \in Keys : k.ip_protocol \in Nat
       /\ {REPORT_INTERVAL, CONN_EST_TIMEOUT, MaxPackets, MapCapacity} \subseteq Nat \ {0}
       /\ CONN_TCP_RELEASE >= CONN_EST_TIMEOUT /\ CONN_UDP_RELEASE >= CONN_EST_TIMEOUT
       /\ StartClock \in Nat /\ MaxClock >= StartClock /\ MaxRun \in Nat
       /\ MaxLate \in Nat /\ LastArrival \in StartClock..MaxClock
       /\ Word > MaxClock + REPORT_INTERVAL + MaxPackets

VARIABLES
    clock,     \* the monotonic clock
    conn_map,  \* fire2_conn_map: key -> the entry stored under it, or NULL
    ct,        \* the firewall_conntrack_action_v2 held by each storage slot
    ctx,       \* program counter and locals of the handler on each CPU
    ring,      \* the two ring buffers: firewall_conn_events, firewall_conn_metric_events
    lost,      \* history: counts taken off the counters of an entry and not sent
    read,      \* history: counts of the metric events user space has read
    accepted,  \* history: packets accumulated into each entry, per direction
    packets    \* history: packets handled so far

vars == <<clock, conn_map, ct, ctx, ring, lost, read, accepted, packets>>

IPPROTO_TCP == 6
Dirs        == {"ingress", "egress"}
Status      == {"INIT", "ACTIVE", "TIMEOUT_1", "TIMEOUT_2", "RELEASE"}
Zero        == [d \in Dirs |-> 0]
\* What a direction handler hands to lookup_or_create_ct: egress may create
\* (allow_create_mapping), ingress never does.
Packets     == {p \in [key : Keys, ingress : BOOLEAN, do_new : BOOLEAN] :
                   p.ingress => ~p.do_new}

\* The locals of a handler: the packet (NULL in a timer callback), the entry
\* it holds a pointer to, and what it read and has not used yet.
Idle == [pc |-> "idle", pkt |-> NULL, h |-> NULL,
         now |-> 0, last |-> 0, snap |-> Zero, seen |-> NULL, born |-> 0]
PCs  == {"idle", "insert", "timer_setup", "active", "restart", "accumulate",
         "rp_last", "rp_cas", "rp_snap", "rp_sub",
         "cb_status", "cb_delete", "cb_cas", "cb_start", "cb_retry"}

\* A storage slot: the fields of firewall_conntrack_action_v2 that steer the
\* code, the state of its bpf_timer (none, idle, armed, freed; when it expires
\* and on which CPU), and a history field: when conn_status was last written.
FreeSlot == [key |-> NULL, conn_status |-> "INIT", last_upload_ts |-> 0, cnt |-> Zero,
             timer |-> "none", expires |-> 0, cpu |-> NULL, since |-> 0]

Mapped    == {conn_map[k] : k \in Keys} \ {NULL}
Running   == {c \in CPUs : ctx[c].pc # "idle"}
Creators  == {c \in CPUs : ctx[c].pc = "insert"}
Callbacks(e) == {c \in CPUs : ctx[c].pc # "idle" /\ ctx[c].pkt = NULL /\ ctx[c].h = e}
Dir(p)    == IF p.ingress THEN "ingress" ELSE "egress"

Sub(a, b) == (a - b + Word) % Word    \* unsigned subtraction

\* A history of counts per entry, with cnt added to what it says of e.
Counted(history, e, cnt) == [history EXCEPT ![e] = [d \in Dirs |-> @[d] + cnt[d]]]

-------------------------------------------------------------------------------
(* Helpers of the kernel the code calls.                                   *)

\* The slots bpf_map_update_elem may take for a new element.  A hash map
\* puts a deleted element back on its free list at once, whoever still holds
\* a pointer to it; without ReuseStorage a slot is used once.
Free == IF ReuseStorage THEN Entries \ Mapped
        ELSE {e \in Entries : ct[e].key = NULL}

\* The CPU whose timer queue a timer armed on CPU c is on.
Queue(c) == IF TimerMigrates THEN NULL ELSE c

\* bpf_timer_start: arms (or re-arms) an initialised timer; -EINVAL, which no
\* caller looks at, on a timer that is not initialised or was freed.
TimerStarted(c, e, nsecs) ==
    IF ct[e].timer \in {"idle", "armed"}
    THEN [ct EXCEPT ![e].timer = "armed", ![e].expires = clock + nsecs, ![e].cpu = Queue(c)]
    ELSE ct

\* bpf_map_delete_elem: unlinks whatever is stored under the key and frees its timer.
MapDelete(k) ==
    /\ conn_map' = [conn_map EXCEPT ![k] = NULL]
    /\ ct' = IF conn_map[k] = NULL THEN ct
             ELSE [ct EXCEPT ![conn_map[k]].timer = "freed"]

\* The events of the two ring buffers, without the labels they carry along
\* (addresses, ports, protocols, flow_id, timestamps).
CreateConnEvent(e) == <<"CREATE", e>>
DeleteConnEvent(e) == <<"DELETE", e>>
MetricEvent(e, snap) == [entry |-> e, cnt |-> snap]

\* User space reads the ring buffers at its own pace.  All the program sees
\* of it is whether a reservation finds room: a full buffer is as it was, or
\* its oldest event has been read by now.
Polled(buffer) ==
    IF 0 < RingCapacity /\ Len(buffer) = RingCapacity THEN {buffer, Tail(buffer)}
    ELSE {buffer}

\* bpf_ringbuf_reserve and bpf_ringbuf_submit: the event is skipped when the
\* buffer has no room.
Submit(buffer, event) ==
    IF Len(buffer) < RingCapacity THEN Append(buffer, event) ELSE buffer

-------------------------------------------------------------------------------
(* Pure pieces of the code.                                                *)

\* insert_new_nat_timer passes a comparison, not a duration, to bpf_timer_start.
InitialTimeout(k) == IF k.ip_protocol = CONN_EST_TIMEOUT THEN 1 ELSE 0

\* now - last <= REPORT_INTERVAL, in u64 arithmetic, means "not due yet".
ReportDue(now, last) == Sub(now, last) > REPORT_INTERVAL

DrainByReset(cnt, snap) == Zero
DrainSigned(cnt, snap)  == [d \in Dirs |-> cnt[d] - snap[d]]
\* __sync_fetch_and_sub of the snapshot from each live counter.
Drain(cnt, snap) == [d \in Dirs |-> Sub(cnt[d], snap[d])]

\* The escalator of timer_clean_callback; INIT and RELEASE stay what they are.
NextStatus(s) ==
    CASE s = "ACTIVE"    -> "TIMEOUT_1"
      [] s = "TIMEOUT_1" -> "TIMEOUT_2"
      [] s = "TIMEOUT_2" -> "RELEASE"
      [] OTHER           -> s

NextTimeout(k, s) ==
    IF s = "TIMEOUT_2"
    THEN IF k.ip_protocol = IPPROTO_TCP THEN CONN_TCP_RELEASE ELSE CONN_UDP_RELEASE
    ELSE CONN_EST_TIMEOUT

\* Where a handler goes on when firewall_metric_try_report returns: a packet
\* handler ignores the result and returns TC_ACT_UNSPEC, the timer callback
\* advances the state only on SUCCESS.
Resume(c, result) ==
    [ctx EXCEPT ![c] = IF @.pkt # NULL THEN Idle
                       ELSE [Idle EXCEPT !.h = ctx[c].h, !.seen = ctx[c].seen,
                                         !.born = ctx[c].born,
                                         !.pc = IF result = "SUCCESS" THEN "cb_cas"
                                                ELSE "cb_retry"]]

-------------------------------------------------------------------------------
Init ==
    /\ clock = StartClock
    /\ conn_map = [k \in Keys |-> NULL]
    /\ ct = [e \in Entries |-> FreeSlot]
    /\ ctx = [c \in CPUs |-> Idle]
    /\ ring = [conn |-> <<>>, metric |-> <<>>]
    /\ lost = [e \in Entries |-> Zero]
    /\ read = [e \in Entries |-> Zero]
    /\ accepted = [e \in Entries |-> Zero]
    /\ packets = 0

-------------------------------------------------------------------------------
(* The packet path: the conntrack stage of the four direction handlers.    *)

\* A packet that passed the block list (and, on egress, missed the static
\* rules) reaches lookup_or_create_ct on CPU c: an entry that exists is used,
\* a miss without do_new ends the stage (TIMER_NOT_FOUND: dropped on egress,
\* left to the static rules on ingress).  Ingress never creates.  The storage
\* arena is never exhausted: a creator is admitted only while a slot is left.
Arrive(c, p) ==
    LET e == conn_map[p.key]
        f == [Idle EXCEPT !.pkt = p, !.born = clock]
    IN  /\ ctx[c].pc = "idle"
        /\ packets < MaxPackets /\ clock <= LastArrival
        /\ \/ /\ e # NULL
              /\ ctx' = [ctx EXCEPT ![c] = [f EXCEPT !.pc = "active", !.h = e]]
           \/ /\ e = NULL /\ ~p.do_new
              /\ UNCHANGED ctx
           \/ /\ e = NULL /\ p.do_new
              /\ Cardinality(Free) > Cardinality(Creators)
              /\ ctx' = [ctx EXCEPT ![c] = [f EXCEPT !.pc = "insert"]]
        /\ packets' = packets + 1
        /\ UNCHANGED <<clock, conn_map, ct, ring, lost, read, accepted>>

InsertWithoutTimer(c) ==
    LET k == ctx[c].pkt.key IN
    /\ ctx[c].pc = "insert"
    /\ \/ /\ conn_map[k] = NULL /\ Cardinality(Mapped) < MapCapacity
          /\ \E e \in Free :
                /\ conn_map' = [conn_map EXCEPT ![k] = e]
                /\ ct' = [ct EXCEPT ![e] = [FreeSlot EXCEPT !.key = k, !.since = clock]]
                /\ lost' = Counted(lost, e, ct[e].cnt)
                /\ ctx' = [ctx EXCEPT ![c].pc = "active", ![c].h = e]
       \/ /\ conn_map[k] # NULL \/ Cardinality(Mapped) >= MapCapacity
          /\ ctx' = [ctx EXCEPT ![c] = Idle]
          /\ UNCHANGED <<conn_map, ct, lost>>
    /\ UNCHANGED <<clock, ring, read, accepted, packets>>

InsertOrRollBack(c) ==
    LET k == ctx[c].pkt.key IN
    /\ ctx[c].pc = "insert"
    /\ \/ /\ conn_map[k] = NULL
          /\ \E e \in Free :
                /\ conn_map' = [conn_map EXCEPT ![k] = e]
                /\ ct' = [ct EXCEPT ![e] = [FreeSlot EXCEPT !.key = k, !.since = clock]]
                /\ lost' = Counted(lost, e, ct[e].cnt)
                /\ ctx' = [ctx EXCEPT ![c].pc = "timer_setup", ![c].h = e]
       \/ /\ conn_map[k] # NULL
          /\ MapDelete(k)
          /\ ctx' = [ctx EXCEPT ![c] = Idle]
          /\ UNCHANGED lost
    /\ UNCHANGED <<clock, ring, read, accepted, packets>>
\* The fresh action record and bpf_map_update_elem(BPF_NOEXIST): the insert
\* fails when the key is present by now or the table is full, and the packet
\* is dropped (TIMER_ERROR).  The lookup that follows a successful insert
\* cannot miss: nothing deletes an entry whose timer was never started.
\* The new element is the fresh record whatever the slot held before; the
\* counts the slot still held are gone with it.
Insert(c) ==
    LET k == ctx[c].pkt.key IN
    /\ ctx[c].pc = "insert"
    /\ \/ /\ conn_map[k] = NULL /\ Cardinality(Mapped) < MapCapacity
          /\ \E e \in Free :
                /\ conn_map' = [conn_map EXCEPT ![k] = e]
                /\ ct' = [ct EXCEPT ![e] = [FreeSlot EXCEPT !.key = k, !.since = clock]]
                /\ lost' = Counted(lost, e, ct[e].cnt)
                /\ ctx' = [ctx EXCEPT ![c].pc = "timer_setup", ![c].h = e]
       \/ /\ conn_map[k] # NULL \/ Cardinality(Mapped) >= MapCapacity
          /\ ctx' = [ctx EXCEPT ![c] = Idle]
          /\ UNCHANGED <<conn_map, ct, lost>>
    /\ UNCHANGED <<clock, ring, read, accepted, packets>>

\* bpf_timer_init, bpf_timer_set_callback and the first bpf_timer_start, then
\* the CREATE_CONN event; or the timer cannot be allocated, the key is deleted
\* again and the packet is dropped.
TimerSetup(c) ==
    LET e == ctx[c].h IN
    /\ ctx[c].pc = "timer_setup"
    /\ \/ /\ ct' = [ct EXCEPT ![e].timer = "armed", ![e].cpu = Queue(c),
                              ![e].expires = clock + InitialTimeout(ct[e].key)]
          /\ \E b \in Polled(ring.conn) :
                ring' = [ring EXCEPT !.conn = Submit(b, CreateConnEvent(e))]
          /\ ctx' = [ctx EXCEPT ![c].pc = "active"]
          /\ UNCHANGED conn_map
       \/ /\ MapDelete(ct[e].key)
          /\ ctx' = [ctx EXCEPT ![c] = Idle]
          /\ UNCHANGED ring
    /\ UNCHANGED <<clock, lost, read, accepted, packets>>

\* ct_state_transition, first half: the unconditional store of ACTIVE.
SetActive(c) ==
    /\ ctx[c].pc = "active"
    /\ ct' = [ct EXCEPT ![ctx[c].h].conn_status = "ACTIVE", ![ctx[c].h].since = clock]
    /\ ctx' = [ctx EXCEPT ![c].pc = "restart"]
    /\ UNCHANGED <<clock, conn_map, ring, lost, read, accepted, packets>>

\* ct_state_transition, second half: the timer is pushed out by CONN_EST_TIMEOUT.
Restart(c) ==
    /\ ctx[c].pc = "restart"
    /\ ct' = TimerStarted(c, ctx[c].h, CONN_EST_TIMEOUT)
    /\ ctx' = [ctx EXCEPT ![c].pc = "accumulate"]
    /\ UNCHANGED <<clock, conn_map, ring, lost, read, accepted, packets>>

\* firewall_metric_report: the atomic adds of firewall_metric_accumulate on the
\* counters of the packet's direction, then the clock read that opens
\* firewall_metric_try_report.
Accumulate(c) ==
    LET e == ctx[c].h
        d == Dir(ctx[c].pkt)
    IN  /\ ctx[c].pc = "accumulate"
        /\ ct' = [ct EXCEPT ![e].cnt[d] = (@ + 1) % Word]
        /\ accepted' = [accepted EXCEPT ![e][d] = @ + 1]
        /\ ctx' = [ctx EXCEPT ![c].pc = "rp_last", ![c].now = clock]
        /\ UNCHANGED <<clock, conn_map, ring, lost, read, packets>>

-------------------------------------------------------------------------------
(* firewall_metric_try_report, run by packet handlers and by the callback. *)

\* The atomic read of last_upload_ts and the test of the interval.
ReportLast(c) ==
    LET last == ct[ctx[c].h].last_upload_ts IN
    /\ ctx[c].pc = "rp_last"
    /\ ctx' = IF ReportDue(ctx[c].now, last)
              THEN [ctx EXCEPT ![c].pc = "rp_cas", ![c].last = last]
              ELSE Resume(c, "NONE")
    /\ UNCHANGED <<clock, conn_map, ct, ring, lost, read, accepted, packets>>

\* The compare-and-swap that elects the reporter of the window.
ReportCas(c) ==
    LET e == ctx[c].h IN
    /\ ctx[c].pc = "rp_cas"
    /\ \/ /\ ct[e].last_upload_ts = ctx[c].last
          /\ ct' = [ct EXCEPT ![e].last_upload_ts = ctx[c].now]
          /\ ctx' = [ctx EXCEPT ![c].pc = "rp_snap", ![c].now = 0, ![c].last = 0]
       \/ /\ ct[e].last_upload_ts # ctx[c].last
          /\ ctx' = Resume(c, "CONFLICT")
          /\ UNCHANGED ct
    /\ UNCHANGED <<clock, conn_map, ring, lost, read, accepted, packets>>

\* The atomic reads of the live counters and the metric event that carries
\* them; without room in the ring buffer the snapshot goes nowhere.
ReportSnapshot(c) ==
    LET e      == ctx[c].h
        snap   == ct[e].cnt
        oldest == Head(ring.metric)
    IN  /\ ctx[c].pc = "rp_snap"
        /\ \E b \in Polled(ring.metric) :
              /\ ring' = [ring EXCEPT !.metric = Submit(b, MetricEvent(e, snap))]
              /\ read' = IF b = ring.metric THEN read
                         ELSE Counted(read, oldest.entry, oldest.cnt)
              /\ lost' = IF Len(b) < RingCapacity THEN lost ELSE Counted(lost, e, snap)
        /\ ctx' = [ctx EXCEPT ![c].pc = "rp_sub", ![c].snap = snap]
        /\ UNCHANGED <<clock, conn_map, ct, accepted, packets>>

\* The snapshot is taken off the live counters, whether it was sent or not.
ReportSub(c) ==
    LET e == ctx[c].h IN
    /\ ctx[c].pc = "rp_sub"
    /\ ct' = [ct EXCEPT ![e].cnt = Drain(@, ctx[c].snap)]
    /\ ctx' = Resume(c, "SUCCESS")
    /\ UNCHANGED <<clock, conn_map, ring, lost, read, accepted, packets>>

-------------------------------------------------------------------------------
(* timer_clean_callback.                                                   *)

\* An armed timer that expired runs its callback on a free CPU: the CPU that
\* armed it, unless timers migrate.  A timer has one callback at a time.
TimerFire(c, e) ==
    /\ ctx[c].pc = "idle"
    /\ ct[e].timer = "armed" /\ clock >= ct[e].expires
    /\ ct[e].cpu = Queue(c)
    /\ Callbacks(e) = {}
    /\ ct' = [ct EXCEPT ![e].timer = "idle"]
    /\ ctx' = [ctx EXCEPT ![c] = [Idle EXCEPT !.pc = "cb_status", !.h = e, !.born = clock]]
    /\ UNCHANGED <<clock, conn_map, ring, lost, read, accepted, packets>>

\* The read of conn_status that the rest of the callback works from: on
\* RELEASE the entry is to be deleted, otherwise a report is tried first.
CbStatus(c) ==
    LET seen == ct[ctx[c].h].conn_status IN
    /\ ctx[c].pc = "cb_status"
    /\ ctx' = [ctx EXCEPT ![c].seen = seen, ![c].now = IF seen = "RELEASE" THEN 0 ELSE clock,
                          ![c].pc = IF seen = "RELEASE" THEN "cb_delete" ELSE "rp_last"]
    /\ UNCHANGED <<clock, conn_map, ct, ring, lost, read, accepted, packets>>

\* RELEASE timed out: the DELETE_CONN event and bpf_map_delete_elem of the key.
CbDelete(c) ==
    LET e == ctx[c].h IN
    /\ ctx[c].pc = "cb_delete"
    /\ \E b \in Polled(ring.conn) :
          ring' = [ring EXCEPT !.conn = Submit(b, DeleteConnEvent(e))]
    /\ MapDelete(ct[e].key)
    /\ ctx' = [ctx EXCEPT ![c] = Idle]
    /\ UNCHANGED <<clock, lost, read, accepted, packets>>

CbRetryWithoutTimer(c) ==
    /\ ctx[c].pc = "cb_retry"
    /\ ctx' = [ctx EXCEPT ![c] = Idle]
    /\ UNCHANGED <<clock, conn_map, ct, ring, lost, read, accepted, packets>>
\* No report, or the status moved under the callback: come back after
\* CONN_EST_TIMEOUT and keep the state.
CbRetry(c) ==
    /\ ctx[c].pc = "cb_retry"
    /\ ct' = TimerStarted(c, ctx[c].h, CONN_EST_TIMEOUT)
    /\ ctx' = [ctx EXCEPT ![c] = Idle]
    /\ UNCHANGED <<clock, conn_map, ring, lost, read, accepted, packets>>

CbStore(c) ==
    LET e == ctx[c].h IN
    /\ ctx[c].pc = "cb_cas"
    /\ ct' = [ct EXCEPT ![e].conn_status = NextStatus(ctx[c].seen), ![e].since = clock]
    /\ ctx' = [ctx EXCEPT ![c].pc = "cb_start"]
    /\ UNCHANGED <<clock, conn_map, ring, lost, read, accepted, packets>>
\* The compare-and-swap from the status read at the start to the next one.
CbCas(c) ==
    LET e    == ctx[c].h
        next == NextStatus(ctx[c].seen)
    IN  /\ ctx[c].pc = "cb_cas"
        /\ \/ /\ ct[e].conn_status = ctx[c].seen
              /\ ct' = [ct EXCEPT ![e].conn_status = next,
                                  ![e].since = IF next = ctx[c].seen THEN @ ELSE clock]
              /\ ctx' = [ctx EXCEPT ![c].pc = "cb_start"]
           \/ /\ ct[e].conn_status # ctx[c].seen
              /\ ctx' = [ctx EXCEPT ![c].pc = "cb_retry"]
              /\ UNCHANGED ct
        /\ UNCHANGED <<clock, conn_map, ring, lost, read, accepted, packets>>

CbStartWithoutTimeout(c) ==
    /\ ctx[c].pc = "cb_start"
    /\ ct' = TimerStarted(c, ctx[c].h, 0)
    /\ ctx' = [ctx EXCEPT ![c] = Idle]
    /\ UNCHANGED <<clock, conn_map, ring, lost, read, accepted, packets>>
\* The timer of the next stage.
CbStart(c) ==
    LET e == ctx[c].h IN
    /\ ctx[c].pc = "cb_start"
    /\ ct' = TimerStarted(c, e, NextTimeout(ct[e].key, ctx[c].seen))
    /\ ctx' = [ctx EXCEPT ![c] = Idle]
    /\ UNCHANGED <<clock, conn_map, ring, lost, read, accepted, packets>>

-------------------------------------------------------------------------------
\* Time passes; a handler that is running sees at most MaxRun ticks go by,
\* and a timer that expired waits at most MaxLate ticks for its callback.
\* The clock stands at StartClock until the first packet has come: nothing
\* has read it before, so a later first packet is a later StartClock.
Tick ==
    /\ clock < MaxClock /\ packets > 0
    /\ \A c \in Running : clock + 1 - ctx[c].born <= MaxRun
    /\ \A e \in Entries : ct[e].timer = "armed" => clock + 1 - ct[e].expires <= MaxLate
    /\ clock' = clock + 1
    /\ UNCHANGED <<conn_map, ct, ctx, ring, lost, read, accepted, packets>>

\* What a handler does once its packet is in.
HandlerStep(c) ==
    Insert(c) \/ TimerSetup(c) \/ SetActive(c) \/ Restart(c) \/ Accumulate(c)

PacketStep(c) ==
    (\E p \in Packets : Arrive(c, p)) \/ HandlerStep(c)

ReportStep(c) ==
    ReportLast(c) \/ ReportCas(c) \/ ReportSnapshot(c) \/ ReportSub(c)

CallbackStep(c) ==
    \/ \E e \in Entries : TimerFire(c, e)
    \/ CbStatus(c) \/ CbDelete(c) \/ CbRetry(c) \/ CbCas(c) \/ CbStart(c)

Next == Tick \/ \E c \in CPUs : PacketStep(c) \/ ReportStep(c) \/ CallbackStep(c)

Spec == Init /\ [][Next]_vars

\* What the kernel guarantees of the steps above.  A TC program and a timer
\* callback are bounded straight-line code that runs to its end once entered;
\* an expired bpf_timer gets its callback; the clock goes on.  Nothing
\* obliges a packet to arrive.
Fairness ==
    /\ WF_vars(Tick)
    /\ \A c \in CPUs : WF_vars(HandlerStep(c) \/ ReportStep(c) \/ CallbackStep(c))

FairSpec == Spec /\ Fairness

-------------------------------------------------------------------------------
MetricEvents == [entry : Entries, cnt : [Dirs -> 0..(Word - 1)]]

TypeOK ==
    /\ clock \in StartClock..MaxClock
    /\ conn_map \in [Keys -> Entries \cup {NULL}]
    /\ Cardinality(Mapped) <= MapCapacity
    /\ ct \in [Entries -> [key : Keys \cup {NULL}, conn_status : Status,
                           last_upload_ts : 0..MaxClock, cnt : [Dirs -> 0..(Word - 1)],
                           timer : {"none", "idle", "armed", "freed"},
                           expires : Nat, cpu : CPUs \cup {NULL},
                           since : 0..MaxClock]]
    /\ ctx \in [CPUs -> [pc : PCs, pkt : Packets \cup {NULL}, h : Entries \cup {NULL},
                         now : 0..MaxClock, last : 0..MaxClock, snap : [Dirs -> 0..(Word - 1)],
                         seen : Status \cup {NULL}, born : 0..MaxClock]]
    /\ \A i \in DOMAIN ring.conn : ring.conn[i] \in {"CREATE", "DELETE"} \X Entries
    /\ \A i \in DOMAIN ring.metric : ring.metric[i] \in MetricEvents
    /\ Len(ring.conn) <= RingCapacity /\ Len(ring.metric) <= RingCapacity
    /\ lost \in [Entries -> [Dirs -> Nat]]
    /\ read \in [Entries -> [Dirs -> Nat]]
    /\ accepted \in [Entries -> [Dirs -> 0..MaxPackets]]
    /\ packets \in 0..MaxPackets

-------------------------------------------------------------------------------
(* What the engine promises.                                               *)

\* What the metric events, read already or still in the ring buffer, say of
\* entry e, direction d.
Reported(e, d) ==
    read[e][d] + MapThenSumSet(LAMBDA i : ring.metric[i].cnt[d],
                  {i \in DOMAIN ring.metric : ring.metric[i].entry = e})

\* Snapshots of entry e that are in an event (or lost) and not yet subtracted.
Pending(e, d) ==
    MapThenSumSet(LAMBDA c : ctx[c].snap[d],
                  {c \in CPUs : ctx[c].pc = "rp_sub" /\ ctx[c].h = e})

\* Every packet accumulated into an entry is, modulo the width of the
\* counters, in exactly one place: still in the live counter, in a metric
\* event, or in a snapshot that found the ring buffer full.  This is what the
\* snapshot-then-subtract of firewall_metric_try_report is for: packets that
\* firewall_metric_accumulate adds between a reporter's snapshot and its
\* subtraction stay in the counter for the next report.  Two reporters that
\* drain one counter twice keep the equality modulo Word: NeverOverReported.
CountersConserved ==
    \A e \in Entries, d \in Dirs :
        (accepted[e][d] + Pending(e, d)) % Word
            = (ct[e].cnt[d] + Reported(e, d) + lost[e][d]) % Word

\* An entry in the table is never left without something that will come back
\* to it: its timer is armed, or its callback is running, or its creator has
\* not set the timer up yet.  Every path through timer_clean_callback that
\* keeps the entry restarts the timer, also when a packet handler re-armed or
\* failed to arm it in between; an entry that lost its timer would stay in
\* fire2_conn_map for ever.
TimerArmedWhileMapped ==
    \A e \in Mapped :
        \/ ct[e].timer = "armed"
        \/ Callbacks(e) # {}
        \/ \E c \in CPUs : ctx[c].pc = "timer_setup" /\ ctx[c].h = e

\* bpf_map_delete_elem works by key, not by pointer: an entry leaves the table
\* only through the callback of its own timer or the rollback of its own
\* creator, never through a handler that holds another entry of the key or
\* none (the loser of a creation race, the callback of a deleted entry).
OnlyOwnEntryUnmapped ==
    [][\A k \in Keys :
          conn_map[k] # NULL /\ conn_map'[k] # conn_map[k] =>
              \E c \in CPUs : /\ ctx[c].h = conn_map[k]
                              /\ ctx[c].pc \in {"cb_delete", "timer_setup"}
                              /\ ctx'[c].pc = "idle"]_vars

StageTimeout(k, s) ==
    IF s # "RELEASE" THEN CONN_EST_TIMEOUT
    ELSE IF k.ip_protocol = IPPROTO_TCP THEN CONN_TCP_RELEASE ELSE CONN_UDP_RELEASE

\* When timer_clean_callback finds an entry in TIMEOUT_1, TIMEOUT_2 or RELEASE,
\* the entry has been in that state for the timeout of the state: the timer
\* started by the callback that entered the state is the one that fired, and
\* no bpf_timer_start of a packet handler, early or late, cut it short.  In
\* particular an entry is deleted only after a full release timeout.
StagesLastTheirTimeout ==
    [][\A c \in CPUs :
          LET e == ctx[c].h IN
          /\ ctx[c].pc = "cb_status" /\ ctx'[c].pc # "cb_status"
          /\ ct[e].conn_status \in {"TIMEOUT_1", "TIMEOUT_2", "RELEASE"}
          => clock - ct[e].since >= StageTimeout(ct[e].key, ct[e].conn_status)]_vars

\* P8, S6: once traffic has stopped every entry leaves the table.  Each
\* callback either deletes the entry or re-arms its timer - also when the
\* report was not due, when the report or the status compare-and-swap lost
\* against a handler, and when a handler restarted the timer under it - so
\* under Fairness no entry is left behind with a timer that never fires or
\* a stage that never ends.
IdleFlowCollected ==
    \A k \in Keys : (conn_map[k] # NULL) ~> (conn_map[k] = NULL)

-------------------------------------------------------------------------------
(* The state machine the engine implements.                                *)

\* The stage of flow k as the table shows it.  Two steps of the code take
\* effect before the table says so: an entry is INIT until its creator has
\* set the timer up (insert_new_nat_timer can still take it back), and it is
\* in RELEASE for good once its callback has read RELEASE.  A store of ACTIVE
\* after that read is therefore no step of the flow: the mapping does not
\* show the race of DeletedOnlyInRelease.
StageOf(k) ==
    LET e == conn_map[k]
        at(pc) == \E c \in CPUs : ctx[c].pc = pc /\ ctx[c].h = e
    IN  CASE e = NULL          -> "absent"
          [] at("timer_setup") -> "INIT"
          [] at("cb_delete")   -> "RELEASE"
          [] OTHER             -> ct[e].conn_status

Lifecycle == INSTANCE FlowLifecycle WITH life <- [k \in Keys |-> StageOf(k)]

\* Section 4.6: handlers and callbacks of all CPUs together move a flow
\* through the state machine of the specification, one atomic transition at
\* a time.  The unconditional store of ct_state_transition, the
\* compare-and-swap of timer_clean_callback and the deletion by key never
\* make an entry skip a stage, go back to a stage other than ACTIVE, or
\* leave the table from a stage other than RELEASE - provided a store of
\* ACTIVE that follows the callback's read of RELEASE counts as lost.
ImplementsLifecycle == Lifecycle!Spec

-------------------------------------------------------------------------------
(* What the specification of the firewall says and the code does not do.   *)

\* P10: the metric events of an entry never report more than the packets that
\* were accumulated into it.
NeverOverReported ==
    \A e \in Entries, d \in Dirs : Reported(e, d) <= accepted[e][d]

\* Section 5 of the specification, and the comment on the RELEASE branch of
\* timer_clean_callback: an entry is deleted only when its state is RELEASE.
DeletedOnlyInRelease ==
    [][\A c \in CPUs :
          ctx[c].pc = "cb_delete" /\ ctx'[c].pc = "idle"
              => ct[ctx[c].h].conn_status = "RELEASE"]_vars

\* I3 and section 5 ("the table holds the entry's storage"): the counters of
\* an entry count the packets of its own flow.  A handler works on the
\* pointer its lookup returned (lookup_or_create_ct, l. 555-559) until it has
\* counted the packet (l. 314-318), and nothing keeps the map from giving that
\* storage to another flow once the key has been deleted, by the callback
\* (l. 454) or by a creator that rolls back (l. 531).
CountedOnOwnFlow ==
    [][\A c \in CPUs :
          ctx[c].pc = "accumulate" /\ ctx'[c].pc # "accumulate"
              => ct[ctx[c].h].key = ctx[c].pkt.key]_vars

\* Section 4.5 step 3: a creator that loses the insertion race uses the entry
\* that won it.
RaceLoserUsesEntry ==
    [][\A c \in CPUs :
          LET k == ctx[c].pkt.key IN
          ctx[c].pc = "insert" /\ ctx'[c].pc # "insert" /\ conn_map[k] # NULL
              => ctx'[c].h = conn_map[k]]_vars

\* P8 and the comment on the failed compare-and-swap of timer_clean_callback
\* ("a new packet has arrived"): the callback ages an entry only when no
\* packet refreshed it for CONN_EST_TIMEOUT, so that an entry without traffic
\* reaches RELEASE after no less than 3 * CONN_EST_TIMEOUT.
AgedOnlyWhenQuiet ==
    [][\A c \in CPUs :
          LET e == ctx[c].h IN
          ctx[c].pc = "cb_cas" /\ ct'[e].conn_status = "TIMEOUT_1"
              /\ ct[e].conn_status = "ACTIVE"
              => clock - ct[e].since >= CONN_EST_TIMEOUT]_vars

===============================================================================
