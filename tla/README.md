# TLA+ models of the landscape eBPF firewall

The program under study is `src/landscape-ebpf/src/bpf/firewall.bpf.c`, a stateful
L3/L4 firewall that runs as a TC classifier on both directions of an interface.
It keeps no locks: packet handlers run to completion on every CPU in parallel and
share a connection-tracking table whose entries each own a kernel timer. The
timer callback ages and deletes entries while handlers refresh and count on them,
and all of that is coordinated with a handful of atomic primitives. That is where
a model checker earns its keep, and where this project starts.

## 1. Inventory

| Component | Code | State | Operations | Talks to |
|---|---|---|---|---|
| Direction dispatch | `egress_firewall`, `ingress_firewall`, `prog_array` (l. 25-39, 1251-1290) | none | choose one of four handlers by EtherType, tail-call it | handlers |
| Dissector | `extract_iphdr_info`, `extract_ipv6hdr_info`, `extract_v4_packet_info`, `extract_v6_packet_info`, `current_pkg_type` (l. 111-229, 615-872) | none (fills `packet_context`) | parse L3, walk IPv6 extension headers, parse TCP/UDP/ICMP, classify SYN/RST/FIN/connless | handlers |
| ICMP classification | `icmp_msg_type`, `icmp6_msg_type`, `extract_imcp_err_info`, `is_icmp_error_pkt` (l. 50-52, 232-304) | none | query / error / unknown; inner header of an error | dissector, handlers |
| Fragment tracker | `fragment_track`, `fragment_cache` (l. 41-47, 59-102) | LRU map: (proto, id, saddr, daddr) -> ports | first fragment writes, later fragments read | handlers |
| Block list, static rules | LPM lookups, `lookup_static_rules` (l. 536-548 and in the handlers) | maps written by the control plane | lookup | handlers |
| Direction handlers | `ipv4_egress_firewall`, `ipv4_ingress_firewall`, `ipv6_egress_firewall`, `ipv6_ingress_firewall` (l. 874-1248) | none of their own | the pipeline: dissect, fragments, block list, static rules, conntrack, verdict | everything |
| Conntrack engine | `lookup_or_create_ct`, `insert_new_nat_timer` (l. 498-534, 549-611) | `fire2_conn_map`: key -> entry with `conn_status`, counters, `last_upload_ts`, timer | lookup, insert-if-absent, timer set-up, rollback, CREATE event | state machine, metrics, events |
| State machine | `ct_state_transition`, `timer_clean_callback` (l. 381-496) | `conn_status`, the timer | packet: store ACTIVE, restart timer; callback: delete on RELEASE, else report, compare-and-swap to the next state, re-arm | conntrack, metrics, events |
| Metric pipeline | `firewall_metric_accumulate`, `firewall_metric_try_report` (l. 308-379) | four counters and `last_upload_ts` per entry | atomic add; elect a reporter per interval, snapshot, emit, subtract | events |
| Event emitter | ring buffers `firewall_conn_events`, `firewall_conn_metric_events` | the buffers | reserve + submit, skipped when full; read by user space | user space |
| NAT common header | `land_nat_common.h` | none | declarations, `COPY_ADDR_FROM` | - |
| Control plane | not in this repository | writes rule maps and constants | - | maps, ring buffers |

What makes the code hard, and what ought to hold:

* **Conntrack engine.** Two CPUs can miss the lookup for the same key and insert
  together; the entry is visible in the table before its timer exists; a failed
  timer set-up deletes by key. There must be at most one entry per key, an entry
  must leave the table only by the hand of its own callback or creator, and an
  entry in the table must always have a timer coming.
* **State machine.** The packet path writes `ACTIVE` unconditionally and restarts
  the timer; the callback reads the status once, reports, then compare-and-swaps.
  A refreshed entry should not age and must not be deleted; every stage should
  last its timeout.
* **Metric pipeline.** Reporters are elected by a compare-and-swap on
  `last_upload_ts` after a clock read; counters are drained by snapshot and
  subtract while other CPUs keep adding. Counts must be neither lost nor
  doubled, the timestamp must never go back.
* **Classifier pipeline** (fragment cache eviction and order of fragments,
  precedence of block list over rules over conntrack, ICMP special cases): state
  is small and the logic sequential; the properties are P1-P7 of the
  specification.

## 2. Plan

1. **`FirewallCt`** (done): conntrack engine, state machine, timer callback, metric
   pipeline and events as one fine-grained concurrent model. All shared mutable
   state of the program apart from the fragment cache lives here.
2. **`Dissector` and `Classifier`** (done): the dissector as operators on abstract
   frames, and the entry programs, the four handlers, the fragment tracker, the
   block list and the static rules as a pipeline that handles one frame per
   step, with a bounded LRU fragment cache and the conntrack stage taken
   atomically.
3. **Life cycle and liveness** (done): module `FlowLifecycle`, the state machine
   of section 4.6 of the specification, which `FirewallCt` implements under the
   refinement mapping `StageOf` (a property of `ct_lifecycle`); and "once
   traffic has stopped every entry is deleted" under weak fairness, as the run
   `idle_flow_collected`.
4. **Fragments** (done): `LaterFragmentFollowsFirst` in the `classifier` run,
   which now runs with a fragment cache of two entries, a table of three and
   more frames.
5. **Reuse of storage** (done): `ReuseStorage` lets an insert take the slot of
   a deleted entry while a handler still holds the pointer. The passing runs
   check their properties with it; the run `reused_storage_counts_other_flow`
   uses two keys and a table of capacity one.
6. **Byte order** (done): the flag and offset word of the IPv4 header and of
   the IPv6 fragment header is modelled bit by bit, with the byte swap of a
   little-endian build (`LittleEndian`).
7. **Consumer of the ring buffers** (done): `Polled`.
8. **Two flows in the passing run** (done): `ct_lifecycle` has two keys and a
   table of one entry, so that a creator finds the table full in the middle
   of the other flow's life; to pay for it the timeouts are one tick shorter.
9. **Deletion inside the passing run** (done): the clock of `ct_lifecycle`
   runs two ticks past the earliest deletion, so that the callback deletes
   while a handler is at work on the entry and a flow is created after one
   was deleted.

At most twelve runs are kept; a later run replaces an earlier one when it asks a
sharper question.

## 3. Module `FirewallCt`

### State

| Variable | Code |
|---|---|
| `clock` | `bpf_ktime_get_ns()` |
| `conn_map` | `fire2_conn_map`: key -> storage slot of the entry, or `NULL` |
| `ct` | the entries: `conn_status`, `last_upload_ts`, counters (`cnt`, one per direction), the timer (`none`, `idle`, `armed`, `freed`; `expires`; the CPU queue `cpu`), and the history field `since` (when `conn_status` was last written) |
| `ctx` | per CPU: program counter and locals of the running handler or callback (`pkt`, the entry pointer `h`, `now`, `last`, the snapshot `snap`, the status `seen` by the callback, `born`) |
| `ring` | the two ring buffers, bounded sequences |
| `lost`, `read`, `accepted`, `packets` | history: counts that were taken off a counter and reached no event (the ring was full, or the slot was given to a new entry), counts of the metric events user space has read, packets accumulated per slot, packets handled |

A storage slot (`Entries`) is the memory of one entry. A pointer obtained by a
lookup stays usable after the entry left the table, as in the kernel.
`fire2_conn_map` is a hash map (section 6 of the specification; its declaration
is in a header outside the sources), and a hash map puts a deleted element back
on its free list at once. `Free` is the set of slots an insert may take: with
`ReuseStorage = TRUE` every slot that is not in the table, with `FALSE` only a
slot that was never used. `TRUE` contains every behaviour of `FALSE`; the
passing runs use `TRUE`, the violation runs other than
`reused_storage_counts_other_flow` use `FALSE`, so that none of their
counterexamples depends on a reuse. An insert writes the fresh record over
whatever the slot held; counts that were still in the slot go to `lost`.

### Actions

Every action is one atomic primitive or helper call of the code together with the
purely local code around it. Local steps are merged into the neighbouring shared
step only where they commute with every step of other CPUs and with the clock.

| Action | Code |
|---|---|
| `Arrive(c, p)` | handler reaches `lookup_or_create_ct`: lookup, `TIMER_EXIST` / `TIMER_NOT_FOUND` (l. 555-563) |
| `Insert(c)` | new action record, `bpf_map_update_elem(BPF_NOEXIST)`, re-lookup; failure is `TIMER_ERROR` (l. 565-585, 507-513). The re-lookup of l. 512 always finds the entry: only its callback or its creator deletes it, and its timer does not exist yet |
| `TimerSetup(c)` | `bpf_timer_init`, `set_callback`, first `bpf_timer_start`, CREATE event; or rollback by key (l. 515-532, 587-609). One step: until the timer is started no callback runs, and a handler that starts it earlier fails silently |
| `SetActive(c)`, `Restart(c)` | the two halves of `ct_state_transition` (l. 416, 418) |
| `Accumulate(c)` | atomic add, then the clock read of `try_report` (l. 309-326) |
| `ReportLast`, `ReportCas`, `ReportSnapshot`, `ReportSub` | `firewall_metric_try_report` (l. 327-369), used by packets and callback alike |
| `TimerFire(c, e)` | the kernel runs the callback of an expired timer on a free CPU |
| `CbStatus`, `CbDelete`, `CbRetry`, `CbCas`, `CbStart` | `timer_clean_callback` (l. 427-494); `CbStatus` is the one read of `conn_status` (l. 427) with the local computation of the next state and timeout |
| `Tick` | time passes |

`PacketStep`, `HandlerStep`, `ReportStep` and `CallbackStep` group these actions
by who takes them; `Next` is `Tick` or a step of some CPU.

Kernel helpers are modelled by `TimerStarted` (`bpf_timer_start`: re-arms, fails
silently on a timer that is not initialised or freed), `MapDelete`
(`bpf_map_delete_elem`: unlinks by key and frees the timer) and `Submit`
(`bpf_ringbuf_reserve`: fails when full).

User space reads the ring buffers at its own pace. Its steps commute with
every step of the program except a reservation on the same buffer, and all a
reservation sees is whether there is room. `Polled(buffer)` is therefore what
the consumer has made of a buffer by the time of a reservation: a full buffer
is still full, or its oldest event has been read (and, for a metric event,
added to `read`). A consumer that reads earlier or more than that gives the
program no outcome this one does not give: a reservation can fail exactly when
`RingCapacity` events were submitted before it, and can always succeed.

A timer has at most one callback
running; a callback occupies a CPU like a handler does (both run in softirq
context). With `TimerMigrates = TRUE` the callback may run on any free CPU, with
`FALSE` only on the CPU that armed the timer last. The code starts timers
without a pinning flag, so the passing run uses `TRUE`, which contains every
behaviour of `FALSE`; the counterexamples are all found with `FALSE`, so none of
them depends on a migration.

### Time

`Tick` advances `clock` by one. A handler sees at most `MaxRun` ticks go by
between its start and its end: handlers are short compared with the timeouts.
`MaxRun = 1` is what lets one handler read the clock before, and another after,
a tick. An expired timer waits at most `MaxLate` ticks for its callback; the
safety runs set `MaxLate` to the whole clock range (a callback may come
arbitrarily late), the liveness run sets it to 0 (see section 6). Unsigned
64-bit arithmetic is kept as arithmetic modulo `Word`, with `Word` larger than
every timestamp, so that `now - last` wraps exactly when `last > now`.

Three guards are bounds of the model and not conditions of the code:

* No packet arrives after `LastArrival` (the safety runs set it to
  `MaxClock`), and `MaxPackets` packets arrive in all.
* The clock stands at `StartClock` until the first packet has come. Nothing
  reads the clock before that, and the table is empty, so a behaviour whose
  first packet comes later is the behaviour with a later `StartClock`; the
  guard spends the ticks of the run on flows and not on waiting.
* A handler starts only when a slot is left for it beside those the creators
  at work may take (`Cardinality(Free) > Cardinality(Creators)` in `Arrive`):
  the kernel's map allocates from a pool that does not run out before the map
  is full, and the model has `Entries` as its pool.

### The state machine it implements

`FlowLifecycle` has one variable, `life`, the stage of each flow: `absent`,
`INIT`, `ACTIVE`, `TIMEOUT_1`, `TIMEOUT_2`, `RELEASE`. Its actions are the
arrows of the diagram in section 4.6 of the specification: `Create`
(absent to INIT), `Abort` (INIT to absent: the timer could not be set up),
`Refresh` (any stage to ACTIVE), `Age` (one stage forward) and `Delete`
(RELEASE to absent). `FirewallCt` instantiates it with
`life <- [k \in Keys |-> StageOf(k)]`, where `StageOf(k)` is the `conn_status`
of the entry stored under `k`, except that

* an entry counts as `INIT` until its creator has set the timer up, because
  until then `insert_new_nat_timer` may still take the entry back, whatever
  another CPU has stored in it meanwhile;
* an entry counts as `RELEASE` from the moment its callback has read RELEASE,
  because the callback deletes it without looking again.

`ImplementsLifecycle` is `Lifecycle!Spec`: every step of the engine is a step of
the state machine or leaves `life` unchanged. The second exception is what makes
it hold, and is exactly the third disagreement of section 5: a store of ACTIVE
between the callback's read and its deletion has no effect on the life of the
flow. The mapping therefore hides that race by construction: the refinement
says that the engine follows the arrows of the diagram, not that a refreshed
entry survives, which is the question of `refreshed_entry_deleted`.

### Data abstraction

One counter per direction stands for the byte and packet counters (same code,
same primitives, no influence on control). Addresses, ports, `flow_id` and
`create_time` only label events and are dropped; an event names its entry.

## 4. Modules `Dissector` and `Classifier`

### Frames

A frame is a record of the fields the dissector reads (`Dissector`, header
comment). A frame says what is on the wire: `mf` and `off` are the More
Fragments flag and the offset in units of 8 bytes, `id` the identification. Byte offsets are abstracted to the field `len`: the layer (`L2`, `L3`,
`EXT`, `L4`, `Whole`) at which `VALIDATE_READ_DATA` first fails. The IPv6
next-header chain is the sequence `chain`, the upper-layer protocol last. An
ICMP error carries the frame it quotes in `inner`. Addresses and ports are small
values; only equality and membership in the block list and rule sets are used
on them.

### `Dissector`

Operators with the names of the functions they model; each returns `[ret]` or
`[ret, cxt]` with the `packet_context` the function fills in.

| Operator | Code |
|---|---|
| `current_pkg_type` | l. 840-872: EtherType on Ethernet devices, version nibble on L3 devices |
| `extract_iphdr_info`, `Context` | l. 111-142 |
| `Ipv4Fragment`, `Ipv6Fragment`, `Fragment`, `NoFragment` | l. 127-135 and 203-221: flag test and offset on the 16-bit word as the program loads it, fragment type from the two |
| `bpf_ntohs`, `bpf_htons`, `Swapped`, `Be16` | the byte swap of a little-endian build, the identity on a big-endian one; `Be16(v)` is what a load of a big-endian field with value `v` gives |
| `extract_ipv6hdr_info`, `WalkExtensions` | l. 144-229: at most `MAX_IPV6_EXT_NUM` headers, AH ends in `TC_ACT_UNSPEC`, any other unknown next header is taken as the upper layer, after the loop only TCP, UDP and ICMPv6 are accepted |
| `icmp_msg_type`, `icmp6_msg_type` | l. 277-304 |
| `extract_imcp_err_info` | l. 232-275; for a quoted ICMP message only `IPPROTO_ICMP` and `icmp_msg_type` are used, in both families |
| `L4Info`, `IcmpError`, `TcpPktType` | the body shared by `extract_v4_packet_info` (l. 631-722) and `extract_v6_packet_info` (l. 743-836), parameterised by the family's ICMP protocol, classifier and L3 extractor |
| `extract_v4_packet_info`, `extract_v6_packet_info` | an L3 failure is `TC_ACT_SHOT` in IPv4 (l. 626-629) and the extractor's own code in IPv6 (l. 738-741) |

The word that holds flag and offset is the one field the code masks both
before and after a conversion, so it is the one field modelled with its bits
(`Bitwise`): `IP_MF = 0x2000`, `IP_OFFSET = 0x1fff`, `IPV6_FRAG_MF = 1`,
`IPV6_FRAG_OFFSET = 0xfff8`. The definitions are in headers outside the
sources; the values are those of the specification ("13-bit offset in units of
8 bytes, MF in bit 13" of the host-order word, section on wire formats) and
agree with l. 127, which masks the offset after `bpf_ntohs`.
`first_fragment4_not_tracked` rests on `IP_MF` being that host-order constant.
Addresses, ports and identifications are copied and compared in network byte
order throughout and stay abstract values. All runs take `LittleEndian = TRUE`,
the byte order of the machines the firewall is built for (x86-64, arm64); with
`FALSE` `FirstFragmentTracked` holds.

### `Classifier`

| Variable | Code |
|---|---|
| `fragment_cache` | the LRU map of l. 41-47 |
| `fire2_conn_map` | the conntrack table; an entry is `conn_status`, `trigger_addr`, `trigger_port` and the history field `by` (the frame that created it) |
| `last` | history: direction, frame and verdict of the step, and a bit that flips with every frame |

No action reads `last` beyond flipping its bit, so states that differ in `last`
only have the same successors; the passing run identifies them (`VIEW Tables`),
which leaves every transition of every table state checked and makes room for
larger tables. `Extracted` tabulates the two extractors over the frames of the
model so that they are evaluated once per frame.

| Action | Code |
|---|---|
| `egress_firewall(w)`, `ingress_firewall(w)` | the entry program and the handler it tail-calls, from `current_pkg_type` to the verdict |
| `timer_clean_callback(k)` | one run of the callback on entry `k`, reduced to what a handler can tell apart (l. 427-483): an ACTIVE entry ages, an aging one is removed |

A handler is `Handler`: extractor failure (verdict `TC_ACT_UNSPEC`), then
`fragment_track` unless the frame is an ICMP error, then the stages of the
direction, of which the first that applies decides (`Decided`):

* egress (`EgressStages`): destination on the block list; static rule for
  (protocol, source port or ICMP type, destination); echo reply; conntrack
  lookup-or-create keyed by the source endpoint;
* ingress (`IngressStages`): source on the block list; conntrack lookup keyed by
  the destination endpoint; static rule for (protocol, destination port or ICMP
  type, source); drop.

`Family4` and `Family6` hold what differs between the families, the echo-reply
test of l. 1124-1125 included as written. `lookup_or_create_ct` is one step
here; its insert, timer set-up and rollback are steps of `FirewallCt`.

Abstractions, all of them towards more behaviour:

* `conn_status` is `FIREWALL_ACTIVE` or `AGING` (TIMEOUT_1, TIMEOUT_2, RELEASE):
  handlers only ever store ACTIVE, and the callback either ages an ACTIVE
  entry or removes an aging one. The races between the two are the subject of
  `FirewallCt`.
* The LRU map evicts any entry when it is full (`LruUpdated`); a failing
  update is one of the outcomes of `fragment_track`.
* The block list and the rule table are constant sets of the addresses and
  rule keys that some prefix covers. The handlers only read them, with
  full-length keys (`prefixlen` 32, 64, 128, 160), once per packet. The
  conntrack key does not name the remote address, so an entry and a block-list
  or rule hit for one packet are reachable with constant tables: an update of
  a table between two packets would add no case.
* `prog_array` is populated: a tail call does not fail.

### Bounds

`MAX_IPV6_EXT_NUM = 2` (6 in the code): the frames carry 1, 2 and 3 extension
headers, so the walk ends inside, at and beyond its bound. `FRAG_CACHE_SIZE = 2`
with three fragmented datagrams, two of them in both directions of one flow: a
third first fragment evicts either of the others, and two first fragments with
one key and different ports overwrite each other. `MapCapacity = 3` with more
than three flows: creation meets a full table. The host opens a TCP flow from
port 3, the port a static rule opens to R and B, to a peer no rule names, so
that an inbound frame a rule allows finds an entry of its endpoint. The violation runs keep a cache
of one and a table of two, which is all their counterexamples need. The frame sets of `MCClassifier` hold, for each branch of the dissector
and of the handlers, a frame that takes it: UDP, TCP with and without SYN,
first, middle and last fragments in both families (the datagrams that go
through the cache in both directions are IPv6: on a little-endian build an
IPv4 first fragment never reaches it), echo request and reply in both families, ICMP
errors that match, do not match, quote a fragment, quote another error or are
cut short, frames cut at every layer (inside the IPv6 fragment header
included), AH, an unparsed upper-layer protocol directly behind the IP header
and behind two extension headers, a non-IP EtherType, a blocked peer, and ports
with a static rule.

## 5. Runs

### `FirewallCt`

The runs use module `MCFirewallCt`, 2 CPUs, 2 storage slots and 2 packets.
The violation runs other than `reused_storage_counts_other_flow` have one UDP
key and the liveness run one TCP key; `ct_lifecycle` has two UDP keys and a
table of one entry (`MapCapacity = 1`): the creator of the second flow finds
the table full (`TIMER_ERROR`) while the first flow is in it, at whatever
stage, and gets in once the first flow has been rolled back or, at clock 7 or
8, deleted by its callback, on either storage slot. `reused_storage_counts_other_flow` has the same two keys
and 3 packets (the creator of the first flow, a second packet of it that holds
the pointer, the creator of the second flow). Two CPUs are enough for every race in the code, each of which has two
parties (two handlers, or a handler and the callback, which takes the second
CPU); two packets let both be packets. Two slots allow a flow to be created,
deleted and created again. CPUs and slots are symmetric; the liveness run does
not use the symmetry, which is not sound for temporal properties.

| Run | cfg | Result | What it shows |
|---|---|---|---|
| `ct_lifecycle` | `FirewallCt.cfg` | pass, 1 004 954 states | the six properties below over the whole life of two flows in a table of one entry, `REPORT_INTERVAL = 1`, `CONN_EST_TIMEOUT = 1`, release 2, clock 2..8 (an entry created at 2 is deleted at 7 at the earliest), `MaxRun = 1`, timers migrate and come up to 8 ticks late |
| `metrics_over_reported` | `FirewallCt_OverReport.cfg` | violation | I2 - I4, P10, P11 |
| `refreshed_entry_deleted` | `FirewallCt_DeleteRace.cfg` | violation | I1, section 5 |
| `creation_race_loser_dropped` | `FirewallCt_CreateRace.cfg` | violation | section 4.5 step 3 |
| `active_entry_aged` | `FirewallCt_AgingRace.cfg` | violation | P8 |
| `reused_storage_counts_other_flow` | `FirewallCt_Reuse.cfg` | violation | I3, section 5 |
| `idle_flow_collected` | `FirewallCt_Live.cfg` | pass, 416 810 states | `IdleFlowCollected` under `FairSpec`: `CONN_EST_TIMEOUT = 2`, TCP release 3, clock 2..19, packets until 4, `MaxRun = 1`, `MaxLate = 0`, timers migrate |

In `ct_lifecycle` a stage lasts one tick and the release two, so that the
stages differ in length (`StagesLastTheirTimeout`) and a handler, which may
run across one tick, can be overtaken by a whole stage; the other runs keep
stages of two ticks, where a timer can be pushed out in the middle of a stage.

What `ct_lifecycle` reaches, and what it does not. An entry created by the
first packet at clock 2 goes through its stages and is deleted by the
callback at 7 or 8; the second packet comes at any time from 2 to 8. The run
therefore has: a packet that refreshes the entry at every stage; the callback
deleting while the handler of the second packet still holds the entry
(between lookup and `ct_state_transition`, between the store and the timer
start, inside the report), after which that handler stores into, starts the
freed timer of, and counts on a slot that is in no table; a creator that
finds the table full; and a flow of either key created after the deletion or
the rollback of the first, on the same slot or on the other. It does not
have a handler at work on a slot that already belongs to another entry: that
takes a third packet, and is reached in `reused_storage_counts_other_flow`
only. With three packets and `MaxRun = 1` the state space is beyond what a
run of five minutes covers.

The clock bound of the liveness run is the latest deletion that can happen. The
last packet arrives at 4 and its handler may take one tick more; the entry then
needs a first callback, three stages of 2 ticks and a release of 3, and a
callback that comes within `REPORT_INTERVAL` of the last report, or loses the
election of the reporter to a handler, puts the entry back by 2 ticks without
ageing it (l. 461-467). With `MaxClock = 18`
TLC reports the behaviour in which the clock stops one tick before the last
callback; with 19 every behaviour ends with an empty table.

Deadlock checking is off: when the packets are used up and the clock is at its
bound nothing more happens, and a firewall without traffic and without entries
is legitimately idle.

### `Classifier`

The runs use module `MCClassifier` with the bounds of section 4. Deadlock
checking is on: a frame can always arrive.

| Run | cfg | Result | What it shows |
|---|---|---|---|
| `classifier` | `Classifier.cfg` | pass, 5 702 table states, 334 089 steps | `TypeOK`, `BlockListWins`, `OnlyInitiatingEgressCreates`, `InboundPassesIffKnown`, `LaterFragmentFollowsFirst` |
| `tcp_entry_without_syn` | `Classifier_TcpWithoutSyn.cfg` | violation | sections 3.5 and 4.5, P4, P7 |
| `icmp_error_of_tracked_flow_dropped` | `Classifier_IcmpError.cfg` | violation | section 4.1, P6 |
| `verdict_against_taxonomy` | `Classifier_Taxonomy.cfg` | violation | sections 4.1 and 7 |
| `first_fragment4_not_tracked` | `Classifier_FirstFragment.cfg` | violation | section 4.2, P7 |

### Properties that hold: `FirewallCt`

* `TypeOK`: the variables have their shapes and the table never holds more
  than `MapCapacity` entries, also when two creators insert at once (the
  `-E2BIG` branch of the insert in `lookup_or_create_ct`).
* `CountersConserved`: modulo `Word`, every packet accumulated into a slot is
  in its live counter, in a metric event (read or not), or in `lost` (a
  snapshot that found the ring full, a counter overwritten by a new entry),
  and in one of them only. It holds when reports succeed after reports that
  were skipped, and when a handler counts on a slot whose entry the callback
  has deleted. Snapshot-then-subtract does not lose concurrent adds. A slot
  that still holds counts when an insert takes it needs a third packet and is
  not in the run. The
  equality is modulo the counter width: a counter that two reporters drained
  twice and that wrapped satisfies it, so it says nothing about reporting
  twice, which is the question of `metrics_over_reported`.
* `TimerArmedWhileMapped`: an entry in the table has an armed timer, a running
  callback, or a creator that has not set the timer up yet. No path leaves an
  entry behind that nothing will ever collect, not even when a handler's
  `bpf_timer_start` hits a timer that is not initialised.
* `OnlyOwnEntryUnmapped`: deletion by key always removes the entry of the
  deleting callback or creator, never a younger entry of the same key. It
  does not say that the entry removed was idle (`refreshed_entry_deleted`).
* `StagesLastTheirTimeout`: when the callback finds TIMEOUT_1, TIMEOUT_2 or
  RELEASE, that state has lasted its timeout; no timer start of a packet
  handler shortens it, and the 0 ns first timeout of line 523 does not either.
  The RELEASE case is met at clock 7 and 8, for entries that were and were
  not refreshed on the way.
* `ImplementsLifecycle`: the engine implements `FlowLifecycle` (section 3).
  Every change of a flow's stage, by whichever CPU and in whichever order the
  handlers and the callback take their steps, is an arrow of the state machine:
  no stage is skipped, nothing leaves the table before RELEASE except an entry
  whose timer could not be set up.
* `IdleFlowCollected` (P8, S6): an entry in the table is eventually deleted
  once traffic has stopped. The callback re-arms the timer on every path that
  keeps the entry, the one that defers ageing because no report was due
  included, and no interleaving of the last handlers with the callback leaves
  an entry that is armed for ever or not at all.

### Properties that hold: `Classifier`

* `TypeOK`: both maps stay within their capacity and hold well-formed keys.
* `BlockListWins` (P1): a frame the dissector accepts whose remote address is
  on the block list is dropped and touches no entry, whatever static rule or
  entry exists for it.
* `OnlyInitiatingEgressCreates` (P2-P4, P5 for IPv4, second half of P6): an
  entry appears only in an egress step, for a frame that is no ICMP error,
  has a packet type `pkt_allow_initiating_ct` admits and, when it carries its
  TCP header, a SYN without FIN or RST; the frame is not blocked and has no
  static rule, and the entry is that of the sender's endpoint, one per step.
  An IPv4 echo reply, recognised by protocol and type of the frame and not by
  the handler's test, creates none. The property is silent on ICMPv6 echo
  replies, for which the same clause is false (disagreement 8).
* `InboundPassesIffKnown` (P3, S3, S5): an unfragmented inbound frame from an
  address that is not blocked passes exactly when its destination endpoint is
  tracked or a static rule names it, and a tracked entry is ACTIVE afterwards,
  also when a rule names the frame as well.
* `LaterFragmentFollowsFirst` (P7): a later fragment whose datagram is not in
  the fragment cache (never seen, or evicted since) is dropped and changes no
  entry; one whose datagram is cached gets the verdict of the cached ports, and
  an entry it creates is one of the cached source port. The cache is keyed
  without the ports, so what "the first fragment" is can change under a
  datagram: the property is stated over whatever the cache holds at that time.

### What the code does against its specification

1. **`last_upload_ts` goes back, and**
2. **metrics are reported twice** (l. 326-367), in one trace. The clock is read
   before `last_upload_ts`. CPU A reads `now = 3`; CPU B reads `now = 4`, wins
   the election and stores 4; A reads `last = 4`, `3 - 4` wraps, the interval
   test passes and A's compare-and-swap stores 3 over 4. Both are reporters:
   both snapshot 2 packets, both emit, both subtract; the events say 4, the
   counter wraps to `Word - 2`.
3. **A refreshed entry is deleted** (l. 427-454). The callback reads RELEASE, a
   packet on the other CPU looks the entry up and stores ACTIVE, the callback
   deletes the key. The packet passes; its flow has no entry any more.
4. **The loser of a creation race is dropped** (l. 507-511, 583-585, 958-960).
5. **A just-refreshed entry ages** (l. 416, 483). The callback reads ACTIVE, a
   packet stores ACTIVE again, the compare-and-swap to TIMEOUT_1 succeeds.
   Together with `StagesLastTheirTimeout` this pins P8 down exactly: the two
   later stages last `CONN_EST_TIMEOUT` each, the first one can be cut to
   nothing.

6. **A TCP entry without SYN** (l. 631-641, 743-753). `pkt_type` is set to
   `PKT_CONNLESS` before the early return for a later fragment. The first
   fragment of a TCP datagram without SYN is dropped by the conntrack stage but
   has written its ports to the fragment cache; the later fragment takes them
   and, being "connectionless", creates the entry.
7. **An ICMP error of a tracked flow is dropped** (l. 703-706, 1022-1026,
   1200-1204). After the swap the context has the endpoints of the quoted
   packet and the protocol of the error; the conntrack key is (ICMP, address,
   port) and never names the UDP or TCP entry.
8. **An ICMPv6 echo reply creates an entry** (l. 1124-1125): the reply test names
   `IPPROTO_ICMP`, which no IPv6 packet carries, where P5 says that an echo
   reply creates no entry. No run of its own, the twelve being taken by
   sharper questions: `OnlyInitiatingEgressCreates` states P5 for IPv4 only.
   With its clause `~EchoReply(w)` stated for both families TLC reports the
   violation in one step, the outbound frame `Icmp6(129, 1)` of `classifier`
   opening the entry (ICMPv6, L, 1).
9. **Malformed frames pass** (l. 883-888 and the same lines of the other three
   handlers): every failure of the extractor becomes `TC_ACT_UNSPEC`.
10. **An unparsed protocol is dropped on ingress** (l. 643-719, 755-833, 1032).
    The extractors have no branch for a protocol other than TCP, UDP and ICMP;
    a GRE frame is accepted with ports 0, finds no entry and no rule, and is
    dropped, where sections 4.1 and 7 let an unhandled class pass.
    Disagreements 9 and 10 are the two halves of `VerdictFollowsTaxonomy`;
    each takes one frame, and TLC reports the first it meets (9).
11. **An IPv4 first fragment is not tracked** (l. 127-128). The offset is
    masked after `bpf_ntohs`, the flag is tested on the word as loaded. On a
    little-endian machine `0x2000` in the loaded word is bit 5 of the offset:
    an outbound TCP SYN opens the flow, the first fragment of the next
    datagram (MF set, offset 0) is classified `NOT_F` and passes, and
    `fragment_cache` stays empty, so that every later fragment of the
    datagram is dropped (`LaterFragmentFollowsFirst`). The IPv6 extractor
    converts its masks (l. 213-215) and is right on either byte order.
12. **A packet is counted on another flow** (l. 314-318, 416, 531, 556). CPU 1
    inserts the entry of flow 1; a packet of flow 1 on CPU 2 looks it up;
    CPU 1 fails to set the timer up and deletes the key; a packet of flow 2
    on CPU 1 is given the same slot; CPU 2 stores ACTIVE into, restarts the
    timer of, and counts its packet on the entry of flow 2. Deletion by the
    callback (l. 454) opens the same window. Ten states, `MaxRun = 0`.

Disagreements 3-5 need no tick while a handler runs (`MaxRun = 0`); 1-2 need
one, and use `REPORT_INTERVAL = 2` so that the handler stays shorter than the
interval.

Seen while modelling and not given a run: on ingress the block list is tested
against the swapped source of an ICMP error, not its sender (l. 703, 1010-1013);
on ingress the conntrack lookup comes before the static rule, so an inbound
packet that a rule allows refreshes, and is counted on, an entry of the same
local endpoint, where P2 says a rule-allowed packet changes no entry.

## 6. Fairness

`FairSpec` is `Spec` with

* `WF_vars(Tick)`: time goes on;
* for every CPU, `WF_vars(HandlerStep(c) \/ ReportStep(c) \/ CallbackStep(c))`:
  a CPU that is inside a handler or a callback, or that has an expired timer to
  run, takes its next step.

A TC program and a timer callback are bounded straight-line code that the
kernel runs to its end without sleeping, and it runs the callback of an expired
`bpf_timer` from the timer softirq: weak fairness is enough, since such a step
stays enabled until it is taken. `Arrive` has no fairness: nothing obliges a
packet to arrive, and after `LastArrival` none does.

With a clock that stops at `MaxClock`, weak fairness of `Tick` alone would let
the clock run to its end before a callback has run. The liveness run therefore
sets `MaxLate = 0`: `Tick` is not enabled while a timer is expired, so a timer
fires in the tick it expires in, and `MaxRun = 1` does the same for a handler.
This is the timed reading of fairness (a callback is late by less than a tick);
how late a callback may be is what the safety runs explore with
`MaxLate = MaxClock`.

The safety runs assume no fairness.

## 7. Not modelled

* `bpf_timer_set_callback` or the first `bpf_timer_start` failing after a
  successful `bpf_timer_init`: the kernel gives no such error for a live map.
* The trie behind the block list and the rule table, and updates of these
  tables while the firewall runs (they belong to the kernel and to the
  control plane, neither of which is in this repository). The program only
  looks keys up, always with the full prefix length (section 4), so a table
  is the constant set of keys some entry covers, and every lookup of the code
  is modelled. An update between two packets changes nothing a later packet
  of an existing flow depends on that the constant tables do not already
  show: the conntrack key has no remote endpoint, so a packet that finds an
  entry and a packet that hits a rule or the block list meet in every
  combination.
* `land_nat_common.h`: declarations, skb write helpers and
  `is_handle_protocol` of the NAT program; the firewall calls none of them.
  `COPY_ADDR_FROM`, the one macro of it the handlers use, is a `memcpy` of an
  address and disappears with the abstraction of addresses.
* A failing tail call: `prog_array` is initialised in its declaration
  (l. 25-39).
* Byte order and bit layout of header fields other than the fragment word;
  the bytes of a frame beyond the fields listed in `Dissector`.
* Three packets together with ticks inside a handler, and more than two flows
  or CPUs: the state space grows past what a run of a few minutes covers. A
  handler at work on a slot that another flow has taken is therefore checked
  against one property only (`reused_storage_counts_other_flow`).
* Interleavings of handlers on the fragment cache: a handler makes one update
  or one lookup of one key, which the map makes atomic.
