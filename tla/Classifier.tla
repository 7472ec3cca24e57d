------------------------------ MODULE Classifier ------------------------------
(***************************************************************************)
(* The classification pipeline of firewall.bpf.c: the two entry programs,  *)
(* the four direction handlers, the fragment tracker, the block list, the  *)
(* static rules and the conntrack stage.  One step handles one frame from  *)
(* dispatch to verdict; the conntrack stage, whose interleavings module    *)
(* FirewallCt explores, is taken as one atomic call here, and a run of the *)
(* timer callback as one step.                                             *)
(***************************************************************************)
EXTENDS Dissector, SequencesExt

CONSTANTS
    EgressFrames,             \* frames offered to egress_firewall
    IngressFrames,            \* frames offered to ingress_firewall
    firewall_block_ip4_map,   \* addresses covered by a blocked prefix
    firewall_block_ip6_map,
    firewall_allow_rules_map, \* rule keys covered by an allow rule
    FRAG_CACHE_SIZE,          \* max_entries of fragment_cache
    MapCapacity               \* max_entries of fire2_conn_map

ASSUME /\ FRAG_CACHE_SIZE \in Nat \ {0}
       /\ MapCapacity \in Nat \ {0}

VARIABLES
    fragment_cache,  \* fragment key -> ports of the first fragment
    fire2_conn_map,  \* conntrack key -> entry
    last             \* history: the frame handled last and its verdict

vars == <<fragment_cache, fire2_conn_map, last>>

Frames == EgressFrames \cup IngressFrames

\* The extractors of module Dissector, tabulated over the frames.
Extracted ==
    [version \in {4, 6} |->
        [w \in Frames |-> IF version = 4 THEN extract_v4_packet_info(w)
                          ELSE extract_v6_packet_info(w)]]

LANDSCAPE_IPV4_TYPE == 0
LANDSCAPE_IPV6_TYPE == 1

TIMER_EXIST == "TIMER_EXIST"
TIMER_NOT_FOUND == "TIMER_NOT_FOUND"
TIMER_ERROR == "TIMER_ERROR"
TIMER_CREATED == "TIMER_CREATED"

EmptyMap == [k \in {} |-> NULL]

\* conn_status as far as a handler tells it apart: ACTIVE, or on its way out
\* (FIREWALL_TIMEOUT_1, FIREWALL_TIMEOUT_2 and FIREWALL_RELEASE).
FIREWALL_ACTIVE == "FIREWALL_ACTIVE"
AGING == "AGING"

\* What differs between the IPv4 and the IPv6 handlers.  The echo-reply test
\* of the IPv6 egress handler names IPPROTO_ICMP.
Family4 ==
    [ip_type |-> LANDSCAPE_IPV4_TYPE, block |-> firewall_block_ip4_map,
     icmpx |-> IPPROTO_ICMP, reply |-> [ip_protocol |-> IPPROTO_ICMP, icmp_type |-> 0]]

Family6 ==
    [ip_type |-> LANDSCAPE_IPV6_TYPE, block |-> firewall_block_ip6_map,
     icmpx |-> IPPROTO_ICMPV6, reply |-> [ip_protocol |-> IPPROTO_ICMP, icmp_type |-> 129]]

-----------------------------------------------------------------------------
(* Fragment tracker *)

\* bpf_map_update_elem(BPF_ANY) on the LRU hash: when the map is full some
\* entry makes room; which one is the kernel's choice.
LruUpdated(k, v) ==
    LET put(keep) == [x \in keep \cup {k} |-> IF x = k THEN v ELSE fragment_cache[x]]
        keys == DOMAIN fragment_cache
    IN  IF k \in keys \/ Cardinality(keys) < FRAG_CACHE_SIZE
        THEN {put(keys)}
        ELSE {put(keys \ {victim}) : victim \in keys}

\* struct fragment_cache_key of a packet.
FragmentKey(pkt) ==
    [l4proto |-> pkt.ip_protocol, id |-> pkt.fragment_id,
     saddr |-> pkt.src_addr, daddr |-> pkt.dst_addr]

Tracked(ret, p, cache) == [ret |-> ret, pkt |-> p, cache |-> cache]

FragmentTrackUnknownPasses(pkt) ==
    LET key == FragmentKey(pkt)
        known == key \in DOMAIN fragment_cache
    IN  IF pkt.fragment_type = MORE_F /\ pkt.fragment_off = 0
        THEN {Tracked(TC_ACT_OK, pkt, cache) :
                cache \in LruUpdated(key, [sport |-> pkt.src_port, dport |-> pkt.dst_port])}
        ELSE {Tracked(TC_ACT_OK,
                      IF known /\ pkt.fragment_off # 0
                      THEN [pkt EXCEPT !.src_port = fragment_cache[key].sport,
                                       !.dst_port = fragment_cache[key].dport]
                      ELSE pkt,
                      fragment_cache)}

\* The outcomes of fragment_track: return code, packet and cache.
fragment_track(pkt) ==
    LET key == FragmentKey(pkt)
        value_new == [sport |-> pkt.src_port, dport |-> pkt.dst_port]
    IN  IF pkt.fragment_type = NOT_F \/ (pkt.fragment_type = END_F /\ pkt.fragment_off = 0)
        THEN {Tracked(TC_ACT_OK, pkt, fragment_cache)}
        ELSE IF pkt.fragment_type = MORE_F /\ pkt.fragment_off = 0
        THEN {Tracked(TC_ACT_OK, pkt, cache) : cache \in LruUpdated(key, value_new)}
                 \cup {Tracked(TC_ACT_SHOT, pkt, fragment_cache)}
        ELSE IF key \notin DOMAIN fragment_cache
        THEN {Tracked(TC_ACT_SHOT, pkt, fragment_cache)}
        ELSE {Tracked(TC_ACT_OK, [pkt EXCEPT !.src_port = fragment_cache[key].sport,
                                             !.dst_port = fragment_cache[key].dport],
                      fragment_cache)}

-----------------------------------------------------------------------------
(* Rules and conntrack *)

RuleKey(fam, pkt, port, remote) ==
    [ip_type |-> fam.ip_type, ip_protocol |-> pkt.ip_protocol,
     local_port |-> IF pkt.ip_protocol = fam.icmpx
                    THEN (pkt.icmp_type * 256) % 65536 ELSE port,
     remote_address |-> remote]

\* lookup_static_rules: whether firewall_allow_rules_map has an action for the
\* key.  The handlers look at the action pointer only, never at the return
\* code.
lookup_static_rules(rule_key) == rule_key \in firewall_allow_rules_map

ConntrackKey(fam, pkt, addr, port) ==
    [ip_type |-> fam.ip_type, ip_protocol |-> pkt.ip_protocol,
     local_addr |-> addr, local_port |-> port]

\* lookup_or_create_ct followed by ct_state_transition: the return code and
\* the table.  `by' is history: the frame that created the entry.
Refreshed(key) == [fire2_conn_map EXCEPT ![key].conn_status = FIREWALL_ACTIVE]

Created(key, addr, port, w) ==
    [k \in DOMAIN fire2_conn_map \cup {key} |->
        IF k # key THEN fire2_conn_map[k]
        ELSE [conn_status |-> FIREWALL_ACTIVE, trigger_addr |-> addr, trigger_port |-> port,
              by |-> w]]

LookupOrCreateIgnoresFull(do_new, key, remote_addr, remote_port, w) ==
    IF key \in DOMAIN fire2_conn_map
    THEN [ret |-> TIMER_EXIST, map |-> Refreshed(key)]
    ELSE IF ~do_new THEN [ret |-> TIMER_NOT_FOUND, map |-> fire2_conn_map]
    ELSE [ret |-> TIMER_CREATED, map |-> Created(key, remote_addr, remote_port, w)]

lookup_or_create_ct(do_new, key, remote_addr, remote_port, w) ==
    IF key \in DOMAIN fire2_conn_map
    THEN [ret |-> TIMER_EXIST, map |-> Refreshed(key)]
    ELSE IF ~do_new THEN [ret |-> TIMER_NOT_FOUND, map |-> fire2_conn_map]
    ELSE IF Cardinality(DOMAIN fire2_conn_map) >= MapCapacity
    THEN [ret |-> TIMER_ERROR, map |-> fire2_conn_map]
    ELSE [ret |-> TIMER_CREATED, map |-> Created(key, remote_addr, remote_port, w)]

\* A handler is a list of stages; the first stage that applies decides.
Decided(stages) == stages[SelectInSeq(stages, LAMBDA s : s.hit)]

Stage(hit, ret, map) == [hit |-> hit, ret |-> ret, map |-> map]

EgressCtForErrors(fam, pkt, w) ==
    lookup_or_create_ct(pkt_allow_initiating_ct(pkt.pkt_type),
                        ConntrackKey(fam, pkt, pkt.src_addr, pkt.src_port),
                        pkt.dst_addr, pkt.dst_port, w)

EgressCt(fam, pkt, w) ==
    lookup_or_create_ct(~is_icmp_error_pkt(pkt) /\ pkt_allow_initiating_ct(pkt.pkt_type),
                        ConntrackKey(fam, pkt, pkt.src_addr, pkt.src_port),
                        pkt.dst_addr, pkt.dst_port, w)

IngressCtBySource(fam, pkt, w) ==
    lookup_or_create_ct(FALSE, ConntrackKey(fam, pkt, pkt.src_addr, pkt.src_port),
                        pkt.src_addr, pkt.src_port, w)

IngressCt(fam, pkt, w) ==
    lookup_or_create_ct(FALSE, ConntrackKey(fam, pkt, pkt.dst_addr, pkt.dst_port),
                        pkt.src_addr, pkt.src_port, w)

CtVerdict(ct) ==
    IF ct.ret \in {TIMER_NOT_FOUND, TIMER_ERROR} THEN TC_ACT_SHOT ELSE TC_ACT_UNSPEC

EgressRuleFirst(fam, pkt, w) ==
    Decided(<<
      Stage(lookup_static_rules(RuleKey(fam, pkt, pkt.src_port, pkt.dst_addr)),
            TC_ACT_UNSPEC, fire2_conn_map),
      Stage(pkt.dst_addr \in fam.block, TC_ACT_SHOT, fire2_conn_map),
      Stage(pkt.ip_protocol = fam.reply.ip_protocol /\ pkt.icmp_type = fam.reply.icmp_type,
            TC_ACT_UNSPEC, fire2_conn_map),
      Stage(TRUE, CtVerdict(EgressCt(fam, pkt, w)), EgressCt(fam, pkt, w).map) >>)

EgressStages(fam, pkt, w) ==
    Decided(<<
      Stage(pkt.dst_addr \in fam.block, TC_ACT_SHOT, fire2_conn_map),
      Stage(lookup_static_rules(RuleKey(fam, pkt, pkt.src_port, pkt.dst_addr)),
            TC_ACT_UNSPEC, fire2_conn_map),
      Stage(pkt.ip_protocol = fam.reply.ip_protocol /\ pkt.icmp_type = fam.reply.icmp_type,
            TC_ACT_UNSPEC, fire2_conn_map),
      Stage(TRUE, CtVerdict(EgressCt(fam, pkt, w)), EgressCt(fam, pkt, w).map) >>)

IngressStages(fam, pkt, w) ==
    Decided(<<
      Stage(pkt.src_addr \in fam.block, TC_ACT_SHOT, fire2_conn_map),
      Stage(IngressCt(fam, pkt, w).ret \in {TIMER_EXIST, TIMER_CREATED},
            TC_ACT_UNSPEC, IngressCt(fam, pkt, w).map),
      Stage(lookup_static_rules(RuleKey(fam, pkt, pkt.dst_port, pkt.src_addr)),
            TC_ACT_UNSPEC, fire2_conn_map),
      Stage(TRUE, TC_ACT_SHOT, fire2_conn_map) >>)

-----------------------------------------------------------------------------
(* Handlers *)

Init ==
    /\ fragment_cache = EmptyMap
    /\ fire2_conn_map = EmptyMap
    /\ last = [seq |-> 0, dir |-> "egress", frame |-> NULL, ret |-> TC_ACT_UNSPEC]

Return(dir, w, ret) ==
    last' = [seq |-> 1 - last.seq, dir |-> dir, frame |-> w, ret |-> ret]

\* return TC_ACT_UNSPEC before anything was touched.
Unhandled(dir, w) ==
    Return(dir, w, TC_ACT_UNSPEC) /\ UNCHANGED <<fragment_cache, fire2_conn_map>>

\* The body shared by the four handlers, which differ in the extractor of
\* the family and the stages of the direction.
Handler(dir, w, fam) ==
    LET info == Extracted[IF fam = Family4 THEN 4 ELSE 6][w]
        Stages(pkt) == IF dir = "egress" THEN EgressStages(fam, pkt, w)
                       ELSE IngressStages(fam, pkt, w)
    IN  \/ info.ret # TC_ACT_OK /\ Unhandled(dir, w)
        \/ /\ info.ret = TC_ACT_OK
           /\ \E f \in IF is_icmp_error_pkt(info.cxt)
                       THEN {[ret |-> TC_ACT_OK, pkt |-> info.cxt, cache |-> fragment_cache]}
                       ELSE fragment_track(info.cxt) :
                LET out == IF f.ret # TC_ACT_OK
                           THEN Stage(TRUE, TC_ACT_SHOT, fire2_conn_map)
                           ELSE Stages(f.pkt)
                IN  /\ fragment_cache' = f.cache
                    /\ fire2_conn_map' = out.map
                    /\ Return(dir, w, out.ret)

ipv4_egress_firewall(w) == Handler("egress", w, Family4)

ipv4_ingress_firewall(w) == Handler("ingress", w, Family4)

ipv6_egress_firewall(w) == Handler("egress", w, Family6)

ipv6_ingress_firewall(w) == Handler("ingress", w, Family6)

\* The entry programs: a frame of neither family is none of the firewall's
\* business, every other one goes to its handler by tail call.
egress_firewall(w) ==
    LET type == current_pkg_type(w)
    IN  \/ type.ret # TC_ACT_OK /\ Unhandled("egress", w)
        \/ type.ret = TC_ACT_OK /\ type.is_ipv4 /\ ipv4_egress_firewall(w)
        \/ type.ret = TC_ACT_OK /\ ~type.is_ipv4 /\ ipv6_egress_firewall(w)

ingress_firewall(w) ==
    LET type == current_pkg_type(w)
    IN  \/ type.ret # TC_ACT_OK /\ Unhandled("ingress", w)
        \/ type.ret = TC_ACT_OK /\ type.is_ipv4 /\ ipv4_ingress_firewall(w)
        \/ type.ret = TC_ACT_OK /\ ~type.is_ipv4 /\ ipv6_ingress_firewall(w)

\* The timer callback of entry k (l. 427-483), with the stages a handler
\* cannot tell apart taken as one: an ACTIVE entry starts to age, an aging one
\* leaves the table.  Reports, the compare-and-swap and the timer are steps
\* of FirewallCt.
timer_clean_callback(k) ==
    /\ fire2_conn_map' =
          IF fire2_conn_map[k].conn_status = FIREWALL_ACTIVE
          THEN [fire2_conn_map EXCEPT ![k].conn_status = AGING]
          ELSE Restrict(fire2_conn_map, DOMAIN fire2_conn_map \ {k})
    /\ UNCHANGED <<fragment_cache, last>>

Next ==
    \/ \E w \in EgressFrames : egress_firewall(w)
    \/ \E w \in IngressFrames : ingress_firewall(w)
    \/ \E k \in DOMAIN fire2_conn_map : timer_clean_callback(k)

Spec == Init /\ [][Next]_vars

\* No step reads `last' beyond its sequence bit: two states with the same
\* tables have the same successors, and a model checker may take them for
\* one state.
Tables == <<fragment_cache, fire2_conn_map>>

-----------------------------------------------------------------------------
(* Properties *)

\* What dispatch and the family's extractor make of each frame.
Dissection ==
    [w \in Frames |->
        LET type == current_pkg_type(w)
        IN  IF type.ret # TC_ACT_OK THEN Fail(TC_ACT_UNSPEC)
            ELSE Extracted[IF type.is_ipv4 THEN 4 ELSE 6][w]]

Dissected(w) == Dissection[w]

FamilyOf(w) == IF current_pkg_type(w).is_ipv4 THEN Family4 ELSE Family6

\* This step handled the frame last'.frame.
Handled(dir) == last'.seq # last.seq /\ last'.dir = dir

Accepted(w) == Dissected(w).ret = TC_ACT_OK

TypeOK ==
    /\ last \in [seq : {0, 1}, dir : {"egress", "ingress"}, frame : Frames \cup {NULL},
                 ret : {TC_ACT_UNSPEC, TC_ACT_SHOT}]
    /\ Cardinality(DOMAIN fragment_cache) <= FRAG_CACHE_SIZE
    /\ \A k \in DOMAIN fragment_cache :
          /\ k \in [l4proto : Nat, id : Nat, saddr : {w.saddr : w \in Frames},
                     daddr : {w.daddr : w \in Frames}]
          /\ fragment_cache[k] \in [sport : Nat, dport : Nat]
    /\ Cardinality(DOMAIN fire2_conn_map) <= MapCapacity
    /\ \A k \in DOMAIN fire2_conn_map :
          /\ k \in [ip_type : {LANDSCAPE_IPV4_TYPE, LANDSCAPE_IPV6_TYPE}, ip_protocol : Nat,
                     local_addr : {w.saddr : w \in Frames}, local_port : Nat]
          /\ fire2_conn_map[k].conn_status \in {FIREWALL_ACTIVE, AGING}
          /\ fire2_conn_map[k].by \in Frames

\* P1, sections 4.3 and 5 of the specification.  A frame the dissector
\* accepts and whose remote address (destination on egress, source on
\* ingress, as the dissector reports them) is on the block list is dropped
\* and leaves the conntrack table alone: no static rule and no entry of the
\* handlers (l. 910-919, 1010-1019, 1097-1106, 1188-1197) comes before it.
BlockListWins ==
    [][\A dir \in {"egress", "ingress"} :
         LET w == last'.frame
             pkt == Dissected(w).cxt
             remote == IF dir = "egress" THEN pkt.dst_addr ELSE pkt.src_addr
         IN  Handled(dir) /\ Accepted(w) /\ remote \in FamilyOf(w).block
                 => last'.ret = TC_ACT_SHOT /\ UNCHANGED fire2_conn_map]_vars

\* An ICMP or ICMPv6 echo reply, by what the frame carries.
EchoReply(w) ==
    \/ w.version = 4 /\ Last(w.chain) = IPPROTO_ICMP /\ w.type = 0
    \/ w.version = 6 /\ Last(w.chain) = IPPROTO_ICMPV6 /\ w.type = 129

\* P4 and the second half of P6.  An entry enters fire2_conn_map only in
\* the egress handlers (lookup_or_create_ct with do_new, l. 949-956 and
\* 1135-1143) and only for a frame that may open a flow: no ICMP error, a
\* packet type pkt_allow_initiating_ct admits (l. 54-56), and when the frame
\* carries its TCP header, a SYN without FIN or RST.  Its destination is not
\* blocked, no static rule lets it through, and the one entry the step adds
\* is the entry of the sender's endpoint.  P5, for IPv4: an echo reply
\* creates nothing.  Of ICMPv6 echo replies the property says nothing: the
\* test at l. 1124-1125 never matches one, and such a reply opens an entry.
\* Nor does it say that a later fragment of a TCP segment creates nothing:
\* see TcpEntryOpenedBySyn.
OnlyInitiatingEgressCreates ==
    [][LET new == DOMAIN fire2_conn_map' \ DOMAIN fire2_conn_map
           w == last'.frame
           pkt == Dissected(w).cxt
       IN  new # {} =>
             /\ Handled("egress") /\ Accepted(w) /\ ~is_icmp_error_pkt(pkt)
             /\ pkt_allow_initiating_ct(pkt.pkt_type)
             /\ w.off = 0 /\ Last(w.chain) = IPPROTO_TCP
                   => TcpPktType(w.flags) = PKT_TCP_SYN
             /\ w.version = 4 => ~EchoReply(w)
             /\ w.daddr \notin FamilyOf(w).block
             /\ \A k \in new :
                   /\ new = {k}
                   /\ k.local_addr = w.saddr /\ k.ip_protocol = pkt.ip_protocol
                   /\ RuleKey(FamilyOf(w), pkt, k.local_port, w.daddr)
                         \notin firewall_allow_rules_map]_vars

\* An ingress packet of this family with destination port `port' belongs to
\* a flow the table holds or a static rule names.
Known(fam, pkt, w, port) ==
    \/ ConntrackKey(fam, pkt, w.daddr, port) \in DOMAIN fire2_conn_map
    \/ RuleKey(fam, pkt, port, w.saddr) \in firewall_allow_rules_map

\* P3 and scenarios S3 and S5.  An unfragmented ingress frame from an
\* address that is not blocked passes exactly when its own destination
\* endpoint has a conntrack entry or a static rule names it, and an entry
\* it matches is ACTIVE afterwards (ipv4_ingress_firewall l. 1022-1066,
\* ipv6_ingress_firewall l. 1200-1246).
InboundPassesIffKnown ==
    [][LET w == last'.frame
           pkt == Dissected(w).cxt
           fam == FamilyOf(w)
           key == ConntrackKey(fam, pkt, w.daddr, pkt.dst_port)
       IN  /\ Handled("ingress") /\ Accepted(w) /\ ~is_icmp_error_pkt(pkt)
           /\ pkt.fragment_type = NOT_F /\ w.saddr \notin fam.block
           => /\ last'.ret = TC_ACT_UNSPEC <=> Known(fam, pkt, w, pkt.dst_port)
              /\ key \in DOMAIN fire2_conn_map
                    => fire2_conn_map'[key].conn_status = FIREWALL_ACTIVE]_vars

\* I5 and section 7 ("unknown fragment: drop").  A later fragment carries no
\* ports of its own: fragment_track (l. 89-97) and the handlers judge it by
\* the ports its datagram's first fragment left in fragment_cache.  When the
\* first fragment has not been seen, was dropped by the tracker or has been
\* evicted since, the fragment is dropped and the conntrack table is left
\* alone; otherwise it passes inbound exactly when the flow of the first
\* fragment is known, and an entry it opens outbound is the entry of the
\* first fragment's source port.
LaterFragmentFollowsFirst ==
    [][\A dir \in {"egress", "ingress"} :
         LET w == last'.frame
             pkt == Dissected(w).cxt
             fam == FamilyOf(w)
             fkey == FragmentKey(pkt)
         IN  Handled(dir) /\ Accepted(w) /\ pkt.fragment_off # 0 =>
               IF fkey \notin DOMAIN fragment_cache
               THEN last'.ret = TC_ACT_SHOT /\ UNCHANGED fire2_conn_map
               ELSE /\ dir = "ingress" /\ w.saddr \notin fam.block
                       => (last'.ret = TC_ACT_UNSPEC
                             <=> Known(fam, pkt, w, fragment_cache[fkey].dport))
                    /\ \A k \in DOMAIN fire2_conn_map' \ DOMAIN fire2_conn_map :
                          k.local_port = fragment_cache[fkey].sport]_vars

-----------------------------------------------------------------------------
(* What the specification says and the code does not do *)

\* Sections 3.5 and 4.5, P4 and P7: an entry is created by a packet that may
\* initiate a connection, for TCP a SYN.  The dissector tags every later
\* fragment PKT_CONNLESS (l. 631-641, 743-753) whatever its protocol is.
TcpEntryOpenedBySyn ==
    \A k \in DOMAIN fire2_conn_map :
        k.ip_protocol = IPPROTO_TCP =>
            LET w == fire2_conn_map[k].by
            IN  w.off = 0 /\ TcpPktType(w.flags) = PKT_TCP_SYN

\* P6, first half: an ICMP error that quotes a packet of a tracked flow
\* passes.  The handlers build the conntrack key with the protocol of the
\* error itself (l. 1022-1026, 1200-1204), not of the packet it quotes.
ErrorOfTrackedFlowPasses ==
    [][LET w == last'.frame
           pkt == Dissected(w).cxt
           quoted == w.inner
           flow == [ip_type |-> FamilyOf(w).ip_type, ip_protocol |-> Last(quoted.chain),
                    local_addr |-> quoted.saddr, local_port |-> quoted.sport]
       IN  /\ Handled("ingress") /\ Accepted(w) /\ is_icmp_error_pkt(pkt)
           /\ pkt.src_addr \notin FamilyOf(w).block
           /\ flow \in DOMAIN fire2_conn_map
           => last'.ret = TC_ACT_UNSPEC]_vars

\* P7 and section 4.2: the first fragment of a datagram - More Fragments
\* set, offset 0 - that the firewall lets through leaves its ports in
\* fragment_cache, where the fragments that follow find them.
\* extract_iphdr_info tests the flag on the frag_off word as loaded
\* (l. 128), without the bpf_ntohs it applies for the offset one line above:
\* on a little-endian machine the test looks at bit 5 of the offset.
FirstFragmentTracked ==
    [][\A dir \in {"egress", "ingress"} :
         LET w == last'.frame
             pkt == Dissected(w).cxt
         IN  /\ Handled(dir) /\ Accepted(w) /\ ~is_icmp_error_pkt(pkt)
             /\ w.mf /\ w.off = 0 /\ last'.ret = TC_ACT_UNSPEC
             => FragmentKey(pkt) \in DOMAIN fragment_cache']_vars

\* Section 7, the first two rows of the taxonomy (and the "Errors" line of
\* section 4.1): a malformed frame - truncated read, wrong version, an ICMP
\* error that does not match the packet it quotes - is dropped, and a
\* packet of a class the firewall does not handle, an L4 protocol it does
\* not parse among them, passes through.  The handlers turn every failure
\* of the extractor into TC_ACT_UNSPEC (l. 883-888, 981-986, 1077-1082,
\* 1168-1173); the extractors accept an unknown L4 protocol with ports 0
\* (l. 643-719 and 755-833 have no branch for it) and the ingress handlers
\* then look for its conntrack entry and rule like for any other packet
\* (l. 1022-1066, 1200-1246).
VerdictFollowsTaxonomy ==
    [][LET w == last'.frame
           malformed == Dissected(w).ret = TC_ACT_SHOT
           unhandled == /\ Handled("ingress") /\ Accepted(w)
                        /\ w.saddr \notin FamilyOf(w).block
                        /\ Last(w.chain) \notin {IPPROTO_TCP, IPPROTO_UDP,
                                                 IPPROTO_ICMP, IPPROTO_ICMPV6}
       IN  last'.seq # last.seq =>
             /\ malformed => last'.ret = TC_ACT_SHOT
             /\ unhandled => last'.ret = TC_ACT_UNSPEC]_vars

=============================================================================
