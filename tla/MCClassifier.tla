---------------------------- MODULE MCClassifier ----------------------------
(***************************************************************************)
(* Frames, rules and bounds for model checking Classifier: a host L, a     *)
(* remote R, a blocked remote B and a router X; one flow per protocol.     *)
(***************************************************************************)
EXTENDS Classifier

\* UDP, L:1 -> R:2, unfragmented, whole.
Udp ==
    [h_proto |-> ETH_IPV4, version |-> 4, len |-> Whole, saddr |-> "L", daddr |-> "R",
     mf |-> FALSE, off |-> 0, id |-> 0, chain |-> <<IPPROTO_UDP>>, sport |-> 1,
     dport |-> 2, flags |-> {}, type |-> 0, echo_id |-> 0, inner |-> NULL]

Tcp(flags) == [Udp EXCEPT !.chain = <<IPPROTO_TCP>>, !.flags = flags]

Icmp(type, id) ==
    [Udp EXCEPT !.chain = <<IPPROTO_ICMP>>, !.type = type, !.echo_id = id,
                !.sport = 0, !.dport = 0]

\* w with an L4 protocol the dissector has no parser for (GRE).
Gre(w) == [w EXCEPT !.chain = <<47>>]

\* The answer to w.
Reply(w) ==
    [w EXCEPT !.saddr = w.daddr, !.daddr = w.saddr, !.sport = w.dport, !.dport = w.sport]

\* The first, a middle and the last fragment of datagram w.
First(w, id) == [w EXCEPT !.mf = TRUE, !.id = id]
Later(w, id) == [w EXCEPT !.off = 1, !.id = id, !.sport = 0, !.dport = 0, !.flags = {}]
Middle(w, id) == [Later(w, id) EXCEPT !.mf = TRUE]

\* An ICMP error about w, sent to the sender of w.
Error(from, w) ==
    [Icmp(3, 0) EXCEPT !.saddr = from, !.daddr = w.saddr, !.inner = w]

\* w as an IPv6 frame behind the extension headers ext.
V6(w, ext) ==
    [w EXCEPT !.h_proto = ETH_IPV6, !.version = 6, !.chain = ext \o w.chain]

Frag6(w) == V6(w, <<NEXTHDR_FRAGMENT>>)

Icmp6(type, id) == V6([Icmp(type, id) EXCEPT !.chain = <<IPPROTO_ICMPV6>>], <<>>)

MCEgressFrames ==
    {Udp, [Udp EXCEPT !.daddr = "B"], Tcp({PKT_TCP_SYN}), Tcp({}),
     [Tcp({PKT_TCP_SYN}) EXCEPT !.sport = 3],
     [Tcp({PKT_TCP_SYN}) EXCEPT !.sport = 3, !.daddr = "B"],
     [Tcp({PKT_TCP_SYN}) EXCEPT !.sport = 3, !.daddr = "X"],
     First(Tcp({}), 1), Later(Tcp({}), 1),
     First(Frag6(Tcp({})), 5), Later(Frag6(Tcp({})), 5),
     Icmp(8, 1), Icmp(0, 1), Error("L", Reply(Udp)),
     V6(Udp, <<NEXTHDR_DEST, NEXTHDR_HOP>>),
     First(Frag6(Udp), 2), Middle(Frag6(Udp), 2), Later(Frag6(Udp), 2),
     [Later(Frag6(Udp), 2) EXCEPT !.len = FRAG],
     Icmp6(129, 1),
     Gre(Udp), [Udp EXCEPT !.len = L2], [Udp EXCEPT !.h_proto = 2054],
     [Udp EXCEPT !.len = L3],
     V6(Udp, <<NEXTHDR_AUTH>>)}

MCIngressFrames ==
    {Reply(Udp), Reply([Udp EXCEPT !.daddr = "B"]), Reply(Tcp({PKT_TCP_SYN})),
     Reply([Tcp({PKT_TCP_SYN}) EXCEPT !.sport = 3]),
     First(Reply(Udp), 4), Later(Reply(Udp), 4),
     First(Reply(Frag6(Udp)), 3), First([Reply(Frag6(Udp)) EXCEPT !.dport = 9], 3),
     Later(Reply(Frag6(Udp)), 3),
     Reply(Icmp(0, 1)), Reply(Icmp(8, 1)), Reply(Icmp(9, 0)), Reply(Gre(Udp)),
     Error("X", Udp), Error("X", [Udp EXCEPT !.saddr = "R"]), Error("X", Later(Udp, 4)),
     Error("X", Error("L", Reply(Udp))), Error("X", [Udp EXCEPT !.len = L4]),
     [Reply(Udp) EXCEPT !.h_proto = 2054], [Reply(Udp) EXCEPT !.len = L3],
     [Reply(Udp) EXCEPT !.len = L4],
     Reply(V6(Udp, <<NEXTHDR_AUTH>>)),
     Reply(V6(Udp, <<NEXTHDR_HOP, NEXTHDR_ROUTING, NEXTHDR_DEST>>)),
     Reply(V6(Gre(Udp), <<NEXTHDR_HOP, NEXTHDR_ROUTING>>)),
     [Reply(V6(Udp, <<NEXTHDR_HOP>>)) EXCEPT !.len = EXT],
     V6(Error("X", V6(Udp, <<>>)), <<>>)}

\* Port 3 of the host is open for TCP from R and B (the host also opens a
\* flow from that port to X, which no rule names), ICMP echo requests are
\* let in.
MCAllowRules ==
    {[ip_type |-> LANDSCAPE_IPV4_TYPE, ip_protocol |-> IPPROTO_TCP, local_port |-> 3,
      remote_address |-> r] : r \in {"R", "B"}}
    \cup {[ip_type |-> LANDSCAPE_IPV4_TYPE, ip_protocol |-> IPPROTO_ICMP,
           local_port |-> 8 * 256, remote_address |-> "R"]}

=============================================================================
