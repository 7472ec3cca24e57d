------------------------------ MODULE Dissector ------------------------------
(***************************************************************************)
(* The packet dissector of firewall.bpf.c as operators on abstract frames. *)
(*                                                                         *)
(* A frame is a record of the fields the dissector reads:                  *)
(*   h_proto, version   EtherType and IP version nibble                    *)
(*   len                how far the frame can be read: the layer at which  *)
(*                      VALIDATE_READ_DATA first fails (Whole: never)      *)
(*   saddr, daddr       addresses                                          *)
(*   mf, off, id        the More Fragments flag, the fragment offset in    *)
(*                      units of 8 bytes and the identification, as the    *)
(*                      IPv4 header or the IPv6 fragment header carry them *)
(*   chain              the next-header numbers in order, the upper-layer  *)
(*                      protocol last (IPv4: just the protocol)            *)
(*   sport, dport, flags    TCP / UDP header                               *)
(*   type, echo_id      ICMP header                                        *)
(*   inner              the frame quoted by an ICMP error, or NULL         *)
(* The result of an extractor is [ret, cxt]: the return code and, when it  *)
(* is TC_ACT_OK, the context it filled in.                                 *)
(*                                                                         *)
(* The 16-bit word that holds flag and offset is modelled bit by bit: the  *)
(* code masks it before and after bpf_ntohs.  Addresses, ports and the     *)
(* identification are only copied and compared, in network byte order      *)
(* throughout, and stay abstract.                                          *)
(***************************************************************************)
EXTENDS Integers, Sequences, Bitwise

CONSTANTS
    NULL,                   \* no quoted frame
    MAX_IPV6_EXT_NUM,       \* bound of the extension-header walk
    current_eth_net_offset, \* 14 on Ethernet devices, 0 on L3 devices
    LittleEndian            \* byte order of the machine the program is built for

ASSUME /\ MAX_IPV6_EXT_NUM \in Nat \ {0}
       /\ current_eth_net_offset \in {0, 14}
       /\ LittleEndian \in BOOLEAN

TC_ACT_OK     == 0
TC_ACT_SHOT   == 2
TC_ACT_UNSPEC == -1

ETH_IPV4 == 2048
ETH_IPV6 == 34525

IPPROTO_ICMP   == 1
IPPROTO_TCP    == 6
IPPROTO_UDP    == 17
IPPROTO_ICMPV6 == 58

NEXTHDR_HOP      == 0
NEXTHDR_ROUTING  == 43
NEXTHDR_FRAGMENT == 44
NEXTHDR_AUTH     == 51
NEXTHDR_DEST     == 60

\* Masks of the IPv4 frag_off field and of the IPv6 fragment header.
IP_MF            == 8192     \* 0x2000
IP_OFFSET        == 8191     \* 0x1FFF
IPV6_FRAG_MF     == 1        \* 0x0001
IPV6_FRAG_OFFSET == 65528    \* 0xFFF8

\* Layers of a frame, in the order they are read.
L2 == 0
L3 == 1
EXT == 2
FRAG == 3
L4 == 4
Whole == 5

NOT_F == "NOT_F"
MORE_F == "MORE_F"
END_F == "END_F"

PKT_CONNLESS == "PKT_CONNLESS"
PKT_TCP_DATA == "PKT_TCP_DATA"
PKT_TCP_SYN == "PKT_TCP_SYN"
PKT_TCP_RST == "PKT_TCP_RST"
PKT_TCP_FIN == "PKT_TCP_FIN"

ICMP_ERROR_MSG == "ICMP_ERROR_MSG"
ICMP_QUERY_MSG == "ICMP_QUERY_MSG"
ICMP_ACT_UNSPEC == "ICMP_ACT_UNSPEC"

Fail(ret) == [ret |-> ret]
Ok(cxt) == [ret |-> TC_ACT_OK, cxt |-> cxt]

\* The macro is true when the read fails.
VALIDATE_READ_DATA(w, layer) == w = NULL \/ w.len <= layer

\* A 16-bit word with its two bytes exchanged.
Swapped(x) == 256 * (x % 256) + x \div 256

bpf_ntohs(x) == IF LittleEndian THEN Swapped(x) ELSE x

bpf_htons(x) == IF LittleEndian THEN Swapped(x) ELSE x

\* What a load of a __be16 header field gives when the field says v.
Be16(v) == bpf_htons(v)

-----------------------------------------------------------------------------
(* Family detection *)

current_pkg_type(w) ==
    LET family == IF current_eth_net_offset # 0
                  THEN [v4 |-> w.h_proto = ETH_IPV4, v6 |-> w.h_proto = ETH_IPV6]
                  ELSE [v4 |-> w.version = 4, v6 |-> w.version = 6]
    IN  IF VALIDATE_READ_DATA(w, L2) \/ ~(family.v4 \/ family.v6)
        THEN [ret |-> TC_ACT_UNSPEC]
        ELSE [ret |-> TC_ACT_OK, is_ipv4 |-> family.v4]

-----------------------------------------------------------------------------
(* L3 *)

\* fragment_type, fragment_off and fragment_id of ip_context: what the
\* memset leaves, and what the if-chain of both L3 extractors makes of the
\* flag test and the offset.
NoFragment == [type |-> NOT_F, off |-> 0, id |-> 0]

Fragment(more, off, id) ==
    [type |-> IF more THEN MORE_F ELSE IF off # 0 THEN END_F ELSE NOT_F,
     off |-> off, id |-> id]

\* packet_context after memset and the first assignments of the extractors.
Context(w, protocol, frag) ==
    [src_addr |-> w.saddr, dst_addr |-> w.daddr, src_port |-> 0, dst_port |-> 0,
     ip_protocol |-> protocol, pkt_type |-> PKT_CONNLESS, icmp_type |-> 0,
     fragment_type |-> frag.type, fragment_off |-> frag.off, fragment_id |-> frag.id,
     l4_payload_offset |-> 0, icmp_error_payload_offset |-> -1]

\* The offset is masked after bpf_ntohs, the flag is tested on the word as
\* it was loaded.
Ipv4Fragment(w) ==
    LET frag_off == Be16((IF w.mf THEN IP_MF ELSE 0) + w.off)
    IN  Fragment((frag_off & IP_MF) # 0, 8 * (bpf_ntohs(frag_off) & IP_OFFSET), w.id)

\* Flag and offset are masked with converted masks, the offset is converted
\* after that; the field counts bytes in its upper 13 bits.
Ipv6Fragment(w) ==
    LET frag_off == Be16(8 * w.off + (IF w.mf THEN IPV6_FRAG_MF ELSE 0))
    IN  Fragment((frag_off & bpf_htons(IPV6_FRAG_MF)) # 0,
                 bpf_ntohs(frag_off & bpf_htons(IPV6_FRAG_OFFSET)), w.id)

extract_iphdr_info(w) ==
    IF VALIDATE_READ_DATA(w, L3) \/ w.version # 4
    THEN Fail(TC_ACT_SHOT)
    ELSE Ok(Context(w, Head(w.chain), Ipv4Fragment(w)))

ExtensionHeaders == {NEXTHDR_FRAGMENT, NEXTHDR_HOP, NEXTHDR_ROUTING, NEXTHDR_DEST}

\* The loop over the extension headers, i of them walked so far; frag: a
\* fragment header was among them, and is read in full once the upper layer
\* is found.
RECURSIVE WalkExtensions(_, _, _)
WalkExtensions(w, i, frag) ==
    LET nexthdr == w.chain[i + 1]
        found == IF ~frag THEN Ok(Context(w, nexthdr, NoFragment))
                 ELSE IF VALIDATE_READ_DATA(w, FRAG) THEN Fail(TC_ACT_SHOT)
                 ELSE Ok(Context(w, nexthdr, Ipv6Fragment(w)))
    IN  IF i = MAX_IPV6_EXT_NUM
        THEN IF nexthdr \in {IPPROTO_TCP, IPPROTO_UDP, IPPROTO_ICMPV6}
             THEN found ELSE Fail(TC_ACT_UNSPEC)
        ELSE IF nexthdr = NEXTHDR_AUTH THEN Fail(TC_ACT_UNSPEC)
        ELSE IF nexthdr \notin ExtensionHeaders THEN found
        ELSE IF VALIDATE_READ_DATA(w, EXT) THEN Fail(TC_ACT_SHOT)
        ELSE WalkExtensions(w, i + 1, frag \/ nexthdr = NEXTHDR_FRAGMENT)

extract_ipv6hdr_info(w) ==
    IF VALIDATE_READ_DATA(w, L3) \/ w.version # 6
    THEN Fail(TC_ACT_SHOT)
    ELSE WalkExtensions(w, 0, FALSE)

-----------------------------------------------------------------------------
(* ICMP *)

icmp_msg_type(type) ==
    CASE type \in {3, 11, 12}   -> ICMP_ERROR_MSG
      [] type \in {0, 8, 13, 14} -> ICMP_QUERY_MSG
      [] OTHER                   -> ICMP_ACT_UNSPEC

icmp6_msg_type(type) ==
    CASE type \in {1, 2, 3, 4} -> ICMP_ERROR_MSG
      [] type \in {128, 129}   -> ICMP_QUERY_MSG
      [] OTHER                 -> ICMP_ACT_UNSPEC

\* The ports of the frame an ICMP error quotes. Whatever the family, only
\* IPPROTO_ICMP and icmp_msg_type are used for a quoted ICMP message.
extract_imcp_err_info(w, ip) ==
    IF ip.ip_protocol \in {IPPROTO_TCP, IPPROTO_UDP}
    THEN IF VALIDATE_READ_DATA(w, L4) THEN Fail(TC_ACT_SHOT)
         ELSE Ok([ip EXCEPT !.src_port = w.sport, !.dst_port = w.dport])
    ELSE IF ip.ip_protocol # IPPROTO_ICMP THEN Fail(TC_ACT_UNSPEC)
    ELSE IF VALIDATE_READ_DATA(w, L4) THEN Fail(TC_ACT_SHOT)
    ELSE IF icmp_msg_type(w.type) # ICMP_QUERY_MSG THEN Fail(TC_ACT_UNSPEC)
    ELSE Ok([ip EXCEPT !.src_port = w.echo_id, !.dst_port = w.echo_id])

\* The L3 extractor, ICMP protocol and ICMP classifier of an IP version.
ExtractHdr(version, w) ==
    IF version = 4 THEN extract_iphdr_info(w) ELSE extract_ipv6hdr_info(w)

IcmpX(version) == IF version = 4 THEN IPPROTO_ICMP ELSE IPPROTO_ICMPV6

MsgType(version, type) ==
    IF version = 4 THEN icmp_msg_type(type) ELSE icmp6_msg_type(type)

\* An ICMP error takes the place of the packet it quotes, turned around.
IcmpError(w, ip, version) ==
    LET l3 == ExtractHdr(version, w.inner)
        quoted == extract_imcp_err_info(w.inner, l3.cxt)
    IN  IF l3.ret # TC_ACT_OK \/ l3.cxt.fragment_off # 0 THEN Fail(TC_ACT_SHOT)
        ELSE IF quoted.ret # TC_ACT_OK THEN Fail(quoted.ret)
        ELSE IF ip.dst_addr # quoted.cxt.src_addr THEN Fail(TC_ACT_SHOT)
        ELSE Ok([ip EXCEPT !.icmp_error_payload_offset = 0,
                           !.src_addr = quoted.cxt.dst_addr,
                           !.src_port = quoted.cxt.dst_port,
                           !.dst_port = quoted.cxt.src_port])

-----------------------------------------------------------------------------
(* L4 *)

\* The first of fin, rst, syn that is set decides.
TcpPktType(flags) ==
    Head(SelectSeq(<<PKT_TCP_FIN, PKT_TCP_RST, PKT_TCP_SYN>>, LAMBDA f : f \in flags)
         \o <<PKT_TCP_DATA>>)

\* What both extract_vX_packet_info do once the L3 header is read.
L4Info(w, ip, version) ==
    IF ip.fragment_type # NOT_F /\ ip.fragment_off # 0
    THEN Ok([ip EXCEPT !.l4_payload_offset = -1])
    ELSE IF ip.ip_protocol \notin {IPPROTO_TCP, IPPROTO_UDP, IcmpX(version)} THEN Ok(ip)
    ELSE IF VALIDATE_READ_DATA(w, L4) THEN Fail(TC_ACT_SHOT)
    ELSE IF ip.ip_protocol = IPPROTO_TCP
    THEN Ok([ip EXCEPT !.src_port = w.sport, !.dst_port = w.dport,
                       !.pkt_type = TcpPktType(w.flags)])
    ELSE IF ip.ip_protocol = IPPROTO_UDP
    THEN Ok([ip EXCEPT !.src_port = w.sport, !.dst_port = w.dport])
    ELSE LET icmp == [ip EXCEPT !.icmp_type = w.type]
             class == MsgType(version, w.type)
         IN  CASE class = ICMP_ERROR_MSG -> IcmpError(w, icmp, version)
               [] class = ICMP_QUERY_MSG ->
                    Ok([icmp EXCEPT !.src_port = w.echo_id, !.dst_port = w.echo_id])
               [] OTHER -> Fail(TC_ACT_UNSPEC)

extract_v4_packet_info(w) ==
    LET l3 == extract_iphdr_info(w)
    IN  IF l3.ret # TC_ACT_OK THEN Fail(TC_ACT_SHOT)
        ELSE L4Info(w, l3.cxt, 4)

extract_v6_packet_info(w) ==
    LET l3 == extract_ipv6hdr_info(w)
    IN  IF l3.ret # TC_ACT_OK THEN Fail(l3.ret)
        ELSE L4Info(w, l3.cxt, 6)

is_icmp_error_pkt(pkt) ==
    pkt.l4_payload_offset >= 0 /\ pkt.icmp_error_payload_offset >= 0

pkt_allow_initiating_ct(pkt_type) == pkt_type \in {PKT_CONNLESS, PKT_TCP_SYN}

=============================================================================
