---------------------------- MODULE MCFirewallCt ----------------------------
(***************************************************************************)
(* FirewallCt instantiated for TLC.                                        *)
(***************************************************************************)
EXTENDS FirewallCt, TLC

IPPROTO_UDP == 17

\* One UDP flow: every packet of the model belongs to it.
OneUdpKey == {[ip_protocol |-> IPPROTO_UDP, local_port |-> 1]}
\* Two UDP flows that differ in the local port.
TwoUdpKeys == {[ip_protocol |-> IPPROTO_UDP, local_port |-> p] : p \in {1, 2}}
\* One TCP flow.
OneTcpKey == {[ip_protocol |-> IPPROTO_TCP, local_port |-> 1]}

\* CPUs and storage slots are told apart only by equality.
Symmetry == Permutations(CPUs) \cup Permutations(Entries)
=============================================================================
