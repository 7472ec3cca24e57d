CONSTANTS
    NULL = NULL
    MAX_IPV6_EXT_NUM = 2
    current_eth_net_offset = 14
    LittleEndian = TRUE
    EgressFrames <- MCEgressFrames
    IngressFrames <- MCIngressFrames
    firewall_block_ip4_map = {"B"}
    firewall_block_ip6_map = {"B"}
    firewall_allow_rules_map <- MCAllowRules
    FRAG_CACHE_SIZE = 1
    MapCapacity = 2
SPECIFICATION Spec
PROPERTY
    VerdictFollowsTaxonomy
