--------------------------- MODULE MCTunnelService ---------------------------
(* Two profiles for servers in different halves of the address space.       *)
EXTENDS TunnelService, TLC

CONSTANTS s1, s2, home, work, alpha, beta

MCHalfOf == [s \in Server |-> IF s = alpha THEN "0.0.0.0/1" ELSE "128.0.0.0/1"]
MCServerOf == [p \in Profile |-> IF p = home THEN alpha ELSE beta]
MCNoIpv6 == [p \in Profile |-> FALSE]
MCOriginalTable == {[ifx |-> "phys", dest |-> "0.0.0.0/0", hop |-> "gateway"]}
MCSymmetry == Permutations(Device)
=============================================================================
