-------------------------- MODULE MCStandaloneClient -------------------------
(* Two profiles for servers in different halves of the address space, one   *)
(* of them with IPv6; two runs of the client one after the other.           *)
EXTENDS StandaloneClient

CONSTANTS d1, d2, home, work, alpha, beta

MCHalfOf == [s \in Server |-> IF s = alpha THEN "0.0.0.0/1" ELSE "128.0.0.0/1"]
MCServerOf == [p \in Profile |-> IF p = home THEN alpha ELSE beta]
MCHasIpv6 == [p \in Profile |-> p = home]
DefaultRow == [ifx |-> "phys", dest |-> "0.0.0.0/0", hop |-> "gateway"]
MCOriginalTable == {DefaultRow}
\* The user, or another client, already routes one server by the gateway.
MCUserRoute == {DefaultRow, [ifx |-> "phys", dest |-> alpha, hop |-> "gateway"]}
=============================================================================
