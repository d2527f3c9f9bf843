----------------------------- MODULE RouteTable -----------------------------
(* The Windows IPv4/IPv6 forwarding table as the client uses it through     *)
(* windows_net.rs: a set of rows keyed by interface, destination prefix and *)
(* next hop (the key of MIB_IPFORWARD_ROW2), looked up by longest prefix.   *)
EXTENDS FiniteSets

CONSTANTS
    Server,         \* the addresses of Phobos servers
    HalfOf,         \* the /1 half of the IPv4 space each server lies in
    OriginalTable   \* the table before the client first runs

Half == {"0.0.0.0/1", "128.0.0.0/1"}
Ipv6Half == {"::/1", "8000::/1"}
Default == "0.0.0.0/0"

\* "phys" is the adapter the machine reaches the Internet through, "tun" the
\* Wintun adapter named Phobos.
Interface == {"phys", "tun"}
\* The next hop of a row: the gateway of the local network, or 0.0.0.0.
Hop == {"gateway", "onlink"}

Row == [ifx : Interface, dest : Server \cup Half \cup Ipv6Half \cup {Default}, hop : Hop]

ASSUME RouteTableAssumption ==
    /\ HalfOf \in [Server -> Half]
    /\ Server \cap (Half \cup Ipv6Half \cup {Default}) = {}
    /\ OriginalTable \subseteq Row
    /\ \A r \in OriginalTable : r.ifx = "phys"
    /\ [ifx |-> "phys", dest |-> Default, hop |-> "gateway"] \in OriginalTable

RowsTo(table, dest) == {r \in table : r.dest = dest}

(* The rows GetBestInterface and GetBestRoute may pick for a server: those  *)
(* of the longest matching prefix.  Several rows of one prefix have equal   *)
(* metrics, so which of them wins is left open.                             *)
BestRows(table, server) ==
    IF RowsTo(table, server) # {} THEN RowsTo(table, server)
    ELSE IF RowsTo(table, HalfOf[server]) # {} THEN RowsTo(table, HalfOf[server])
    ELSE RowsTo(table, Default)

\* add_ip_route deletes an equal row first and treats "already exists" as success.
RouteAdded(table, row) == table \cup {row}

(* What a refused CreateIpForwardEntry2 leaves: add_ip_route has already    *)
(* tried to delete an equal row, and ignored whether that worked.           *)
AfterRefusedAdd(table, row) == {table, table \ {row}}

\* delete_ip_route treats "not found" as success.
RouteDeleted(table, row) == table \ {row}

\* Removing an adapter takes its rows with it.
WithoutAdapter(table) == {r \in table : r.ifx # "tun"}
=============================================================================
