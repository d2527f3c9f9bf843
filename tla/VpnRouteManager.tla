--------------------------- MODULE VpnRouteManager ---------------------------
(* wintun_adapter.rs: the life of one WintunDevice, from the choice of the  *)
(* physical interface to the drop of the adapter, one step per call that    *)
(* reads or writes the forwarding table.  Spec runs devices one after the   *)
(* other, as the command-line client does (main.rs, tunnel.rs), and lets    *)
(* the process be killed at any point; TunnelService interleaves them.      *)
EXTENDS Naturals, RouteTable

CONSTANTS
    Device,     \* the calls of WintunDevice::create
    Profile,    \* the imported profiles
    ServerOf,   \* the server a profile's target resolves to
    HasIpv6,    \* whether a profile has an IPv6 client address
    Refusable,  \* bound: the calls of Windows that may be refused
    None

Call == {"gateway", "host", "half", "v6", "delete"}

ASSUME VpnRouteManagerAssumption ==
    /\ ServerOf \in [Profile -> Server]
    /\ HasIpv6 \in [Profile -> BOOLEAN]
    /\ Refusable \subseteq Call
    /\ None \notin Profile
    /\ Device \cap {"absent", "orphan"} = {}

VARIABLES
    table,      \* the forwarding table
    adapter,    \* "absent", the device that created it, or "orphan"
    dev,        \* how far each device is
    prof,       \* the profile each device was created for
    physIf,     \* physical_if_index, as GetBestInterface answered
    hop,        \* the next hop of the host route, from gateway_ip
    step,       \* the next call of install_routes or remove_routes
    installed,  \* routes_installed
    refused     \* history: which calls were refused to this device

rvars == <<table, adapter, dev, prof, physIf, hop, step, installed, refused>>

Phase == {"none", "probe", "open", "manager", "install", "active", "failed",
          "remove", "removed", "closed", "killed"}
Live(d) == dev[d] \notin {"none", "closed", "killed"}

\* The calls of install_routes in order; remove_routes deletes in the same order.
Prefix == <<"host", "0.0.0.0/1", "128.0.0.0/1", "::/1", "8000::/1">>
Steps(d) == IF HasIpv6[prof[d]] THEN 5 ELSE 3
CallOf(k) == IF k = 1 THEN "host" ELSE IF k \in {2, 3} THEN "half" ELSE "v6"
\* Fault: the host route is added after the halves.
RouteOfFault(d, k) ==
    IF k = 3 THEN [ifx |-> physIf[d], dest |-> ServerOf[prof[d]], hop |-> hop[d]]
    ELSE [ifx |-> "tun", dest |-> Prefix[IF k < 3 THEN k + 1 ELSE k], hop |-> "onlink"]
RouteOf(d, k) ==
    IF k = 1 THEN [ifx |-> physIf[d], dest |-> ServerOf[prof[d]], hop |-> hop[d]]
             ELSE [ifx |-> "tun", dest |-> Prefix[k], hop |-> "onlink"]

RInit ==
    /\ table = OriginalTable
    /\ adapter = "absent"
    /\ dev = [d \in Device |-> "none"]
    /\ prof = [d \in Device |-> None]
    /\ physIf = [d \in Device |-> "phys"]
    /\ hop = [d \in Device |-> "onlink"]
    /\ step = [d \in Device |-> 1]
    /\ installed = [d \in Device |-> FALSE]
    /\ refused = [d \in Device |-> {}]

\* Fault: the device starts without its configuration.
BeginFault(d, p) ==
    /\ dev[d] = "none"
    /\ dev' = [dev EXCEPT ![d] = "probe"]
    /\ UNCHANGED <<table, adapter, prof, physIf, hop, step, installed, refused>>

Begin(d, p) ==
    /\ dev[d] = "none"
    /\ dev' = [dev EXCEPT ![d] = "probe"]
    /\ prof' = [prof EXCEPT ![d] = p]
    /\ UNCHANGED <<table, adapter, physIf, hop, step, installed, refused>>

\* The configuration, the address, a socket or the interface could not be had.
Abort(d) ==
    /\ dev[d] = "probe"
    /\ dev' = [dev EXCEPT ![d] = "closed"]
    /\ UNCHANGED <<table, adapter, prof, physIf, hop, step, installed, refused>>

Probe(d) ==
    /\ dev[d] = "probe"
    /\ \E row \in BestRows(table, ServerOf[prof[d]]) :
          physIf' = [physIf EXCEPT ![d] = row.ifx]
    /\ dev' = [dev EXCEPT ![d] = "open"]
    /\ UNCHANGED <<table, adapter, prof, hop, step, installed, refused>>

(* wintun.dll is loaded and the adapter named Phobos opened, or created if  *)
(* there is none; a failure leaves nothing behind.                          *)
OpenAdapter(d) ==
    /\ dev[d] = "open"
    /\ \/ /\ dev' = [dev EXCEPT ![d] = "manager"]
          /\ adapter' = IF adapter = "absent" THEN d ELSE adapter
       \/ /\ dev' = [dev EXCEPT ![d] = "closed"]
          /\ UNCHANGED adapter
    /\ UNCHANGED <<table, prof, physIf, hop, step, installed, refused>>

(* Address, MTU, DNS and session, then VpnRouteManager::new, which asks for *)
(* the gateway by a look-up of its own and goes without one if that fails.  *)
NewManager(d) ==
    /\ dev[d] = "manager"
    /\ \/ /\ dev' = [dev EXCEPT ![d] = "failed"]
          /\ UNCHANGED <<hop, refused>>
       \/ /\ dev' = [dev EXCEPT ![d] = "install"]
          /\ \E row \in BestRows(table, ServerOf[prof[d]]) :
                hop' = [hop EXCEPT ![d] = row.hop]
          /\ UNCHANGED refused
       \/ /\ dev' = [dev EXCEPT ![d] = "install"]
          /\ "gateway" \in Refusable
          /\ hop' = [hop EXCEPT ![d] = "onlink"]
          /\ refused' = [refused EXCEPT ![d] = @ \cup {"gateway"}]
    /\ UNCHANGED <<table, adapter, prof, physIf, step, installed>>

\* Fault: install_routes ends one call early.
InstallNextFault(d) ==
    IF step[d] < Steps(d) - 1
    THEN /\ step' = [step EXCEPT ![d] = @ + 1]
         /\ UNCHANGED <<dev, installed>>
    ELSE /\ dev' = [dev EXCEPT ![d] = "active"]
         /\ installed' = [installed EXCEPT ![d] = TRUE]
         /\ UNCHANGED step

\* install_routes moves on to its next call, or sets routes_installed and returns.
InstallNext(d) ==
    IF step[d] < Steps(d)
    THEN /\ step' = [step EXCEPT ![d] = @ + 1]
         /\ UNCHANGED <<dev, installed>>
    ELSE /\ dev' = [dev EXCEPT ![d] = "active"]
         /\ installed' = [installed EXCEPT ![d] = TRUE]
         /\ UNCHANGED step

InstallRoute(d) ==
    /\ dev[d] = "install"
    /\ RouteOf(d, step[d]).ifx = "tun" => adapter # "absent"
    /\ table' = RouteAdded(table, RouteOf(d, step[d]))
    /\ InstallNext(d)
    /\ UNCHANGED <<adapter, prof, physIf, hop, refused>>

(* A refused half ends install_routes with an error before routes_installed *)
(* is set; a refused host or IPv6 route is only a warning.                  *)
InstallRefused(d) ==
    /\ dev[d] = "install"
    /\ \/ CallOf(step[d]) \in Refusable
       \/ RouteOf(d, step[d]).ifx = "tun" /\ adapter = "absent"
    /\ table' \in AfterRefusedAdd(table, RouteOf(d, step[d]))
    /\ refused' = [refused EXCEPT ![d] = @ \cup {CallOf(step[d])}]
    /\ IF CallOf(step[d]) = "half"
       THEN dev' = [dev EXCEPT ![d] = "failed"] /\ UNCHANGED <<step, installed>>
       ELSE InstallNext(d)
    /\ UNCHANGED <<adapter, prof, physIf, hop>>

\* Fault: remove_routes forgets the host route.
BeginRemoveFault(d) ==
    /\ dev[d] \in {"active", "failed"}
    /\ dev' = [dev EXCEPT ![d] = IF installed[d] THEN "remove" ELSE "removed"]
    /\ step' = [step EXCEPT ![d] = 2]
    /\ UNCHANGED <<table, adapter, prof, physIf, hop, installed, refused>>

(* remove_routes, from shutdown or from a drop: it returns at once unless   *)
(* routes_installed is set.                                                 *)
BeginRemove(d) ==
    /\ dev[d] \in {"active", "failed"}
    /\ dev' = [dev EXCEPT ![d] = IF installed[d] THEN "remove" ELSE "removed"]
    /\ step' = [step EXCEPT ![d] = 1]
    /\ UNCHANGED <<table, adapter, prof, physIf, hop, installed, refused>>

RemoveRoute(d) ==
    /\ dev[d] = "remove"
    /\ \/ /\ table' = RouteDeleted(table, RouteOf(d, step[d]))
          /\ UNCHANGED refused
       \/ /\ "delete" \in Refusable
          /\ refused' = [refused EXCEPT ![d] = @ \cup {"delete"}]
          /\ UNCHANGED table
    /\ IF step[d] < Steps(d)
       THEN /\ step' = [step EXCEPT ![d] = @ + 1]
            /\ UNCHANGED <<dev, installed>>
       ELSE /\ dev' = [dev EXCEPT ![d] = "removed"]
            /\ installed' = [installed EXCEPT ![d] = FALSE]
            /\ UNCHANGED step
    /\ UNCHANGED <<adapter, prof, physIf, hop>>

\* Fault: a handle is leaked and the adapter never closed.
CloseFault(d) ==
    /\ dev[d] = "removed"
    /\ dev' = [dev EXCEPT ![d] = "closed"]
    /\ UNCHANGED <<table, adapter, prof, physIf, hop, step, installed, refused>>

\* The last handle is dropped: the adapter goes if this device created it.
Close(d) ==
    /\ dev[d] = "removed"
    /\ dev' = [dev EXCEPT ![d] = "closed"]
    /\ IF adapter = d
       THEN adapter' = "absent" /\ table' = WithoutAdapter(table)
       ELSE UNCHANGED <<adapter, table>>
    /\ UNCHANGED <<prof, physIf, hop, step, installed, refused>>

(* The process dies with nothing dropped.  Host routes outlive it, being on *)
(* the physical interface; the adapter's routes only if Wintun keeps the    *)
(* adapter, the "previous run" whose adapter create is prepared to open.    *)
Kill ==
    /\ dev' = [d \in Device |-> IF Live(d) THEN "killed" ELSE dev[d]]
    /\ IF adapter \in Device /\ Live(adapter)
       THEN \/ adapter' = "orphan" /\ UNCHANGED table
            \/ adapter' = "absent" /\ table' = WithoutAdapter(table)
       ELSE UNCHANGED <<adapter, table>>
    /\ UNCHANGED <<prof, physIf, hop, step, installed, refused>>
-----------------------------------------------------------------------------
DeviceStep(d) ==
    \/ Abort(d) \/ Probe(d) \/ OpenAdapter(d) \/ NewManager(d)
    \/ InstallRoute(d) \/ InstallRefused(d)
    \/ BeginRemove(d) \/ RemoveRoute(d) \/ Close(d)

RNext ==
    \/ \E d \in Device, p \in Profile : (\A e \in Device : ~Live(e)) /\ Begin(d, p)
    \/ \E d \in Device : DeviceStep(d)
    \/ (\E d \in Device : Live(d)) /\ Kill

RSpec == RInit /\ [][RNext]_rvars
-----------------------------------------------------------------------------
RTypeOK ==
    /\ table \subseteq Row
    /\ adapter \in Device \cup {"absent", "orphan"}
    /\ dev \in [Device -> Phase]
    /\ prof \in [Device -> Profile \cup {None}]
    /\ \A d \in Device : dev[d] # "none" => prof[d] \in Profile
    /\ physIf \in [Device -> Interface]
    /\ hop \in [Device -> Hop]
    /\ step \in [Device -> 1 .. 5]
    /\ installed \in [Device -> BOOLEAN]
    /\ refused \in [Device -> SUBSET Call]

Installing(d) == dev[d] = "install" /\ step[d] > 1

(* Once a device's host route is in, and until its removal begins, packets  *)
(* to the server do not enter the tunnel, whichever best row Windows picks: *)
(* install_routes adds the host route before the halves that would capture  *)
(* it, on the interface found before any of them existed, and rows left by  *)
(* killed processes do not get in the way.                                  *)
ServerOutsideTunnel ==
    \A d \in Device :
        (Installing(d) \/ dev[d] = "active") /\ physIf[d] = "phys" /\ "host" \notin refused[d]
            => \A row \in BestRows(table, ServerOf[prof[d]]) : row.ifx = "phys"

(* GetBestInterface answers with the tunnel itself only after a process was *)
(* killed and its adapter lived on: every other way a device can end, also  *)
(* a refused half or a refused deletion, takes the halves off the table.    *)
TunnelProbedOnlyAfterKill ==
    \A d \in Device : physIf[d] = "tun" => \E e \in Device : dev[e] = "killed"

OnlyProfile(d) == \A e \in Device : dev[e] # "none" => prof[e] = prof[d]

(* A process killed at any point, even inside install_routes or             *)
(* remove_routes, is healed by the next complete run of the same profile    *)
(* all of whose calls succeed: whatever rows the killed runs left are       *)
(* deleted with its own, since add_ip_route and delete_ip_route take an     *)
(* existing and a missing row for success.                                  *)
HealsAfterKill ==
    \A d \in Device :
        /\ dev[d] = "removed" /\ refused[d] = {} /\ step[d] = Steps(d)
        /\ OnlyProfile(d)
        /\ \A e \in Device : refused[e] \cap {"gateway", "half", "delete"} = {}
        => table \subseteq OriginalTable

(* wintun_adapter.rs:150 says of remove_routes "Removes all installed VPN   *)
(* routes via pure Win32 API": once the manager of a device is dropped, and *)
(* no deletion was refused, no row this process added is left.              *)
AllInstalledRoutesRemoved ==
    \A d \in Device :
        dev[d] = "removed" /\ "delete" \notin refused[d]
            => \A k \in 1 .. Steps(d) : RouteOf(d, k) \notin table \ OriginalTable
=============================================================================
