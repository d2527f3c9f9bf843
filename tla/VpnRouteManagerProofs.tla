------------------------ MODULE VpnRouteManagerProofs ------------------------
(* Proofs about VpnRouteManager, for any number of runs and profiles and    *)
(* any original table.                                                      *)
EXTENDS VpnRouteManager, TLAPS

USE RouteTableAssumption, VpnRouteManagerAssumption DEF Hop, Interface, Call

(* The rows a device adds and deletes are rows, and it makes three or five  *)
(* calls.                                                                   *)
LEMMA RouteIsRow ==
    ASSUME RTypeOK, NEW d \in Device, dev[d] # "none", NEW k \in 1 .. 5
    PROVE  RouteOf(d, k) \in Row /\ CallOf(k) \in Call /\ Steps(d) \in {3, 5}
<1>1. ServerOf[prof[d]] \in Server
  BY DEF RTypeOK
<1>2. physIf[d] \in Interface /\ hop[d] \in Hop
  BY DEF RTypeOK
<1>3. k # 1 => Prefix[k] \in Half \cup Ipv6Half
  BY DEF Prefix, Half, Ipv6Half
<1>4. RouteOf(d, k) \in Row
  BY <1>1, <1>2, <1>3 DEF RouteOf, Row
<1>. QED
  BY <1>4 DEF CallOf, Steps

(* A look-up finds rows of the table.                                       *)
LEMMA BestRowsAreRows ==
    ASSUME NEW t \in SUBSET Row, NEW s \in Server
    PROVE  BestRows(t, s) \subseteq Row
BY DEF BestRows, RowsTo

(* The type invariant is kept by the start of a device,                     *)
LEMMA BeginType ==
    ASSUME RTypeOK, NEW d \in Device, NEW p \in Profile, Begin(d, p)
    PROVE  RTypeOK'
BY DEF RTypeOK, Begin, Phase

(* by every step of it,                                                     *)
LEMMA DeviceStepType ==
    ASSUME RTypeOK, NEW d \in Device, DeviceStep(d)
    PROVE  RTypeOK'
<1>1. CASE Abort(d)
  BY <1>1 DEF RTypeOK, Abort, Phase
<1>2. CASE Probe(d)
  <2>1. prof[d] \in Profile
    BY <1>2 DEF RTypeOK, Probe
  <2>2. PICK row \in BestRows(table, ServerOf[prof[d]]) :
            physIf' = [physIf EXCEPT ![d] = row.ifx]
    BY <1>2 DEF Probe
  <2>3. row.ifx \in Interface
    BY <2>1, <2>2, BestRowsAreRows DEF RTypeOK, Row
  <2>. QED
    BY <1>2, <2>2, <2>3 DEF RTypeOK, Probe, Phase
<1>3. CASE OpenAdapter(d)
  BY <1>3 DEF RTypeOK, OpenAdapter, Phase
<1>4. CASE NewManager(d)
  <2>1. prof[d] \in Profile
    BY <1>4 DEF RTypeOK, NewManager
  <2>2. \A row \in BestRows(table, ServerOf[prof[d]]) : row.hop \in Hop
    BY <2>1, BestRowsAreRows DEF RTypeOK, Row
  <2>3. hop' \in [Device -> Hop] /\ refused' \in [Device -> SUBSET Call]
    BY <1>4, <2>2 DEF RTypeOK, NewManager
  <2>4. dev' \in [Device -> Phase] /\ \A e \in Device : dev'[e] # "none" => dev[e] # "none"
    BY <1>4 DEF RTypeOK, NewManager, Phase
  <2>. QED
    BY <1>4, <2>3, <2>4 DEF RTypeOK, NewManager
<1>5. CASE InstallRoute(d)
  <2>1. RouteOf(d, step[d]) \in Row /\ Steps(d) \in {3, 5} /\ step[d] \in 1 .. 5
    BY <1>5, RouteIsRow DEF RTypeOK, InstallRoute
  <2>2. table' \subseteq Row
    BY <1>5, <2>1 DEF RTypeOK, InstallRoute, RouteAdded
  <2>3. CASE step[d] < Steps(d)
    <3>1. step[d] + 1 \in 1 .. 5
      BY <2>1, <2>3
    <3>. QED
      BY <1>5, <2>2, <2>3, <3>1 DEF RTypeOK, InstallRoute, InstallNext
  <2>4. CASE ~(step[d] < Steps(d))
    BY <1>5, <2>2, <2>4 DEF RTypeOK, InstallRoute, InstallNext, Phase
  <2>. QED
    BY <2>3, <2>4
<1>6. CASE InstallRefused(d)
  <2>1. RouteOf(d, step[d]) \in Row /\ Steps(d) \in {3, 5} /\ step[d] \in 1 .. 5
        /\ CallOf(step[d]) \in Call
    BY <1>6, RouteIsRow DEF RTypeOK, InstallRefused
  <2>2. table' \subseteq Row
    BY <1>6, <2>1 DEF RTypeOK, InstallRefused, AfterRefusedAdd
  <2>3. refused' \in [Device -> SUBSET Call]
    BY <1>6, <2>1 DEF RTypeOK, InstallRefused
  <2>4. CASE CallOf(step[d]) = "half"
    BY <1>6, <2>2, <2>3, <2>4 DEF RTypeOK, InstallRefused, Phase
  <2>5. CASE CallOf(step[d]) # "half" /\ step[d] < Steps(d)
    <3>1. step[d] + 1 \in 1 .. 5
      BY <2>1, <2>5
    <3>. QED
      BY <1>6, <2>2, <2>3, <2>5, <3>1 DEF RTypeOK, InstallRefused, InstallNext
  <2>6. CASE CallOf(step[d]) # "half" /\ ~(step[d] < Steps(d))
    <3>1. /\ dev' = [dev EXCEPT ![d] = "active"]
          /\ installed' = [installed EXCEPT ![d] = TRUE]
          /\ dev[d] = "install"
          /\ UNCHANGED <<step, adapter, prof, physIf, hop>>
      BY <1>6, <2>6 DEF InstallRefused, InstallNext
    <3>. QED
      BY <2>2, <2>3, <3>1 DEF RTypeOK, Phase
  <2>. QED
    BY <2>4, <2>5, <2>6
<1>7. CASE BeginRemove(d)
  BY <1>7 DEF RTypeOK, BeginRemove, Phase
<1>8. CASE RemoveRoute(d)
  <2>1. Steps(d) \in {3, 5} /\ step[d] \in 1 .. 5
    BY <1>8, RouteIsRow DEF RTypeOK, RemoveRoute
  <2>2. table' \subseteq Row /\ refused' \in [Device -> SUBSET Call]
    BY <1>8 DEF RTypeOK, RemoveRoute, RouteDeleted
  <2>3. CASE step[d] < Steps(d)
    <3>1. step[d] + 1 \in 1 .. 5
      BY <2>1, <2>3
    <3>2. /\ step' = [step EXCEPT ![d] = step[d] + 1]
          /\ UNCHANGED <<dev, installed, adapter, prof, physIf, hop>>
      BY <1>8, <2>3 DEF RemoveRoute
    <3>. QED
      BY <1>8, <2>2, <2>3, <3>1, <3>2 DEF RTypeOK
  <2>4. CASE ~(step[d] < Steps(d))
    <3>1. /\ dev' = [dev EXCEPT ![d] = "removed"]
          /\ installed' = [installed EXCEPT ![d] = FALSE]
          /\ dev[d] = "remove"
          /\ UNCHANGED <<step, adapter, prof, physIf, hop>>
      BY <1>8, <2>4 DEF RemoveRoute
    <3>. QED
      BY <2>2, <3>1 DEF RTypeOK, Phase
  <2>. QED
    BY <2>3, <2>4
<1>9. CASE Close(d)
  BY <1>9 DEF RTypeOK, Close, Phase, WithoutAdapter
<1>. QED
  BY <1>1, <1>2, <1>3, <1>4, <1>5, <1>6, <1>7, <1>8, <1>9 DEF DeviceStep

(* and by the death of the process.                                         *)
LEMMA KillType ==
    ASSUME RTypeOK, Kill
    PROVE  RTypeOK'
<1>1. table' \subseteq Row /\ adapter' \in Device \cup {"absent", "orphan"}
  BY DEF RTypeOK, Kill, WithoutAdapter
<1>2. dev' \in [Device -> Phase] /\ \A d \in Device : dev'[d] # "none" => dev[d] # "none"
  BY DEF RTypeOK, Kill, Phase, Live
<1>. QED
  BY <1>1, <1>2 DEF RTypeOK, Kill

(* It holds at the start.                                                   *)
LEMMA RInitType == RInit => RTypeOK
BY DEF RInit, RTypeOK, Phase

(* Every run of the client, with any sequence of refused calls and kills,   *)
(* keeps the type invariant.                                                *)
THEOREM RTypeCorrect == RSpec => []RTypeOK
<1>1. RInit => RTypeOK
  BY RInitType
<1>2. RTypeOK /\ [RNext]_rvars => RTypeOK'
  <2> SUFFICES ASSUME RTypeOK, [RNext]_rvars PROVE RTypeOK'
    OBVIOUS
  <2>1. CASE UNCHANGED rvars
    BY <2>1 DEF rvars, RTypeOK
  <2>2. CASE RNext
    BY <2>2, BeginType, DeviceStepType, KillType DEF RNext
  <2>. QED
    BY <2>1, <2>2
<1>. QED
  BY <1>1, <1>2, PTL DEF RSpec
-----------------------------------------------------------------------------
(* What ServerOutsideTunnel rests on.  It is not inductive: that no row to  *)
(* the server leads into the tunnel depends on what killed runs left, which *)
(* is why the table as a whole must never mix interfaces for one server.    *)

OneLive == \A d, e \in Device : Live(d) /\ Live(e) => d = e

Unmixed ==
    \A r, q \in table : r.dest \in Server /\ q.dest = r.dest => q.ifx = r.ifx

Probed(d) == dev[d] \in {"open", "manager", "install", "active"}

RowsAsProbed ==
    \A d \in Device : Probed(d) =>
        \A r \in table : r.dest = ServerOf[prof[d]] => r.ifx = physIf[d]

Routed(d) == (Installing(d) \/ dev[d] = "active") /\ "host" \notin refused[d]

HostRouteIn == \A d \in Device : Routed(d) => RouteOf(d, 1) \in table

NotYetInstalling ==
    \A d \in Device : dev[d] \in {"none", "probe", "open", "manager"} => step[d] = 1

RInv == RTypeOK /\ OneLive /\ NotYetInstalling /\ Unmixed /\ RowsAsProbed /\ HostRouteIn

(* Only the first route of a device leads to a server.                      *)
LEMMA RouteDestination ==
    ASSUME RTypeOK, NEW d \in Device, dev[d] # "none", NEW k \in 1 .. 5
    PROVE  /\ k = 1 => /\ RouteOf(d, k).dest = ServerOf[prof[d]]
                       /\ RouteOf(d, k).ifx = physIf[d]
           /\ k # 1 => RouteOf(d, k).dest \notin Server
<1>1. CASE k = 1
  BY <1>1 DEF RouteOf
<1>2. CASE k # 1
  <2>1. Prefix[k] \in Half \cup Ipv6Half
    BY <1>2 DEF Prefix, Half, Ipv6Half
  <2>2. Prefix[k] \notin Server
    BY <2>1
  <2>. QED
    BY <1>2, <2>2 DEF RouteOf
<1>. QED
  BY <1>1, <1>2

(* Taking rows away mixes nothing.                                          *)
LEMMA UnmixedShrinks ==
    ASSUME Unmixed, table' \subseteq table
    PROVE  Unmixed'
BY DEF Unmixed

(* Nothing was started, or everything that was has ended.                   *)
LEMMA RInvInit == RInit => RInv
<1> SUFFICES ASSUME RInit PROVE RInv
  OBVIOUS
<1>1. RTypeOK
  BY RInitType
<1>2. OneLive /\ RowsAsProbed /\ HostRouteIn
  BY DEF RInit, OneLive, Live, RowsAsProbed, Probed, HostRouteIn, Routed, Installing
<1>3. Unmixed /\ NotYetInstalling
  BY DEF RInit, Unmixed, NotYetInstalling
<1>. QED
  BY <1>1, <1>2, <1>3 DEF RInv

LEMMA RInvBegin ==
    ASSUME RInv, NEW d \in Device, NEW p \in Profile,
           \A e \in Device : ~Live(e), Begin(d, p)
    PROVE  RInv'
<1>1. RTypeOK'
  BY BeginType DEF RInv
<1>2. dev' = [dev EXCEPT ![d] = "probe"] /\ UNCHANGED <<table, physIf, step, refused>>
      /\ dev \in [Device -> Phase]
  BY DEF Begin, RInv, RTypeOK
<1>3. OneLive'
  BY <1>2 DEF OneLive, Live
<1>4. \A e \in Device : ~Probed(e)' /\ ~Routed(e)'
  BY <1>2 DEF Probed, Routed, Installing, Live
<1>5. Unmixed' /\ NotYetInstalling'
  BY <1>2 DEF RInv, Unmixed, NotYetInstalling, Begin
<1>. QED
  BY <1>1, <1>3, <1>4, <1>5 DEF RInv, RowsAsProbed, HostRouteIn

LEMMA RInvKill ==
    ASSUME RInv, Kill
    PROVE  RInv'
<1>1. RTypeOK'
  BY KillType DEF RInv
<1>2. \A e \in Device : ~Live(e)'
  BY DEF Kill, Live
<1>3. \A e \in Device : ~Probed(e)' /\ ~Routed(e)'
  BY <1>2 DEF Probed, Routed, Installing, Live
<1>4. table' \subseteq table
  BY DEF Kill, WithoutAdapter
<1>5. Unmixed' /\ NotYetInstalling'
  BY <1>4, UnmixedShrinks DEF RInv, NotYetInstalling, Kill
<1>. QED
  BY <1>1, <1>2, <1>3, <1>5 DEF RInv, OneLive, RowsAsProbed, HostRouteIn

(* A step of the one live device; the others have no claim to defend.       *)
LEMMA RInvStep ==
    ASSUME RInv, NEW d \in Device, DeviceStep(d)
    PROVE  RInv'
<1>1. RTypeOK'
  BY DeviceStepType DEF RInv
<1>2. /\ RTypeOK /\ OneLive /\ NotYetInstalling /\ Unmixed /\ RowsAsProbed /\ HostRouteIn
      /\ dev \in [Device -> Phase] /\ step \in [Device -> 1 .. 5]
  BY DEF RInv, RTypeOK
<1>3. Live(d) /\ \A e \in Device : e # d => dev'[e] = dev[e] /\ step'[e] = step[e]
  BY <1>2 DEF DeviceStep, Live, Abort, Probe, OpenAdapter, NewManager, InstallRoute,
              InstallRefused, InstallNext, BeginRemove, RemoveRoute, Close
<1>4. \A e \in Device : e # d => ~Live(e) /\ ~Live(e)'
  BY <1>2, <1>3 DEF OneLive, Live
<1>5. OneLive'
  BY <1>4 DEF OneLive
<1>6. \A e \in Device : e # d => ~Probed(e)' /\ ~Routed(e)'
  BY <1>4 DEF Live, Probed, Routed, Installing
<1>7. SUFFICES /\ Unmixed'
               /\ dev'[d] \in {"none", "probe", "open", "manager"} => step'[d] = 1
               /\ Probed(d)' => (\A r \in table : r.dest = ServerOf[prof[d]] => r.ifx = physIf[d])'
               /\ Routed(d)' => RouteOf(d, 1)' \in table'
  BY <1>1, <1>2, <1>3, <1>5, <1>6 DEF RInv, RowsAsProbed, HostRouteIn, NotYetInstalling
<1>8. CASE Abort(d) \/ BeginRemove(d) \/ RemoveRoute(d) \/ Close(d)
  <2>1. dev'[d] \in {"closed", "remove", "removed"}
    BY <1>2, <1>8 DEF Abort, BeginRemove, RemoveRoute, Close
  <2>2. table' \subseteq table
    BY <1>8 DEF Abort, BeginRemove, RemoveRoute, Close, RouteDeleted, WithoutAdapter
  <2>. QED
    BY <1>2, <2>1, <2>2, UnmixedShrinks DEF Probed, Routed, Installing
<1>9. CASE Probe(d)
  <2>1. /\ dev'[d] = "open" /\ dev[d] = "probe" /\ UNCHANGED <<table, prof, step>>
        /\ prof[d] \in Profile /\ ServerOf[prof[d]] \in Server
    BY <1>2, <1>9 DEF Probe, RTypeOK
  <2>2. PICK row \in BestRows(table, ServerOf[prof[d]]) : physIf'[d] = row.ifx
    BY <1>2, <1>9 DEF Probe, RTypeOK
  <2>3. ASSUME NEW r \in table, r.dest = ServerOf[prof[d]] PROVE r.ifx = physIf'[d]
    <3>1. row \in table /\ row.dest = ServerOf[prof[d]]
      BY <2>2, <2>3 DEF BestRows, RowsTo
    <3>. QED
      BY <1>2, <2>1, <2>2, <2>3, <3>1 DEF Unmixed
  <2>. QED
    BY <1>2, <2>1, <2>3 DEF Unmixed, NotYetInstalling, Routed, Installing
<1>10. CASE OpenAdapter(d) \/ NewManager(d)
  <2>1. /\ dev[d] \in {"open", "manager"}
        /\ dev'[d] \in {"manager", "closed", "failed", "install"}
        /\ UNCHANGED <<table, prof, physIf, step>>
    BY <1>2, <1>10 DEF OpenAdapter, NewManager
  <2>2. step[d] = 1
    BY <1>2, <2>1 DEF NotYetInstalling
  <2>. QED
    BY <1>2, <2>1, <2>2 DEF Unmixed, RowsAsProbed, Probed, Routed, Installing
<1>11. CASE InstallRoute(d)
  <2>1. /\ dev[d] = "install" /\ step[d] \in 1 .. 5
        /\ UNCHANGED <<prof, physIf, hop, refused>>
        /\ table' = table \cup {RouteOf(d, step[d])}
        /\ dev'[d] \in {"install", "active"}
        /\ dev'[d] = "active" => step'[d] = step[d]
    BY <1>2, <1>11 DEF InstallRoute, InstallNext, RouteAdded
  <2>2. RouteOf(d, 1)' = RouteOf(d, 1)
    BY <2>1 DEF RouteOf
  <2>3. /\ \A r \in table : r.dest = ServerOf[prof[d]] => r.ifx = physIf[d]
        /\ ServerOf[prof[d]] \in Server
    BY <1>2, <2>1 DEF RowsAsProbed, Probed, RTypeOK
  <2>4. /\ step[d] = 1 => /\ RouteOf(d, step[d]).dest = ServerOf[prof[d]]
                          /\ RouteOf(d, step[d]).ifx = physIf[d]
        /\ step[d] # 1 => RouteOf(d, step[d]).dest \notin Server
    BY <1>2, <2>1, RouteDestination
  <2>5. \A r \in table' : r.dest = ServerOf[prof[d]] => r.ifx = physIf[d]
    BY <2>1, <2>3, <2>4
  <2>6. Unmixed'
    BY <1>2, <2>1, <2>3, <2>4, <2>5 DEF Unmixed
  <2>7. Routed(d)' => RouteOf(d, 1) \in table'
    <3>1. CASE step[d] = 1
      BY <2>1, <3>1
    <3>2. CASE step[d] # 1
      BY <1>2, <2>1, <3>2 DEF HostRouteIn, Routed, Installing
    <3>. QED
      BY <3>1, <3>2
  <2>. QED
    BY <2>1, <2>2, <2>5, <2>6, <2>7
<1>12. CASE InstallRefused(d)
  <2>1. /\ dev[d] = "install" /\ step[d] \in 1 .. 5
        /\ UNCHANGED <<prof, physIf, hop>>
        /\ table' \in {table, table \ {RouteOf(d, step[d])}}
        /\ dev'[d] \in {"install", "active", "failed"}
        /\ refused'[d] = refused[d] \cup {CallOf(step[d])}
    BY <1>2, <1>12 DEF InstallRefused, InstallNext, AfterRefusedAdd, RTypeOK
  <2>2. RouteOf(d, 1)' = RouteOf(d, 1)
    BY <2>1 DEF RouteOf
  <2>3. Unmixed' /\ \A r \in table' : r.dest = ServerOf[prof[d]] => r.ifx = physIf[d]
    BY <1>2, <2>1, UnmixedShrinks DEF RowsAsProbed, Probed
  <2>4. Routed(d)' => RouteOf(d, 1) \in table'
    <3>1. CASE step[d] = 1
      BY <2>1, <3>1 DEF CallOf, Routed
    <3>2. CASE step[d] # 1
      <4>1. RouteOf(d, 1) # RouteOf(d, step[d])
        <5>1. RouteOf(d, 1).dest \in Server /\ RouteOf(d, step[d]).dest \notin Server
          BY <1>2, <2>1, <3>2, RouteDestination DEF RTypeOK
        <5>. QED
          BY <5>1
      <4>2. Routed(d)' => RouteOf(d, 1) \in table
        BY <1>2, <2>1, <3>2 DEF HostRouteIn, Routed, Installing
      <4>. QED
        BY <2>1, <4>1, <4>2
    <3>. QED
      BY <3>1, <3>2
  <2>. QED
    BY <2>1, <2>2, <2>3, <2>4
<1>. QED
  BY <1>8, <1>9, <1>10, <1>11, <1>12 DEF DeviceStep

(* From the moment a device's host route is in until its removal begins,    *)
(* packets to its server stay out of the tunnel, for any number of runs,    *)
(* any refused calls, kills at any point and any original table.            *)
THEOREM ServerStaysOutside == RSpec => []ServerOutsideTunnel
<1>1. RInit => RInv
  BY RInvInit
<1>2. RInv /\ [RNext]_rvars => RInv'
  <2> SUFFICES ASSUME RInv, [RNext]_rvars PROVE RInv'
    OBVIOUS
  <2>1. CASE UNCHANGED rvars
    BY <2>1 DEF rvars, RInv, RTypeOK, OneLive, Live, NotYetInstalling, Unmixed, RowsAsProbed,
                Probed, HostRouteIn, Routed, Installing, RouteOf
  <2>2. CASE RNext
    BY <2>2, RInvBegin, RInvStep, RInvKill DEF RNext
  <2>. QED
    BY <2>1, <2>2
<1>3. RInv => ServerOutsideTunnel
  <2> SUFFICES ASSUME RInv, NEW d \in Device, Routed(d), physIf[d] = "phys",
                      NEW row \in BestRows(table, ServerOf[prof[d]])
               PROVE  row.ifx = "phys"
    BY DEF ServerOutsideTunnel, Routed
  <2>1. dev[d] \in {"install", "active"} /\ dev[d] # "none"
    BY DEF Routed, Installing
  <2>2. RouteOf(d, 1) \in RowsTo(table, ServerOf[prof[d]])
    BY <2>1, RouteDestination DEF RInv, HostRouteIn, RowsTo
  <2>3. row \in table /\ row.dest = ServerOf[prof[d]]
    BY <2>2 DEF BestRows, RowsTo
  <2>. QED
    BY <2>1, <2>3 DEF RInv, RowsAsProbed, Probed
<1>. QED
  BY <1>1, <1>2, <1>3, PTL DEF RSpec
-----------------------------------------------------------------------------
(* What TunnelProbedOnlyAfterKill rests on: as long as no process was       *)
(* killed, an adapter belongs to a device that will close it, and without   *)
(* an adapter no row leads into it.                                         *)

Killed == \E d \in Device : dev[d] = "killed"

Holding(d) == dev[d] \in {"manager", "install", "active", "failed", "remove", "removed"}

Tidy ==
    /\ adapter # "orphan"
    /\ adapter \in Device => Holding(adapter)
    /\ adapter = "absent" => \A r \in table : r.ifx # "tun"
    /\ \A d \in Device : physIf[d] # "tun"

KInv == RTypeOK /\ OneLive /\ (Killed \/ Tidy)

(* Only a kill makes a device killed, and nothing undoes it.                *)
LEMMA KilledStays ==
    ASSUME RTypeOK, NEW d \in Device, DeviceStep(d), Killed
    PROVE  Killed'
<1>1. dev \in [Device -> Phase] /\ Live(d) /\ \A e \in Device : e # d => dev'[e] = dev[e]
  BY DEF RTypeOK, DeviceStep, Live, Abort, Probe, OpenAdapter, NewManager, InstallRoute,
         InstallRefused, InstallNext, BeginRemove, RemoveRoute, Close
<1>. QED
  BY <1>1 DEF Killed, Live

LEMMA TidyStep ==
    ASSUME KInv, Tidy, NEW d \in Device, DeviceStep(d)
    PROVE  Tidy'
<1>1. /\ dev \in [Device -> Phase] /\ physIf \in [Device -> Interface] /\ RTypeOK
      /\ adapter \in Device \cup {"absent"} /\ OneLive
      /\ "absent" \notin Device /\ "orphan" \notin Device
  BY DEF KInv, RTypeOK, Tidy
<1>2. CASE Abort(d) \/ BeginRemove(d)
  BY <1>1, <1>2 DEF Tidy, Holding, Abort, BeginRemove
<1>3. CASE Probe(d)
  <2>1. dev[d] = "probe" /\ UNCHANGED <<table, adapter>> /\ dev' = [dev EXCEPT ![d] = "open"]
    BY <1>3 DEF Probe
  <2>2. adapter = "absent"
    BY <1>1, <2>1 DEF Tidy, Holding, OneLive, Live
  <2>3. \A row \in BestRows(table, ServerOf[prof[d]]) : row \in table
    BY DEF BestRows, RowsTo
  <2>4. \A e \in Device : physIf'[e] # "tun"
    BY <1>1, <1>3, <2>2, <2>3 DEF Tidy, Probe
  <2>. QED
    BY <1>1, <2>1, <2>2, <2>4 DEF Tidy
<1>4. CASE OpenAdapter(d)
  <2>1. dev[d] = "open" /\ UNCHANGED <<table, physIf>>
    BY <1>4 DEF OpenAdapter
  <2>2. adapter = "absent"
    BY <1>1, <2>1 DEF Tidy, Holding, OneLive, Live
  <2>. QED
    BY <1>1, <1>4, <2>1, <2>2 DEF Tidy, Holding, OpenAdapter
<1>5. CASE NewManager(d)
  BY <1>1, <1>5 DEF Tidy, Holding, NewManager
<1>6. CASE InstallRoute(d)
  <2>1. dev[d] = "install" /\ dev' \in [Device -> Phase]
        /\ dev'[d] \in {"install", "active"} /\ \A e \in Device : e # d => dev'[e] = dev[e]
    BY <1>1, <1>6 DEF InstallRoute, InstallNext, Phase
  <2>2. adapter = "absent" => \A r \in table' : r.ifx # "tun"
    BY <1>6 DEF Tidy, InstallRoute, RouteAdded
  <2>. QED
    BY <1>1, <1>6, <2>1, <2>2 DEF Tidy, Holding, InstallRoute
<1>7. CASE InstallRefused(d)
  <2>1. dev[d] = "install" /\ dev' \in [Device -> Phase]
        /\ dev'[d] \in {"install", "active", "failed"}
        /\ \A e \in Device : e # d => dev'[e] = dev[e]
    BY <1>1, <1>7 DEF InstallRefused, InstallNext, Phase
  <2>2. table' \subseteq table
    BY <1>7 DEF InstallRefused, AfterRefusedAdd
  <2>. QED
    BY <1>1, <1>7, <2>1, <2>2 DEF Tidy, Holding, InstallRefused
<1>8. CASE RemoveRoute(d)
  <2>1. dev[d] = "remove" /\ dev' \in [Device -> Phase]
        /\ dev'[d] \in {"remove", "removed"} /\ \A e \in Device : e # d => dev'[e] = dev[e]
    BY <1>1, <1>8 DEF RemoveRoute, Phase
  <2>2. table' \subseteq table
    BY <1>8 DEF RemoveRoute, RouteDeleted
  <2>. QED
    BY <1>1, <1>8, <2>1, <2>2 DEF Tidy, Holding, RemoveRoute
<1>9. CASE Close(d)
  <2>1. dev[d] = "removed" /\ dev' = [dev EXCEPT ![d] = "closed"] /\ UNCHANGED physIf
    BY <1>9 DEF Close
  <2>2. CASE adapter = d
    BY <1>1, <1>9, <2>1, <2>2 DEF Tidy, Close, WithoutAdapter
  <2>3. CASE adapter # d
    BY <1>1, <1>9, <2>1, <2>3 DEF Tidy, Holding, Close
  <2>. QED
    BY <2>2, <2>3
<1>. QED
  BY <1>2, <1>3, <1>4, <1>5, <1>6, <1>7, <1>8, <1>9 DEF DeviceStep

(* GetBestInterface never answers with the tunnel unless a process was      *)
(* killed before, whatever Windows refuses in whatever number of runs.      *)
THEOREM TunnelProbedAfterKillOnly == RSpec => []TunnelProbedOnlyAfterKill
<1>1. RInit => RInv /\ KInv
  <2> SUFFICES ASSUME RInit PROVE RInv /\ KInv
    OBVIOUS
  <2>1. RInv
    BY RInvInit
  <2>2. Tidy
    BY DEF RInit, Tidy
  <2>. QED
    BY <2>1, <2>2 DEF RInv, KInv
<1>2. RInv /\ KInv /\ [RNext]_rvars => (RInv /\ KInv)'
  <2> SUFFICES ASSUME RInv, KInv, [RNext]_rvars PROVE RInv' /\ KInv'
    OBVIOUS
  <2>1. CASE UNCHANGED rvars
    BY <2>1 DEF rvars, RInv, RTypeOK, OneLive, Live, NotYetInstalling, Unmixed, RowsAsProbed,
                Probed, HostRouteIn, Routed, Installing, RouteOf, KInv, Killed, Tidy, Holding
  <2>2. ASSUME NEW d \in Device, NEW p \in Profile, \A e \in Device : ~Live(e), Begin(d, p)
        PROVE  RInv' /\ KInv'
    <3>1. RInv'
      BY <2>2, RInvBegin
    <3>2. /\ dev[d] = "none" /\ dev' = [dev EXCEPT ![d] = "probe"]
          /\ UNCHANGED <<table, adapter, physIf>> /\ dev \in [Device -> Phase]
      BY <2>2 DEF Begin, RInv, RTypeOK
    <3>3. (Killed => Killed') /\ (Tidy => Tidy')
      BY <3>2 DEF Killed, Tidy, Holding
    <3>. QED
      BY <3>1, <3>3 DEF RInv, KInv
  <2>3. ASSUME NEW d \in Device, DeviceStep(d)
        PROVE  RInv' /\ KInv'
    BY <2>3, RInvStep, KilledStays, TidyStep DEF RInv, KInv
  <2>4. ASSUME Kill, NEW d \in Device, Live(d)
        PROVE  RInv' /\ KInv'
    <3>1. RInv'
      BY <2>4, RInvKill
    <3>2. dev'[d] = "killed"
      BY <2>4 DEF Kill
    <3>. QED
      BY <3>1, <3>2 DEF RInv, KInv, Killed
  <2>. QED
    BY <2>1, <2>2, <2>3, <2>4 DEF RNext
<1>3. RInv /\ KInv => TunnelProbedOnlyAfterKill
  BY DEF KInv, Killed, Tidy, TunnelProbedOnlyAfterKill
<1>. QED
  BY <1>1, <1>2, <1>3, PTL DEF RSpec
-----------------------------------------------------------------------------
(* create returns a device only when both halves lead into an adapter that  *)
(* exists: an active tunnel leaves no half of the traffic outside.          *)
ActiveDeviceCaptures ==
    \A d \in Device : dev[d] = "active" =>
        /\ adapter # "absent"
        /\ \A h \in Half : [ifx |-> "tun", dest |-> h, hop |-> "onlink"] \in table

HalfRow(k) == [ifx |-> "tun", dest |-> Prefix[k], hop |-> "onlink"]
HalvesIn(last) == \A k \in {2, 3} : k <= last => HalfRow(k) \in table

AInv ==
    /\ RInv
    /\ \A d \in Device : Holding(d) => adapter # "absent"
    /\ \A d \in Device : dev[d] = "install" => HalvesIn(step[d] - 1)
    /\ \A d \in Device : dev[d] = "active" => HalvesIn(3)

(* The start of a device and the death of all claim nothing.                *)
LEMMA AInvBegin ==
    ASSUME AInv, NEW d \in Device, NEW p \in Profile, \A e \in Device : ~Live(e), Begin(d, p)
    PROVE  AInv'
<1>1. RInv'
  BY RInvBegin DEF AInv
<1>2. dev' = [dev EXCEPT ![d] = "probe"] /\ dev \in [Device -> Phase]
  BY DEF Begin, AInv, RInv, RTypeOK
<1>. QED
  BY <1>1, <1>2 DEF AInv, Live, Holding

LEMMA AInvKill ==
    ASSUME AInv, Kill
    PROVE  AInv'
<1>1. RInv'
  BY RInvKill DEF AInv
<1>2. \A e \in Device : dev'[e] \in {"none", "closed", "killed"}
  BY DEF Kill, Live
<1>. QED
  BY <1>1, <1>2 DEF AInv, Holding

(* install_routes becomes active only after the third call, and a refused   *)
(* call takes away none of the halves already added.                        *)
LEMMA AInvInstall ==
    ASSUME AInv, NEW d \in Device, InstallRoute(d) \/ InstallRefused(d)
    PROVE  /\ dev'[d] = "install" => HalvesIn(step[d] - 1)'
           /\ dev'[d] = "active" => HalvesIn(3)'
<1>1. /\ dev[d] = "install" /\ dev[d] # "none" /\ RTypeOK
      /\ step \in [Device -> 1 .. 5] /\ dev \in [Device -> Phase]
      /\ \A k \in {2, 3} : k < step[d] => HalfRow(k) \in table
  BY DEF AInv, RInv, RTypeOK, HalvesIn, InstallRoute, InstallRefused
<1>2. Steps(d) \in {3, 5} /\ step[d] \in 1 .. 5
  BY <1>1, RouteIsRow
<1>3. \A k \in {2, 3} : RouteOf(d, k) = HalfRow(k)
  BY DEF RouteOf, HalfRow
<1>4. SUFFICES ASSUME InstallNext(d)
               PROVE  \A k \in {2, 3} : k <= step[d] => HalfRow(k) \in table'
  <2>1. ASSUME ~InstallNext(d) PROVE dev'[d] = "failed"
    BY <1>1, <2>1 DEF InstallRoute, InstallRefused
  <2>2. ASSUME InstallNext(d), \A k \in {2, 3} : k <= step[d] => HalfRow(k) \in table'
        PROVE  /\ dev'[d] = "install" => HalvesIn(step[d] - 1)'
               /\ dev'[d] = "active" => HalvesIn(3)'
    <3>1. CASE step[d] < Steps(d)
      <4>1. dev'[d] = "install" /\ step'[d] = step[d] + 1
        BY <1>1, <2>2, <3>1 DEF InstallNext
      <4>. QED
        BY <1>2, <2>2, <4>1 DEF HalvesIn
    <3>2. CASE ~(step[d] < Steps(d))
      <4>1. dev'[d] = "active"
        BY <1>1, <2>2, <3>2 DEF InstallNext
      <4>. QED
        BY <1>2, <2>2, <3>2, <4>1 DEF HalvesIn
    <3>. QED
      BY <3>1, <3>2
  <2>. QED
    BY <2>1, <2>2
<1>5. CASE InstallRoute(d)
  BY <1>1, <1>2, <1>3, <1>5 DEF InstallRoute, RouteAdded
<1>6. CASE InstallRefused(d)
  <2>1. /\ CallOf(step[d]) # "half"
        /\ table' \in {table, table \ {RouteOf(d, step[d])}}
    BY <1>1, <1>4, <1>6 DEF InstallRefused, InstallNext, AfterRefusedAdd, Phase
  <2>2. ASSUME NEW k \in {2, 3}, k <= step[d] PROVE HalfRow(k) \in table'
    <3>1. step[d] \in {4, 5}
      BY <1>2, <2>1, <2>2 DEF CallOf
    <3>2. RouteOf(d, step[d]) = HalfRow(step[d])
      BY <3>1 DEF RouteOf, HalfRow
    <3>3. HalfRow(step[d]) # HalfRow(k)
      BY <2>2, <3>1 DEF HalfRow, Prefix
    <3>. QED
      BY <1>1, <2>1, <2>2, <3>1, <3>2, <3>3
  <2>. QED
    BY <2>2
<1>. QED
  BY <1>5, <1>6

LEMMA AInvStep ==
    ASSUME AInv, NEW d \in Device, DeviceStep(d)
    PROVE  AInv'
<1>1. RInv'
  BY RInvStep DEF AInv
<1>2. /\ OneLive /\ NotYetInstalling /\ dev \in [Device -> Phase] /\ step \in [Device -> 1 .. 5]
      /\ Holding(d) => adapter # "absent"
      /\ "absent" \notin Device
  BY VpnRouteManagerAssumption DEF AInv, RInv, RTypeOK
<1>3. Live(d) /\ \A e \in Device : e # d => dev'[e] = dev[e]
  BY <1>2 DEF DeviceStep, Live, Abort, Probe, OpenAdapter, NewManager, InstallRoute,
              InstallRefused, InstallNext, BeginRemove, RemoveRoute, Close
<1>4. \A e \in Device : e # d => ~Holding(e)' /\ dev'[e] \notin {"install", "active"}
  BY <1>2, <1>3 DEF OneLive, Live, Holding
<1>5. SUFFICES /\ Holding(d)' => adapter' # "absent"
               /\ dev'[d] = "install" => HalvesIn(step[d] - 1)'
               /\ dev'[d] = "active" => HalvesIn(3)'
  BY <1>1, <1>4 DEF AInv
<1>6. CASE Abort(d) \/ Probe(d) \/ Close(d)
  BY <1>2, <1>6 DEF Abort, Probe, Close, Holding
<1>7. CASE OpenAdapter(d)
  BY <1>2, <1>7 DEF OpenAdapter, Holding
<1>8. CASE NewManager(d)
  <2>1. dev[d] = "manager" /\ UNCHANGED <<adapter, step>> /\ dev'[d] \in {"failed", "install"}
    BY <1>2, <1>8 DEF NewManager
  <2>2. step'[d] = 1
    BY <2>1 DEF NotYetInstalling, AInv, RInv
  <2>. QED
    BY <1>2, <2>1, <2>2 DEF Holding, HalvesIn
<1>9. CASE BeginRemove(d) \/ RemoveRoute(d)
  BY <1>2, <1>9 DEF BeginRemove, RemoveRoute, Holding
<1>10. CASE InstallRoute(d) \/ InstallRefused(d)
  <2>1. dev[d] = "install" /\ UNCHANGED adapter
    BY <1>10 DEF InstallRoute, InstallRefused
  <2>. QED
    BY <1>2, <1>10, <2>1, AInvInstall DEF Holding
<1>. QED
  BY <1>6, <1>7, <1>8, <1>9, <1>10 DEF DeviceStep

(* In any number of runs, with any calls refused and any kills, a device    *)
(* becomes active only with both halves in an adapter that exists, and      *)
(* keeps them until its removal begins.                                     *)
THEOREM ActiveDevicesCapture == RSpec => []ActiveDeviceCaptures
<1>1. RInit => AInv
  BY RInvInit DEF RInit, AInv, Holding
<1>2. AInv /\ [RNext]_rvars => AInv'
  <2> SUFFICES ASSUME AInv, [RNext]_rvars PROVE AInv'
    OBVIOUS
  <2>1. CASE UNCHANGED rvars
    BY <2>1 DEF rvars, AInv, RInv, RTypeOK, OneLive, Live, NotYetInstalling, Unmixed,
                RowsAsProbed, Probed, HostRouteIn, Routed, Installing, RouteOf, Holding, HalvesIn
  <2>2. CASE RNext
    BY <2>2, AInvBegin, AInvStep, AInvKill DEF RNext
  <2>. QED
    BY <2>1, <2>2
<1>3. AInv => ActiveDeviceCaptures
  BY DEF AInv, Holding, HalvesIn, HalfRow, Prefix, Half, ActiveDeviceCaptures
<1>. QED
  BY <1>1, <1>2, <1>3, PTL DEF RSpec
-----------------------------------------------------------------------------
(* What HealsAfterKill and the client's ExitLeavesMachine rest on: whose    *)
(* the rows of the table are.  The rows a device adds and deletes no longer *)
(* change once its gateway is known.                                        *)

Settled(d) == dev[d] \notin {"none", "probe", "open", "manager"}

\* routes_installed and the position go with install_routes and remove_routes.
Flags ==
    \A d \in Device :
        /\ dev[d] \in {"install", "active", "remove", "removed"} => step[d] <= Steps(d)
        /\ dev[d] = "active" => installed[d]
        /\ dev[d] \in {"none", "probe", "open", "manager", "install", "failed"} => ~installed[d]

\* A row that was not there before is a row of some device.
Owned ==
    \A r \in table \ OriginalTable :
        \E d \in Device : Settled(d) /\ \E k \in 1 .. Steps(d) : r = RouteOf(d, k)

\* A row that was there before is gone only for a host route equal to it.
Lost == OriginalTable \ table \subseteq {RouteOf(d, 1) : d \in {e \in Device : Settled(e)}}

\* The k-th route of a device is in and still to be deleted.
Owes(d, k) ==
    \/ dev[d] = "install" /\ k < step[d]
    \/ dev[d] = "active"
    \/ dev[d] = "remove" /\ k >= step[d]

Undisturbed == \A d \in Device : dev[d] # "killed" /\ refused[d] \cap {"half", "delete"} = {}

\* Without a kill, a refused half or a refused deletion somebody will delete it.
Debts ==
    Undisturbed =>
        \A r \in table \ OriginalTable :
            \E d \in Device : \E k \in 1 .. Steps(d) : Owes(d, k) /\ r = RouteOf(d, k)

MInv == RInv /\ Flags /\ Owned /\ Lost /\ Debts

(* What a device's step leaves alone.                                       *)
LEMMA StepFrame ==
    ASSUME RTypeOK, NEW d \in Device, DeviceStep(d)
    PROVE  /\ UNCHANGED prof
           /\ \A e \in Device : Steps(e)' = Steps(e) /\ refused[e] \subseteq refused'[e]
           /\ \A e \in Device \ {d} :
                 /\ dev'[e] = dev[e] /\ step'[e] = step[e] /\ installed'[e] = installed[e]
                 /\ refused'[e] = refused[e]
                 /\ \A k : RouteOf(e, k)' = RouteOf(e, k)
           /\ Settled(d) => Settled(d)' /\ \A k : RouteOf(d, k)' = RouteOf(d, k)
           /\ dev[d] # "killed" /\ dev'[d] # "killed" /\ dev[d] # "none"
<1>1. UNCHANGED prof /\ \A e \in Device : Steps(e)' = Steps(e)
  BY DEF DeviceStep, Abort, Probe, OpenAdapter, NewManager, InstallRoute,
         InstallRefused, BeginRemove, RemoveRoute, Close, Steps
<1>2. /\ dev \in [Device -> Phase] /\ physIf \in [Device -> Interface] /\ hop \in [Device -> Hop]
      /\ step \in [Device -> 1 .. 5] /\ installed \in [Device -> BOOLEAN]
      /\ refused \in [Device -> SUBSET Call]
  BY DEF RTypeOK
<1>3. \A e \in Device : refused[e] \subseteq refused'[e]
  BY <1>2 DEF DeviceStep, Abort, Probe, OpenAdapter, NewManager, InstallRoute,
              InstallRefused, BeginRemove, RemoveRoute, Close
<1>4. \A e \in Device \ {d} :
          /\ dev'[e] = dev[e] /\ step'[e] = step[e] /\ installed'[e] = installed[e]
          /\ refused'[e] = refused[e] /\ physIf'[e] = physIf[e] /\ hop'[e] = hop[e]
  BY <1>2 DEF DeviceStep, Abort, Probe, OpenAdapter, NewManager, InstallRoute, InstallNext,
              InstallRefused, BeginRemove, RemoveRoute, Close
<1>5. \A e \in Device \ {d} : \A k : RouteOf(e, k)' = RouteOf(e, k)
  BY <1>1, <1>4 DEF RouteOf
<1>6. /\ Settled(d) => Settled(d)' /\ physIf'[d] = physIf[d] /\ hop'[d] = hop[d]
      /\ dev[d] # "killed" /\ dev'[d] # "killed" /\ dev[d] # "none"
  BY <1>2 DEF DeviceStep, Abort, Probe, OpenAdapter, NewManager, InstallRoute, InstallNext,
              InstallRefused, BeginRemove, RemoveRoute, Close, Settled
<1>7. Settled(d) => \A k : RouteOf(d, k)' = RouteOf(d, k)
  BY <1>1, <1>6 DEF RouteOf
<1>. QED
  BY <1>1, <1>3, <1>4, <1>5, <1>6, <1>7

\* The rows through the tunnel were not there before the client.
LEMMA TunnelRowsAreNew ==
    ASSUME NEW d \in Device, NEW k \in 2 .. 5
    PROVE  RouteOf(d, k) \notin OriginalTable
BY DEF RouteOf

LEMMA FlagsStep ==
    ASSUME RInv, Flags, NEW d \in Device, DeviceStep(d)
    PROVE  Flags'
<1>1. /\ RTypeOK /\ RTypeOK' /\ NotYetInstalling
      /\ dev \in [Device -> Phase] /\ step \in [Device -> 1 .. 5]
      /\ installed \in [Device -> BOOLEAN] /\ step[d] \in 1 .. 5
  BY DeviceStepType DEF RInv, RTypeOK
<1>2. \A e \in Device \ {d} : /\ dev'[e] = dev[e] /\ step'[e] = step[e]
                              /\ installed'[e] = installed[e] /\ Steps(e)' = Steps(e)
  BY <1>1, StepFrame
<1>3. Steps(d)' = Steps(d) /\ Steps(d) \in {3, 5}
  BY <1>1, StepFrame, RouteIsRow
<1>4. SUFFICES
        /\ dev'[d] \in {"install", "active", "remove", "removed"} => step'[d] <= Steps(d)
        /\ dev'[d] = "active" => installed'[d]
        /\ dev'[d] \in {"none", "probe", "open", "manager", "install", "failed"} => ~installed'[d]
  BY <1>2, <1>3 DEF Flags
<1>5. CASE Abort(d) \/ Probe(d) \/ OpenAdapter(d) \/ Close(d)
  BY <1>1, <1>5 DEF Flags, Abort, Probe, OpenAdapter, Close
<1>6. CASE NewManager(d)
  <2>1. step[d] = 1
    BY <1>1, <1>6 DEF NotYetInstalling, NewManager
  <2>. QED
    BY <1>1, <1>3, <1>6, <2>1 DEF Flags, NewManager
<1>7. CASE InstallRoute(d) \/ InstallRefused(d)
  <2>1. dev[d] = "install" /\ ~installed[d] /\ step[d] <= Steps(d)
    BY <1>7 DEF Flags, InstallRoute, InstallRefused
  <2>2. \/ InstallNext(d)
        \/ dev' = [dev EXCEPT ![d] = "failed"] /\ UNCHANGED <<step, installed>>
    BY <1>7 DEF InstallRoute, InstallRefused
  <2>. QED
    BY <1>1, <1>3, <2>1, <2>2 DEF InstallNext
<1>8. CASE BeginRemove(d)
  BY <1>1, <1>3, <1>8 DEF BeginRemove
<1>9. CASE RemoveRoute(d)
  <2>1. dev[d] = "remove" /\ step[d] <= Steps(d)
    BY <1>9 DEF Flags, RemoveRoute
  <2>. QED
    BY <1>1, <1>3, <1>9, <2>1 DEF RemoveRoute
<1>. QED
  BY <1>5, <1>6, <1>7, <1>8, <1>9 DEF DeviceStep

(* A device's step adds or deletes at most the route its position names;    *)
(* the end of the adapter takes rows of its own only.                       *)
LEMMA StepTable ==
    ASSUME RInv, Flags, NEW d \in Device, DeviceStep(d)
    PROVE  /\ table' \ table # {} =>
                 InstallRoute(d) /\ Settled(d) /\ step[d] \in 1 .. Steps(d)
           /\ table' \ table \subseteq {RouteOf(d, step[d])}
           /\ OriginalTable \cap (table \ table') \subseteq {RouteOf(d, 1)}
           /\ OriginalTable \cap (table \ table') # {} => Settled(d)
<1>1. /\ step[d] \in 1 .. 5 /\ \A k \in 2 .. 5 : RouteOf(d, k) \notin OriginalTable
      /\ \A r \in OriginalTable : r.ifx = "phys"
  BY TunnelRowsAreNew DEF RInv, RTypeOK
<1>2. CASE Abort(d) \/ Probe(d) \/ OpenAdapter(d) \/ NewManager(d) \/ BeginRemove(d)
  <2>1. table' = table
    BY <1>2 DEF Abort, Probe, OpenAdapter, NewManager, BeginRemove
  <2>. QED
    BY <2>1
<1>3. CASE InstallRoute(d)
  <2>1. /\ table' = table \cup {RouteOf(d, step[d])} /\ dev[d] = "install"
        /\ step[d] <= Steps(d)
    BY <1>3 DEF InstallRoute, RouteAdded, Flags
  <2>2. Steps(d) \in {3, 5}
    BY <2>1, RouteIsRow DEF RInv
  <2>. QED
    BY <1>1, <1>3, <2>1, <2>2 DEF Settled
<1>4. CASE InstallRefused(d) \/ RemoveRoute(d)
  <2>1. /\ table' \in {table, table \ {RouteOf(d, step[d])}} /\ dev[d] \in {"install", "remove"}
    BY <1>4 DEF InstallRefused, RemoveRoute, AfterRefusedAdd, RouteDeleted
  <2>2. step[d] = 1 \/ step[d] \in 2 .. 5
    BY <1>1
  <2>. QED
    BY <1>1, <2>1, <2>2 DEF Settled
<1>5. CASE Close(d)
  <2>1. table' \subseteq table /\ \A r \in table \ table' : r.ifx = "tun"
    BY <1>5 DEF Close, WithoutAdapter
  <2>. QED
    BY <1>1, <2>1
<1>. QED
  BY <1>2, <1>3, <1>4, <1>5 DEF DeviceStep

LEMMA OwnedStep ==
    ASSUME RInv, Flags, Owned, NEW d \in Device, DeviceStep(d)
    PROVE  Owned'
<1>1. RTypeOK
  BY DEF RInv
<1>2. \A e \in Device : Settled(e) =>
          Settled(e)' /\ Steps(e)' = Steps(e) /\ \A k : RouteOf(e, k)' = RouteOf(e, k)
  BY <1>1, StepFrame DEF Settled
<1>3. SUFFICES ASSUME NEW r \in table' \ OriginalTable
               PROVE  \E e \in Device : Settled(e) /\ \E k \in 1 .. Steps(e) : r = RouteOf(e, k)
  BY <1>2 DEF Owned
<1>4. CASE r \in table
  BY <1>4 DEF Owned
<1>5. CASE r \notin table
  BY <1>5, StepTable
<1>. QED
  BY <1>4, <1>5

LEMMA LostStep ==
    ASSUME RInv, Flags, Lost, NEW d \in Device, DeviceStep(d)
    PROVE  Lost'
<1>1. RTypeOK
  BY DEF RInv
<1>2. \A e \in Device : Settled(e) => Settled(e)' /\ RouteOf(e, 1)' = RouteOf(e, 1)
  BY <1>1, StepFrame DEF Settled
<1>3. SUFFICES ASSUME NEW r \in OriginalTable \ table'
               PROVE  \E e \in Device : Settled(e) /\ r = RouteOf(e, 1)
  BY <1>2 DEF Lost
<1>4. CASE r \in table
  BY <1>4, StepTable
<1>5. CASE r \notin table
  BY <1>5 DEF Lost
<1>. QED
  BY <1>4, <1>5

(* A row that a device still owes it owes after its step as well, or the    *)
(* step has deleted it.                                                     *)
LEMMA DebtStep ==
    ASSUME RInv, Flags, NEW d \in Device, DeviceStep(d),
           refused'[d] \cap {"half", "delete"} = {},
           NEW r \in table' \ OriginalTable,
           r \in table => \E k \in 1 .. Steps(d) : Owes(d, k) /\ r = RouteOf(d, k)
    PROVE  \E k \in 1 .. Steps(d)' : Owes(d, k)' /\ r = RouteOf(d, k)'
<1>1. /\ RTypeOK /\ step \in [Device -> 1 .. 5] /\ dev \in [Device -> Phase]
      /\ refused \in [Device -> SUBSET Call] /\ RTypeOK'
  BY DeviceStepType DEF RInv, RTypeOK
<1>2. CASE r \notin table
  <2>1. /\ InstallRoute(d) /\ Settled(d) /\ step[d] \in 1 .. Steps(d)
        /\ r = RouteOf(d, step[d])
    BY <1>2, StepTable
  <2> PICK k \in 1 .. Steps(d) : k = step[d]
    BY <2>1
  <2>2. Owes(d, k)'
    <3>1. /\ dev[d] = "install" /\ InstallNext(d)
      BY <2>1 DEF InstallRoute
    <3>2. \/ dev'[d] = "install" /\ step'[d] = step[d] + 1
          \/ dev'[d] = "active"
      BY <1>1, <3>1 DEF InstallNext
    <3>3. k < step[d] + 1
      BY <1>1
    <3>. QED
      BY <3>2, <3>3 DEF Owes
  <2>3. Steps(d)' = Steps(d) /\ RouteOf(d, k)' = RouteOf(d, k)
    BY <1>1, <2>1, StepFrame
  <2>. QED
    BY <2>1, <2>2, <2>3
<1>3. CASE r \in table
  <2>1. PICK k \in 1 .. Steps(d) : Owes(d, k) /\ r = RouteOf(d, k)
    BY <1>3
  <2>2. Settled(d) /\ Steps(d)' = Steps(d) /\ RouteOf(d, k)' = RouteOf(d, k)
    BY <1>1, <2>1, StepFrame DEF Owes, Settled
  <2>3. /\ dev[d] \in {"install", "active", "remove"} /\ step[d] \in 1 .. 5
        /\ Steps(d) \in {3, 5} /\ k \in 1 .. Steps(d)
    BY <1>1, <2>1, RouteIsRow DEF Owes
  <2>4. Owes(d, k)'
    <3>1. CASE InstallRoute(d) \/ InstallRefused(d)
      <4>1. dev[d] = "install" /\ k < step[d]
        BY <2>1, <3>1 DEF Owes, InstallRoute, InstallRefused
      <4>2. InstallNext(d)
        BY <1>1, <3>1 DEF InstallRoute, InstallRefused
      <4>3. dev'[d] = "active" \/ (dev'[d] = "install" /\ step'[d] = step[d] + 1)
        BY <1>1, <4>1, <4>2 DEF InstallNext
      <4>4. k < step[d] + 1
        BY <2>3, <4>1
      <4>. QED
        BY <4>3, <4>4 DEF Owes
    <3>2. CASE BeginRemove(d)
      <4>1. dev[d] = "active" /\ installed[d]
        BY <2>3, <3>2 DEF BeginRemove, Flags
      <4>2. dev'[d] = "remove" /\ step'[d] = 1
        BY <1>1, <3>2, <4>1 DEF BeginRemove
      <4>. QED
        BY <2>3, <4>2 DEF Owes
    <3>3. CASE RemoveRoute(d)
      <4>1. dev[d] = "remove" /\ k >= step[d]
        BY <2>1, <3>3 DEF Owes, RemoveRoute
      <4>2. table' = table \ {RouteOf(d, step[d])}
        BY <1>1, <3>3 DEF RemoveRoute, RouteDeleted
      <4>3. k # step[d]
        BY <2>1, <4>2
      <4>4. step[d] < Steps(d) /\ k >= step[d] + 1
        BY <2>3, <4>1, <4>3
      <4>5. dev'[d] = "remove" /\ step'[d] = step[d] + 1
        BY <1>1, <3>3, <4>1, <4>4 DEF RemoveRoute
      <4>. QED
        BY <4>4, <4>5 DEF Owes
    <3>. QED
      BY <2>3, <3>1, <3>2, <3>3
         DEF DeviceStep, Abort, Probe, OpenAdapter, NewManager, Close
  <2>. QED
    BY <2>1, <2>2, <2>4
<1>. QED
  BY <1>2, <1>3

LEMMA DebtsStep ==
    ASSUME RInv, Flags, Debts, NEW d \in Device, DeviceStep(d)
    PROVE  Debts'
<1>1. RTypeOK /\ refused \in [Device -> SUBSET Call] /\ RTypeOK'
  BY DeviceStepType DEF RInv, RTypeOK
<1>2. SUFFICES ASSUME Undisturbed', NEW r \in table' \ OriginalTable
               PROVE  \E e \in Device : \E k \in 1 .. Steps(e)' :
                         Owes(e, k)' /\ r = RouteOf(e, k)'
  BY DEF Debts
<1>3. Undisturbed /\ refused'[d] \cap {"half", "delete"} = {}
  BY <1>1, <1>2, StepFrame DEF Undisturbed
<1>4. ASSUME r \in table => \E k \in 1 .. Steps(d) : Owes(d, k) /\ r = RouteOf(d, k)
      PROVE  \E k \in 1 .. Steps(d)' : Owes(d, k)' /\ r = RouteOf(d, k)'
  BY <1>3, <1>4, DebtStep
<1>5. ASSUME r \in table, NEW e \in Device \ {d}, NEW k \in 1 .. Steps(e),
             Owes(e, k), r = RouteOf(e, k)
      PROVE  k \in 1 .. Steps(e)' /\ Owes(e, k)' /\ r = RouteOf(e, k)'
  BY <1>1, <1>5, StepFrame DEF Owes
<1>6. CASE r \notin table
  BY <1>4, <1>6
<1>7. CASE r \in table
  <2>1. PICK e \in Device : \E k \in 1 .. Steps(e) : Owes(e, k) /\ r = RouteOf(e, k)
    BY <1>2, <1>3, <1>7 DEF Debts
  <2>2. CASE e = d
    BY <1>4, <2>1, <2>2
  <2>3. CASE e # d
    BY <1>5, <1>7, <2>1, <2>3
  <2>. QED
    BY <2>2, <2>3
<1>. QED
  BY <1>6, <1>7

LEMMA MInvBegin ==
    ASSUME MInv, NEW d \in Device, NEW p \in Profile, \A e \in Device : ~Live(e), Begin(d, p)
    PROVE  MInv'
<1>1. RInv'
  BY RInvBegin DEF MInv
<1>2. /\ dev[d] = "none" /\ dev' = [dev EXCEPT ![d] = "probe"] /\ dev \in [Device -> Phase]
      /\ prof' = [prof EXCEPT ![d] = p] /\ prof \in [Device -> Profile \cup {None}]
      /\ UNCHANGED <<table, physIf, hop, step, installed, refused>>
  BY DEF Begin, MInv, RInv, RTypeOK
<1>3. \A e \in Device \ {d} :
          dev'[e] = dev[e] /\ Steps(e)' = Steps(e) /\ \A k : RouteOf(e, k)' = RouteOf(e, k)
  BY <1>2 DEF Steps, RouteOf
<1>4. /\ \A e \in Device : Settled(e)' <=> Settled(e)
      /\ ~Settled(d) /\ \A k : ~Owes(d, k)
      /\ \A e \in Device \ {d} : \A k : Owes(e, k)' <=> Owes(e, k)
  BY <1>2 DEF Settled, Owes
<1>5. Flags'
  BY <1>2, <1>3 DEF MInv, Flags
<1>6. Owned'
  BY <1>2, <1>3, <1>4 DEF MInv, Owned
<1>7. Lost'
  BY <1>2, <1>3, <1>4 DEF MInv, Lost
<1>8. Debts'
  <2>1. Undisturbed' => Undisturbed
    BY <1>2 DEF Undisturbed
  <2>. QED
    BY <1>2, <1>3, <1>4, <2>1 DEF MInv, Debts
<1>. QED
  BY <1>1, <1>5, <1>6, <1>7, <1>8 DEF MInv

LEMMA MInvKill ==
    ASSUME MInv, Kill, NEW d \in Device, Live(d)
    PROVE  MInv'
<1>1. RInv'
  BY RInvKill DEF MInv
<1>2. /\ table' \subseteq table /\ \A r \in table \ table' : r.ifx = "tun"
      /\ UNCHANGED <<prof, physIf, hop, step, installed, refused>>
      /\ \A e \in Device : dev'[e] = IF Live(e) THEN "killed" ELSE dev[e]
  BY DEF Kill, WithoutAdapter
<1>3. \A e \in Device :
          /\ Settled(e) => Settled(e)'
          /\ Steps(e)' = Steps(e) /\ \A k : RouteOf(e, k)' = RouteOf(e, k)
  BY <1>2 DEF Settled, Steps, RouteOf
<1>4. Flags'
  BY <1>2, <1>3 DEF MInv, Flags, Live
<1>5. Owned'
  BY <1>2, <1>3 DEF MInv, Owned
<1>6. Lost'
  <2>1. OriginalTable \ table' \subseteq OriginalTable \ table
    BY <1>2
  <2>. QED
    BY <1>3, <2>1 DEF MInv, Lost
<1>7. ~Undisturbed'
  BY <1>2 DEF Undisturbed
<1>. QED
  BY <1>1, <1>4, <1>5, <1>6, <1>7 DEF MInv, Debts

LEMMA MInvInit == RInit => MInv
<1> SUFFICES ASSUME RInit PROVE MInv
  OBVIOUS
<1>1. table = OriginalTable /\ \A d \in Device : dev[d] = "none" /\ ~installed[d]
  BY DEF RInit
<1>. QED
  BY <1>1, RInvInit DEF MInv, Flags, Owned, Lost, Debts

LEMMA MInvNext == MInv /\ [RNext]_rvars => MInv'
<1> SUFFICES ASSUME MInv, [RNext]_rvars PROVE MInv'
  OBVIOUS
<1>1. CASE UNCHANGED rvars
  <2>1. RInv'
    BY <1>1 DEF rvars, MInv, RInv, RTypeOK, OneLive, Live, NotYetInstalling, Unmixed,
                RowsAsProbed, Probed, HostRouteIn, Routed, Installing, RouteOf
  <2>. QED
    BY <1>1, <2>1 DEF rvars, MInv, Flags, Steps, Owned, Settled, RouteOf, Lost, Debts,
                      Undisturbed, Owes
<1>2. ASSUME NEW d \in Device, DeviceStep(d) PROVE MInv'
  BY <1>2, RInvStep, FlagsStep, OwnedStep, LostStep, DebtsStep DEF MInv
<1>. QED
  BY <1>1, <1>2, MInvBegin, MInvKill DEF RNext

(* Every row that is new, and every row that is missing, is some device's.  *)
THEOREM RowsAreAccountedFor == RSpec => []MInv
BY MInvInit, MInvNext, PTL DEF RSpec
-----------------------------------------------------------------------------
(* A complete run after kills.                                              *)

\* Every gateway was looked up.
Sighted == \A d \in Device : "gateway" \notin refused[d]

(* The rows to a server that the client has added are one at most: the      *)
(* gateway is looked up among the rows to the server if there are any.      *)
OneHop ==
    Sighted => \A s \in Server :
        RowsTo(table, s) \subseteq OriginalTable \/ \E r \in Row : RowsTo(table, s) = {r}

HostKnown ==
    Sighted => \A d \in Device : dev[d] = "install" /\ step[d] = 1 =>
        RowsTo(table, ServerOf[prof[d]]) = {} \/ RouteOf(d, 1) \in table

\* How many of its routes a device without any refusal has deleted again.
Cleared(d, n) ==
    /\ \A k \in 2 .. n : RouteOf(d, k) \notin table
    /\ n >= 1 => RowsTo(table, ServerOf[prof[d]]) \subseteq OriginalTable

Clearing ==
    Sighted => \A d \in Device : refused[d] = {} =>
        /\ dev[d] = "remove" /\ step[d] = 1 => RouteOf(d, 1) \in table
        /\ dev[d] = "remove" => Cleared(d, step[d] - 1)
        /\ dev[d] = "removed" /\ step[d] = Steps(d) => Cleared(d, Steps(d))

HInv == MInv /\ OneHop /\ HostKnown /\ Clearing

(* Taking rows away adds no gateway.                                        *)
LEMMA OneHopShrinks ==
    ASSUME OneHop, Sighted, table' \subseteq table
    PROVE  OneHop'
<1>1. SUFFICES ASSUME NEW s \in Server
               PROVE  \/ RowsTo(table', s) \subseteq OriginalTable
                      \/ \E r \in Row : RowsTo(table', s) = {r}
  BY DEF OneHop
<1>2. RowsTo(table', s) \subseteq RowsTo(table, s)
  BY DEF RowsTo
<1>3. CASE RowsTo(table, s) \subseteq OriginalTable
  BY <1>2, <1>3
<1>4. ASSUME NEW r \in Row, RowsTo(table, s) = {r}
      PROVE  RowsTo(table', s) = {} \/ RowsTo(table', s) = {r}
  BY <1>2, <1>4
<1>. QED
  BY <1>3, <1>4 DEF OneHop

LEMMA OneHopStep ==
    ASSUME HInv, Sighted, NEW d \in Device, DeviceStep(d)
    PROVE  OneHop'
<1>1. CASE table' \subseteq table
  BY <1>1, OneHopShrinks DEF HInv
<1>2. CASE ~(table' \subseteq table)
  <2>1. /\ dev[d] = "install" /\ step[d] \in 1 .. 5 /\ dev[d] # "none" /\ RTypeOK
        /\ table' = table \cup {RouteOf(d, step[d])}
    BY <1>2, StepTable DEF HInv, MInv, RInv, RTypeOK, InstallRoute, RouteAdded
  <2>2. RouteOf(d, step[d]) \in Row
    BY <2>1, RouteIsRow
  <2>3. SUFFICES ASSUME NEW s \in Server
                 PROVE  \/ RowsTo(table', s) \subseteq OriginalTable
                        \/ \E r \in Row : RowsTo(table', s) = {r}
    BY DEF OneHop
  <2>4. CASE RouteOf(d, step[d]).dest # s
    <3>1. RowsTo(table', s) = RowsTo(table, s)
      BY <2>1, <2>4 DEF RowsTo
    <3>. QED
      BY <3>1 DEF HInv, OneHop
  <2>5. CASE RouteOf(d, step[d]).dest = s
    <3>1. step[d] = 1 /\ s = ServerOf[prof[d]]
      BY <2>1, <2>5, RouteDestination
    <3>2. RowsTo(table, s) = {}
      BY <1>2, <2>1, <3>1 DEF HInv, HostKnown
    <3>3. RowsTo(table', s) = {RouteOf(d, step[d])}
      BY <2>1, <2>5, <3>2 DEF RowsTo
    <3>. QED
      BY <2>2, <3>3
  <2>. QED
    BY <2>4, <2>5
<1>. QED
  BY <1>1, <1>2

(* The gateway the manager found is that of the row that is there.          *)
LEMMA HostKnownStep ==
    ASSUME HInv, Sighted', NEW d \in Device, DeviceStep(d),
           dev'[d] = "install", step'[d] = 1
    PROVE  RowsTo(table, ServerOf[prof[d]])' = {} \/ RouteOf(d, 1)' \in table'
<1>1. /\ RTypeOK /\ dev \in [Device -> Phase] /\ step \in [Device -> 1 .. 5]
      /\ hop \in [Device -> Hop] /\ refused \in [Device -> SUBSET Call] /\ RowsAsProbed
  BY DEF HInv, MInv, RInv, RTypeOK
<1>2. NewManager(d)
  <2>1. ASSUME InstallNext(d), dev[d] = "install" PROVE FALSE
    BY <1>1, <2>1 DEF InstallNext
  <2>. QED
    BY <1>1, <2>1 DEF DeviceStep, Abort, Probe, OpenAdapter, InstallRoute, InstallRefused,
                      BeginRemove, RemoveRoute, Close
<1>3. /\ dev[d] = "manager" /\ UNCHANGED <<table, prof, physIf>>
      /\ \E row \in BestRows(table, ServerOf[prof[d]]) : hop'[d] = row.hop
  BY <1>1, <1>2 DEF NewManager, Sighted
<1>4. PICK row \in BestRows(table, ServerOf[prof[d]]) : hop'[d] = row.hop
  BY <1>3
<1>5. CASE RowsTo(table, ServerOf[prof[d]]) = {}
  BY <1>3, <1>5
<1>6. CASE RowsTo(table, ServerOf[prof[d]]) # {}
  <2>1. row \in table /\ row.dest = ServerOf[prof[d]]
    BY <1>4, <1>6 DEF BestRows, RowsTo
  <2>2. row.ifx = physIf[d]
    BY <1>1, <1>3, <2>1 DEF RowsAsProbed, Probed
  <2>3. row \in Row
    BY <1>1, <2>1 DEF RTypeOK
  <2>4. row = [ifx |-> physIf[d], dest |-> ServerOf[prof[d]], hop |-> hop'[d]]
    BY <1>4, <2>1, <2>2, <2>3 DEF Row
  <2>5. RouteOf(d, 1)' = row
    BY <1>3, <2>4 DEF RouteOf
  <2>. QED
    BY <1>3, <2>1, <2>5
<1>. QED
  BY <1>5, <1>6

LEMMA ClearingStep ==
    ASSUME HInv, Sighted, NEW d \in Device, DeviceStep(d), refused'[d] = {}
    PROVE  /\ dev'[d] = "remove" /\ step'[d] = 1 => RouteOf(d, 1)' \in table'
           /\ dev'[d] = "remove" => Cleared(d, step[d] - 1)'
           /\ dev'[d] = "removed" /\ step'[d] = Steps(d)' => Cleared(d, Steps(d))'
<1>1. /\ RTypeOK /\ dev \in [Device -> Phase] /\ step \in [Device -> 1 .. 5]
      /\ refused \in [Device -> SUBSET Call] /\ Flags /\ HostRouteIn
  BY DEF HInv, MInv, RInv, RTypeOK
<1>2. /\ refused[d] = {} /\ Steps(d)' = Steps(d) /\ prof' = prof
      /\ Steps(d) \in {3, 5}
  BY <1>1, StepFrame, RouteIsRow
<1>3. CASE BeginRemove(d)
  <2>1. /\ UNCHANGED table /\ step'[d] = 1 /\ dev[d] \in {"active", "failed"}
        /\ dev'[d] = IF installed[d] THEN "remove" ELSE "removed"
    BY <1>1, <1>3 DEF BeginRemove
  <2>2. dev'[d] = "remove" => RouteOf(d, 1) \in table
    BY <1>1, <1>2, <2>1 DEF Flags, HostRouteIn, Routed
  <2>3. RouteOf(d, 1)' = RouteOf(d, 1)
    BY <1>1, <2>1, StepFrame DEF Settled
  <2>4. Cleared(d, step[d] - 1)'
    BY <2>1 DEF Cleared
  <2>. QED
    BY <1>2, <2>1, <2>2, <2>3, <2>4
<1>4. CASE RemoveRoute(d)
  <2>1. /\ dev[d] = "remove" /\ step[d] \in 1 .. 5 /\ step[d] <= Steps(d)
        /\ table' = table \ {RouteOf(d, step[d])}
    <3>1. dev[d] = "remove"
      BY <1>4 DEF RemoveRoute
    <3>2. step[d] \in 1 .. 5 /\ step[d] <= Steps(d)
      BY <1>1, <3>1 DEF Flags
    <3>3. CASE refused' = [refused EXCEPT ![d] = @ \cup {"delete"}]
      BY <1>1, <3>3
    <3>4. CASE table' = RouteDeleted(table, RouteOf(d, step[d]))
      BY <3>1, <3>2, <3>4 DEF RouteDeleted
    <3>. QED
      BY <1>4, <3>3, <3>4 DEF RemoveRoute
  <2>2. \A k : RouteOf(d, k)' = RouteOf(d, k)
    BY <1>1, <2>1, StepFrame DEF Settled
  <2>3. /\ step[d] = 1 => RouteOf(d, 1) \in table
        /\ Cleared(d, step[d] - 1)
    BY <1>2, <2>1 DEF HInv, Clearing
  <2> DEFINE S == ServerOf[prof[d]]
  <2>4. RowsTo(table', S) \subseteq OriginalTable
    <3>1. RowsTo(table', S) \subseteq RowsTo(table, S)
      BY <2>1 DEF RowsTo
    <3>2. CASE step[d] = 1
      <4>1. RouteOf(d, 1) \in RowsTo(table, S) /\ RouteOf(d, 1) \notin RowsTo(table', S)
        BY <1>1, <2>1, <2>3, <3>2, RouteDestination DEF RowsTo
      <4>2. S \in Server
        BY <1>1, <2>1 DEF RTypeOK
      <4>3. RowsTo(table, S) \subseteq OriginalTable \/ \E r \in Row : RowsTo(table, S) = {r}
        BY <4>2 DEF HInv, OneHop
      <4>. QED
        BY <3>1, <4>1, <4>3
    <3>3. CASE step[d] # 1
      <4>1. RowsTo(table, S) \subseteq OriginalTable
        BY <2>1, <2>3, <3>3 DEF Cleared
      <4>. QED
        BY <3>1, <4>1
    <3>. QED
      BY <3>2, <3>3
  <2>5. ASSUME NEW k \in 2 .. 5, k <= step[d] PROVE RouteOf(d, k) \notin table'
    BY <2>1, <2>3, <2>5 DEF Cleared
  <2>6. ASSUME NEW n \in 1 .. 5, n = step[d] PROVE Cleared(d, n)'
    BY <1>2, <2>2, <2>4, <2>5, <2>6 DEF Cleared
  <2>7. PICK n \in 1 .. 5 : n = step[d]
    BY <2>1
  <2>8. CASE step[d] < Steps(d)
    <3>1. dev'[d] = "remove" /\ step'[d] = n + 1
      BY <1>1, <1>4, <2>1, <2>7, <2>8 DEF RemoveRoute
    <3>2. Cleared(d, step[d] - 1)'
      BY <2>6, <2>7, <3>1 DEF Cleared
    <3>. QED
      BY <2>7, <3>1, <3>2
  <2>9. CASE ~(step[d] < Steps(d))
    <3>1. dev'[d] = "removed" /\ Steps(d)' = n
      BY <1>1, <1>2, <1>4, <2>1, <2>7, <2>9 DEF RemoveRoute
    <3>2. Cleared(d, Steps(d))'
      BY <2>6, <2>7, <3>1 DEF Cleared
    <3>. QED
      BY <3>1, <3>2
  <2>. QED
    BY <2>8, <2>9
<1>5. ASSUME ~BeginRemove(d), ~RemoveRoute(d) PROVE dev'[d] \notin {"remove", "removed"}
  BY <1>1, <1>5 DEF DeviceStep, Abort, Probe, OpenAdapter, NewManager, InstallRoute, InstallNext,
                    InstallRefused, Close
<1>. QED
  BY <1>3, <1>4, <1>5

LEMMA HInvInit == RInit => HInv
<1> SUFFICES ASSUME RInit PROVE HInv
  OBVIOUS
<1>1. table = OriginalTable /\ \A d \in Device : dev[d] = "none"
  BY DEF RInit
<1>. QED
  BY <1>1, MInvInit DEF HInv, OneHop, RowsTo, HostKnown, Clearing

LEMMA HInvNext == HInv /\ [RNext]_rvars => HInv'
<1> SUFFICES ASSUME HInv, [RNext]_rvars PROVE HInv'
  OBVIOUS
<1>1. MInv' /\ dev \in [Device -> Phase]
  BY MInvNext DEF HInv, MInv, RInv, RTypeOK
<1>2. CASE UNCHANGED rvars
  BY <1>1, <1>2 DEF rvars, HInv, OneHop, Sighted, HostKnown, Clearing, Cleared, RouteOf, Steps
<1>3. ASSUME table' \subseteq table, UNCHANGED refused,
             \A e \in Device : dev'[e] \notin {"install", "remove", "removed"}
      PROVE  HInv'
  <2>1. OneHop'
    <3>1. CASE Sighted
      BY <1>3, <3>1, OneHopShrinks DEF HInv
    <3>2. CASE ~Sighted
      BY <1>3, <3>2 DEF OneHop, Sighted
    <3>. QED
      BY <3>1, <3>2
  <2>2. HostKnown' /\ Clearing'
    BY <1>3 DEF HostKnown, Clearing
  <2>. QED
    BY <1>1, <2>1, <2>2 DEF HInv
<1>4. ASSUME NEW d \in Device, NEW p \in Profile, \A e \in Device : ~Live(e), Begin(d, p)
      PROVE  HInv'
  BY <1>1, <1>3, <1>4 DEF Begin, Live
<1>5. CASE Kill
  BY <1>1, <1>3, <1>5 DEF Kill, WithoutAdapter, Live
<1>6. ASSUME NEW d \in Device, DeviceStep(d)
      PROVE  HInv'
  <2>1. RTypeOK /\ OneLive /\ Live(d) /\ \A e \in Device \ {d} : dev'[e] = dev[e]
    BY <1>1, <1>6, StepFrame
       DEF HInv, MInv, RInv, Live, DeviceStep, Abort, Probe, OpenAdapter, NewManager,
           InstallRoute, InstallRefused, BeginRemove, RemoveRoute, Close
  <2>2. \A e \in Device \ {d} : dev'[e] \notin {"install", "remove", "removed"}
    BY <2>1 DEF OneLive, Live
  <2>3. Sighted' => Sighted
    BY <1>6, <2>1, StepFrame DEF Sighted
  <2>4. OneHop'
    <3>1. CASE Sighted
      BY <1>6, <3>1, OneHopStep
    <3>2. CASE ~Sighted
      BY <2>3, <3>2 DEF OneHop
    <3>. QED
      BY <3>1, <3>2
  <2>5. HostKnown'
    BY <1>6, <2>2, HostKnownStep DEF HostKnown
  <2>6. Clearing'
    BY <1>6, <2>2, <2>3, ClearingStep DEF Clearing
  <2>. QED
    BY <1>1, <2>4, <2>5, <2>6 DEF HInv
<1>. QED
  BY <1>2, <1>4, <1>5, <1>6 DEF RNext

(* Any number of processes of one profile, killed anywhere: the next        *)
(* complete run all of whose calls succeed leaves no row behind.            *)
THEOREM KillsAreHealed == RSpec => []HealsAfterKill
<1>1. HInv => HealsAfterKill
  <2> SUFFICES ASSUME HInv, NEW d \in Device,
                      dev[d] = "removed", refused[d] = {}, step[d] = Steps(d), OnlyProfile(d),
                      \A e \in Device : refused[e] \cap {"gateway", "half", "delete"} = {},
                      NEW r \in table, r \notin OriginalTable
               PROVE  FALSE
    BY DEF HealsAfterKill
  <2>1. /\ RTypeOK /\ Owned
        /\ Cleared(d, Steps(d))
    BY DEF HInv, MInv, RInv, Sighted, Clearing
  <2>2. PICK e \in Device : Settled(e) /\ \E k \in 1 .. Steps(e) : r = RouteOf(e, k)
    BY <2>1 DEF Owned
  <2>3. PICK k \in 1 .. Steps(e) : r = RouteOf(e, k)
    BY <2>2
  <2>4. dev[e] # "none" /\ prof[e] = prof[d] /\ Steps(e) = Steps(d) /\ Steps(d) \in {3, 5}
    BY <2>1, <2>2, RouteIsRow DEF OnlyProfile, Settled, Steps
  <2>5. CASE k = 1
    <3>1. r \in RowsTo(table, ServerOf[prof[d]])
      BY <2>1, <2>3, <2>4, <2>5, RouteDestination DEF RowsTo
    <3>. QED
      BY <2>1, <2>4, <3>1 DEF Cleared
  <2>6. CASE k # 1
    <3>1. RouteOf(d, k) = r /\ k \in 2 .. Steps(d)
      BY <2>3, <2>4, <2>6 DEF RouteOf
    <3>. QED
      BY <2>1, <3>1 DEF Cleared
  <2>. QED
    BY <2>5, <2>6
<1>. QED
  BY <1>1, HInvInit, HInvNext, PTL DEF RSpec
=============================================================================
