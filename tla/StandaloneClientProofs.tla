----------------------- MODULE StandaloneClientProofs -----------------------
(* Proofs about StandaloneClient, for any number of processes and profiles  *)
(* and any original table: the client drives its devices as RSpec allows,   *)
(* so what VpnRouteManagerProofs proves of RSpec holds of the client.       *)
EXTENDS StandaloneClient, VpnRouteManagerProofs

\* No device is alive while no process holds one.
IdleHoldsNothing == main \in {"off", "keypress"} => \A d \in Device : ~Live(d)

ActiveWhenCreated ==
    main \in {"handler", "socket", "spawn", "monitor"} => \E d \in Device : dev[d] = "active"

CInv == CliTypeOK /\ IdleHoldsNothing /\ OneLive

(* The conjuncts of the invariant, in this state and in the next.           *)
CParts ==
    /\ RTypeOK
    /\ main \in CliPhase
    /\ handler \in BOOLEAN /\ running \in BOOLEAN
    /\ sockIf \in Interface \cup {"unbound"}
    /\ OneLive /\ IdleHoldsNothing /\ ActiveWhenCreated

LEMMA CliTypeParts == (CInv <=> CParts) /\ (CInv' <=> CParts')
BY DEF CInv, CParts, CliTypeOK, OneLive, IdleHoldsNothing, ActiveWhenCreated

(* A step of the one live device leaves at most that one alive, and active  *)
(* only becomes some other phase when its removal begins.                   *)
LEMMA DeviceStepLive ==
    ASSUME RTypeOK, OneLive, NEW d \in Device, DeviceStep(d)
    PROVE  /\ RTypeOK' /\ OneLive'
           /\ \A e \in Device : e # d => ~Live(e)'
           /\ dev' \in [Device -> Phase]
<1>1. RTypeOK'
  BY DeviceStepType
<1>2. dev \in [Device -> Phase] /\ dev' \in [Device -> Phase]
  BY <1>1 DEF RTypeOK
<1>3. Live(d) /\ \A e \in Device : e # d => dev'[e] = dev[e]
  BY <1>2 DEF DeviceStep, Live, Abort, Probe, OpenAdapter, NewManager, InstallRoute,
              InstallRefused, InstallNext, BeginRemove, RemoveRoute, Close
<1>4. \A e \in Device : e # d => ~Live(e)'
  BY <1>3 DEF OneLive, Live
<1>. QED
  BY <1>1, <1>2, <1>4 DEF OneLive

(* The death of the process leaves nothing alive.                           *)
LEMMA KillEndsAll ==
    ASSUME Kill
    PROVE  \A d \in Device : ~Live(d)'
BY DEF Kill, Live

(* The first process finds no device alive.                                 *)
LEMMA CInvInit == Init => CInv
<1> SUFFICES ASSUME Init PROVE CInv
  OBVIOUS
<1>1. RTypeOK
  BY RInitType DEF Init
<1>2. \A d \in Device : ~Live(d)
  BY DEF Init, RInit, Live
<1>. QED
  BY <1>1, <1>2, CliTypeParts DEF CParts, Init, CliPhase, OneLive, IdleHoldsNothing, ActiveWhenCreated

(* The device a process starts with is one that was never used.             *)
LEMMA StartBegins ==
    ASSUME CInv, NEW p \in Profile, Start(p)
    PROVE  \E d \in Device : (\A e \in Device : ~Live(e)) /\ Begin(d, p)
<1>1. \A e \in Device : ~Live(e)
  BY DEF CInv, IdleHoldsNothing, Start
<1>2. (CHOOSE d \in Device : dev[d] = "none") \in Device
  BY DEF Start
<1>. QED
  BY <1>1, <1>2 DEF Start

(* Every step of the main thread that touches the device is a step of the   *)
(* device.                                                                  *)
LEMMA MainStepsDevice ==
    ASSUME NEW d \in Device, Prepare(d) \/ Create(d) \/ DropDevice(d)
    PROVE  DeviceStep(d)
BY DEF Prepare, Create, DropDevice, DeviceStep

(* A device step that leaves the process running, or ends it with the       *)
(* device closed, keeps the invariant.                                      *)
LEMMA CInvDeviceStep ==
    ASSUME CInv, NEW d \in Device, Live(d), Prepare(d) \/ Create(d) \/ DropDevice(d)
    PROVE  CInv'
<1>1. /\ RTypeOK' /\ OneLive'
      /\ \A e \in Device : e # d => ~Live(e)'
      /\ dev' \in [Device -> Phase]
  BY MainStepsDevice, DeviceStepLive DEF CInv, CliTypeOK
<1>2. /\ main \in CliPhase /\ handler \in BOOLEAN /\ running \in BOOLEAN
      /\ sockIf \in Interface \cup {"unbound"} /\ dev \in [Device -> Phase]
  BY CliTypeParts DEF CParts, RTypeOK
<1>3. CASE Prepare(d)
  <2>1. CASE Probe(d) /\ main' = "create"
    BY <1>1, <1>2, <1>3, <2>1, CliTypeParts
       DEF CParts, Prepare, CliPhase, IdleHoldsNothing, ActiveWhenCreated
  <2>2. CASE Abort(d) /\ main' = "keypress"
    <3>1. ~Live(d)'
      BY <1>2, <2>2 DEF Abort, Live
    <3>. QED
      BY <1>1, <1>2, <1>3, <2>2, <3>1, CliTypeParts
         DEF CParts, Prepare, CliPhase, IdleHoldsNothing, ActiveWhenCreated
  <2>. QED
    BY <1>3, <2>1, <2>2 DEF Prepare
<1>4. CASE Create(d)
  <2>1. /\ UNCHANGED <<handler, running, sockIf>>
        /\ \/ dev'[d] = "active" /\ main' = "handler"
           \/ dev'[d] = "closed" /\ main' = "keypress"
           \/ main' = "create"
    BY <1>4 DEF Create
  <2>2. main' \in CliPhase /\ IdleHoldsNothing' /\ ActiveWhenCreated'
    BY <1>1, <2>1 DEF CliPhase, IdleHoldsNothing, ActiveWhenCreated, Live
  <2>. QED
    BY <1>1, <1>2, <2>1, <2>2, CliTypeParts DEF CParts
<1>5. CASE DropDevice(d)
  <2>1. \/ dev'[d] = "closed" /\ Ended
        \/ main = "drop" /\ UNCHANGED cvars
    BY <1>5 DEF DropDevice
  <2>2. main' \in CliPhase /\ IdleHoldsNothing' /\ ActiveWhenCreated'
    BY <1>1, <2>1 DEF CliPhase, IdleHoldsNothing, ActiveWhenCreated, Live, Ended, cvars
  <2>. QED
    BY <1>1, <1>2, <2>1, <2>2, CliTypeParts DEF CParts, Ended, cvars
<1>. QED
  BY <1>3, <1>4, <1>5

(* Everything else the client does leaves the devices alone, but for the    *)
(* start of a process and its death.                                        *)
LEMMA CInvNext ==
    ASSUME CInv, [Next]_vars
    PROVE  CInv'
<1>1. /\ RTypeOK /\ OneLive /\ main \in CliPhase /\ handler \in BOOLEAN /\ running \in BOOLEAN
      /\ sockIf \in Interface \cup {"unbound"} /\ dev \in [Device -> Phase]
      /\ IdleHoldsNothing /\ ActiveWhenCreated
  BY CliTypeParts DEF CParts, RTypeOK
<1>2. ASSUME UNCHANGED rvars
      PROVE  /\ RTypeOK' /\ OneLive'
             /\ (\A d \in Device : ~Live(d)) => \A d \in Device : ~Live(d)'
             /\ (\E d \in Device : dev[d] = "active") => \E d \in Device : dev'[d] = "active"
  BY <1>1, <1>2 DEF rvars, RTypeOK, OneLive, Live
<1>3. CASE UNCHANGED vars
  BY <1>1, <1>2, <1>3, CliTypeParts DEF CParts, vars, cvars, IdleHoldsNothing, ActiveWhenCreated
<1>4. CASE SetHandler \/ SpawnWorkers \/ Monitor \/ CtrlC \/ KeyPressed
  BY <1>1, <1>2, <1>4, CliTypeParts
     DEF CParts, SetHandler, SpawnWorkers, Monitor, CtrlC, KeyPressed, Ended, CliPhase,
         IdleHoldsNothing, ActiveWhenCreated
<1>5. ASSUME NEW d \in Device, Live(d), BindSocket(d)
      PROVE  CInv'
  <2>1. sockIf' \in Interface \cup {"unbound"}
    <3>1. prof[d] \in Profile
      BY <1>1, <1>5 DEF RTypeOK, Live
    <3>2. table \in SUBSET Row /\ ServerOf[prof[d]] \in Server
      BY <1>1, <3>1, VpnRouteManagerAssumption DEF RTypeOK
    <3>3. BestRows(table, ServerOf[prof[d]]) \subseteq Row
      BY <3>2, BestRowsAreRows
    <3>4. \A row \in Row : row.ifx \in Interface
      BY DEF Row
    <3>. QED
      BY <1>1, <1>5, <3>3, <3>4 DEF BindSocket
  <2>. QED
    BY <1>1, <1>2, <1>5, <2>1, CliTypeParts
       DEF CParts, BindSocket, CliPhase, IdleHoldsNothing, ActiveWhenCreated
<1>6. ASSUME NEW p \in Profile, Start(p)
      PROVE  CInv'
  <2>1. PICK d \in Device : (\A e \in Device : ~Live(e)) /\ Begin(d, p)
    BY <1>6, StartBegins
  <2>2. RTypeOK'
    BY <1>1, <2>1, BeginType
  <2>3. \A e \in Device : e # d => ~Live(e)'
    BY <1>1, <2>1 DEF Begin, Live
  <2>. QED
    BY <1>1, <1>6, <2>2, <2>3, CliTypeParts
       DEF CParts, Start, CliPhase, OneLive, IdleHoldsNothing, ActiveWhenCreated
<1>7. CASE Terminate
  <2>1. RTypeOK' /\ \A d \in Device : ~Live(d)'
    BY <1>1, <1>7, KillType, KillEndsAll DEF Terminate
  <2>. QED
    BY <1>1, <1>7, <2>1, CliTypeParts
       DEF CParts, Terminate, Ended, CliPhase, OneLive, IdleHoldsNothing, ActiveWhenCreated
<1>. QED
  BY <1>3, <1>4, <1>5, <1>6, <1>7, CInvDeviceStep DEF Next, MainStep, Finished

(* The client holds its type invariant whatever fails and whenever it is    *)
(* interrupted.                                                             *)
THEOREM CliTypeCorrect == Spec => []CliTypeOK
<1>1. CInv => CliTypeOK
  BY DEF CInv
<1>. QED
  BY <1>1, CInvInit, CInvNext, PTL DEF Spec

(* The client implements RSpec: its main thread starts a device only when   *)
(* none is alive, drives it through its own steps only, and its end by      *)
(* Ctrl+C before the handler or from outside is the kill of RSpec.          *)
THEOREM ClientImplementsDevices == Spec => RSpec
<1>1. Init => RInit
  BY DEF Init
<1>2. CInv /\ [Next]_vars => [RNext]_rvars
  <2> SUFFICES ASSUME CInv, [Next]_vars PROVE [RNext]_rvars
    OBVIOUS
  <2>1. CASE UNCHANGED vars
    BY <2>1 DEF vars
  <2>2. CASE SetHandler \/ SpawnWorkers \/ Monitor \/ CtrlC \/ KeyPressed
    BY <2>2 DEF SetHandler, SpawnWorkers, Monitor, CtrlC, KeyPressed
  <2>3. ASSUME NEW d \in Device, BindSocket(d) PROVE UNCHANGED rvars
    BY <2>3 DEF BindSocket
  <2>4. ASSUME NEW d \in Device, Prepare(d) \/ Create(d) \/ DropDevice(d) PROVE RNext
    BY <2>4, MainStepsDevice DEF RNext
  <2>5. ASSUME NEW p \in Profile, Start(p) PROVE RNext
    BY <2>5, StartBegins DEF RNext
  <2>6. CASE Terminate
    <3>1. CASE \E d \in Device : Live(d)
      BY <2>6, <3>1 DEF Terminate, RNext
    <3>2. CASE ~\E d \in Device : Live(d)
      <4>1. dev' = dev
        BY <2>6, <3>2 DEF Terminate, Kill, CInv, CliTypeOK, RTypeOK
      <4>. QED
        BY <2>6, <3>2, <4>1 DEF Terminate, Kill, rvars
    <3>. QED
      BY <3>1, <3>2
  <2>. QED
    BY <2>1, <2>2, <2>3, <2>4, <2>5, <2>6 DEF Next, MainStep, Finished
<1>. QED
  BY <1>1, <1>2, CInvInit, CInvNext, PTL DEF Spec, RSpec

(* Hence the command-line client keeps the packets to its server out of the *)
(* tunnel from the moment the host route is in until its removal begins.    *)
THEOREM ClientServerStaysOutside == Spec => []ServerOutsideTunnel
BY ClientImplementsDevices, ServerStaysOutside, PTL

(* and finds the tunnel itself as its physical interface only after a kill. *)
THEOREM ClientProbesOutside == Spec => []TunnelProbedOnlyAfterKill
BY ClientImplementsDevices, TunnelProbedAfterKillOnly, PTL
-----------------------------------------------------------------------------
(* The socket is looked up when the halves are in, so that it is outside    *)
(* rests on ServerOutsideTunnel at that moment.                             *)
SocketOutside ==
    main \in {"spawn", "monitor"} =>
        \A d \in Device :
            dev[d] = "active" /\ physIf[d] = "phys" /\ "host" \notin refused[d] => sockIf = "phys"

LEMMA SocketStep ==
    ASSUME CInv, ServerOutsideTunnel, SocketOutside, [Next]_vars
    PROVE  SocketOutside'
<1>1. OneLive /\ dev \in [Device -> Phase]
  BY CliTypeParts DEF CParts, RTypeOK
<1>2. CASE UNCHANGED vars \/ SpawnWorkers \/ CtrlC
  BY <1>2 DEF vars, rvars, cvars, SpawnWorkers, CtrlC, SocketOutside
<1>3. ASSUME NEW d \in Device, Live(d), BindSocket(d) PROVE SocketOutside'
  <2>1. UNCHANGED rvars /\ \A e \in Device : dev[e] = "active" => e = d
    BY <1>1, <1>3 DEF BindSocket, OneLive, Live
  <2>2. main' = "spawn" => \E row \in BestRows(table, ServerOf[prof[d]]) : sockIf' = row.ifx
    BY <1>3 DEF BindSocket
  <2>3. main' \in {"spawn", "drop"}
    BY <1>3 DEF BindSocket
  <2>4. dev[d] = "active" /\ physIf[d] = "phys" /\ "host" \notin refused[d]
            => \A row \in BestRows(table, ServerOf[prof[d]]) : row.ifx = "phys"
    BY DEF ServerOutsideTunnel
  <2>. QED
    BY <2>1, <2>2, <2>3, <2>4 DEF SocketOutside, rvars
<1>4. ASSUME main' \notin {"spawn", "monitor"} PROVE SocketOutside'
  BY <1>4 DEF SocketOutside
<1>5. ASSUME NEW d \in Device, Prepare(d) \/ Create(d) \/ DropDevice(d)
      PROVE  main' \notin {"spawn", "monitor"}
  BY <1>5 DEF Prepare, Create, DropDevice, Ended, cvars
<1>6. CASE SetHandler \/ Monitor \/ KeyPressed \/ Terminate \/ \E p \in Profile : Start(p)
  BY <1>4, <1>6 DEF SetHandler, Monitor, KeyPressed, Terminate, Start, Ended
<1>. QED
  BY <1>2, <1>3, <1>4, <1>5, <1>6 DEF Next, MainStep, Finished

(* While the main thread monitors, the tunnel captures both halves and its  *)
(* own packets stay outside, for any number of processes before it, however *)
(* they ended.                                                              *)
THEOREM RunningTunnelsIntact == Spec => []RunningTunnelIntact
<1>1. Init => SocketOutside
  BY DEF Init, SocketOutside
<1>2. ServerOutsideTunnel /\ ActiveDeviceCaptures /\ SocketOutside => RunningTunnelIntact
  BY DEF ServerOutsideTunnel, ActiveDeviceCaptures, SocketOutside, RunningTunnelIntact
<1>3. Spec => []ActiveDeviceCaptures
  BY ClientImplementsDevices, ActiveDevicesCapture, PTL
<1>4. CInv /\ ServerOutsideTunnel /\ SocketOutside /\ [Next]_vars => SocketOutside'
  BY SocketStep
<1>. QED
  BY <1>1, <1>2, <1>3, <1>4, CInvInit, CInvNext, ClientServerStaysOutside, PTL DEF Spec
-----------------------------------------------------------------------------
(* Whatever the processes went through, the last one to end leaves the      *)
(* table as the machine had it, but for host routes equal to its rows, when *)
(* none was killed and no half or deletion was refused.                     *)
THEOREM ClientExitLeavesMachine == Spec => []ExitLeavesMachine
<1>1. MInv => ExitLeavesMachine
  <2> SUFFICES ASSUME MInv, \A d \in Device : dev[d] \in {"none", "closed"}
               PROVE  /\ (\A d \in Device : refused[d] \cap {"half", "delete"} = {})
                              => table \subseteq OriginalTable
                      /\ OriginalTable \ table
                              \subseteq {RouteOf(d, 1) : d \in {e \in Device : dev[e] = "closed"}}
    BY DEF ExitLeavesMachine
  <2>1. \A d \in Device : (\A k : ~Owes(d, k)) /\ (Settled(d) => dev[d] = "closed")
    BY DEF Owes, Settled
  <2>2. ASSUME \A d \in Device : refused[d] \cap {"half", "delete"} = {}
        PROVE  table \subseteq OriginalTable
    BY <2>1, <2>2 DEF MInv, Debts, Undisturbed
  <2>. QED
    BY <2>1, <2>2 DEF MInv, Lost
<1>. QED
  BY <1>1, ClientImplementsDevices, RowsAreAccountedFor, PTL

(* A process of the client that runs through heals what killed ones of the  *)
(* same profile left.                                                       *)
THEOREM ClientHealsAfterKill == Spec => []HealsAfterKill
BY ClientImplementsDevices, KillsAreHealed, PTL
=============================================================================
