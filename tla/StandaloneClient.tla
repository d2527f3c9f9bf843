-------------------------- MODULE StandaloneClient --------------------------
(* phobos-client --cli: main.rs run_standalone_cli_mode with                *)
(* StandaloneTunnel::run and stop of tunnel.rs, one process after another.  *)
(* Each process owns one device of VpnRouteManager.  What the workers do    *)
(* while the main thread monitors is the subject of TunnelWorkers.          *)
EXTENDS VpnRouteManager

VARIABLES
    main,       \* where the main thread of the running process is
    handler,    \* whether ctrlc::set_handler has succeeded
    running,    \* StandaloneTunnel.running
    sockIf      \* the interface the tunnel's UDP socket is bound to

cvars == <<main, handler, running, sockIf>>
vars == <<rvars, cvars>>

CliPhase == {"off", "prepare", "create", "keypress", "handler", "socket",
             "spawn", "monitor", "drop"}

Init ==
    /\ RInit
    /\ main = "off"
    /\ handler = FALSE
    /\ running = TRUE
    /\ sockIf = "unbound"

\* The memory of a process goes with it.
Ended == main' = "off" /\ handler' = FALSE /\ running' = TRUE /\ sockIf' = "unbound"

(* A process starts when no other runs; which device it gets makes no       *)
(* difference, so it is the first unused one.                               *)
Start(p) ==
    /\ main = "off"
    /\ \E d \in Device : dev[d] = "none"
    /\ Begin(CHOOSE d \in Device : dev[d] = "none", p)
    /\ main' = "prepare"
    /\ UNCHANGED <<handler, running, sockIf>>

(* Configuration, address, a first socket and its interface: any of them    *)
(* may fail, and the process then waits for a key.                          *)
Prepare(d) ==
    /\ main = "prepare"
    /\ \/ Probe(d) /\ main' = "create"
       \/ Abort(d) /\ main' = "keypress"
    /\ UNCHANGED <<handler, running, sockIf>>

(* WintunDevice::create, whose own failure drops what it had; then the      *)
(* tunnel object exists with running set.                                   *)
Create(d) ==
    /\ main = "create"
    /\ \/ OpenAdapter(d) \/ NewManager(d) \/ InstallRoute(d) \/ InstallRefused(d)
       \/ dev[d] = "failed" /\ BeginRemove(d)
       \/ RemoveRoute(d) \/ Close(d)
    /\ main' = CASE dev'[d] = "active" -> "handler"
                 [] dev'[d] = "closed" -> "keypress"
                 [] OTHER -> "create"
    /\ UNCHANGED <<handler, running, sockIf>>

KeyPressed ==
    /\ main = "keypress"
    /\ Ended
    /\ UNCHANGED rvars

\* A handler that cannot be set is ignored.
SetHandler ==
    /\ main = "handler"
    /\ main' = "socket"
    /\ handler' \in BOOLEAN
    /\ UNCHANGED <<rvars, running, sockIf>>

\* Fault: a socket that could not be bound to the interface is used all the same.
BindSocketFault(d) ==
    /\ main = "socket"
    /\ main' = "spawn"
    /\ \/ \E row \in BestRows(table, ServerOf[prof[d]]) : sockIf' = row.ifx
       \/ UNCHANGED sockIf
    /\ UNCHANGED <<rvars, handler, running>>

(* run asks Windows for the interface once more, now that the halves are    *)
(* in.  Unlike a session of the window it gives up if the address, the      *)
(* socket, the binding to the interface or connect fails.                   *)
BindSocket(d) ==
    /\ main = "socket"
    /\ \/ /\ \E row \in BestRows(table, ServerOf[prof[d]]) : sockIf' = row.ifx
          /\ main' = "spawn"
       \/ main' = "drop" /\ UNCHANGED sockIf
    /\ UNCHANGED <<rvars, handler, running>>

\* A worker that cannot be spawned ends run as well.
SpawnWorkers ==
    /\ main = "spawn"
    /\ main' \in {"monitor", "drop"}
    /\ UNCHANGED <<rvars, handler, running, sockIf>>

\* Fault: the monitor does not look at running.
MonitorFault ==
    /\ main = "monitor"
    /\ UNCHANGED vars

\* The monitor looks at running once a second.
Monitor ==
    /\ main = "monitor"
    /\ ~running
    /\ main' = "drop"
    /\ UNCHANGED <<rvars, handler, running, sockIf>>

\* Fault: the error path of run leaves the process without dropping the device.
DropDeviceFault(d) ==
    /\ main = "drop"
    /\ IF running
       THEN /\ Ended
            /\ dev' = [dev EXCEPT ![d] = "closed"]
            /\ UNCHANGED <<table, adapter, prof, physIf, hop, step, installed, refused>>
       ELSE /\ BeginRemove(d) \/ RemoveRoute(d) \/ Close(d)
            /\ IF dev'[d] = "closed" THEN Ended ELSE UNCHANGED cvars

(* shutdown and the drop of the device, or its drop alone when run returned *)
(* early; then the main thread returns and the process is gone.             *)
DropDevice(d) ==
    /\ main = "drop"
    /\ BeginRemove(d) \/ RemoveRoute(d) \/ Close(d)
    /\ IF dev'[d] = "closed" THEN Ended ELSE UNCHANGED cvars

\* Ctrl+C once the handler is in place: stop.
CtrlC ==
    /\ main # "off" /\ handler
    /\ running' = FALSE
    /\ UNCHANGED <<rvars, main, handler, sockIf>>

\* Ctrl+C before that, or the process is ended from outside.
Terminate ==
    /\ main # "off"
    /\ Kill
    /\ Ended

\* Every process that may run has run.
Finished == main = "off" /\ (\A d \in Device : dev[d] # "none") /\ UNCHANGED vars

MainStep ==
    \/ SetHandler \/ SpawnWorkers \/ Monitor
    \/ \E d \in Device : Live(d) /\ (Prepare(d) \/ Create(d) \/ BindSocket(d) \/ DropDevice(d))

Next ==
    \/ MainStep \/ KeyPressed \/ CtrlC \/ Terminate \/ Finished
    \/ \E p \in Profile : Start(p)

Spec == Init /\ [][Next]_vars

\* The main thread is scheduled; no key, Ctrl+C or end from outside need come.
FairSpec == Spec /\ WF_vars(MainStep)
-----------------------------------------------------------------------------
Runs(d) == Live(d) /\ main # "off"

CliTypeOK ==
    /\ RTypeOK
    /\ main \in CliPhase
    /\ handler \in BOOLEAN /\ running \in BOOLEAN
    /\ sockIf \in Interface \cup {"unbound"}
    /\ \A d, e \in Device : Live(d) /\ Live(e) => d = e
    /\ main = "off" => \A d \in Device : ~Live(d)
    /\ main \in {"handler", "socket", "spawn", "monitor"} => \E d \in Device : dev[d] = "active"

(* While the main thread monitors, both halves lead into an adapter that    *)
(* exists, and unless the host route was refused or a killed process had    *)
(* left its adapter to this one, the tunnel's socket and every packet to    *)
(* the server stay outside (main.rs 129-219, tunnel.rs 51-69).              *)
RunningTunnelIntact ==
    \A d \in Device : main = "monitor" /\ dev[d] = "active" =>
        /\ adapter # "absent"
        /\ \A h \in Half : [ifx |-> "tun", dest |-> h, hop |-> "onlink"] \in table
        /\ physIf[d] = "phys" /\ "host" \notin refused[d] =>
              /\ sockIf = "phys"
              /\ \A row \in BestRows(table, ServerOf[prof[d]]) : row.ifx = "phys"

(* Processes that all ended by themselves, by Ctrl+C, an error or a failed  *)
(* worker, leave no row behind unless a half or a deletion was refused, and *)
(* take no row with them but one equal to a host route of their own:        *)
(* add_ip_route has replaced it and delete_ip_route deletes it              *)
(* (windows_net.rs 628-640, wintun_adapter.rs 152-177).                     *)
ExitLeavesMachine ==
    (main = "off" /\ \A d \in Device : dev[d] \in {"none", "closed"}) =>
        /\ (\A d \in Device : refused[d] \cap {"half", "delete"} = {}) => table \subseteq OriginalTable
        /\ OriginalTable \ table \subseteq {RouteOf(d, 1) : d \in {e \in Device : dev[e] = "closed"}}

(* Once the handler is set Ctrl+C ends the process by itself, wherever in   *)
(* set-up or monitoring it arrives (main.rs 205-208, tunnel.rs 327-357).    *)
CtrlCEnds == main # "off" /\ handler /\ ~running ~> main = "off"
=============================================================================
