---------------------------- MODULE TunnelService ----------------------------
(* tunnel_service.rs with the part of gui.rs that drives it: one window      *)
(* thread that starts and stops tunnels, and one background thread (a        *)
(* session) per call of start, all sharing the status, the active profile's *)
(* name, the statistics and one stop signal.  A session owns one device of   *)
(* VpnRouteManager, so sessions also meet in the forwarding table.           *)
EXTENDS VpnRouteManager

CONSTANTS
    MaxPolls,      \* how often start looks again at a session it waits for (40)
    SlowSessions   \* bound: whether a session may outlast those looks

ASSUME TunnelServiceAssumption ==
    /\ MaxPolls \in Nat
    /\ SlowSessions \in BOOLEAN
    /\ "default" \notin Device
    /\ None \notin Device

VARIABLES
    status,      \* status
    activeName,  \* active_profile_name
    stopSignal,  \* stop_signal
    stats,       \* stats: the session that wrote them, or "default"
    pc,          \* where each session's thread is
    sockIf,      \* the interface the session's UDP socket is bound to
    handshake,   \* of each session, "logged" once handshake_logged is set
    gui,         \* where the window thread is
    want,        \* local: the profile the button was pressed for
    seen,        \* local: the active name read before the status
    polls,       \* local: the looks start has taken
    expired,     \* history: start once gave up waiting
    solo         \* history: the session that has had the machine to itself

svars == <<status, activeName, stopSignal, stats>>
wvars == <<pc, sockIf, handshake>>
gvars == <<gui, want, seen, polls, expired, solo>>
vars == <<rvars, svars, wvars, gvars>>

Status == {"Disconnected", "Connecting", "Connected", "Error"}
\* Fault: a tunnel that is still connecting does not count.
IsActiveFault == status = "Connected"
IsActive == status \in {"Connecting", "Connected"}

Monitored == {"announce", "check", "sample", "stats"}
\* A session that has still to write its last status, Disconnected or Error.
ReportingAt == {"prepare", "create", "socket", "shutdown", "join", "disconnected", "fail"}
                   \cup Monitored
Reporting(s) == pc[s] \in ReportingAt
SessionPhase == {"unborn", "forget", "drop", "done", "killed"} \cup ReportingAt
\* start is between its first write and the spawn of the session.
Committed == {"name", "status", "stats", "spawn"}
GuiPhase == {"idle", "toggle", "start", "poll", "clear", "closing", "exiting", "exited"} \cup Committed

Init ==
    /\ RInit
    /\ status = "Disconnected"
    /\ activeName = None
    /\ stopSignal = FALSE
    /\ stats = "default"
    /\ pc = [s \in Device |-> "unborn"]
    /\ sockIf = [s \in Device |-> "unbound"]
    /\ handshake = [s \in Device |-> "pending"]
    /\ gui = "idle"
    /\ want = None
    /\ seen = None
    /\ polls = 0
    /\ expired = FALSE
    /\ solo = None
-----------------------------------------------------------------------------
(* The window thread.                                                       *)

\* ID_BTN_TOGGLE copies the active name and then, under another lock, the status.
PressToggle(p) ==
    /\ gui = "idle"
    /\ gui' = "toggle"
    /\ want' = p
    /\ seen' = activeName
    /\ UNCHANGED <<rvars, svars, wvars, polls, expired, solo>>

Toggle ==
    /\ gui = "toggle"
    /\ seen' = None
    /\ IF seen = want /\ status # "Disconnected"
       THEN gui' = "idle" /\ want' = None /\ stopSignal' = TRUE
       ELSE /\ UNCHANGED stopSignal
            \* Bound: nothing is started once every session has been used.
            /\ IF \E s \in Device : pc[s] = "unborn"
               THEN gui' = "start" /\ UNCHANGED want
               ELSE gui' = "idle" /\ want' = None
    /\ UNCHANGED <<rvars, status, activeName, stats, wvars, polls, expired, solo>>

\* ID_BTN_DELETE stops the tunnel of the profile it deletes.
PressDelete(p) ==
    /\ gui = "idle"
    /\ activeName = p
    /\ stopSignal' = TRUE
    /\ UNCHANGED <<rvars, status, activeName, stats, wvars, gvars>>

\* Fault: start waits for the running session without stopping it.
StartCheckFault ==
    /\ gui = "start"
    /\ gui' = IF IsActive THEN "poll" ELSE "clear"
    /\ UNCHANGED <<rvars, svars, wvars, want, seen, polls, expired, solo>>

StartCheck ==
    /\ gui = "start"
    /\ IF IsActive
       THEN gui' = "poll" /\ stopSignal' = TRUE
       ELSE gui' = "clear" /\ UNCHANGED stopSignal
    /\ UNCHANGED <<rvars, status, activeName, stats, wvars, want, seen, polls, expired, solo>>

\* Fault: one look too many.
PollFault ==
    /\ gui = "poll"
    /\ IF polls <= MaxPolls /\ IsActive
       THEN polls' = polls + 1 /\ UNCHANGED <<gui, expired>>
       ELSE gui' = "clear" /\ polls' = 0 /\ expired' = (expired \/ IsActive)
    /\ UNCHANGED <<rvars, svars, wvars, want, seen, solo>>

(* start waits for the status, not for the thread, and after its last look  *)
(* it goes on whatever the status is.                                       *)
Poll ==
    /\ gui = "poll"
    /\ IF polls < MaxPolls /\ IsActive
       THEN polls' = polls + 1 /\ UNCHANGED <<gui, expired>>
       ELSE /\ IsActive => SlowSessions
            /\ gui' = "clear"
            /\ expired' = (expired \/ IsActive)
            /\ polls' = 0
    /\ UNCHANGED <<rvars, svars, wvars, want, seen, solo>>

ClearStop ==
    /\ gui = "clear"
    /\ gui' = "name"
    /\ stopSignal' = FALSE
    /\ UNCHANGED <<rvars, status, activeName, stats, wvars, want, seen, polls, expired, solo>>

SetName ==
    /\ gui = "name"
    /\ gui' = "status"
    /\ activeName' = want
    /\ UNCHANGED <<rvars, status, stopSignal, stats, wvars, want, seen, polls, expired, solo>>

SetConnecting ==
    /\ gui = "status"
    /\ gui' = "stats"
    /\ status' = "Connecting"
    /\ UNCHANGED <<rvars, activeName, stopSignal, stats, wvars, want, seen, polls, expired, solo>>

\* Fault: the new tunnel inherits the figures of the last one.
ResetStatsFault ==
    /\ gui = "stats"
    /\ gui' = "spawn"
    /\ UNCHANGED <<rvars, svars, wvars, want, seen, polls, expired, solo>>

ResetStats ==
    /\ gui = "stats"
    /\ gui' = "spawn"
    /\ stats' = "default"
    /\ UNCHANGED <<rvars, status, activeName, stopSignal, wvars, want, seen, polls, expired, solo>>

Spawn(s) ==
    /\ gui = "spawn"
    /\ gui' = "idle"
    /\ pc[s] = "unborn"
    /\ pc' = [pc EXCEPT ![s] = "prepare"]
    /\ Begin(s, want)
    /\ solo' = IF (\A t \in Device : pc[t] \in {"unborn", "done"}) /\ table = OriginalTable
               THEN s ELSE None
    /\ want' = None
    /\ UNCHANGED <<svars, sockIf, handshake, seen, polls, expired>>

\* WM_CLOSE; the pause that follows a stop is any number of other steps.
CloseWindow ==
    /\ gui = "idle"
    /\ gui' = "closing"
    /\ stopSignal' = (stopSignal \/ IsActive)
    /\ UNCHANGED <<rvars, status, activeName, stats, wvars, want, seen, polls, expired, solo>>

\* WM_DESTROY, and what run_gui does when the message loop has ended.
DestroyWindow ==
    /\ gui = "closing"
    /\ gui' = "exiting"
    /\ stopSignal' = TRUE
    /\ UNCHANGED <<rvars, status, activeName, stats, wvars, want, seen, polls, expired, solo>>

\* The process ends, and its sessions with it, wherever they are.
ExitProcess ==
    /\ gui = "exiting"
    /\ gui' = "exited"
    /\ Kill
    /\ pc' = [s \in Device |-> IF pc[s] \in {"unborn", "done"} THEN pc[s] ELSE "killed"]
    /\ UNCHANGED <<svars, sockIf, handshake, want, seen, polls, expired, solo>>
-----------------------------------------------------------------------------
(* A session: the thread spawned by start.                                  *)

Goto(s, phase) == pc' = [pc EXCEPT ![s] = phase]

\* Parse, resolve, and find the physical interface.
Prepare(s) ==
    /\ pc[s] = "prepare"
    /\ \/ Probe(s) /\ Goto(s, "create")
       \/ Abort(s) /\ Goto(s, "fail")
    /\ UNCHANGED <<svars, sockIf, handshake, gvars>>

\* WintunDevice::create; on an error it drops what it made before returning.
Create(s) ==
    /\ pc[s] = "create"
    /\ \/ OpenAdapter(s)
       \/ NewManager(s)
       \/ InstallRoute(s)
       \/ InstallRefused(s)
       \/ dev[s] = "failed" /\ BeginRemove(s)
       \/ Close(s)
    /\ Goto(s, CASE dev'[s] = "active" -> "socket"
                 [] dev'[s] = "closed" -> "fail"
                 [] OTHER -> "create")
    /\ UNCHANGED <<svars, sockIf, handshake, gvars>>

(* The UDP socket: failing to bind or to connect it ends the session, while *)
(* a refused IP_UNICAST_IF is ignored and leaves it to the routing table.   *)
OpenSocket(s) ==
    /\ pc[s] = "socket"
    /\ \/ Goto(s, "fail") /\ UNCHANGED sockIf
       \/ /\ Goto(s, "announce")
          /\ \/ \E row \in BestRows(table, ServerOf[prof[s]]) :
                   sockIf' = [sockIf EXCEPT ![s] = row.ifx]
             \/ UNCHANGED sockIf
    /\ UNCHANGED <<rvars, svars, handshake, gvars>>

\* Fault: the tunnel counts as connected as soon as the handshake is sent.
AnnounceFault(s) ==
    /\ pc[s] = "announce"
    /\ Goto(s, "check")
    /\ status' = "Connected"
    /\ UNCHANGED <<rvars, activeName, stopSignal, stats, sockIf, handshake, gvars>>

\* The initial handshake is sent, and Connecting written a second time.
Announce(s) ==
    /\ pc[s] = "announce"
    /\ Goto(s, "check")
    /\ status' = "Connecting"
    /\ UNCHANGED <<rvars, activeName, stopSignal, stats, sockIf, handshake, gvars>>

\* Fault: the monitor never looks at the stop signal.
CheckStopFault(s) ==
    /\ pc[s] = "check"
    /\ Goto(s, "sample")
    /\ UNCHANGED <<rvars, svars, sockIf, handshake, gvars>>

CheckStop(s) ==
    /\ pc[s] = "check"
    /\ Goto(s, IF stopSignal THEN "shutdown" ELSE "sample")
    /\ UNCHANGED <<rvars, svars, sockIf, handshake, gvars>>

\* The workers take the server's answer.
CompleteHandshake(s) ==
    /\ pc[s] \in {"check", "sample", "stats"}
    /\ handshake[s] = "pending"
    /\ handshake' = [handshake EXCEPT ![s] = "complete"]
    /\ UNCHANGED <<rvars, svars, pc, sockIf, gvars>>

\* The monitor wakes from its sleep; it does not look at the stop signal again.
Sample(s) ==
    /\ pc[s] = "sample"
    /\ Goto(s, "stats")
    /\ IF handshake[s] = "complete"
       THEN /\ status' = "Connected"
            /\ handshake' = [handshake EXCEPT ![s] = "logged"]
       ELSE UNCHANGED <<status, handshake>>
    /\ UNCHANGED <<rvars, activeName, stopSignal, stats, sockIf, gvars>>

WriteStats(s) ==
    /\ pc[s] = "stats"
    /\ Goto(s, "check")
    /\ stats' = s
    /\ UNCHANGED <<rvars, status, activeName, stopSignal, sockIf, handshake, gvars>>

(* WintunDevice::shutdown, which ends worker 1.  The other two have seen    *)
(* the stop signal by now, or have still to see it.                         *)
Shutdown(s) ==
    /\ pc[s] = "shutdown"
    /\ BeginRemove(s) \/ RemoveRoute(s)
    /\ \E next \in {"disconnected", "join"} :
          Goto(s, IF dev'[s] = "removed" THEN next ELSE "shutdown")
    /\ UNCHANGED <<svars, sockIf, handshake, gvars>>

\* While a later start has the signal cleared, workers 2 and 3 go on.
Join(s) ==
    /\ pc[s] = "join" /\ stopSignal
    /\ Goto(s, "disconnected")
    /\ UNCHANGED <<rvars, svars, sockIf, handshake, gvars>>

\* Fault: an error path returns without writing the status.
ReportFault(s) ==
    /\ \/ pc[s] = "disconnected" /\ status' = "Disconnected"
       \/ pc[s] = "fail" /\ UNCHANGED status
    /\ Goto(s, "forget")
    /\ UNCHANGED <<rvars, activeName, stopSignal, stats, sockIf, handshake, gvars>>

Report(s) ==
    /\ \/ pc[s] = "disconnected" /\ status' = "Disconnected"
       \/ pc[s] = "fail" /\ status' = "Error"
    /\ Goto(s, "forget")
    /\ UNCHANGED <<rvars, activeName, stopSignal, stats, sockIf, handshake, gvars>>

\* The name is cleared after the status, whoever's name it is by then.
Forget(s) ==
    /\ pc[s] = "forget"
    /\ Goto(s, "drop")
    /\ activeName' = None
    /\ UNCHANGED <<rvars, status, stopSignal, stats, sockIf, handshake, gvars>>

\* The end of the closure drops the device, if there is one, and its locals.
Drop(s) ==
    /\ pc[s] = "drop"
    /\ \/ dev[s] = "closed" /\ UNCHANGED rvars
       \/ BeginRemove(s)
       \/ RemoveRoute(s)
       \/ Close(s)
    /\ IF dev'[s] = "closed"
       THEN /\ Goto(s, "done")
            /\ sockIf' = [sockIf EXCEPT ![s] = "unbound"]
            /\ handshake' = [handshake EXCEPT ![s] = "pending"]
       ELSE UNCHANGED <<pc, sockIf, handshake>>
    /\ UNCHANGED <<svars, gvars>>
-----------------------------------------------------------------------------
SessionStep(s) ==
    \/ Prepare(s) \/ Create(s) \/ OpenSocket(s) \/ Announce(s)
    \/ CheckStop(s) \/ Sample(s) \/ WriteStats(s)
    \/ Shutdown(s) \/ Join(s) \/ Report(s) \/ Forget(s) \/ Drop(s)

\* What the window thread does by itself once the user has pressed something.
GuiStep ==
    \/ Toggle \/ StartCheck \/ Poll \/ ClearStop \/ SetName \/ SetConnecting \/ ResetStats
    \/ \E s \in Device : Spawn(s)
    \/ DestroyWindow \/ ExitProcess

UserStep ==
    \/ \E p \in Profile : PressToggle(p) \/ PressDelete(p)
    \/ CloseWindow

Exited == gui = "exited" /\ UNCHANGED vars

Next ==
    \/ UserStep
    \/ GuiStep
    \/ \E s \in Device : SessionStep(s) \/ CompleteHandshake(s)
    \/ Exited

Spec == Init /\ [][Next]_vars

(* Windows schedules every thread; the window thread runs a handler to its  *)
(* end.  Nothing is promised of the user or of the server's answer.         *)
FairSpec == Spec /\ WF_vars(GuiStep) /\ \A s \in Device : WF_vars(SessionStep(s))
-----------------------------------------------------------------------------
TypeOK ==
    /\ RTypeOK
    /\ status \in Status
    /\ activeName \in Profile \cup {None}
    /\ stopSignal \in BOOLEAN
    /\ stats \in Device \cup {"default"}
    /\ pc \in [Device -> SessionPhase]
    /\ sockIf \in [Device -> Interface \cup {"unbound"}]
    /\ handshake \in [Device -> {"pending", "complete", "logged"}]
    /\ gui \in GuiPhase
    /\ want \in Profile \cup {None}
    /\ gui \in {"toggle", "start", "poll", "clear"} \cup Committed => want \in Profile
    /\ seen \in Profile \cup {None}
    /\ polls \in 0 .. MaxPolls
    /\ expired \in BOOLEAN
    /\ solo \in Device \cup {None}

(* is_active is what start waits on: while it says yes there is a thread    *)
(* that will yet say no, even when sessions overlap after an expired wait;  *)
(* otherwise the window would show a tunnel nobody runs, and every later    *)
(* start would wait in vain.  Only the end of the process cuts this short.  *)
ActiveHasReporter ==
    IsActive => gui \in {"stats", "spawn", "exited"} \/ \E s \in Device : Reporting(s)

(* The window says Connected only while a session whose handshake completed *)
(* is still there to take it back.                                          *)
ConnectedHasHandshake ==
    status = "Connected" /\ gui # "exited"
        => \E s \in Device : Reporting(s) /\ handshake[s] = "logged"

(* Unless the wait in start expired, at most one session at a time still    *)
(* has a status to report, and none does when start clears the shared stop  *)
(* signal and writes the new tunnel's name and status.                      *)
NoOverlap ==
    ~expired =>
        /\ \A s, t \in Device : Reporting(s) /\ Reporting(t) => s = t
        /\ gui \in {"clear"} \cup Committed => \A s \in Device : ~Reporting(s)

(* Unless the wait expired, the statistics on display are those of the      *)
(* session that is running or the empty ones, never an earlier tunnel's.    *)
StatsOfCurrentSession ==
    ~expired => \A s \in Device : Reporting(s) => stats \in {"default", s}

(* A session that has the machine to itself has both halves in its own      *)
(* adapter while it is monitored, and its encrypted packets leave by the    *)
(* physical interface, unless adding the host route was refused.            *)
SoloTunnelIntact ==
    \A s \in Device : solo = s /\ pc[s] \in Monitored =>
        /\ adapter = s
        /\ \A h \in Half : [ifx |-> "tun", dest |-> h, hop |-> "onlink"] \in table
        /\ "host" \notin refused[s] =>
              /\ sockIf[s] # "tun"
              /\ \A row \in BestRows(table, ServerOf[prof[s]]) : row.ifx = "phys"

(* When such a session has reported Disconnected, the forwarding table is   *)
(* the original one, unless Windows refused to delete a row; a row equal to *)
(* the host route was there for both, and went with it.                     *)
RestoredWhenDisconnected ==
    \A s \in Device :
        solo = s /\ pc[s] = "forget" /\ status = "Disconnected" /\ "delete" \notin refused[s]
            => table \subseteq OriginalTable /\ OriginalTable \ table \subseteq {RouteOf(s, 1)}

(* The monitor loop and the waits of the workers are bounded, so a session  *)
(* that a stop reaches gives its device back and ends, unless a new start   *)
(* clears the signal first.                                                 *)
StopHonoured ==
    \A s \in Device :
        stopSignal /\ pc[s] \notin {"unborn", "done", "killed"}
            ~> ~stopSignal \/ pc[s] \in {"done", "killed"}

\* start, called on the window thread, returns: the window does not hang.
StartReturns == (gui = "start") ~> (gui = "idle")

ShownPhase ==
    CASE gui = "exited" -> "exited"
      [] gui # "exited" /\ expired -> "overrun"
      [] gui # "exited" /\ ~expired /\ status = "Connecting" -> "connecting"
      [] gui # "exited" /\ ~expired /\ status = "Connected" -> "connected"
      [] OTHER -> "down"
Running == {s \in Device : Reporting(s)}

(* What the window shows of the tunnel follows TunnelLifecycle: under this  *)
(* mapping every step of the window thread and of the sessions is a step of *)
(* it or none.                                                              *)
Lifecycle == INSTANCE TunnelLifecycle WITH
    Session <- Device, phase <- ShownPhase, running <- Running

RefinesLifecycle == Lifecycle!LSpec

(* The comment at tunnel_service.rs:66, "Disconnect existing if any and     *)
(* wait for previous session to terminate": the stop signal is cleared only *)
(* when every previous session has reported its end.                        *)
PreviousSessionTerminated ==
    [][stopSignal /\ ~stopSignal' => \A s \in Device : ~Reporting(s)]_vars

(* README.md:42 promises the list of tunnels with the status of the         *)
(* connection: while one session runs, connected, the window can tell which *)
(* profile it belongs to.                                                   *)
ConnectedProfileShown ==
    status = "Connected" /\ ~expired => activeName # None

(* README.md:87-88, the UDP socket is "Привязан к физическому шлюзу по      *)
(* IP_UNICAST_IF" (bound to the physical gateway): a monitored session that *)
(* is alone does not send its encrypted packets back into the tunnel.       *)
SocketOnPhysicalInterface ==
    \A s \in Device : solo = s /\ pc[s] \in Monitored => sockIf[s] # "tun"
=============================================================================
