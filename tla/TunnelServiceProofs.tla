------------------------- MODULE TunnelServiceProofs -------------------------
(* Proofs about TunnelService, for any number of sessions and profiles, any *)
(* patience of start and any calls of Windows that may be refused.          *)
EXTENDS TunnelService, VpnRouteManagerProofs

USE TunnelServiceAssumption

LEMMA RTypeStutters ==
    ASSUME RTypeOK, UNCHANGED rvars
    PROVE  RTypeOK'
BY DEF RTypeOK, rvars

(* What a session does to its device is a step of VpnRouteManager or none.  *)
LEMMA SessionMovesDevice ==
    ASSUME NEW s \in Device, SessionStep(s) \/ CompleteHandshake(s)
    PROVE  DeviceStep(s) \/ UNCHANGED rvars
<1>1. CASE Prepare(s)
  BY <1>1 DEF Prepare, DeviceStep
<1>2. CASE Create(s)
  BY <1>2 DEF Create, DeviceStep
<1>3. CASE Shutdown(s) \/ Drop(s)
  BY <1>3 DEF Shutdown, Drop, DeviceStep
<1>4. CASE OpenSocket(s) \/ Announce(s) \/ CheckStop(s) \/ Sample(s) \/ WriteStats(s)
           \/ Join(s) \/ Report(s) \/ Forget(s) \/ CompleteHandshake(s)
  BY <1>4 DEF OpenSocket, Announce, CheckStop, Sample, WriteStats, Join, Report, Forget,
              CompleteHandshake
<1>. QED
  BY <1>1, <1>2, <1>3, <1>4 DEF SessionStep

(* The steps of the window thread keep the type invariant,                  *)
LEMMA WindowType ==
    ASSUME TypeOK, UserStep \/ GuiStep \/ Exited
    PROVE  TypeOK'
<1>1. CASE \E p \in Profile : PressToggle(p) \/ PressDelete(p)
  BY <1>1, RTypeStutters DEF TypeOK, PressToggle, PressDelete, GuiPhase, Committed,
                             svars, wvars, gvars
<1>2. CASE Toggle \/ StartCheck
  BY <1>2, RTypeStutters DEF TypeOK, Toggle, StartCheck, GuiPhase, Committed, svars, wvars
<1>3. CASE Poll
  <2>1. polls' \in 0 .. MaxPolls
    BY <1>3 DEF Poll, TypeOK
  <2>2. gui' \in {"poll", "clear"} /\ gui = "poll" /\ expired' \in BOOLEAN
    <3>1. CASE polls < MaxPolls /\ IsActive
      BY <1>3, <3>1 DEF Poll, TypeOK
    <3>2. CASE ~(polls < MaxPolls /\ IsActive)
      <4>1. expired' = (expired \/ IsActive) /\ gui' = "clear" /\ gui = "poll"
        BY <1>3, <3>2 DEF Poll
      <4>2. (expired \/ IsActive) \in BOOLEAN
        OBVIOUS
      <4>. QED
        BY <4>1, <4>2
    <3>. QED
      BY <3>1, <3>2
  <2>. QED
    BY <1>3, <2>1, <2>2, RTypeStutters DEF TypeOK, Poll, GuiPhase, svars, wvars
<1>4. CASE ClearStop \/ SetName \/ SetConnecting \/ ResetStats
  BY <1>4, RTypeStutters DEF TypeOK, ClearStop, SetName, SetConnecting, ResetStats,
                             GuiPhase, Committed, Status, svars, wvars
<1>5. ASSUME NEW s \in Device, Spawn(s) PROVE TypeOK'
  <2>1. RTypeOK'
    BY <1>5, BeginType DEF TypeOK, Spawn, Committed
  <2>2. /\ gui' = "idle" /\ want' = None
        /\ pc' = [pc EXCEPT ![s] = "prepare"]
        /\ solo' \in Device \cup {None}
        /\ UNCHANGED <<svars, sockIf, handshake, seen, polls, expired>>
    BY <1>5 DEF Spawn
  <2>. QED
    BY <2>1, <2>2 DEF TypeOK, GuiPhase, Committed, SessionPhase, ReportingAt, svars
<1>6. CASE CloseWindow \/ DestroyWindow
  <2>1. stopSignal' \in BOOLEAN
    <3>1. (stopSignal \/ IsActive) \in BOOLEAN
      OBVIOUS
    <3>. QED
      BY <1>6, <3>1 DEF CloseWindow, DestroyWindow
  <2>2. gui' \in {"closing", "exiting"} /\ UNCHANGED rvars
        /\ UNCHANGED <<status, activeName, stats, wvars, want, seen, polls, expired, solo>>
    BY <1>6 DEF CloseWindow, DestroyWindow
  <2>. QED
    BY <2>1, <2>2, RTypeStutters DEF TypeOK, GuiPhase, Committed, wvars
<1>7. CASE ExitProcess
  <2>1. RTypeOK'
    BY <1>7, KillType DEF TypeOK, ExitProcess
  <2>2. pc' \in [Device -> SessionPhase]
    BY <1>7 DEF TypeOK, ExitProcess, SessionPhase
  <2>. QED
    BY <1>7, <2>1, <2>2 DEF TypeOK, ExitProcess, GuiPhase, Committed, svars
<1>8. CASE Exited
  BY <1>8, RTypeStutters DEF Exited, vars, TypeOK, svars, wvars, gvars
<1>. QED
  BY <1>1, <1>2, <1>3, <1>4, <1>5, <1>6, <1>7, <1>8 DEF UserStep, GuiStep

(* and so do those of the sessions.                                         *)
LEMMA SessionType ==
    ASSUME TypeOK, NEW s \in Device, SessionStep(s) \/ CompleteHandshake(s)
    PROVE  TypeOK'
<1>1. RTypeOK'
  BY SessionMovesDevice, DeviceStepType, RTypeStutters DEF TypeOK
<1>2. UNCHANGED <<gui, want, seen, polls, expired, solo, stopSignal>>
  BY DEF SessionStep, Prepare, Create, OpenSocket, Announce, CheckStop, CompleteHandshake,
         Sample, WriteStats, Shutdown, Join, Report, Forget, Drop, svars, gvars
<1>3. pc' \in [Device -> SessionPhase]
  BY DEF TypeOK, SessionStep, Prepare, Create, OpenSocket, Announce, CheckStop,
         CompleteHandshake, Sample, WriteStats, Shutdown, Join, Report, Forget, Drop, Goto,
         SessionPhase, ReportingAt, Monitored
<1>4. status' \in Status /\ activeName' \in Profile \cup {None} /\ stats' \in Device \cup {"default"}
  BY DEF TypeOK, SessionStep, Prepare, Create, OpenSocket, Announce, CheckStop,
         CompleteHandshake, Sample, WriteStats, Shutdown, Join, Report, Forget, Drop, svars, Status
<1>5. handshake' \in [Device -> {"pending", "complete", "logged"}]
  BY DEF TypeOK, SessionStep, Prepare, Create, OpenSocket, Announce, CheckStop,
         CompleteHandshake, Sample, WriteStats, Shutdown, Join, Report, Forget, Drop
<1>6. sockIf' \in [Device -> Interface \cup {"unbound"}]
  <2>1. CASE OpenSocket(s)
    <3>1. \A row \in BestRows(table, ServerOf[prof[s]]) : row \in table
      BY DEF BestRows, RowsTo
    <3>2. \A row \in table : row.ifx \in Interface
      BY DEF TypeOK, RTypeOK, Row
    <3>3. CASE UNCHANGED sockIf
      BY <3>3 DEF TypeOK
    <3>4. CASE \E row \in BestRows(table, ServerOf[prof[s]]) :
                  sockIf' = [sockIf EXCEPT ![s] = row.ifx]
      BY <3>1, <3>2, <3>4 DEF TypeOK
    <3>. QED
      BY <2>1, <3>3, <3>4 DEF OpenSocket
  <2>2. CASE ~OpenSocket(s)
    BY <2>2 DEF TypeOK, SessionStep, Prepare, Create, Announce, CheckStop,
                CompleteHandshake, Sample, WriteStats, Shutdown, Join, Report, Forget, Drop
  <2>. QED
    BY <2>1, <2>2
<1>. QED
  BY <1>1, <1>2, <1>3, <1>4, <1>5, <1>6 DEF TypeOK

(* Whatever the user presses and however threads and faults interleave, the *)
(* type invariant holds.                                                    *)
THEOREM TypeCorrect == Spec => []TypeOK
<1>1. Init => TypeOK
  <2> SUFFICES ASSUME Init PROVE TypeOK
    OBVIOUS
  <2>1. RTypeOK /\ polls \in 0 .. MaxPolls
    BY RInitType DEF Init
  <2>2. stopSignal \in BOOLEAN /\ expired \in BOOLEAN
    BY DEF Init
  <2>3. /\ gui \in GuiPhase /\ status \in Status
        /\ gui \notin {"toggle", "start", "poll", "clear"} \cup Committed
    BY DEF Init, GuiPhase, Status, Committed
  <2>4. /\ pc \in [Device -> SessionPhase]
        /\ sockIf \in [Device -> Interface \cup {"unbound"}]
        /\ handshake \in [Device -> {"pending", "complete", "logged"}]
    BY DEF Init, SessionPhase
  <2>. QED
    BY <2>1, <2>2, <2>3, <2>4 DEF Init, TypeOK
<1>2. TypeOK /\ [Next]_vars => TypeOK'
  <2> SUFFICES ASSUME TypeOK, [Next]_vars PROVE TypeOK'
    OBVIOUS
  <2>1. CASE UNCHANGED vars
    BY <2>1, RTypeStutters DEF vars, svars, wvars, gvars, TypeOK
  <2>2. CASE Next
    BY <2>2, WindowType, SessionType DEF Next
  <2>. QED
    BY <2>1, <2>2
<1>. QED
  BY <1>1, <1>2, PTL DEF Spec
-----------------------------------------------------------------------------
(* What a step of a session can do to what it shares, in five kinds.        *)

SetupPhase == {"prepare", "create", "socket", "announce"}

StaysQuiet(s) ==
    /\ UNCHANGED <<status, stats>>
    /\ Reporting(s)' <=> Reporting(s)
    /\ Reporting(s) /\ handshake[s] = "logged" => handshake'[s] = "logged"
    /\ pc'[s] \in SetupPhase => pc[s] \in SetupPhase
Announces(s) ==
    /\ pc[s] = "announce" /\ pc'[s] = "check"
    /\ status' = "Connecting" /\ UNCHANGED <<stats, handshake>>
Connects(s) ==
    /\ pc[s] = "sample" /\ pc'[s] = "stats"
    /\ status' = "Connected" /\ handshake'[s] = "logged" /\ UNCHANGED stats
Counts(s) ==
    /\ pc[s] = "stats" /\ pc'[s] = "check"
    /\ stats' = s /\ UNCHANGED <<status, handshake>>
Reports(s) ==
    /\ Reporting(s) /\ pc'[s] = "forget"
    /\ status' \in {"Disconnected", "Error"} /\ UNCHANGED stats

LEMMA SessionEffect ==
    ASSUME TypeOK, NEW s \in Device, SessionStep(s) \/ CompleteHandshake(s)
    PROVE  /\ UNCHANGED <<gui, expired>>
           /\ \A t \in Device : t # s => pc'[t] = pc[t] /\ handshake'[t] = handshake[t]
           /\ StaysQuiet(s) \/ Announces(s) \/ Connects(s) \/ Counts(s) \/ Reports(s)
<1>. USE DEF Goto, ReportingAt, Monitored, Reporting, SetupPhase
<1>0. pc \in [Device -> SessionPhase]
      /\ handshake \in [Device -> {"pending", "complete", "logged"}]
  BY DEF TypeOK
<1>1. CASE Prepare(s) \/ Create(s) \/ OpenSocket(s) \/ CheckStop(s) \/ Shutdown(s)
           \/ Join(s)
  BY <1>0, <1>1 DEF Prepare, Create, OpenSocket, CheckStop, Shutdown, Join, svars, gvars, StaysQuiet
<1>2. CASE CompleteHandshake(s) \/ Forget(s) \/ Drop(s)
  BY <1>0, <1>2 DEF CompleteHandshake, Forget, Drop, svars, gvars, StaysQuiet
<1>3. CASE Announce(s)
  BY <1>0, <1>3 DEF Announce, gvars, Announces
<1>4. CASE Sample(s)
  BY <1>0, <1>4 DEF Sample, gvars, Connects, StaysQuiet
<1>5. CASE WriteStats(s)
  BY <1>0, <1>5 DEF WriteStats, gvars, Counts
<1>6. CASE Report(s)
  BY <1>0, <1>6 DEF Report, gvars, Reports
<1>. QED
  BY <1>1, <1>2, <1>3, <1>4, <1>5, <1>6 DEF SessionStep

(* The steps of the window thread that neither write the status nor change  *)
(* which sessions there are.                                                *)
WindowOnly ==
    /\ UNCHANGED <<status, stats, pc, handshake>>
    /\ gui' \in {"idle", "toggle", "start", "poll", "closing", "exiting"}
    /\ expired' = expired

LEMMA WindowEffect ==
    ASSUME UserStep \/ Toggle \/ DestroyWindow
    PROVE  WindowOnly
BY DEF UserStep, PressToggle, PressDelete, Toggle, CloseWindow, DestroyWindow,
       WindowOnly, svars, wvars, gvars
-----------------------------------------------------------------------------
(* NoOverlap is not inductive: that start may commit itself once the status *)
(* is inactive needs every session with a status to report to be shown as   *)
(* active, and that in turn needs sessions not to overwrite one another.    *)
OneSession ==
    /\ \A s, t \in Device : Reporting(s) /\ Reporting(t) => s = t
    /\ gui \in {"clear"} \cup Committed => \A s \in Device : ~Reporting(s)
    /\ \A s \in Device : Reporting(s) => IsActive
    /\ \A s \in Device : pc[s] \in SetupPhase => status = "Connecting"
    /\ gui \in {"stats", "spawn"} => status = "Connecting"
    /\ gui = "spawn" => stats = "default"
    /\ \A s \in Device : Reporting(s) => stats \in {"default", s}

OverlapInv == ~expired => OneSession

LEMMA OverlapSession ==
    ASSUME TypeOK, OverlapInv, NEW s \in Device, SessionStep(s) \/ CompleteHandshake(s)
    PROVE  OverlapInv'
<1> SUFFICES ASSUME ~expired PROVE OneSession'
  BY SessionEffect DEF OverlapInv
<1>1. OneSession
  BY DEF OverlapInv
<1>2. /\ UNCHANGED <<gui, expired>>
      /\ \A t \in Device : t # s => pc'[t] = pc[t] /\ handshake'[t] = handshake[t]
  BY SessionEffect
<1>3. CASE StaysQuiet(s)
  BY <1>1, <1>2, <1>3 DEF OneSession, StaysQuiet, Reporting, IsActive
<1>. USE DEF Reporting, ReportingAt, Monitored, SetupPhase
<1>4. CASE Announces(s) \/ Connects(s) \/ Counts(s)
  <2>1. Reporting(s) /\ Reporting(s)' /\ pc'[s] \notin SetupPhase
    BY <1>4 DEF Announces, Connects, Counts
  <2>2. IsActive' /\ gui \notin {"clear"} \cup Committed
    BY <1>1, <1>4, <2>1 DEF OneSession, Announces, Connects, Counts, IsActive
  <2>3. \A t \in Device : t # s => ~Reporting(t) /\ pc[t] \notin SetupPhase
    BY <1>1, <2>1 DEF OneSession
  <2>4. stats' \in {"default", s}
    BY <1>1, <1>4, <2>1 DEF OneSession, Announces, Connects, Counts
  <2>. QED
    BY <1>2, <2>1, <2>2, <2>3, <2>4 DEF OneSession, Committed
<1>5. CASE Reports(s)
  <2>1. \A t \in Device : ~Reporting(t)' /\ pc'[t] \notin SetupPhase
    BY <1>1, <1>2, <1>5 DEF OneSession, Reports
  <2>2. gui' \notin {"clear"} \cup Committed
    BY <1>1, <1>2, <1>5 DEF OneSession, Reports
  <2>. QED
    BY <2>1, <2>2 DEF OneSession, Committed
<1>. QED
  BY <1>3, <1>4, <1>5, SessionEffect

LEMMA OverlapWindow ==
    ASSUME TypeOK, OverlapInv, UserStep \/ GuiStep \/ Exited
    PROVE  OverlapInv'
<1>. USE DEF Reporting
<1>1. CASE UserStep \/ Toggle \/ DestroyWindow
  BY <1>1, WindowEffect DEF WindowOnly, OverlapInv, OneSession, Committed, IsActive
<1>2. CASE StartCheck \/ Poll
  <2> SUFFICES ASSUME ~expired' PROVE OneSession'
    BY DEF OverlapInv
  <2>1. UNCHANGED <<status, stats, pc>> /\ gui' \in {"poll", "clear"}
    BY <1>2 DEF StartCheck, Poll, svars, wvars
  <2>2. ~expired /\ (gui' = "clear" => ~IsActive)
    BY <1>2 DEF StartCheck, Poll
  <2>. QED
    BY <2>1, <2>2 DEF OverlapInv, OneSession, Committed, IsActive
<1>3. CASE ClearStop \/ SetName
  BY <1>3 DEF ClearStop, SetName, OverlapInv, OneSession, Committed, IsActive, wvars
<1>4. CASE SetConnecting
  BY <1>4 DEF SetConnecting, OverlapInv, OneSession, Committed, IsActive, wvars
<1>5. CASE ResetStats
  BY <1>5 DEF ResetStats, OverlapInv, OneSession, Committed, IsActive, wvars
<1>6. ASSUME NEW s \in Device, Spawn(s) PROVE OverlapInv'
  <2>1. /\ gui = "spawn" /\ gui' = "idle" /\ UNCHANGED <<status, stats, expired>>
        /\ \A t \in Device : t # s => pc'[t] = pc[t]
        /\ pc'[s] = "prepare"
    BY <1>6 DEF Spawn, svars, TypeOK
  <2>. QED
    BY <2>1 DEF OverlapInv, OneSession, Committed, IsActive, SetupPhase, ReportingAt
<1>7. CASE ExitProcess
  <2>1. /\ gui' = "exited" /\ \A t \in Device : pc'[t] \in {"unborn", "done", "killed"}
    BY <1>7 DEF ExitProcess
  <2>. QED
    BY <2>1 DEF OverlapInv, OneSession, Committed, SetupPhase, ReportingAt, Monitored
<1>8. CASE Exited
  BY <1>8 DEF Exited, vars, svars, wvars, gvars, OverlapInv, OneSession, IsActive
<1>. QED
  BY <1>1, <1>2, <1>3, <1>4, <1>5, <1>6, <1>7, <1>8 DEF GuiStep

LEMMA OverlapInvariant == Spec => [](TypeOK /\ OverlapInv)
<1>1. Init => OverlapInv
  BY DEF Init, OverlapInv, OneSession, Reporting, ReportingAt, Monitored, Committed, SetupPhase
<1>2. TypeOK /\ OverlapInv /\ [Next]_vars => OverlapInv'
  <2> SUFFICES ASSUME TypeOK, OverlapInv, [Next]_vars PROVE OverlapInv'
    OBVIOUS
  <2>1. CASE UNCHANGED vars
    BY <2>1 DEF vars, svars, wvars, gvars, OverlapInv, OneSession, Reporting, IsActive
  <2>2. CASE Next
    BY <2>2, OverlapWindow, OverlapSession DEF Next
  <2>. QED
    BY <2>1, <2>2
<1>. QED
  BY <1>1, <1>2, TypeCorrect, PTL DEF Spec

(* However patient start is and whatever fails, two sessions that have a    *)
(* status to report exist at once only after a wait in start ran out.       *)
THEOREM SessionsDoNotOverlap == Spec => []NoOverlap
<1>1. OverlapInv => NoOverlap
  BY DEF OverlapInv, OneSession, NoOverlap
<1>. QED
  BY <1>1, OverlapInvariant, PTL

(* Nor are the statistics of an earlier tunnel shown for a running one.     *)
THEOREM StatsAreCurrent == Spec => []StatsOfCurrentSession
<1>1. OverlapInv => StatsOfCurrentSession
  BY DEF OverlapInv, OneSession, StatsOfCurrentSession
<1>. QED
  BY <1>1, OverlapInvariant, PTL
-----------------------------------------------------------------------------
LEMMA ReporterSession ==
    ASSUME TypeOK, ActiveHasReporter, NEW s \in Device, SessionStep(s) \/ CompleteHandshake(s)
    PROVE  ActiveHasReporter'
<1>. USE DEF Reporting
<1>1. /\ UNCHANGED gui
      /\ \A t \in Device : t # s => pc'[t] = pc[t]
  BY SessionEffect
<1>2. CASE StaysQuiet(s)
  BY <1>1, <1>2 DEF StaysQuiet, ActiveHasReporter, IsActive
<1>3. CASE Announces(s) \/ Connects(s) \/ Counts(s)
  BY <1>3 DEF Announces, Connects, Counts, ActiveHasReporter, ReportingAt, Monitored
<1>4. CASE Reports(s)
  BY <1>4 DEF Reports, ActiveHasReporter, IsActive
<1>. QED
  BY <1>2, <1>3, <1>4, SessionEffect

LEMMA ReporterWindow ==
    ASSUME TypeOK, ActiveHasReporter, UserStep \/ GuiStep \/ Exited
    PROVE  ActiveHasReporter'
<1>. USE DEF Reporting, IsActive
<1>1. CASE UserStep \/ Toggle \/ DestroyWindow
  <2>1. gui # "exited" /\ gui \notin {"stats", "spawn"}
    BY <1>1 DEF UserStep, PressToggle, PressDelete, CloseWindow, Toggle, DestroyWindow
  <2>. QED
    BY <1>1, <2>1, WindowEffect DEF WindowOnly, ActiveHasReporter
<1>2. CASE StartCheck \/ Poll \/ ClearStop \/ SetName
  BY <1>2 DEF StartCheck, Poll, ClearStop, SetName, ActiveHasReporter, svars, wvars
<1>3. CASE SetConnecting \/ ResetStats
  BY <1>3 DEF SetConnecting, ResetStats, ActiveHasReporter
<1>4. ASSUME NEW s \in Device, Spawn(s) PROVE ActiveHasReporter'
  <2>1. pc'[s] = "prepare"
    BY <1>4 DEF Spawn, TypeOK
  <2>. QED
    BY <2>1 DEF ActiveHasReporter, ReportingAt
<1>5. CASE ExitProcess
  BY <1>5 DEF ExitProcess, ActiveHasReporter
<1>6. CASE Exited
  BY <1>6 DEF Exited, vars, gvars, ActiveHasReporter
<1>. QED
  BY <1>1, <1>2, <1>3, <1>4, <1>5, <1>6 DEF GuiStep

(* While is_active says yes there is a thread that will yet say no, even    *)
(* when sessions overlap: start never waits for nobody.                     *)
THEOREM ActiveIsReported == Spec => []ActiveHasReporter
<1>1. Init => ActiveHasReporter
  BY DEF Init, ActiveHasReporter, IsActive
<1>2. TypeOK /\ ActiveHasReporter /\ [Next]_vars => ActiveHasReporter'
  <2> SUFFICES ASSUME TypeOK, ActiveHasReporter, [Next]_vars PROVE ActiveHasReporter'
    OBVIOUS
  <2>1. CASE UNCHANGED vars
    BY <2>1 DEF vars, svars, wvars, gvars, ActiveHasReporter, IsActive, Reporting
  <2>2. CASE Next
    BY <2>2, ReporterSession, ReporterWindow DEF Next
  <2>. QED
    BY <2>1, <2>2
<1>. QED
  BY <1>1, <1>2, TypeCorrect, PTL DEF Spec

LEMMA HandshakeSession ==
    ASSUME TypeOK, ConnectedHasHandshake, NEW s \in Device,
           SessionStep(s) \/ CompleteHandshake(s)
    PROVE  ConnectedHasHandshake'
<1>. USE DEF Reporting
<1>1. /\ UNCHANGED gui
      /\ \A t \in Device : t # s => pc'[t] = pc[t] /\ handshake'[t] = handshake[t]
  BY SessionEffect
<1>2. CASE StaysQuiet(s)
  BY <1>1, <1>2 DEF StaysQuiet, ConnectedHasHandshake
<1>3. CASE Counts(s)
  BY <1>1, <1>3 DEF Counts, ConnectedHasHandshake, ReportingAt, Monitored
<1>4. CASE Connects(s)
  BY <1>4 DEF Connects, ConnectedHasHandshake, ReportingAt, Monitored
<1>5. CASE Announces(s) \/ Reports(s)
  BY <1>5 DEF Announces, Reports, ConnectedHasHandshake
<1>. QED
  BY <1>2, <1>3, <1>4, <1>5, SessionEffect

LEMMA HandshakeWindow ==
    ASSUME TypeOK, ConnectedHasHandshake, UserStep \/ GuiStep \/ Exited
    PROVE  ConnectedHasHandshake'
<1>. USE DEF Reporting
<1>1. CASE UserStep \/ Toggle \/ DestroyWindow
  <2>1. gui # "exited"
    BY <1>1 DEF UserStep, PressToggle, PressDelete, CloseWindow, Toggle, DestroyWindow
  <2>. QED
    BY <1>1, <2>1, WindowEffect DEF WindowOnly, ConnectedHasHandshake
<1>2. CASE StartCheck \/ Poll \/ ClearStop \/ SetName \/ ResetStats
  <2>1. gui # "exited" /\ UNCHANGED <<status, pc, handshake>>
    BY <1>2 DEF StartCheck, Poll, ClearStop, SetName, ResetStats, svars, wvars
  <2>. QED
    BY <2>1 DEF ConnectedHasHandshake
<1>3. CASE SetConnecting
  BY <1>3 DEF SetConnecting, ConnectedHasHandshake
<1>4. ASSUME NEW s \in Device, Spawn(s) PROVE ConnectedHasHandshake'
  <2>1. /\ gui # "exited" /\ UNCHANGED <<status, handshake>>
        /\ \A t \in Device : t # s => pc'[t] = pc[t]
        /\ ~Reporting(s)
    BY <1>4 DEF Spawn, TypeOK, svars, ReportingAt, Monitored
  <2>. QED
    BY <2>1 DEF ConnectedHasHandshake
<1>5. CASE ExitProcess
  BY <1>5 DEF ExitProcess, ConnectedHasHandshake
<1>6. CASE Exited
  BY <1>6 DEF Exited, vars, ConnectedHasHandshake, gvars
<1>. QED
  BY <1>1, <1>2, <1>3, <1>4, <1>5, <1>6 DEF GuiStep

(* Connected is shown only while a session whose handshake completed is     *)
(* there to take it back.                                                   *)
THEOREM ConnectedIsEarned == Spec => []ConnectedHasHandshake
<1>1. Init => ConnectedHasHandshake
  BY DEF Init, ConnectedHasHandshake
<1>2. TypeOK /\ ConnectedHasHandshake /\ [Next]_vars => ConnectedHasHandshake'
  <2> SUFFICES ASSUME TypeOK, ConnectedHasHandshake, [Next]_vars PROVE ConnectedHasHandshake'
    OBVIOUS
  <2>1. CASE UNCHANGED vars
    BY <2>1 DEF vars, svars, wvars, gvars, ConnectedHasHandshake, Reporting
  <2>2. CASE Next
    BY <2>2, HandshakeSession, HandshakeWindow DEF Next
  <2>. QED
    BY <2>1, <2>2
<1>. QED
  BY <1>1, <1>2, TypeCorrect, PTL DEF Spec
-----------------------------------------------------------------------------
(* The process leaves no session behind when it exits.                      *)
NoneAfterExit == gui = "exited" => \A s \in Device : ~Reporting(s)

LEMMA NoneAfterExitInvariant == Spec => []NoneAfterExit
<1>. USE DEF NoneAfterExit, Reporting
<1>1. Init => NoneAfterExit
  BY DEF Init
<1>2. TypeOK /\ NoneAfterExit /\ [Next]_vars => NoneAfterExit'
  <2> SUFFICES ASSUME TypeOK, NoneAfterExit, [Next]_vars PROVE NoneAfterExit'
    OBVIOUS
  <2>1. CASE UNCHANGED vars
    BY <2>1 DEF vars, wvars, gvars
  <2>2. CASE UserStep \/ GuiStep \/ Exited
    <3>1. CASE ExitProcess
      BY <3>1 DEF ExitProcess, ReportingAt, Monitored
    <3>2. CASE Exited
      BY <3>2 DEF Exited, vars, wvars, gvars
    <3>3. CASE UserStep \/ (GuiStep /\ ~ExitProcess)
      <4>1. gui' # "exited"
        BY <3>3 DEF UserStep, PressToggle, PressDelete, CloseWindow, GuiStep, Toggle, StartCheck,
                    Poll, ClearStop, SetName, SetConnecting, ResetStats, Spawn, DestroyWindow,
                    gvars
      <4>. QED
        BY <4>1
    <3>. QED
      BY <2>2, <3>1, <3>2, <3>3
  <2>3. ASSUME NEW s \in Device, SessionStep(s) \/ CompleteHandshake(s) PROVE NoneAfterExit'
    <3>1. UNCHANGED gui /\ (Reporting(s)' => Reporting(s))
      BY <2>3, SessionEffect DEF StaysQuiet, Announces, Connects, Counts, Reports,
                                 ReportingAt, Monitored
    <3>2. \A t \in Device : t # s => pc'[t] = pc[t]
      BY <2>3, SessionEffect
    <3>. QED
      BY <3>1, <3>2
  <2>. QED
    BY <2>1, <2>2, <2>3 DEF Next
<1>. QED
  BY <1>1, <1>2, TypeCorrect, PTL DEF Spec

LInv == TypeOK /\ OverlapInv /\ ActiveHasReporter /\ NoneAfterExit

LEMMA LifecycleSession ==
    ASSUME LInv, NEW s \in Device, SessionStep(s) \/ CompleteHandshake(s)
    PROVE  [Lifecycle!LNext]_(Lifecycle!lvars)
<1>1. /\ UNCHANGED <<gui, expired>>
      /\ \A t \in Device : t # s => pc'[t] = pc[t]
      /\ StaysQuiet(s) \/ Announces(s) \/ Connects(s) \/ Counts(s) \/ Reports(s)
  BY SessionEffect DEF LInv
<1>2. CASE gui = "exited"
  <2>1. Running = {} /\ Running' = {}
    BY <1>1, <1>2 DEF LInv, NoneAfterExit, Running, StaysQuiet, Announces, Connects, Counts,
                      Reports, Reporting, ReportingAt, Monitored
  <2>. QED
    BY <1>1, <1>2, <2>1 DEF ShownPhase, Lifecycle!lvars
<1>3. CASE gui # "exited" /\ expired
  BY <1>1, <1>3 DEF ShownPhase, Lifecycle!LNext, Lifecycle!AfterOverrun
<1>4. CASE gui # "exited" /\ ~expired
  <2>1. OneSession
    BY <1>4 DEF LInv, OverlapInv
  <2>2. CASE StaysQuiet(s) \/ Counts(s)
    <3>1. Running' = Running
      BY <1>1, <2>2 DEF Running, Reporting, StaysQuiet, Counts, ReportingAt, Monitored
    <3>2. ShownPhase' = ShownPhase
      BY <1>1, <2>2 DEF ShownPhase, StaysQuiet, Counts
    <3>. QED
      BY <3>1, <3>2 DEF Lifecycle!lvars
  <2>3. CASE Announces(s) \/ Connects(s)
    <3>1. Running' = Running /\ s \in Running
      BY <1>1, <2>3 DEF Running, Reporting, Announces, Connects, ReportingAt, Monitored
    <3>2. ShownPhase \in {"connecting", "connected"}
      BY <1>4, <2>1, <3>1 DEF ShownPhase, OneSession, Running, IsActive
    <3>3. CASE Announces(s)
      <4>1. ShownPhase' = ShownPhase
        BY <1>1, <2>1, <3>3 DEF ShownPhase, OneSession, Announces, SetupPhase
      <4>. QED
        BY <3>1, <4>1 DEF Lifecycle!lvars
    <3>4. CASE Connects(s)
      <4>1. ShownPhase' = "connected"
        BY <1>1, <1>4, <3>4 DEF ShownPhase, Connects
      <4>. QED
        BY <3>1, <3>2, <4>1 DEF Lifecycle!lvars, Lifecycle!LNext, Lifecycle!Connect
    <3>. QED
      BY <2>3, <3>3, <3>4
  <2>4. CASE Reports(s)
    <3>1. s \in Running /\ Running' = {}
      BY <1>1, <2>1, <2>4 DEF OneSession, Running, Reporting, Reports, ReportingAt, Monitored
    <3>2. ShownPhase \in {"connecting", "connected"} /\ ShownPhase' = "down"
      BY <1>1, <1>4, <2>1, <2>4, <3>1 DEF ShownPhase, OneSession, Running, IsActive, Reports
    <3>. QED
      BY <3>1, <3>2 DEF Lifecycle!LNext, Lifecycle!End
  <2>. QED
    BY <1>1, <2>2, <2>3, <2>4
<1>. QED
  BY <1>2, <1>3, <1>4

LEMMA LifecycleWindow ==
    ASSUME LInv, UserStep \/ GuiStep \/ Exited
    PROVE  [Lifecycle!LNext]_(Lifecycle!lvars)
<1>1. CASE ExitProcess
  <2>1. ShownPhase' = "exited" /\ Running' = {}
    BY <1>1 DEF ExitProcess, ShownPhase, Running, Reporting, ReportingAt, Monitored
  <2>. QED
    BY <2>1 DEF Lifecycle!LNext, Lifecycle!Exit
<1>2. CASE Exited
  BY <1>2 DEF Exited, vars, svars, wvars, gvars, ShownPhase, Running, Reporting, Lifecycle!lvars
<1>3. CASE UserStep \/ Toggle \/ DestroyWindow \/ StartCheck \/ ClearStop \/ SetName
           \/ ResetStats
  <2>1. gui # "exited" /\ gui' # "exited" /\ UNCHANGED <<status, pc, expired>>
    BY <1>3 DEF UserStep, PressToggle, PressDelete, CloseWindow, Toggle, DestroyWindow,
                StartCheck, ClearStop, SetName, ResetStats, svars, wvars, gvars
  <2>. QED
    BY <2>1 DEF ShownPhase, Running, Reporting, Lifecycle!lvars
<1>4. CASE Poll
  <2>1. gui = "poll" /\ gui' \in {"poll", "clear"} /\ UNCHANGED <<status, pc>>
    BY <1>4 DEF Poll, svars, wvars
  <2>2. Running' = Running
    BY <2>1 DEF Running, Reporting
  <2>3. CASE expired' = expired
    BY <2>1, <2>2, <2>3 DEF ShownPhase, Lifecycle!lvars
  <2>4. CASE expired' # expired
    <3>1. IsActive /\ ~expired /\ expired'
      BY <1>4, <2>4 DEF Poll, LInv, TypeOK
    <3>2. Running # {}
      BY <2>1, <3>1 DEF LInv, ActiveHasReporter, Running
    <3>3. ShownPhase \in {"connecting", "connected"} /\ ShownPhase' = "overrun"
      BY <2>1, <3>1 DEF ShownPhase, IsActive
    <3>. QED
      BY <2>2, <3>2, <3>3 DEF Lifecycle!LNext, Lifecycle!Overrun
  <2>. QED
    BY <2>3, <2>4
<1>5. CASE SetConnecting
  <2>1. gui = "status" /\ gui' = "stats" /\ status' = "Connecting" /\ UNCHANGED <<pc, expired>>
    BY <1>5 DEF SetConnecting, wvars
  <2>2. Running' = Running
    BY <2>1 DEF Running, Reporting
  <2>3. CASE expired
    BY <2>1, <2>3 DEF ShownPhase, Lifecycle!LNext, Lifecycle!AfterOverrun
  <2>4. CASE ~expired
    <3>1. Running = {}
      BY <2>1, <2>4 DEF LInv, OverlapInv, OneSession, Committed, Running
    <3>2. ~IsActive
      BY <2>1, <3>1 DEF LInv, ActiveHasReporter, Running
    <3>3. ShownPhase = "down" /\ ShownPhase' = "connecting"
      BY <2>1, <2>4, <3>2 DEF ShownPhase, IsActive
    <3>. QED
      BY <2>2, <3>1, <3>3 DEF Lifecycle!LNext, Lifecycle!Start
  <2>. QED
    BY <2>3, <2>4
<1>6. ASSUME NEW s \in Device, Spawn(s) PROVE [Lifecycle!LNext]_(Lifecycle!lvars)
  <2>1. /\ gui = "spawn" /\ gui' = "idle" /\ UNCHANGED <<status, expired>>
        /\ pc'[s] = "prepare" /\ \A t \in Device : t # s => pc'[t] = pc[t]
    BY <1>6 DEF Spawn, svars, LInv, TypeOK
  <2>2. CASE expired
    BY <2>1, <2>2 DEF ShownPhase, Lifecycle!LNext, Lifecycle!AfterOverrun
  <2>3. CASE ~expired
    <3>1. Running = {} /\ status = "Connecting"
      BY <2>1, <2>3 DEF LInv, OverlapInv, OneSession, Committed, Running
    <3>2. Running' = {s}
      BY <2>1, <3>1 DEF Running, Reporting, ReportingAt
    <3>3. ShownPhase = "connecting" /\ ShownPhase' = "connecting"
      BY <2>1, <2>3, <3>1 DEF ShownPhase
    <3>. QED
      BY <3>1, <3>2, <3>3 DEF Lifecycle!LNext, Lifecycle!Attach
  <2>. QED
    BY <2>2, <2>3
<1>. QED
  BY <1>1, <1>2, <1>3, <1>4, <1>5, <1>6 DEF GuiStep

(* The window, the sessions and their races implement TunnelLifecycle: what *)
(* the user sees follows it step by step, until a wait in start runs out.   *)
THEOREM ServiceImplementsLifecycle == Spec => RefinesLifecycle
<1>1. Init => Lifecycle!LInit
  BY DEF Init, Lifecycle!LInit, ShownPhase, Running, Reporting, ReportingAt, Monitored
<1>2. LInv /\ [Next]_vars => [Lifecycle!LNext]_(Lifecycle!lvars)
  <2> SUFFICES ASSUME LInv, [Next]_vars PROVE [Lifecycle!LNext]_(Lifecycle!lvars)
    OBVIOUS
  <2>1. CASE UNCHANGED vars
    BY <2>1 DEF vars, svars, wvars, gvars, ShownPhase, Running, Reporting, Lifecycle!lvars
  <2>2. CASE Next
    BY <2>2, LifecycleWindow, LifecycleSession DEF Next
  <2>. QED
    BY <2>1, <2>2
<1>3. Spec => []LInv
  BY OverlapInvariant, ActiveIsReported, NoneAfterExitInvariant, PTL DEF LInv
<1>. QED
  BY <1>1, <1>2, <1>3, PTL DEF Spec, RefinesLifecycle, Lifecycle!LSpec
-----------------------------------------------------------------------------
(* A session that has the machine to itself.  While it does, its device is  *)
(* the only live one, so the lemmas about devices that run one after the    *)
(* other hold of it.  They are joined to what the threads of sessions that  *)
(* have not started, or have ended, leave behind.                           *)

\* An adapter there is belongs to a device that will close it.
AdapterHeld == adapter # "orphan" /\ (adapter \in Device => Holding(adapter))

Untouched(s) ==
    /\ dev[s] = "none" /\ step[s] = 1 /\ ~installed[s] /\ refused[s] = {}
    /\ physIf[s] = "phys" /\ sockIf[s] = "unbound"

Threads ==
    /\ gui # "exited" => AdapterHeld
    /\ \A s \in Device : /\ pc[s] = "unborn" => Untouched(s)
                         /\ pc[s] = "done" => dev[s] = "closed"

Spared(s) == refused[s] \cap {"half", "delete"} = {}

\* What is in the table for the one device, and what it has taken out of it.
Debtor(s) ==
    /\ OriginalTable \ table \subseteq IF Settled(s) THEN {RouteOf(s, 1)} ELSE {}
    /\ Spared(s) => \A r \in table \ OriginalTable :
                        \E k \in 1 .. Steps(s) : Owes(s, k) /\ r = RouteOf(s, k)
    /\ dev[s] \in {"probe", "open", "manager", "install", "active"} => Spared(s)
    /\ dev[s] = "remove" => "half" \notin refused[s]

AloneDevice(s) == AInv /\ Flags /\ AdapterHeld /\ Debtor(s) /\ physIf[s] = "phys"

AloneThread(s) ==
    /\ pc[s] # "unborn" /\ \A t \in Device \ {s} : pc[t] \in {"unborn", "done"}
    /\ pc[s] = "prepare" => dev[s] = "probe"
    /\ pc[s] \in {"socket"} \cup Monitored => dev[s] = "active"
    /\ pc[s] = "shutdown" => dev[s] \in {"active", "remove"}
    /\ pc[s] \in {"join", "disconnected"} \/ (pc[s] = "forget" /\ status = "Disconnected")
          => dev[s] = "removed" /\ "half" \notin refused[s]
    /\ pc[s] \in {"prepare", "create", "socket"} => sockIf[s] = "unbound"
    /\ pc[s] \in Monitored /\ "host" \notin refused[s] => sockIf[s] # "tun"

Alone(s) == AloneDevice(s) /\ AloneThread(s)

SoloInv == \A s \in Device : solo = s /\ pc[s] \notin {"done", "killed"} => Alone(s)

(* An adapter is created by a device that holds it from then on, and gone   *)
(* when that device is closed.                                              *)
LEMMA AdapterHeldStep ==
    ASSUME RTypeOK, AdapterHeld, NEW d \in Device, DeviceStep(d)
    PROVE  AdapterHeld'
<1>1. /\ dev \in [Device -> Phase] /\ adapter \in Device \cup {"absent"}
      /\ "absent" \notin Device /\ "orphan" \notin Device
  BY VpnRouteManagerAssumption DEF RTypeOK, AdapterHeld
<1>2. CASE Abort(d) \/ Probe(d) \/ NewManager(d) \/ BeginRemove(d)
  BY <1>1, <1>2 DEF AdapterHeld, Holding, Abort, Probe, NewManager, BeginRemove
<1>3. CASE OpenAdapter(d)
  BY <1>1, <1>3 DEF AdapterHeld, Holding, OpenAdapter
<1>4. CASE InstallRoute(d) \/ InstallRefused(d) \/ RemoveRoute(d)
  BY <1>1, <1>4 DEF AdapterHeld, Holding, InstallRoute, InstallRefused, InstallNext, RemoveRoute
<1>5. CASE Close(d)
  BY <1>1, <1>5 DEF AdapterHeld, Holding, Close
<1>. QED
  BY <1>2, <1>3, <1>4, <1>5 DEF DeviceStep

(* The device of a session that is alone stays its own account of the       *)
(* table, whatever is refused.                                              *)
LEMMA AloneDeviceStep ==
    ASSUME NEW s \in Device, AloneDevice(s), DeviceStep(s)
    PROVE  AloneDevice(s)'
<1>1. /\ RTypeOK /\ RTypeOK' /\ RInv /\ Flags /\ Debtor(s)
      /\ dev \in [Device -> Phase] /\ step \in [Device -> 1 .. 5]
      /\ refused \in [Device -> SUBSET Call] /\ physIf \in [Device -> Interface]
      /\ installed \in [Device -> BOOLEAN]
  BY DeviceStepType DEF AloneDevice, AInv, RInv, RTypeOK
<1>2. AInv' /\ Flags' /\ AdapterHeld'
  BY <1>1, AInvStep, FlagsStep, AdapterHeldStep DEF AloneDevice
<1>3. /\ refused[s] \subseteq refused'[s] /\ refused'[s] \subseteq Call
      /\ Settled(s) => Settled(s)' /\ RouteOf(s, 1)' = RouteOf(s, 1)
  BY <1>1, StepFrame DEF RTypeOK
<1>4. OriginalTable \ table' \subseteq IF Settled(s)' THEN {RouteOf(s, 1)'} ELSE {}
  <2> SUFFICES ASSUME NEW r \in OriginalTable \ table'
               PROVE  Settled(s) /\ r = RouteOf(s, 1)
    BY <1>3
  <2>1. CASE r \in table
    BY <1>1, <2>1, StepTable
  <2>2. CASE r \notin table
    BY <1>1, <2>2 DEF Debtor
  <2>. QED
    BY <2>1, <2>2
<1>5. Spared(s)' => \A r \in table' \ OriginalTable :
                        \E k \in 1 .. Steps(s)' : Owes(s, k)' /\ r = RouteOf(s, k)'
  <2> SUFFICES ASSUME Spared(s)', NEW r \in table' \ OriginalTable
               PROVE  \E k \in 1 .. Steps(s)' : Owes(s, k)' /\ r = RouteOf(s, k)'
    OBVIOUS
  <2>1. Spared(s) /\ refused'[s] \cap {"half", "delete"} = {}
    BY <1>3 DEF Spared
  <2>2. r \in table => \E k \in 1 .. Steps(s) : Owes(s, k) /\ r = RouteOf(s, k)
    BY <1>1, <2>1 DEF Debtor
  <2>. QED
    BY <1>1, <2>1, <2>2, DebtStep
<1>6. /\ dev'[s] \in {"probe", "open", "manager", "install", "active"} => Spared(s)'
      /\ dev'[s] = "remove" => "half" \notin refused'[s]
  <2>1. CASE Abort(s) \/ Probe(s) \/ OpenAdapter(s) \/ NewManager(s) \/ Close(s)
    BY <1>1, <2>1 DEF Debtor, Spared, Abort, Probe, OpenAdapter, NewManager, Close
  <2>2. CASE InstallRoute(s)
    BY <1>1, <2>2 DEF Debtor, Spared, InstallRoute, InstallNext
  <2>3. CASE InstallRefused(s)
    <3>1. dev[s] = "install" /\ Spared(s)
      BY <1>1, <2>3 DEF InstallRefused, Debtor
    <3>2. CASE CallOf(step[s]) = "half"
      BY <1>1, <2>3, <3>2 DEF InstallRefused
    <3>3. CASE CallOf(step[s]) # "half"
      <4>1. CallOf(step[s]) \notin {"half", "delete"}
        BY <3>3 DEF CallOf
      <4>2. refused'[s] = refused[s] \cup {CallOf(step[s])} /\ dev'[s] # "remove"
        BY <1>1, <2>3, <3>1, <3>3 DEF InstallRefused, InstallNext
      <4>. QED
        BY <3>1, <4>1, <4>2 DEF Spared
    <3>. QED
      BY <3>2, <3>3
  <2>4. CASE BeginRemove(s)
    <3>1. dev[s] = "active" \/ (dev[s] = "failed" /\ ~installed[s])
      BY <2>4, <1>1 DEF BeginRemove, Flags
    <3>2. dev'[s] = IF installed[s] THEN "remove" ELSE "removed"
      BY <1>1, <2>4 DEF BeginRemove
    <3>. QED
      BY <2>4, <1>1, <3>1, <3>2 DEF BeginRemove, Debtor, Spared
  <2>5. CASE RemoveRoute(s)
    BY <1>1, <2>5 DEF RemoveRoute, Debtor
  <2>. QED
    BY <2>1, <2>2, <2>3, <2>4, <2>5 DEF DeviceStep
<1>7. physIf'[s] = "phys"
  <2>1. CASE Probe(s)
    <3>1. dev[s] = "probe" /\ \A k : ~Owes(s, k)
      BY <2>1 DEF Probe, Owes
    <3>2. \A r \in table : r \in OriginalTable
      BY <1>1, <3>1 DEF Debtor
    <3>3. \A r \in BestRows(table, ServerOf[prof[s]]) : r.ifx = "phys"
      BY <3>2, RouteTableAssumption DEF BestRows, RowsTo
    <3>. QED
      BY <1>1, <2>1, <3>3 DEF Probe
  <2>2. CASE ~Probe(s)
    <3>1. UNCHANGED physIf
      BY <2>2 DEF DeviceStep, Abort, OpenAdapter, NewManager, InstallRoute, InstallRefused,
                  BeginRemove, RemoveRoute, Close
    <3>. QED
      BY <3>1 DEF AloneDevice
  <2>. QED
    BY <2>1, <2>2
<1>. QED
  BY <1>2, <1>4, <1>5, <1>6, <1>7 DEF AloneDevice, Debtor

LEMMA AloneDeviceStutters ==
    ASSUME NEW s \in Device, AloneDevice(s), UNCHANGED rvars
    PROVE  AloneDevice(s)'
<1>1. RInv' /\ Flags'
  BY DEF AloneDevice, rvars, AInv, RInv, RTypeOK, OneLive, Live, NotYetInstalling, Unmixed,
         RowsAsProbed, Probed, HostRouteIn, Routed, Installing, RouteOf, Flags, Steps
<1>2. AInv' /\ AdapterHeld'
  BY <1>1 DEF AloneDevice, rvars, AInv, Holding, HalvesIn, AdapterHeld
<1>3. Debtor(s)'
  BY DEF AloneDevice, rvars, Debtor, Settled, Spared, Owes, RouteOf, Steps
<1>. QED
  BY <1>1, <1>2, <1>3 DEF AloneDevice, rvars

(* What is looked up while the device is active: its host route, or a row   *)
(* of the same server that was there before.                                *)
LEMMA OnlyPhysical ==
    ASSUME NEW s \in Device, AloneDevice(s), dev[s] = "active", "host" \notin refused[s]
    PROVE  \A row \in BestRows(table, ServerOf[prof[s]]) : row.ifx = "phys"
<1>1. RouteOf(s, 1) \in RowsTo(table, ServerOf[prof[s]])
  BY DEF AloneDevice, AInv, RInv, HostRouteIn, Routed, RowsTo, RouteOf
<1>2. \A row \in RowsTo(table, ServerOf[prof[s]]) : row.ifx = "phys"
  BY DEF AloneDevice, AInv, RInv, RowsAsProbed, Probed, RowsTo
<1>. QED
  BY <1>1, <1>2 DEF BestRows

(* A session that moves has begun and not ended, and moves itself only.     *)
LEMMA SessionMovesItself ==
    ASSUME TypeOK, NEW s \in Device, SessionStep(s) \/ CompleteHandshake(s)
    PROVE  /\ pc[s] \notin {"unborn", "done", "killed"} /\ pc'[s] # "unborn"
           /\ pc'[s] = "done" => dev'[s] = "closed"
           /\ UNCHANGED <<gui, solo>>
           /\ \A t \in Device \ {s} :
                 /\ pc'[t] = pc[t] /\ sockIf'[t] = sockIf[t] /\ dev'[t] = dev[t]
                 /\ Untouched(t) => Untouched(t)'
<1>1. /\ pc \in [Device -> SessionPhase] /\ sockIf \in [Device -> Interface \cup {"unbound"}]
      /\ RTypeOK /\ physIf \in [Device -> Interface]
  BY DEF TypeOK, RTypeOK
<1>2. /\ pc[s] \notin {"unborn", "done", "killed"} /\ pc'[s] # "unborn"
      /\ pc'[s] = "done" => dev'[s] = "closed"
      /\ UNCHANGED <<gui, solo>>
      /\ \A t \in Device \ {s} : pc'[t] = pc[t] /\ sockIf'[t] = sockIf[t]
  BY <1>1 DEF SessionStep, Prepare, Create, OpenSocket, Announce, CheckStop, CompleteHandshake,
              Sample, WriteStats, Shutdown, Join, Report, Forget, Drop, gvars, Goto, Monitored
<1>3. CASE UNCHANGED rvars
  BY <1>2, <1>3 DEF rvars, Untouched
<1>4. CASE DeviceStep(s)
  <2>1. \A t \in Device \ {s} : physIf'[t] = physIf[t]
    BY <1>1, <1>4 DEF DeviceStep, Abort, Probe, OpenAdapter, NewManager, InstallRoute,
                      InstallRefused, BeginRemove, RemoveRoute, Close
  <2>2. \A t \in Device \ {s} : /\ dev'[t] = dev[t] /\ step'[t] = step[t]
                                /\ installed'[t] = installed[t] /\ refused'[t] = refused[t]
    BY <1>1, <1>4, StepFrame
  <2>. QED
    BY <1>2, <2>1, <2>2 DEF Untouched
<1>. QED
  BY <1>3, <1>4, SessionMovesDevice

(* The window thread touches neither devices nor threads but by the start   *)
(* of a session and the end of the process.                                 *)
LEMMA WindowLeaves ==
    ASSUME UserStep \/ GuiStep \/ Exited, ~ExitProcess, \A s \in Device : ~Spawn(s)
    PROVE  /\ UNCHANGED <<rvars, pc, sockIf, solo>>
           /\ gui' = "exited" <=> gui = "exited"
           /\ status' = "Disconnected" => status = "Disconnected"
BY DEF UserStep, GuiStep, Exited, PressToggle, PressDelete, CloseWindow, Toggle, StartCheck, Poll,
       ClearStop, SetName, SetConnecting, ResetStats, DestroyWindow, svars, wvars, gvars, vars

LEMMA ThreadsNext ==
    ASSUME TypeOK, Threads, [Next]_vars
    PROVE  Threads'
<1>1. RTypeOK /\ dev \in [Device -> Phase] /\ pc \in [Device -> SessionPhase]
  BY DEF TypeOK, RTypeOK
<1>2. ASSUME UNCHANGED <<rvars, pc, sockIf>>, gui' = "exited" <=> gui = "exited"
      PROVE  Threads'
  BY <1>2 DEF rvars, Threads, AdapterHeld, Holding, Untouched
<1>3. ASSUME NEW s \in Device, SessionStep(s) \/ CompleteHandshake(s) PROVE Threads'
  <2>1. AdapterHeld => AdapterHeld'
    <3>1. CASE DeviceStep(s)
      BY <1>1, <3>1, AdapterHeldStep
    <3>2. CASE UNCHANGED rvars
      BY <3>2 DEF rvars, AdapterHeld, Holding
    <3>. QED
      BY <1>3, <3>1, <3>2, SessionMovesDevice
  <2>. QED
    BY <1>3, <2>1, SessionMovesItself DEF Threads
<1>4. ASSUME NEW s \in Device, Spawn(s) PROVE Threads'
  <2>1. /\ gui = "spawn" /\ pc[s] = "unborn" /\ pc' = [pc EXCEPT ![s] = "prepare"]
        /\ dev' = [dev EXCEPT ![s] = "probe"] /\ dev[s] = "none"
        /\ UNCHANGED <<adapter, step, installed, refused, physIf, sockIf>>
    BY <1>4 DEF Spawn, Begin
  <2>. QED
    BY <1>1, <2>1 DEF Threads, AdapterHeld, Holding, Untouched
<1>5. CASE ExitProcess
  <2>1. /\ gui' = "exited" /\ UNCHANGED <<step, installed, refused, physIf, sockIf>>
        /\ \A s \in Device : /\ pc'[s] \in {pc[s], "killed"}
                             /\ dev[s] \in {"none", "closed"} => dev'[s] = dev[s]
    BY <1>5 DEF ExitProcess, Kill, Live
  <2>. QED
    BY <2>1 DEF Threads, Untouched
<1>6. CASE UNCHANGED vars
  BY <1>2, <1>6 DEF vars, wvars, gvars
<1>7. CASE UserStep \/ GuiStep \/ Exited
  <2>1. CASE ~ExitProcess /\ \A s \in Device : ~Spawn(s)
    BY <1>2, <1>7, <2>1, WindowLeaves
  <2>. QED
    BY <1>4, <1>5, <2>1
<1>. QED
  BY <1>3, <1>6, <1>7 DEF Next

LEMMA AloneThreadStep ==
    ASSUME TypeOK, NEW s \in Device, Alone(s), SessionStep(s) \/ CompleteHandshake(s)
    PROVE  AloneThread(s)'
<1>1. /\ pc \in [Device -> SessionPhase] /\ sockIf \in [Device -> Interface \cup {"unbound"}]
      /\ dev \in [Device -> Phase] /\ refused \in [Device -> SUBSET Call]
      /\ AloneDevice(s) /\ AloneThread(s) /\ Debtor(s) /\ Flags
  BY DEF TypeOK, RTypeOK, Alone, AloneDevice
<1>2. pc'[s] # "unborn" /\ \A t \in Device \ {s} : pc'[t] \in {"unborn", "done"}
  BY <1>1, SessionMovesItself DEF AloneThread
<1>. USE DEF Goto, Monitored
<1>3. CASE Prepare(s)
  BY <1>1, <1>2, <1>3 DEF Prepare, AloneThread
<1>4. CASE Create(s)
  BY <1>1, <1>2, <1>4 DEF Create, AloneThread
<1>5. CASE OpenSocket(s)
  <2>1. /\ pc[s] = "socket" /\ dev[s] = "active" /\ UNCHANGED <<dev, refused>>
        /\ pc'[s] = "fail" \/ pc'[s] = "announce"
        /\ \/ sockIf'[s] = "unbound"
           \/ \E row \in BestRows(table, ServerOf[prof[s]]) : sockIf'[s] = row.ifx
    BY <1>1, <1>5 DEF OpenSocket, AloneThread, rvars
  <2>2. "host" \notin refused[s] => sockIf'[s] # "tun"
    BY <1>1, <2>1, OnlyPhysical
  <2>. QED
    BY <1>2, <2>1, <2>2 DEF AloneThread
<1>6. CASE Announce(s) \/ CheckStop(s) \/ Sample(s) \/ WriteStats(s) \/ CompleteHandshake(s)
  <2>1. /\ pc[s] \in Monitored /\ pc'[s] \in Monitored \cup {"shutdown"}
        /\ UNCHANGED <<dev, refused, sockIf>>
    BY <1>1, <1>6 DEF Announce, CheckStop, Sample, WriteStats, CompleteHandshake, rvars
  <2>. QED
    BY <1>1, <1>2, <2>1 DEF AloneThread
<1>7. CASE Shutdown(s)
  <2>1. /\ pc[s] = "shutdown" /\ dev[s] \in {"active", "remove"} /\ "half" \notin refused[s]
    BY <1>1, <1>7 DEF Shutdown, AloneThread, Debtor, Spared
  <2>2. dev'[s] \in {"remove", "removed"} /\ "half" \notin refused'[s]
    BY <1>1, <1>7, <2>1 DEF Shutdown, BeginRemove, RemoveRoute
  <2>3. \/ dev'[s] = "removed" /\ pc'[s] \in {"disconnected", "join"}
        \/ dev'[s] # "removed" /\ pc'[s] = "shutdown"
    BY <1>1, <1>7 DEF Shutdown
  <2>. QED
    BY <1>2, <2>2, <2>3 DEF AloneThread
<1>8. CASE Join(s) \/ Report(s)
  BY <1>1, <1>2, <1>8 DEF Join, Report, AloneThread, rvars
<1>9. CASE Forget(s) \/ Drop(s)
  <2>1. pc'[s] \in {"drop", "done"}
    BY <1>1, <1>9 DEF Forget, Drop
  <2>. QED
    BY <1>2, <2>1 DEF AloneThread
<1>. QED
  BY <1>3, <1>4, <1>5, <1>6, <1>7, <1>8, <1>9 DEF SessionStep

(* A session spawned when every other has ended, on the original table,     *)
(* finds a machine as if no client had run.                                 *)
LEMMA AloneFromStart ==
    ASSUME TypeOK, Threads, Threads', NEW s \in Device, Spawn(s),
           \A t \in Device : pc[t] \in {"unborn", "done"}, table = OriginalTable
    PROVE  Alone(s)'
<1>1. /\ RTypeOK /\ dev \in [Device -> Phase] /\ pc \in [Device -> SessionPhase]
      /\ installed \in [Device -> BOOLEAN]
  BY DEF TypeOK, RTypeOK
<1>2. /\ gui = "spawn" /\ gui' = "idle" /\ pc[s] = "unborn" /\ want \in Profile
      /\ pc' = [pc EXCEPT ![s] = "prepare"] /\ Begin(s, want)
      /\ dev' = [dev EXCEPT ![s] = "probe"]
      /\ UNCHANGED <<table, adapter, step, installed, refused, physIf, sockIf>>
  BY DEF Spawn, Begin, TypeOK, Committed
<1>3. /\ dev'[s] = "probe" /\ step[s] = 1 /\ ~installed[s] /\ refused[s] = {}
      /\ physIf[s] = "phys" /\ sockIf[s] = "unbound"
      /\ \A t \in Device \ {s} :
            /\ dev'[t] \in {"none", "closed"}
            /\ dev'[t] = "none" => step[t] = 1 /\ ~installed[t]
  BY <1>1, <1>2 DEF Threads, Untouched
<1>4. RInv'
  <2>1. RTypeOK'
    BY <1>1, <1>2, BeginType
  <2>2. \A d \in Device : ~Probed(d)' /\ ~Routed(d)'
    BY <1>3 DEF Probed, Routed, Installing
  <2>3. OneLive' /\ NotYetInstalling'
    BY <1>2, <1>3 DEF OneLive, Live, NotYetInstalling
  <2>4. Unmixed'
    BY <1>2, RouteTableAssumption DEF Unmixed
  <2>. QED
    BY <2>1, <2>2, <2>3, <2>4 DEF RInv, RowsAsProbed, HostRouteIn
<1>5. AInv' /\ Flags' /\ AdapterHeld'
  BY <1>2, <1>3, <1>4 DEF AInv, Holding, Flags, Threads
<1>6. Debtor(s)'
  BY <1>2, <1>3 DEF Debtor, Spared
<1>7. AloneThread(s)'
  BY <1>1, <1>2, <1>3 DEF AloneThread, Monitored
<1>. QED
  BY <1>2, <1>3, <1>5, <1>6, <1>7 DEF Alone, AloneDevice

LEMMA SoloNext ==
    ASSUME TypeOK, Threads, Threads', SoloInv, [Next]_vars
    PROVE  SoloInv'
<1>1. ASSUME UNCHANGED <<rvars, pc, sockIf, solo>>,
             status' = "Disconnected" => status = "Disconnected"
      PROVE  SoloInv'
  BY <1>1, AloneDeviceStutters DEF SoloInv, Alone, AloneThread, rvars
<1>2. ASSUME NEW s \in Device, SessionStep(s) \/ CompleteHandshake(s) PROVE SoloInv'
  <2> SUFFICES ASSUME NEW u \in Device, solo' = u, pc'[u] \notin {"done", "killed"}
               PROVE  Alone(u)'
    BY DEF SoloInv
  <2>1. solo = u /\ pc[s] \notin {"unborn", "done", "killed"} /\ (u # s => pc[u] = pc'[u])
    BY <1>2, SessionMovesItself
  <2>2. u = s
    BY <2>1 DEF SoloInv, Alone, AloneThread
  <2>3. Alone(s)
    BY <2>1, <2>2 DEF SoloInv
  <2>4. AloneDevice(s)'
    BY <1>2, <2>3, SessionMovesDevice, AloneDeviceStep, AloneDeviceStutters DEF Alone
  <2>. QED
    BY <1>2, <2>2, <2>3, <2>4, AloneThreadStep DEF Alone
<1>3. ASSUME NEW s \in Device, Spawn(s) PROVE SoloInv'
  <2> SUFFICES ASSUME NEW u \in Device, solo' = u PROVE Alone(u)'
    BY DEF SoloInv
  <2>1. u = s /\ (\A t \in Device : pc[t] \in {"unborn", "done"}) /\ table = OriginalTable
    BY <1>3 DEF Spawn
  <2>. QED
    BY <1>3, <2>1, AloneFromStart
<1>4. CASE ExitProcess
  <2>1. /\ UNCHANGED solo
        /\ \A u \in Device : pc'[u] \in {"unborn", "done", "killed"} /\ pc'[u] \in {pc[u], "killed"}
    BY <1>4 DEF ExitProcess
  <2>. QED
    BY <2>1 DEF SoloInv, Alone, AloneThread
<1>5. CASE UNCHANGED vars
  BY <1>1, <1>5 DEF vars, svars, wvars, gvars
<1>6. CASE UserStep \/ GuiStep \/ Exited
  <2>1. CASE ~ExitProcess /\ \A s \in Device : ~Spawn(s)
    BY <1>1, <1>6, <2>1, WindowLeaves
  <2>. QED
    BY <1>3, <1>4, <2>1
<1>. QED
  BY <1>2, <1>5, <1>6 DEF Next

LEMMA SoloInvariant == Spec => [](Threads /\ SoloInv)
<1>1. Init => Threads /\ SoloInv
  BY VpnRouteManagerAssumption
     DEF Init, RInit, Threads, AdapterHeld, Untouched, SoloInv
<1>2. TypeOK /\ Threads /\ [Next]_vars => Threads'
  BY ThreadsNext
<1>3. TypeOK /\ Threads /\ Threads' /\ SoloInv /\ [Next]_vars => SoloInv'
  BY SoloNext
<1>. QED
  BY <1>1, <1>2, <1>3, TypeCorrect, PTL DEF Spec

(* However many sessions ran before, and overlapped: one that starts alone  *)
(* on the original table has both halves in an adapter of its own while it  *)
(* is monitored, and looks up nothing but the physical interface.           *)
THEOREM SoloTunnelsIntact == Spec => []SoloTunnelIntact
<1>1. SoloInv => SoloTunnelIntact
  <2> SUFFICES ASSUME SoloInv, NEW s \in Device, solo = s, pc[s] \in Monitored
               PROVE  /\ adapter = s
                      /\ \A h \in Half : [ifx |-> "tun", dest |-> h, hop |-> "onlink"] \in table
                      /\ "host" \notin refused[s] =>
                            /\ sockIf[s] # "tun"
                            /\ \A row \in BestRows(table, ServerOf[prof[s]]) : row.ifx = "phys"
    BY DEF SoloTunnelIntact
  <2>1. AloneDevice(s) /\ AloneThread(s) /\ dev[s] = "active"
    BY DEF SoloInv, Alone, AloneThread, Monitored
  <2>2. adapter = s
    BY <2>1 DEF AloneDevice, AdapterHeld, AInv, RInv, RTypeOK, OneLive, Live, Holding
  <2>3. HalvesIn(3)
    BY <2>1 DEF AloneDevice, AInv
  <2>4. \A h \in Half : [ifx |-> "tun", dest |-> h, hop |-> "onlink"] \in table
    BY <2>3 DEF HalvesIn, HalfRow, Prefix, Half
  <2>. QED
    BY <2>1, <2>2, <2>4, OnlyPhysical DEF AloneThread
<1>. QED
  BY <1>1, SoloInvariant, PTL

(* When it reports Disconnected it has given the table back.                *)
THEOREM SoloSessionsRestore == Spec => []RestoredWhenDisconnected
<1>1. SoloInv => RestoredWhenDisconnected
  <2> SUFFICES ASSUME SoloInv, NEW s \in Device, solo = s, pc[s] = "forget",
                      status = "Disconnected", "delete" \notin refused[s]
               PROVE  table \subseteq OriginalTable /\ OriginalTable \ table \subseteq {RouteOf(s, 1)}
    BY DEF RestoredWhenDisconnected
  <2>1. Debtor(s) /\ dev[s] = "removed" /\ Spared(s)
    BY DEF SoloInv, Alone, AloneDevice, AloneThread, Spared
  <2>2. \A k : ~Owes(s, k)
    BY <2>1 DEF Owes
  <2>. QED
    BY <2>1, <2>2 DEF Debtor, Settled
<1>. QED
  BY <1>1, SoloInvariant, PTL
=============================================================================
