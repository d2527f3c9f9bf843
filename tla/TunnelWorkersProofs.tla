------------------------- MODULE TunnelWorkersProofs -------------------------
(* Proofs about TunnelWorkers, for any number of packets and datagrams: who *)
(* holds the two locks follows from where the threads are, and from that    *)
(* that none waits for another in a circle, that nothing stays behind in    *)
(* Tunn and that packets go once each and, while Tunn is not left with a    *)
(* session answered and none current, in order.                             *)
EXTENDS TunnelWorkers, SequenceTheorems, TLAPS

(* What a worker deals with follows from where it is.                       *)
Handled ==
    /\ at["tun"] \in {"wantTunn", "encapsulate"} => hand["tun"] \in Packet
    /\ hand["tun"] \in Packet => at["tun"] \in {"wantTunn", "encapsulate", "wantObf", "encode", "send"}
    /\ at["udp"] \in {"wantDeobf", "decode"} => hand["udp"] \in Datagram
    /\ hand["udp"] \in Packet => at["udp"] \in {"result", "wantObf", "encode", "send"}

(* A lock is held by the thread that is between taking it and letting it go.*)
TunnOwned ==
    /\ tunn = "tun" <=> at["tun"] = "encapsulate"
    /\ tunn = "udp" <=> at["udp"] \in {"decapsulate", "result", "wantObf", "encode", "send"}
    /\ tunn = "timer" <=> at["timer"] \in {"update", "wantObf", "encode", "send"}
    /\ tunn = "session" <=> at["session"] = "look"

ObfOwned ==
    /\ obf = "tun" <=> at["tun"] = "encode"
    /\ obf = "udp" <=> at["udp"] \in {"decode", "encode"}
    /\ obf = "timer" <=> at["timer"] = "encode"

(* The session thread is done last.                                         *)
JoinedFirst == at["session"] = "done" => \A w \in Worker : at[w] = "done"

LockInv == WTypeOK /\ Handled /\ TunnOwned /\ ObfOwned /\ JoinedFirst

(* Strings, numbers and the sorts of datagram are different things.         *)
LEMMA Distinct ==
    /\ None \notin Thread /\ None \notin Outgoing /\ None \notin Packet
    /\ Control \notin Packet /\ Inner \notin Outgoing /\ Control \in Outgoing
    /\ Datagram \cap Outgoing = {} /\ Datagram \cap Packet = {}
    /\ Datagram \cap {Control, Inner, None} = {}
    /\ Junk \notin Wireguard /\ Wireguard \subseteq Datagram /\ Datagram = Wireguard \cup {Junk}
    /\ Control # Inner /\ Control # None /\ Inner # None
    /\ Packet \subseteq Nat /\ Packet \subseteq Outgoing /\ Outgoing \ {Control} \subseteq Packet
<1>1. Packet \subseteq Nat
  BY WorkersAssumption DEF Packet
<1>2. {Control, Inner, None} \cap Packet = {} /\ Datagram \cap Packet = {}
  BY <1>1, WorkersAssumption
<1>3. None \notin Thread
  BY WorkersAssumption DEF Thread, Worker
<1>. QED
  BY <1>1, <1>2, <1>3, WorkersAssumption DEF Outgoing, Datagram, Wireguard

(* At the start no lock is held and nothing is anywhere.                    *)
LEMMA LockInvInit == Init => LockInv
<1> SUFFICES ASSUME Init PROVE LockInv
  OBVIOUS
<1>1. /\ at \in [Thread -> Place] /\ \A t \in Thread : at[t] = "check"
      /\ hand \in [Worker -> Outgoing \cup Datagram \cup {Inner, None}]
      /\ \A w \in Worker : hand[w] = None
  BY DEF Init, Place
<1>2. /\ ring \in Seq(Packet) /\ queue \in Seq(Outgoing) /\ Len(queue) <= MaxKept /\ wire \in Seq(Packet)
      /\ written \in 0 .. MaxPackets /\ received \in 0 .. MaxDatagrams
  BY WorkersAssumption DEF Init
<1>3. WTypeOK
  BY <1>1, <1>2 DEF Init, WTypeOK, Thread, Worker
<1>4. Handled /\ TunnOwned /\ ObfOwned /\ JoinedFirst
  BY <1>1, Distinct DEF Init, Handled, TunnOwned, ObfOwned, JoinedFirst, Thread, Worker
<1>. QED
  BY <1>3, <1>4 DEF LockInv

(* What a step changes besides the thread's place.                          *)
LEMMA StopKeeps == LockInv /\ Stop => LockInv'
BY DEF LockInv, Stop, WTypeOK, Handled, TunnOwned, ObfOwned, JoinedFirst, tunnVars

LEMMA ArrivalKeeps == LockInv /\ PacketArrives => LockInv'
<1> SUFFICES ASSUME LockInv, PacketArrives PROVE LockInv'
  OBVIOUS
<1>1. written' \in 0 .. MaxPackets /\ written' \in Packet
  BY WorkersAssumption DEF PacketArrives, LockInv, WTypeOK, Packet
<1>2. ring' \in Seq(Packet)
  BY <1>1 DEF PacketArrives, LockInv, WTypeOK
<1>. QED
  BY <1>1, <1>2 DEF PacketArrives, LockInv, WTypeOK, Handled, TunnOwned, ObfOwned,
                    JoinedFirst, tunnVars

(* A packet more is a sequence of packets still.                            *)
LEMMA AppendPacket ==
    ASSUME NEW s \in Seq(Packet), NEW p \in Packet
    PROVE  Append(s, p) \in Seq(Packet)
OBVIOUS

LEMMA SendType ==
    ASSUME wire \in Seq(Packet), NEW thing, Send(thing)
    PROVE  wire' \in Seq(Packet)
<1>1. CASE thing \in Packet
  BY <1>1, AppendPacket DEF Send
<1>2. CASE thing \notin Packet
  BY <1>2 DEF Send
<1>. QED
  BY <1>1, <1>2

(* What is known of Tunn's own state.                                       *)
TunnTyped ==
    /\ established \in BOOLEAN /\ answered \in BOOLEAN /\ begun \in BOOLEAN /\ lapsed \in BOOLEAN
    /\ queue \in Seq(Outgoing) /\ Len(queue) <= MaxKept

LEMMA KeepEffect ==
    ASSUME TunnTyped, NEW thing \in Outgoing, Keep(thing)
    PROVE  /\ queue' \in Seq(Outgoing) /\ Len(queue') <= MaxKept
           /\ queue' = queue \/ queue' = Append(queue, thing)
<1>1. CASE Len(queue) < MaxKept
  <2>1. queue' = Append(queue, thing) /\ Len(queue') = Len(queue) + 1
    BY <1>1 DEF Keep, TunnTyped
  <2>. QED
    BY <1>1, <2>1, WorkersAssumption DEF TunnTyped
<1>2. CASE ~(Len(queue) < MaxKept)
  BY <1>2 DEF Keep, TunnTyped
<1>. QED
  BY <1>1, <1>2

(* The answer of Tunn when it has no session is nothing or a handshake.     *)
LEMMA InitiateEffect ==
    ASSUME NEW result, Initiate(result)
    PROVE  begun' \in BOOLEAN /\ result \in {Control, None}
BY DEF Initiate

LEMMA RecordEffect == Record => lapsed' \in BOOLEAN
BY DEF Record

(* encapsulate enciphers the packet, or keeps it for want of a session.     *)
LEMMA EncapsulateEffect ==
    ASSUME TunnTyped, NEW packet \in Packet, NEW result, Encapsulate(packet, result)
    PROVE  /\ TunnTyped'
           /\ UNCHANGED <<established, answered, lapsed>>
           /\ \/ established /\ result = packet /\ queue' = queue
              \/ /\ ~established /\ result \in {Control, None}
                 /\ queue' = queue \/ queue' = Append(queue, packet)
<1>1. CASE established /\ result = packet /\ UNCHANGED tunnVars
  BY <1>1, Zenon DEF TunnTyped, tunnVars
<1>2. CASE ~established /\ Initiate(result) /\ Keep(packet) /\ UNCHANGED <<established, answered, lapsed>>
  <2>1. packet \in Outgoing
    BY DEF Outgoing
  <2>2. /\ queue' \in Seq(Outgoing) /\ Len(queue') <= MaxKept
        /\ queue' = queue \/ queue' = Append(queue, packet)
    BY <1>2, <2>1, KeepEffect
  <2>3. begun' \in BOOLEAN /\ result \in {Control, None}
    BY <1>2, InitiateEffect
  <2>4. TunnTyped'
    BY <1>2, <2>2, <2>3, Zenon DEF TunnTyped
  <2>. QED
    BY <1>2, <2>2, <2>3, <2>4, Zenon
<1>. QED
  BY <1>1, <1>2, Zenon DEF Encapsulate

(* decapsulate leaves what is kept where it is.                             *)
LEMMA DecapsulateEffect ==
    ASSUME TunnTyped, NEW datagram, NEW result, Decapsulate(datagram, result)
    PROVE  TunnTyped' /\ queue' = queue
<1>1. queue' = queue
  BY DEF Decapsulate, tunnVars
<1>2. /\ established' \in BOOLEAN /\ answered' \in BOOLEAN /\ begun' \in BOOLEAN
  BY Zenon DEF Decapsulate, tunnVars, TunnTyped
<1>3. lapsed' \in BOOLEAN
  BY RecordEffect, Zenon DEF Decapsulate, tunnVars, TunnTyped
<1>. QED
  BY <1>1, <1>2, <1>3, Zenon DEF TunnTyped

(* Worker 1 keeps the invariant.                                            *)
LEMMA TunKeeps == LockInv /\ TunStep => LockInv'
<1> SUFFICES ASSUME LockInv, TunStep PROVE LockInv'
  OBVIOUS
<1>0. /\ at \in [Thread -> Place] /\ "tun" \in Thread /\ "udp" \in Thread
      /\ "timer" \in Thread /\ "session" \in Thread
      /\ hand \in [Worker -> Outgoing \cup Datagram \cup {Inner, None}]
      /\ "tun" \in Worker /\ "udp" \in Worker
  BY DEF LockInv, WTypeOK, Thread, Worker
<1>1. CASE TunCheck
  BY <1>0, <1>1 DEF LockInv, TunCheck, Check, Goto, envVars, tunnVars, WTypeOK, Handled,
     TunnOwned, ObfOwned, JoinedFirst, Worker, Place, Thread
<1>2. CASE TunReceive
  <2>1. Head(ring) \in Packet /\ ring' \in Seq(Packet)
    BY <1>2 DEF TunReceive, LockInv, WTypeOK
  <2>. QED
    <3>1. hand' \in [Worker -> Outgoing \cup Datagram \cup {Inner, None}]
      BY <1>0, <1>2, <2>1 DEF TunReceive, Takes, Outgoing
    <3>. QED
      BY <1>0, <1>2, <2>1, <3>1 DEF LockInv, TunReceive, Goto, Takes, tunnVars, WTypeOK, Handled,
         TunnOwned, ObfOwned, JoinedFirst, Worker, Place, Thread
<1>3. CASE TunShut
  BY <1>0, <1>3 DEF LockInv, TunShut, Goto, envVars, tunnVars, WTypeOK, Handled,
     TunnOwned, ObfOwned, JoinedFirst, Worker, Place, Thread
<1>4. CASE TunLockTunn
  BY <1>0, <1>4, Distinct DEF LockInv, TunLockTunn, LockTunn, Goto, envVars, tunnVars, WTypeOK, Handled,
     TunnOwned, ObfOwned, JoinedFirst, Worker, Place, Thread
<1>5. CASE TunEncapsulate
  <2>1. PICK result \in {hand["tun"], Control, None} :
           /\ Encapsulate(hand["tun"], result)
           /\ Takes("tun", result)
           /\ Goto("tun", IF result = None THEN "check" ELSE "wantObf")
    BY <1>5 DEF TunEncapsulate
  <2>2. hand["tun"] \in Packet
    BY <1>5 DEF LockInv, Handled, TunEncapsulate
  <2>3. TunnTyped' /\ result \in {hand["tun"], Control, None}
    BY <2>1, <2>2, EncapsulateEffect DEF LockInv, WTypeOK, TunnTyped
  <2>. QED
    BY <1>0, <1>5, <2>1, <2>2, <2>3, Distinct DEF LockInv, TunEncapsulate, Goto, Takes, envVars, WTypeOK,
       TunnTyped, Outgoing, Handled, TunnOwned, ObfOwned, JoinedFirst, Worker, Place, Thread
<1>6. CASE LockObf("tun")
  BY <1>0, <1>6, Distinct DEF LockInv, LockObf, Goto, envVars, tunnVars, WTypeOK, Handled,
     TunnOwned, ObfOwned, JoinedFirst, Worker, Place, Thread
<1>7. CASE EncodeOut("tun")
  BY <1>0, <1>7, Distinct DEF LockInv, EncodeOut, Goto, envVars, tunnVars, WTypeOK, Handled,
     TunnOwned, ObfOwned, JoinedFirst, Worker, Place, Thread
<1>8. CASE TunSend
  <2>1. wire' \in Seq(Packet)
    BY <1>8, SendType DEF TunSend, LockInv, WTypeOK
  <2>. QED
    BY <1>0, <1>8, <2>1, Distinct DEF LockInv, TunSend, Goto, Takes, envVars, tunnVars, WTypeOK, Handled,
     TunnOwned, ObfOwned, JoinedFirst, Worker, Place, Thread
<1>. QED
  BY <1>1, <1>2, <1>3, <1>4, <1>5, <1>6, <1>7, <1>8 DEF TunStep

(* What NextQueued gives is what was kept, or a handshake or nothing while  *)
(* it is kept again.                                                        *)
LEMMA NextQueuedEffect ==
    ASSUME TunnTyped, NEW result, NextQueued(result)
    PROVE  /\ TunnTyped'
           /\ UNCHANGED <<established, answered, lapsed>>
           /\ result \in Outgoing \cup {None}
           /\ \/ result = None /\ queue = <<>> /\ queue' = queue
              \/ established /\ queue # <<>> /\ result = Head(queue) /\ queue' = Tail(queue)
              \/ /\ ~established /\ queue # <<>> /\ result \in {Control, None}
                 /\ queue' = Append(Tail(queue), Head(queue))
<1>0. queue \in Seq(Outgoing) /\ Len(queue) \in Nat /\ Len(queue) <= MaxKept /\ MaxKept \in Nat
  BY WorkersAssumption DEF TunnTyped
<1>1. CASE queue = <<>>
  BY <1>1, Zenon DEF NextQueued, TunnTyped, tunnVars
<1>2. CASE queue # <<>> /\ established
  <2>1. /\ result = Head(queue) /\ queue' = Tail(queue)
        /\ UNCHANGED <<begun, established, answered, lapsed>>
    BY <1>2, Zenon DEF NextQueued
  <2>2. Head(queue) \in Outgoing /\ Tail(queue) \in Seq(Outgoing) /\ Len(Tail(queue)) <= MaxKept
    BY <1>0, <1>2
  <2>3. TunnTyped'
    BY <2>1, <2>2, Zenon DEF TunnTyped
  <2>. QED
    BY <1>2, <2>1, <2>2, <2>3, Zenon
<1>3. CASE queue # <<>> /\ ~established
  <2>1. /\ Initiate(result) /\ queue' = Append(Tail(queue), Head(queue))
        /\ UNCHANGED <<established, answered, lapsed>>
    BY <1>3, Zenon DEF NextQueued
  <2>2. Append(Tail(queue), Head(queue)) \in Seq(Outgoing) /\ Len(Append(Tail(queue), Head(queue))) <= MaxKept
    BY <1>0, <1>3
  <2>3. begun' \in BOOLEAN /\ result \in {Control, None}
    BY <2>1, InitiateEffect
  <2>4. TunnTyped'
    BY <2>1, <2>2, <2>3, Zenon DEF TunnTyped
  <2>5. result \in Outgoing \cup {None}
    BY <2>3 DEF Outgoing
  <2>. QED
    BY <1>3, <2>1, <2>3, <2>4, <2>5, Zenon
<1>. QED
  BY <1>1, <1>2, <1>3, Zenon

(* update_timers keeps, adds a keepalive or gives up all that is kept.      *)
LEMMA TimersEffect ==
    ASSUME TunnTyped, NEW result, UpdateTimers(result)
    PROVE  /\ TunnTyped' /\ result \in {Control, None}
           /\ \/ queue' = queue
              \/ ~established' /\ (queue' = Append(queue, Control) \/ queue' = <<>>)
<1>1. established' \in BOOLEAN /\ answered' \in BOOLEAN /\ lapsed' \in BOOLEAN
  BY RecordEffect, Zenon DEF UpdateTimers, TunnTyped
<1>2. Control \in Outgoing
  BY DEF Outgoing
<1>3. CASE (result = None \/ (result = Control /\ established')) /\ UNCHANGED <<begun, queue>>
  BY <1>1, <1>3, Zenon DEF TunnTyped
<1>4. CASE result = Control /\ begun' = TRUE /\ UNCHANGED queue
  BY <1>1, <1>4, Zenon DEF TunnTyped
<1>5. CASE ~established' /\ Initiate(result) /\ Keep(Control)
  <2>1. begun' \in BOOLEAN /\ result \in {Control, None}
    BY <1>5, InitiateEffect
  <2>2. /\ queue' \in Seq(Outgoing) /\ Len(queue') <= MaxKept
        /\ queue' = queue \/ queue' = Append(queue, Control)
    BY <1>2, <1>5, KeepEffect
  <2>. QED
    BY <1>1, <1>5, <2>1, <2>2, Zenon DEF TunnTyped
<1>6. CASE result = None /\ ~established' /\ ~answered' /\ begun' = FALSE /\ queue' = <<>>
  <2>1. <<>> \in Seq(Outgoing) /\ Len(<<>>) <= MaxKept
    BY WorkersAssumption
  <2>. QED
    BY <1>1, <1>6, <2>1, Zenon DEF TunnTyped
<1>. QED
  BY <1>3, <1>4, <1>5, <1>6, Zenon DEF UpdateTimers

(* Worker 2 keeps the invariant.                                            *)
LEMMA UdpKeeps == LockInv /\ UdpStep => LockInv'
<1> SUFFICES ASSUME LockInv, UdpStep PROVE LockInv'
  OBVIOUS
<1>0. /\ at \in [Thread -> Place] /\ "tun" \in Thread /\ "udp" \in Thread
      /\ "timer" \in Thread /\ "session" \in Thread
      /\ hand \in [Worker -> Outgoing \cup Datagram \cup {Inner, None}]
      /\ "tun" \in Worker /\ "udp" \in Worker /\ "timer" \in Worker
  BY DEF LockInv, WTypeOK, Thread, Worker
<1>1. CASE UdpCheck
  BY <1>0, <1>1 DEF LockInv, UdpCheck, Check, Goto, envVars, tunnVars, WTypeOK, Handled,
     TunnOwned, ObfOwned, JoinedFirst, Worker, Place, Thread
<1>2. CASE UdpReceive
  <2>1. CASE /\ received < MaxDatagrams /\ received' = received + 1
             /\ \E datagram \in Datagram : Takes("udp", datagram)
             /\ Goto("udp", "wantDeobf")
    <3>1. received' \in 0 .. MaxDatagrams
      BY <2>1, WorkersAssumption DEF LockInv, WTypeOK
    <3>2. PICK datagram \in Datagram : Takes("udp", datagram)
      BY <2>1
    <3>. QED
      BY <1>0, <1>2, <2>1, <3>1, <3>2, Distinct DEF LockInv, UdpReceive, Goto, Takes, tunnVars, WTypeOK, Handled,
         TunnOwned, ObfOwned, JoinedFirst, Worker, Place, Thread
  <2>2. CASE Goto("udp", "check") /\ UNCHANGED <<received, hand>>
    BY <1>0, <1>2, <2>2, Distinct DEF LockInv, UdpReceive, Goto, tunnVars, WTypeOK, Handled,
       TunnOwned, ObfOwned, JoinedFirst, Worker, Place, Thread
  <2>. QED
    BY <1>2, <2>1, <2>2 DEF UdpReceive
<1>3. CASE UdpLockObf
  BY <1>0, <1>3, Distinct DEF LockInv, UdpLockObf, Goto, envVars, tunnVars, WTypeOK, Handled,
     TunnOwned, ObfOwned, JoinedFirst, Worker, Place, Thread
<1>4. CASE UdpDecode
  <2>1. hand["udp"] \in Datagram
    BY <1>4 DEF UdpDecode, LockInv, Handled
  <2>. QED
    BY <1>0, <1>4, <2>1, Distinct DEF LockInv, UdpDecode, Goto, Takes, envVars, tunnVars, WTypeOK, Handled,
       TunnOwned, ObfOwned, JoinedFirst, Worker, Place, Thread, Datagram
<1>5. CASE UdpLockTunn
  BY <1>0, <1>5, Distinct DEF LockInv, UdpLockTunn, LockTunn, Goto, envVars, tunnVars, WTypeOK, Handled,
     TunnOwned, ObfOwned, JoinedFirst, Worker, Place, Thread
<1>6. CASE UdpDecapsulate
  <2>1. PICK result \in {Control, Inner, None} :
           Decapsulate(hand["udp"], result) /\ Takes("udp", result)
    BY <1>6 DEF UdpDecapsulate
  <2>2. TunnTyped'
    BY <2>1, DecapsulateEffect DEF LockInv, WTypeOK, TunnTyped
  <2>. QED
    BY <1>0, <1>6, <2>1, <2>2, Distinct DEF LockInv, UdpDecapsulate, Goto, Takes, envVars, WTypeOK,
       TunnTyped, Outgoing, Handled, TunnOwned, ObfOwned, JoinedFirst, Worker, Place, Thread
<1>7. CASE UdpResult
  <2>1. CASE hand["udp"] = Inner
    <3>1. PICK result \in Outgoing \cup {None} : NextQueued(result) /\ Takes("udp", result)
      BY <1>7, <2>1, Distinct DEF UdpResult
    <3>2. TunnTyped'
      BY <3>1, NextQueuedEffect DEF LockInv, WTypeOK, TunnTyped
    <3>3. UNCHANGED <<at, tunn, obf, wire, envVars>>
      BY <1>7, <2>1, Distinct DEF UdpResult
    <3>. QED
      BY <1>0, <1>7, <3>1, <3>2, <3>3, Distinct DEF LockInv, UdpResult, Takes, envVars, WTypeOK, TunnTyped, Handled,
         TunnOwned, ObfOwned, JoinedFirst, Worker, Place, Thread
  <2>2. CASE hand["udp"] \in Outgoing
    BY <1>0, <1>7, <2>2, Distinct DEF LockInv, UdpResult, Goto, envVars, tunnVars, WTypeOK, Handled,
       TunnOwned, ObfOwned, JoinedFirst, Worker, Place, Thread
  <2>3. CASE hand["udp"] = None
    BY <1>0, <1>7, <2>3, Distinct DEF LockInv, UdpResult, Goto, envVars, tunnVars, WTypeOK, Handled,
       TunnOwned, ObfOwned, JoinedFirst, Worker, Place, Thread
  <2>. QED
    BY <1>7, <2>1, <2>2, <2>3 DEF UdpResult
<1>8. CASE LockObf("udp")
  BY <1>0, <1>8, Distinct DEF LockInv, LockObf, Goto, envVars, tunnVars, WTypeOK, Handled,
     TunnOwned, ObfOwned, JoinedFirst, Worker, Place, Thread
<1>9. CASE EncodeOut("udp")
  BY <1>0, <1>9, Distinct DEF LockInv, EncodeOut, Goto, envVars, tunnVars, WTypeOK, Handled,
     TunnOwned, ObfOwned, JoinedFirst, Worker, Place, Thread
<1>10. CASE UdpWrite
  <2>1. PICK result \in Outgoing \cup {None} : NextQueued(result) /\ Takes("udp", result)
    BY <1>10 DEF UdpWrite
  <2>2. TunnTyped'
    BY <2>1, NextQueuedEffect DEF LockInv, WTypeOK, TunnTyped
  <2>3. wire' \in Seq(Packet)
    BY <1>10, SendType DEF UdpWrite, LockInv, WTypeOK
  <2>. QED
    BY <1>0, <1>10, <2>1, <2>2, <2>3, Distinct DEF LockInv, UdpWrite, Goto, Takes, envVars, WTypeOK, TunnTyped, Handled,
       TunnOwned, ObfOwned, JoinedFirst, Worker, Place, Thread
<1>. QED
  BY <1>1, <1>2, <1>3, <1>4, <1>5, <1>6, <1>7, <1>8, <1>9, <1>10 DEF UdpStep

(* Worker 3 keeps the invariant.                                            *)
LEMMA TimerKeeps == LockInv /\ TimerStep => LockInv'
<1> SUFFICES ASSUME LockInv, TimerStep PROVE LockInv'
  OBVIOUS
<1>0. /\ at \in [Thread -> Place] /\ "tun" \in Thread /\ "udp" \in Thread
      /\ "timer" \in Thread /\ "session" \in Thread
      /\ hand \in [Worker -> Outgoing \cup Datagram \cup {Inner, None}]
      /\ "tun" \in Worker /\ "udp" \in Worker /\ "timer" \in Worker
  BY DEF LockInv, WTypeOK, Thread, Worker
<1>1. CASE TimerCheck
  BY <1>0, <1>1 DEF LockInv, TimerCheck, Check, Goto, envVars, tunnVars, WTypeOK, Handled,
     TunnOwned, ObfOwned, JoinedFirst, Worker, Place, Thread
<1>2. CASE TimerLockTunn
  BY <1>0, <1>2, Distinct DEF LockInv, TimerLockTunn, LockTunn, Goto, envVars, tunnVars, WTypeOK, Handled,
     TunnOwned, ObfOwned, JoinedFirst, Worker, Place, Thread
<1>3. CASE TimerUpdate
  <2>1. PICK result \in {Control, None} :
          /\ UpdateTimers(result)
          /\ Takes("timer", result)
          /\ IF result = None
             THEN Goto("timer", "check") /\ tunn' = None
             ELSE Goto("timer", "wantObf") /\ UNCHANGED tunn
    BY <1>3 DEF TimerUpdate
  <2>2. TunnTyped'
    BY <2>1, TimersEffect DEF LockInv, WTypeOK, TunnTyped
  <2>. QED
    BY <1>0, <1>3, <2>1, <2>2, Distinct DEF LockInv, TimerUpdate, Goto, Takes, envVars, WTypeOK, TunnTyped,
       Outgoing, Handled, TunnOwned, ObfOwned, JoinedFirst, Worker, Place, Thread
<1>4. CASE LockObf("timer")
  BY <1>0, <1>4, Distinct DEF LockInv, LockObf, Goto, envVars, tunnVars, WTypeOK, Handled,
     TunnOwned, ObfOwned, JoinedFirst, Worker, Place, Thread
<1>5. CASE EncodeOut("timer")
  BY <1>0, <1>5, Distinct DEF LockInv, EncodeOut, Goto, envVars, tunnVars, WTypeOK, Handled,
     TunnOwned, ObfOwned, JoinedFirst, Worker, Place, Thread
<1>6. CASE TimerSend
  BY <1>0, <1>6, Distinct DEF LockInv, TimerSend, Goto, Takes, envVars, tunnVars, WTypeOK, Handled,
     TunnOwned, ObfOwned, JoinedFirst, Worker, Place, Thread
<1>. QED
  BY <1>1, <1>2, <1>3, <1>4, <1>5, <1>6 DEF TimerStep

(* The session thread keeps the invariant.                                  *)
LEMMA SessionKeeps == LockInv /\ SessionStep => LockInv'
<1> SUFFICES ASSUME LockInv, SessionStep PROVE LockInv'
  OBVIOUS
<1>0. /\ at \in [Thread -> Place] /\ "tun" \in Thread /\ "udp" \in Thread
      /\ "timer" \in Thread /\ "session" \in Thread
      /\ hand \in [Worker -> Outgoing \cup Datagram \cup {Inner, None}]
      /\ "tun" \in Worker /\ "udp" \in Worker /\ "timer" \in Worker
  BY DEF LockInv, WTypeOK, Thread, Worker
<1>1. CASE SessionCheck
  BY <1>0, <1>1 DEF LockInv, SessionCheck, Check, Goto, envVars, tunnVars, WTypeOK, Handled,
     TunnOwned, ObfOwned, JoinedFirst, Worker, Place, Thread
<1>2. CASE SessionLockTunn
  BY <1>0, <1>2, Distinct DEF LockInv, SessionLockTunn, LockTunn, Goto, envVars, tunnVars, WTypeOK, Handled,
     TunnOwned, ObfOwned, JoinedFirst, Worker, Place, Thread
<1>3. CASE SessionLook
  BY <1>0, <1>3, Distinct DEF LockInv, SessionLook, Goto, envVars, tunnVars, WTypeOK, Handled,
     TunnOwned, ObfOwned, JoinedFirst, Worker, Place, Thread
<1>4. CASE SessionShutdown
  BY <1>0, <1>4, Distinct DEF LockInv, SessionShutdown, Goto, envVars, tunnVars, WTypeOK, Handled,
     TunnOwned, ObfOwned, JoinedFirst, Worker, Place, Thread
<1>5. CASE Join
  BY <1>0, <1>5, Distinct DEF LockInv, Join, Goto, envVars, tunnVars, WTypeOK, Handled,
     TunnOwned, ObfOwned, JoinedFirst, Worker, Place, Thread
<1>. QED
  BY <1>1, <1>2, <1>3, <1>4, <1>5 DEF SessionStep

(* Locks, places and hands fit together in every reachable state.           *)
LEMMA LockInvariant == Spec => []LockInv
<1>1. LockInv /\ [Next]_vars => LockInv'
  <2>1. CASE UNCHANGED vars
    BY <2>1 DEF vars, envVars, tunnVars, LockInv, WTypeOK, Handled, TunnOwned, ObfOwned, JoinedFirst
  <2>. QED
    BY <2>1, StopKeeps, ArrivalKeeps, TunKeeps, UdpKeeps, TimerKeeps, SessionKeeps DEF Next
<1>. QED
  BY <1>1, LockInvInit, PTL DEF Spec

(* The workers' type invariant, for any number of packets and datagrams.    *)
THEOREM WTypeCorrect == Spec => []WTypeOK
<1>1. LockInv => WTypeOK
  BY DEF LockInv
<1>. QED
  BY <1>1, LockInvariant, PTL

(* No two threads of a session wait for each other's lock: a thread that    *)
(* waits for Tunn holds nothing (tunnel_service.rs 277-411).                *)
THEOREM NobodyWaitsInACircle == Spec => []NoCircularWait
<1>1. LockInv => NoCircularWait
  BY Distinct DEF LockInv, WTypeOK, ObfOwned, NoCircularWait, Thread, Worker
<1>. QED
  BY <1>1, LockInvariant, PTL

(* After the session thread has reported the end nothing of the session     *)
(* moves any more (tunnel_service.rs 461-468).                              *)
THEOREM QuietAfterReport == Spec => NothingAfterReport
<1>1. LockInv /\ [Next]_vars
        => [at["session"] = "done" => UNCHANGED <<tunn, obf, tunnVars, at, hand, wire>>]_vars
  <2> SUFFICES ASSUME LockInv, Next, at["session"] = "done"
               PROVE  UNCHANGED <<tunn, obf, tunnVars, at, hand, wire>>
    BY DEF vars
  <2>1. at["tun"] = "done" /\ at["udp"] = "done" /\ at["timer"] = "done"
    BY DEF LockInv, JoinedFirst, Worker
  <2>2. ~TunStep /\ ~UdpStep
    BY <2>1 DEF TunStep, TunCheck, TunReceive, TunShut, TunLockTunn, TunEncapsulate, TunSend,
                UdpStep, UdpCheck, UdpReceive, UdpLockObf, UdpDecode, UdpLockTunn,
                UdpDecapsulate, UdpResult, UdpWrite, Check, LockTunn, LockObf, EncodeOut
  <2>3. ~TimerStep /\ ~SessionStep
    BY <2>1 DEF TimerStep, TimerCheck, TimerLockTunn, TimerUpdate, TimerSend,
                SessionStep, SessionCheck, SessionLockTunn, SessionLook, SessionShutdown, Join,
                Check, LockTunn, LockObf, EncodeOut
  <2>. QED
    BY <2>2, <2>3 DEF Next, Stop, PacketArrives
<1>. QED
  BY <1>1, LockInvariant, PTL DEF Spec, NothingAfterReport

-----------------------------------------------------------------------------
(* Nothing stays behind.  With a session current, Tunn keeps nothing while  *)
(* worker 2 is not at work on it, nor when worker 2 turns to a datagram or  *)
(* is about to let Tunn go; and while worker 2 sends, a session is current. *)
Flushed ==
    established /\ (tunn # "udp" \/ at["udp"] = "decapsulate" \/ (at["udp"] = "result" /\ hand["udp"] = None))
        => queue = <<>>

Draining ==
    at["udp"] \in {"wantObf", "encode", "send"} \/ (at["udp"] = "result" /\ hand["udp"] # None)
        => established

FlushInv ==
    /\ LockInv
    /\ answered /\ ~established => lapsed
    /\ lapsed \/ (Flushed /\ Draining)

(* The history is kept.                                                     *)
LEMMA RecordKeeps ==
    ASSUME Record
    PROVE  (answered' /\ ~established' => lapsed') /\ (lapsed => lapsed')
BY Zenon DEF Record

(* Steps that touch neither Tunn nor worker 2.                              *)
LEMMA FlushApart ==
    ASSUME FlushInv, UNCHANGED <<established, answered, lapsed, queue>>,
           at'["udp"] = at["udp"], hand'["udp"] = hand["udp"], tunn = "udp" => tunn' = "udp"
    PROVE  (answered' /\ ~established' => lapsed') /\ (lapsed' \/ (Flushed' /\ Draining'))
BY DEF FlushInv, Flushed, Draining

LEMMA FlushTun ==
    ASSUME FlushInv, TunStep
    PROVE  (answered' /\ ~established' => lapsed') /\ (lapsed' \/ (Flushed' /\ Draining'))
<1>0. /\ at \in [Thread -> Place] /\ "tun" \in Thread /\ "udp" \in Thread
      /\ hand \in [Worker -> Outgoing \cup Datagram \cup {Inner, None}]
      /\ "tun" \in Worker /\ "udp" \in Worker
  BY DEF FlushInv, LockInv, WTypeOK, Thread, Worker
<1>1. at'["udp"] = at["udp"] /\ hand'["udp"] = hand["udp"]
  BY <1>0 DEF TunStep, TunCheck, TunReceive, TunShut, TunLockTunn, TunEncapsulate, TunSend,
     Check, LockTunn, LockObf, EncodeOut, Goto, Takes
<1>2. CASE TunEncapsulate
  <2>1. PICK result \in {hand["tun"], Control, None} : Encapsulate(hand["tun"], result)
    BY <1>2 DEF TunEncapsulate
  <2>2. tunn = "tun" /\ hand["tun"] \in Packet
    BY <1>2 DEF TunEncapsulate, FlushInv, LockInv, TunnOwned, Handled
  <2>3. /\ UNCHANGED <<established, answered, lapsed>>
        /\ established => queue' = queue
    BY <2>1, <2>2, EncapsulateEffect DEF FlushInv, LockInv, WTypeOK, TunnTyped
  <2>. QED
    BY <1>1, <2>2, <2>3 DEF FlushInv, Flushed, Draining
<1>3. CASE TunCheck \/ TunReceive \/ TunShut \/ TunLockTunn \/ LockObf("tun") \/ EncodeOut("tun") \/ TunSend
  <2>1. UNCHANGED <<established, answered, lapsed, queue>> /\ (tunn = "udp" => tunn' = "udp")
    BY <1>3, Distinct DEF TunCheck, TunReceive, TunShut, TunLockTunn, TunSend, Check, LockTunn, LockObf, EncodeOut, tunnVars, Thread, Worker
  <2>. QED
    BY <1>1, <2>1, FlushApart
<1>. QED
  BY <1>2, <1>3 DEF TunStep

LEMMA FlushTimer ==
    ASSUME FlushInv, TimerStep
    PROVE  (answered' /\ ~established' => lapsed') /\ (lapsed' \/ (Flushed' /\ Draining'))
<1>0. /\ at \in [Thread -> Place] /\ "timer" \in Thread /\ "udp" \in Thread
      /\ hand \in [Worker -> Outgoing \cup Datagram \cup {Inner, None}]
      /\ "timer" \in Worker /\ "udp" \in Worker
  BY DEF FlushInv, LockInv, WTypeOK, Thread, Worker
<1>1. at'["udp"] = at["udp"] /\ hand'["udp"] = hand["udp"]
  BY <1>0 DEF TimerStep, TimerCheck, TimerLockTunn, TimerUpdate, TimerSend,
     Check, LockTunn, LockObf, EncodeOut, Goto, Takes
<1>2. CASE TimerUpdate
  <2>1. PICK result \in {Control, None} : UpdateTimers(result)
    BY <1>2 DEF TimerUpdate
  <2>2. tunn = "timer"
    BY <1>2 DEF TimerUpdate, FlushInv, LockInv, TunnOwned
  <2>3. ~established' \/ (established /\ queue' = queue)
    <3>1. queue' = queue \/ ~established'
      BY <2>1, TimersEffect DEF FlushInv, LockInv, WTypeOK, TunnTyped
    <3>2. ~established' \/ established
      BY <2>1, Zenon DEF UpdateTimers
    <3>. QED
      BY <3>1, <3>2
  <2>4. (answered' /\ ~established' => lapsed') /\ (lapsed => lapsed')
    BY <2>1, RecordKeeps DEF UpdateTimers
  <2>5. ~(at["udp"] \in {"result", "wantObf", "encode", "send"})
    BY <2>2 DEF FlushInv, LockInv, TunnOwned
  <2>. QED
    BY <1>1, <2>2, <2>3, <2>4, <2>5 DEF FlushInv, Flushed, Draining
<1>3. CASE TimerCheck \/ TimerLockTunn \/ LockObf("timer") \/ EncodeOut("timer") \/ TimerSend
  <2>1. UNCHANGED <<established, answered, lapsed, queue>> /\ (tunn = "udp" => tunn' = "udp")
    BY <1>3, Distinct DEF TimerCheck, TimerLockTunn, TimerSend, Check, LockTunn, LockObf, EncodeOut, tunnVars,
       Thread, Worker, FlushInv, LockInv, TunnOwned
  <2>. QED
    BY <1>1, <2>1, FlushApart
<1>. QED
  BY <1>2, <1>3 DEF TimerStep

LEMMA FlushSession ==
    ASSUME FlushInv, SessionStep
    PROVE  (answered' /\ ~established' => lapsed') /\ (lapsed' \/ (Flushed' /\ Draining'))
<1>1. at'["udp"] = at["udp"] /\ hand'["udp"] = hand["udp"]
  BY DEF SessionStep, SessionCheck, SessionLockTunn, SessionLook, SessionShutdown, Join, Check, LockTunn, Goto,
     FlushInv, LockInv, WTypeOK, Thread, Worker
<1>2. UNCHANGED <<established, answered, lapsed, queue>> /\ (tunn = "udp" => tunn' = "udp")
  BY Distinct DEF SessionStep, SessionCheck, SessionLockTunn, SessionLook, SessionShutdown, Join,
     Check, LockTunn, tunnVars, Thread, Worker, FlushInv, LockInv, TunnOwned
<1>. QED
  BY <1>1, <1>2, FlushApart

\* Worker 2 goes on to what Tunn gives next.
LEMMA FlushNext ==
    ASSUME FlushInv, NEW result, NextQueued(result), hand'["udp"] = result,
           tunn' = tunn, at'["udp"] = "result", at["udp"] = "send" \/ (at["udp"] = "result" /\ hand["udp"] = Inner)
    PROVE  (answered' /\ ~established' => lapsed') /\ (lapsed' \/ (Flushed' /\ Draining'))
<1>1. /\ UNCHANGED <<established, answered, lapsed>>
      /\ \/ result = None /\ queue = <<>> /\ queue' = queue
         \/ established /\ queue # <<>> /\ result = Head(queue) /\ queue' = Tail(queue)
         \/ ~established
  BY NextQueuedEffect DEF FlushInv, LockInv, WTypeOK, TunnTyped
<1>2. lapsed \/ established
  BY Distinct DEF FlushInv, Draining
<1>3. queue # <<>> => Head(queue) # None
  <2>1. queue \in Seq(Outgoing)
    BY DEF FlushInv, LockInv, WTypeOK
  <2>. QED
    BY <2>1, Distinct
<1>4. tunn = "udp"
  BY DEF FlushInv, LockInv, TunnOwned
<1>. QED
  BY <1>1, <1>2, <1>3, <1>4 DEF FlushInv, Flushed, Draining

LEMMA FlushUdp ==
    ASSUME FlushInv, UdpStep
    PROVE  (answered' /\ ~established' => lapsed') /\ (lapsed' \/ (Flushed' /\ Draining'))
<1>0. /\ at \in [Thread -> Place] /\ "udp" \in Thread
      /\ hand \in [Worker -> Outgoing \cup Datagram \cup {Inner, None}] /\ "udp" \in Worker
  BY DEF FlushInv, LockInv, WTypeOK, Thread, Worker
<1>1. CASE UdpCheck \/ UdpReceive \/ UdpLockObf \/ UdpDecode
  <2>1. /\ UNCHANGED <<established, answered, lapsed, queue, tunn>>
        /\ at'["udp"] \in {"receive", "done", "check", "wantDeobf", "decode", "wantTunn"}
        /\ at["udp"] \in {"check", "receive", "wantDeobf", "decode"}
    BY <1>0, <1>1 DEF UdpCheck, UdpReceive, UdpLockObf, UdpDecode, Check, Goto, tunnVars
  <2>2. tunn # "udp"
    BY <2>1 DEF FlushInv, LockInv, TunnOwned
  <2>. QED
    BY <2>1, <2>2 DEF FlushInv, Flushed, Draining
<1>2. CASE UdpLockTunn
  <2>1. /\ UNCHANGED <<established, answered, lapsed, queue>> /\ tunn = None /\ at'["udp"] = "decapsulate"
    BY <1>0, <1>2 DEF UdpLockTunn, LockTunn, Goto, tunnVars
  <2>. QED
    BY <2>1, Distinct DEF FlushInv, Flushed, Draining, Thread, Worker
<1>3. CASE UdpDecapsulate
  <2>1. PICK result \in {Control, Inner, None} :
           Decapsulate(hand["udp"], result) /\ Takes("udp", result)
    BY <1>3 DEF UdpDecapsulate
  <2>2. /\ at["udp"] = "decapsulate" /\ at'["udp"] = "result" /\ tunn = "udp" /\ tunn' = "udp"
        /\ hand'["udp"] = result
    BY <1>0, <1>3, <2>1 DEF UdpDecapsulate, Goto, Takes, FlushInv, LockInv, TunnOwned
  <2>3. CASE result = None /\ UNCHANGED tunnVars
    BY <2>2, <2>3 DEF FlushInv, Flushed, Draining, tunnVars
  <2>4. CASE result = Control /\ established' = TRUE /\ UNCHANGED <<answered, queue, lapsed>>
    BY <2>2, <2>4, Distinct DEF FlushInv, Flushed, Draining
  <2>5. CASE /\ result = Control
             /\ \/ answered' = TRUE /\ UNCHANGED established
                \/ established' = TRUE /\ UNCHANGED answered
             /\ Record
             /\ UNCHANGED queue
    <3>1. (answered' /\ ~established' => lapsed') /\ (lapsed => lapsed')
      BY <2>5, RecordKeeps
    <3>2. answered' \/ established'
      BY <2>5
    <3>. QED
      BY <2>2, <2>5, <3>1, <3>2, Distinct DEF FlushInv, Flushed, Draining
  <2>6. CASE /\ result \in {Inner, None}
             /\ \/ established /\ UNCHANGED <<established, answered>>
                \/ answered /\ established' = TRUE /\ answered' = FALSE
             /\ UNCHANGED <<begun, queue, lapsed>>
    <3>1. established' /\ (lapsed \/ established)
      BY <2>6 DEF FlushInv
    <3>. QED
      BY <2>2, <2>6, <3>1, Distinct DEF FlushInv, Flushed, Draining
  <2>. QED
    BY <2>1, <2>3, <2>4, <2>5, <2>6, Zenon DEF Decapsulate
<1>4. CASE UdpResult
  <2>1. CASE hand["udp"] = Inner
    <3>1. PICK result \in Outgoing \cup {None} : NextQueued(result) /\ Takes("udp", result)
      BY <1>4, <2>1, Distinct DEF UdpResult
    <3>2. at["udp"] = "result" /\ at'["udp"] = "result" /\ hand'["udp"] = result /\ tunn' = tunn
      BY <1>0, <1>4, <2>1, <3>1, Distinct DEF UdpResult, Takes
    <3>. QED
      BY <2>1, <3>1, <3>2, FlushNext
  <2>2. CASE hand["udp"] \in Outgoing
    <3>1. /\ UNCHANGED <<established, answered, lapsed, queue, tunn, hand>>
          /\ at["udp"] = "result" /\ at'["udp"] = "wantObf"
      BY <1>0, <1>4, <2>2, Distinct DEF UdpResult, Goto, tunnVars
    <3>2. tunn = "udp" /\ hand["udp"] # None
      BY <2>2, <3>1, Distinct DEF FlushInv, LockInv, TunnOwned
    <3>. QED
      BY <3>1, <3>2 DEF FlushInv, Flushed, Draining
  <2>3. CASE hand["udp"] = None
    <3>1. /\ UNCHANGED <<established, answered, lapsed, queue, hand>>
          /\ at["udp"] = "result" /\ at'["udp"] = "check"
      BY <1>0, <1>4, <2>3, Distinct DEF UdpResult, Goto, tunnVars
    <3>. QED
      BY <2>3, <3>1 DEF FlushInv, Flushed, Draining
  <2>. QED
    BY <1>4, <2>1, <2>2, <2>3 DEF UdpResult
<1>5. CASE LockObf("udp") \/ EncodeOut("udp")
  <2>1. /\ UNCHANGED <<established, answered, lapsed, queue, tunn, hand>>
        /\ at["udp"] \in {"wantObf", "encode"} /\ at'["udp"] \in {"encode", "send"}
    BY <1>0, <1>5 DEF LockObf, EncodeOut, Goto, tunnVars
  <2>2. tunn = "udp"
    BY <2>1 DEF FlushInv, LockInv, TunnOwned
  <2>. QED
    BY <2>1, <2>2 DEF FlushInv, Flushed, Draining
<1>6. CASE UdpWrite
  <2>1. PICK result \in Outgoing \cup {None} : NextQueued(result) /\ Takes("udp", result)
    BY <1>6 DEF UdpWrite
  <2>2. at["udp"] = "send" /\ at'["udp"] = "result" /\ hand'["udp"] = result /\ tunn' = tunn
    BY <1>0, <1>6, <2>1 DEF UdpWrite, Goto, Takes
  <2>. QED
    BY <2>1, <2>2, FlushNext
<1>. QED
  BY <1>1, <1>2, <1>3, <1>4, <1>5, <1>6 DEF UdpStep

LEMMA FlushInvInit == Init => FlushInv
<1> SUFFICES ASSUME Init PROVE FlushInv
  OBVIOUS
<1>1. at["udp"] = "check" /\ queue = <<>> /\ ~established /\ ~answered
  BY Zenon DEF Init, Thread, Worker
<1>. QED
  BY <1>1, LockInvInit DEF FlushInv, Flushed, Draining

LEMMA FlushInvariant == Spec => []FlushInv
<1>1. FlushInv /\ LockInv' /\ [Next]_vars => FlushInv'
  <2> SUFFICES ASSUME FlushInv, LockInv', [Next]_vars PROVE FlushInv'
    OBVIOUS
  <2>1. CASE UNCHANGED vars \/ Stop \/ PacketArrives
    <3>1. UNCHANGED <<tunn, tunnVars, at, hand>>
      BY <2>1 DEF vars, Stop, PacketArrives
    <3>. QED
      BY <3>1, FlushApart DEF FlushInv, tunnVars
  <2>. QED
    BY <2>1, FlushTun, FlushUdp, FlushTimer, FlushSession DEF Next, FlushInv
<1>. QED
  BY <1>1, FlushInvInit, LockInvariant, PTL DEF Spec

(* Worker 2 leaves nothing behind in Tunn once a session is current, unless *)
(* one was answered while none was: for any number of packets, datagrams    *)
(* and kept packets (tunnel_service.rs 355-377).                            *)
THEOREM NothingLeftBehind == Spec => []FlushedWhenEstablished
<1>1. FlushInv => FlushedWhenEstablished
  BY Distinct DEF FlushInv, Flushed, FlushedWhenEstablished, Thread, Worker
<1>. QED
  BY <1>1, FlushInvariant, PTL

-----------------------------------------------------------------------------
(* The order of packets.  A packet is in one place: sent, in the hands of   *)
(* worker 2, kept by Tunn, in the hands of worker 1 or still in the adapter *)
(* and, unless Tunn lapsed, those of one place go before those of the next. *)
Packets(s) == Range(s) \cap Packet
Hand(w) == {hand[w]} \cap Packet

Before(a, b) == \A x \in a, y \in b : x < y
Sorted(s) == \A i, j \in 1 .. Len(s) : i < j /\ s[i] \in Packet /\ s[j] \in Packet => s[i] < s[j]
Once(s) == \A i, j \in 1 .. Len(s) : i < j /\ s[i] \in Packet => s[i] # s[j]

Apart(u, q, t, r, n) ==
    /\ u \subseteq 1 .. n /\ q \subseteq 1 .. n /\ t \subseteq 1 .. n /\ r \subseteq 1 .. n
    /\ u \cap q = {} /\ u \cap t = {} /\ q \cap t = {}
    /\ Before(u, r) /\ Before(q, r) /\ Before(t, r)

Ordered(u, q, t) == Before(u, q) /\ Before(u, t) /\ Before(q, t)

(* While worker 1 has an enciphered packet in its hands there is none that  *)
(* should go before it.                                                     *)
NoneBefore ==
    at["tun"] \in {"wantObf", "encode", "send"} /\ hand["tun"] \in Packet
        => Packets(queue) = {} /\ Hand("udp") = {}

OrderParts ==
    /\ hand["timer"] \notin Packet
    /\ Sorted(ring) /\ Once(queue)
    /\ Apart(Hand("udp"), Packets(queue), Hand("tun"), Packets(ring), written)
    /\ lapsed \/ (Sorted(queue) /\ Ordered(Hand("udp"), Packets(queue), Hand("tun")) /\ NoneBefore)

OrderInv == FlushInv /\ OrderParts

(* What a sequence holds when something is put behind it, and when its      *)
(* first element is taken.                                                  *)
LEMMA PacketsAppend ==
    ASSUME NEW s \in Seq(Outgoing), NEW x \in Outgoing
    PROVE  /\ Packets(Append(s, x)) = Packets(s) \cup ({x} \cap Packet)
           /\ Once(s) /\ x \notin Packets(s) => Once(Append(s, x))
           /\ Sorted(s) /\ Before(Packets(s), {x} \cap Packet) => Sorted(Append(s, x))
<1>. DEFINE r == Append(s, x)
<1>1. /\ Len(s) \in Nat /\ Len(r) = Len(s) + 1 /\ r[Len(s) + 1] = x
      /\ \A i \in 1 .. Len(s) : r[i] = s[i]
      /\ DOMAIN r = 1 .. Len(r) /\ DOMAIN s = 1 .. Len(s)
  OBVIOUS
<1>. HIDE DEF r
<1>2. \A i \in 1 .. Len(r) : i \in 1 .. Len(s) \/ i = Len(s) + 1
  BY <1>1
<1>3. \A i \in 1 .. Len(s) : s[i] \in Packet => s[i] \in Packets(s)
  BY <1>1 DEF Packets, Range
<1>4. Packets(r) = Packets(s) \cup ({x} \cap Packet)
  <2>1. Len(s) + 1 \in 1 .. Len(r) /\ 1 .. Len(s) \subseteq 1 .. Len(r)
    BY <1>1
  <2>2. ASSUME NEW y \in Packets(r) PROVE y \in Packets(s) \cup ({x} \cap Packet)
    <3>1. PICK i \in 1 .. Len(r) : y = r[i]
      BY <1>1 DEF Packets, Range
    <3>2. y \in Packet
      BY DEF Packets
    <3>3. CASE i \in 1 .. Len(s)
      BY <1>1, <1>3, <3>1, <3>2, <3>3
    <3>4. CASE i = Len(s) + 1
      BY <1>1, <3>1, <3>2, <3>4
    <3>. QED
      BY <1>2, <3>3, <3>4
  <2>3. ASSUME NEW y \in Packets(s) PROVE y \in Packets(r)
    <3>1. PICK i \in 1 .. Len(s) : y = s[i] /\ y \in Packet
      BY <1>1 DEF Packets, Range
    <3>. QED
      BY <1>1, <2>1, <3>1 DEF Packets, Range
  <2>4. x \in Packet => x \in Packets(r)
    BY <1>1, <2>1 DEF Packets, Range
  <2>. QED
    BY <2>2, <2>3, <2>4
<1>5. ASSUME Once(s), x \notin Packets(s) PROVE Once(r)
  <2> SUFFICES ASSUME NEW i \in 1 .. Len(r), NEW j \in 1 .. Len(r), i < j, r[i] \in Packet
               PROVE  r[i] # r[j]
    BY DEF Once
  <2>1. i \in 1 .. Len(s) /\ r[i] = s[i]
    BY <1>1
  <2>2. CASE j \in 1 .. Len(s)
    BY <1>1, <1>5, <2>1, <2>2 DEF Once
  <2>3. CASE j = Len(s) + 1
    BY <1>1, <1>3, <1>5, <2>1, <2>3
  <2>. QED
    BY <1>2, <2>2, <2>3
<1>6. ASSUME Sorted(s), Before(Packets(s), {x} \cap Packet) PROVE Sorted(r)
  <2> SUFFICES ASSUME NEW i \in 1 .. Len(r), NEW j \in 1 .. Len(r), i < j, r[i] \in Packet, r[j] \in Packet
               PROVE  r[i] < r[j]
    BY DEF Sorted
  <2>1. i \in 1 .. Len(s) /\ r[i] = s[i]
    BY <1>1
  <2>2. CASE j \in 1 .. Len(s)
    BY <1>1, <1>6, <2>1, <2>2 DEF Sorted
  <2>3. CASE j = Len(s) + 1
    BY <1>1, <1>3, <1>6, <2>1, <2>3 DEF Before
  <2>. QED
    BY <1>2, <2>2, <2>3
<1>. QED
  BY <1>4, <1>5, <1>6 DEF r

LEMMA PacketsTail ==
    ASSUME NEW s \in Seq(Outgoing), s # <<>>
    PROVE  /\ Packets(s) = ({Head(s)} \cap Packet) \cup Packets(Tail(s))
           /\ Once(s) => Once(Tail(s)) /\ Head(s) \notin Packets(Tail(s))
           /\ Sorted(s) => Sorted(Tail(s)) /\ Before({Head(s)} \cap Packet, Packets(Tail(s)))
<1>. DEFINE r == Tail(s)
<1>1. /\ Len(s) \in Nat /\ Len(s) >= 1 /\ Len(r) = Len(s) - 1 /\ Head(s) = s[1]
      /\ \A i \in 1 .. Len(r) : r[i] = s[i + 1]
      /\ DOMAIN r = 1 .. Len(r) /\ DOMAIN s = 1 .. Len(s)
  OBVIOUS
<1>. HIDE DEF r
<1>2. /\ 1 \in 1 .. Len(s) /\ \A i \in 1 .. Len(r) : i + 1 \in 1 .. Len(s) /\ 1 < i + 1
      /\ \A i \in 1 .. Len(s) : i = 1 \/ (i - 1 \in 1 .. Len(r) /\ (i - 1) + 1 = i)
  BY <1>1
<1>3. ASSUME NEW y \in Packets(r)
      PROVE  \E i \in 1 .. Len(r) : y = s[i + 1] /\ y \in Packet
  BY <1>1 DEF Packets, Range
<1>4. Packets(s) = ({Head(s)} \cap Packet) \cup Packets(r)
  <2>1. ASSUME NEW y \in Packets(s) PROVE y \in ({Head(s)} \cap Packet) \cup Packets(r)
    <3>1. PICK i \in 1 .. Len(s) : y = s[i] /\ y \in Packet
      BY <1>1 DEF Packets, Range
    <3>2. CASE i = 1
      BY <1>1, <3>1, <3>2
    <3>3. CASE i - 1 \in 1 .. Len(r) /\ (i - 1) + 1 = i
      <4>1. y = r[i - 1]
        BY <1>1, <3>1, <3>3
      <4>. QED
        BY <1>1, <3>1, <3>3, <4>1 DEF Packets, Range
    <3>. QED
      BY <1>2, <3>2, <3>3
  <2>2. ASSUME NEW y \in Packets(r) PROVE y \in Packets(s)
    BY <1>1, <1>2, <1>3 DEF Packets, Range
  <2>3. Head(s) \in Packet => Head(s) \in Packets(s)
    BY <1>1, <1>2 DEF Packets, Range
  <2>. QED
    BY <2>1, <2>2, <2>3
<1>5. ASSUME Once(s) PROVE Once(r) /\ Head(s) \notin Packets(r)
  <2>1. ASSUME NEW i \in 1 .. Len(r), NEW j \in 1 .. Len(r), i < j, r[i] \in Packet
        PROVE  r[i] # r[j]
    <3>1. r[i] = s[i + 1] /\ r[j] = s[j + 1] /\ i + 1 < j + 1
      BY <1>1, <2>1
    <3>. QED
      BY <1>2, <1>5, <2>1, <3>1 DEF Once
  <2>2. Head(s) \notin Packets(r)
    BY <1>1, <1>2, <1>3, <1>5 DEF Once, Packets
  <2>. QED
    BY <2>1, <2>2 DEF Once
<1>6. ASSUME Sorted(s) PROVE Sorted(r) /\ Before({Head(s)} \cap Packet, Packets(r))
  <2>1. ASSUME NEW i \in 1 .. Len(r), NEW j \in 1 .. Len(r), i < j, r[i] \in Packet, r[j] \in Packet
        PROVE  r[i] < r[j]
    <3>1. r[i] = s[i + 1] /\ r[j] = s[j + 1] /\ i + 1 < j + 1
      BY <1>1, <2>1
    <3>. QED
      BY <1>2, <1>6, <2>1, <3>1 DEF Sorted
  <2>2. ASSUME NEW x \in {Head(s)} \cap Packet, NEW y \in Packets(r) PROVE x < y
    <3>1. PICK i \in 1 .. Len(r) : y = s[i + 1] /\ y \in Packet
      BY <1>3
    <3>. QED
      BY <1>1, <1>2, <1>6, <2>2, <3>1 DEF Sorted
  <2>. QED
    BY <2>1, <2>2 DEF Sorted, Before
<1>. QED
  BY <1>4, <1>5, <1>6 DEF r

LEMMA PacketsNone == Packets(<<>>) = {} /\ Once(<<>>) /\ Sorted(<<>>)
BY DEF Packets, Range, Once, Sorted

(* How packets pass from place to place.                                    *)
LEMMA PlacesFewer ==
    ASSUME NEW u, NEW q, NEW t, NEW r, NEW n, NEW v, NEW p, NEW s,
           v \subseteq u, p \subseteq q, s \subseteq t
    PROVE  /\ Apart(u, q, t, r, n) => Apart(v, p, s, r, n)
           /\ Ordered(u, q, t) => Ordered(v, p, s)
BY DEF Apart, Ordered, Before

LEMMA PlacesReceive ==
    ASSUME NEW u, NEW q, NEW h, NEW r, NEW n, Before(h, r), Apart(u, q, {}, h \cup r, n)
    PROVE  /\ Apart(u, q, h, r, n)
           /\ Ordered(u, q, {}) => Ordered(u, q, h)
<1>1. Before(u, h) /\ Before(q, h) /\ Before(u, r) /\ Before(q, r)
  BY DEF Apart, Before
<1>2. u \cap h = {} /\ q \cap h = {}
  <2>1. \A x \in 1 .. n : ~(x < x)
    OBVIOUS
  <2>. QED
    BY <1>1, <2>1 DEF Apart, Before
<1>. QED
  BY <1>1, <1>2 DEF Apart, Ordered, Before

LEMMA PlacesKeep ==
    ASSUME NEW u, NEW q, NEW h, NEW r, NEW n
    PROVE  /\ Apart(u, q, h, r, n) => Apart(u, q \cup h, {}, r, n)
           /\ Ordered(u, q, h) => Ordered(u, q \cup h, {})
BY DEF Apart, Ordered, Before

LEMMA PlacesNext ==
    ASSUME NEW h, NEW q, NEW t, NEW r, NEW n, h \cap q = {}
    PROVE  /\ Apart({}, h \cup q, t, r, n) => Apart(h, q, t, r, n)
           /\ Ordered({}, h \cup q, t) /\ Before(h, q) => Ordered(h, q, t)
BY DEF Apart, Ordered, Before

LEMMA PlacesAccept ==
    ASSUME NEW u, NEW q, NEW t, NEW r, NEW n \in Nat, Apart(u, q, t, r, n)
    PROVE  Apart(u, q, t, r \cup {n + 1}, n + 1) /\ Before(r, {n + 1})
<1>1. 1 .. n \subseteq 1 .. n + 1 /\ n + 1 \in 1 .. n + 1 /\ \A x \in 1 .. n : x < n + 1
  OBVIOUS
<1>. QED
  BY <1>1 DEF Apart, Before

(* Steps that move no packet.                                               *)
LEMMA PartsApart ==
    ASSUME OrderParts, UNCHANGED <<ring, queue, written>>, lapsed => lapsed',
           hand'["timer"] \notin Packet, Hand("udp")' = Hand("udp"), Hand("tun")' = Hand("tun"),
           /\ at'["tun"] \in {"wantObf", "encode", "send"} /\ hand'["tun"] \in Packet
                => at["tun"] \in {"wantObf", "encode", "send"} /\ hand["tun"] \in Packet
    PROVE  OrderParts'
<1>1. UNCHANGED <<Packets(queue), Packets(ring)>>
  BY DEF Packets
<1>2. Sorted(ring)' = Sorted(ring) /\ Once(queue)' = Once(queue) /\ Sorted(queue)' = Sorted(queue)
  BY DEF Sorted, Once
<1>3. Apart(Hand("udp"), Packets(queue), Hand("tun"), Packets(ring), written)'
  <2>1. Apart(Hand("udp"), Packets(queue), Hand("tun"), Packets(ring), written)
    BY DEF OrderParts
  <2>. QED
    BY <1>1, <2>1 DEF Apart, Before
<1>4. Ordered(Hand("udp"), Packets(queue), Hand("tun"))
        => Ordered(Hand("udp"), Packets(queue), Hand("tun"))'
  BY <1>1 DEF Ordered, Before
<1>5. NoneBefore => NoneBefore'
  BY <1>1 DEF NoneBefore
<1>. QED
  BY <1>1, <1>2, <1>3, <1>4, <1>5 DEF OrderParts

LEMMA OrderTypes ==
    OrderInv =>
      /\ at \in [Thread -> Place] /\ "tun" \in Thread /\ "udp" \in Thread
      /\ "timer" \in Thread /\ "session" \in Thread
      /\ hand \in [Worker -> Outgoing \cup Datagram \cup {Inner, None}]
      /\ "tun" \in Worker /\ "udp" \in Worker /\ "timer" \in Worker
      /\ queue \in Seq(Outgoing) /\ ring \in Seq(Packet) /\ ring \in Seq(Outgoing)
      /\ wire \in Seq(Packet) /\ written \in Nat /\ TunnTyped
<1>1. ASSUME OrderInv PROVE ring \in Seq(Outgoing)
  <2>1. ring \in Seq(Packet) /\ \A x \in Packet : x \in Outgoing
    BY <1>1 DEF OrderInv, FlushInv, LockInv, WTypeOK, Outgoing
  <2>. QED
    BY <2>1
<1>2. ASSUME OrderInv PROVE written \in Nat
  BY <1>2, WorkersAssumption DEF OrderInv, FlushInv, LockInv, WTypeOK
<1>. QED
  BY <1>1, <1>2 DEF OrderInv, FlushInv, LockInv, WTypeOK, TunnTyped, Thread, Worker

(* Worker 1 passes packets to Tunn or past it.                              *)
LEMMA OrderTun ==
    ASSUME OrderInv, TunStep
    PROVE  OrderParts'
<1>0. /\ UNCHANGED <<written, lapsed>> /\ hand'["timer"] = hand["timer"] /\ hand'["udp"] = hand["udp"]
      /\ Hand("udp")' = Hand("udp") /\ hand["timer"] \notin Packet
  <2>1. UNCHANGED written /\ hand'["timer"] = hand["timer"] /\ hand'["udp"] = hand["udp"]
    BY OrderTypes DEF TunStep, TunCheck, TunReceive, TunShut, TunLockTunn, TunEncapsulate, TunSend,
       Check, LockTunn, LockObf, EncodeOut, Goto, Takes, envVars
  <2>2. UNCHANGED lapsed
    BY Zenon DEF TunStep, TunCheck, TunReceive, TunShut, TunLockTunn, TunEncapsulate, TunSend,
       Check, LockTunn, LockObf, EncodeOut, Encapsulate, tunnVars
  <2>. QED
    BY <2>1, <2>2 DEF Hand, OrderInv, OrderParts
<1>1. CASE TunCheck \/ TunShut \/ TunLockTunn \/ LockObf("tun") \/ EncodeOut("tun")
  <2>1. UNCHANGED <<hand, queue, ring>>
    BY <1>1 DEF TunCheck, TunShut, TunLockTunn, LockObf, EncodeOut, Check, LockTunn, envVars, tunnVars
  <2>2. at'["tun"] \in {"wantObf", "encode", "send"} => at["tun"] \in {"wantObf", "encode", "send"}
    BY <1>1, OrderTypes DEF TunCheck, TunShut, TunLockTunn, LockObf, EncodeOut, Check, LockTunn, Goto
  <2>3. Hand("tun")' = Hand("tun")
    BY <2>1 DEF Hand
  <2>. QED
    BY <1>0, <2>1, <2>2, <2>3, PartsApart DEF OrderInv
<1>2. CASE TunReceive
  <2>1. /\ ring # <<>> /\ ring' = Tail(ring) /\ hand'["tun"] = Head(ring) /\ UNCHANGED queue
        /\ hand["tun"] \notin Packet /\ at'["tun"] = "wantTunn"
    BY <1>2, OrderTypes DEF TunReceive, Takes, Goto, OrderInv, FlushInv, LockInv, Handled, tunnVars
  <2>. DEFINE h == {Head(ring)} \cap Packet
  <2>2. Hand("tun") = {} /\ Hand("tun")' = h
    BY <2>1 DEF Hand
  <2>3. /\ Packets(ring) = h \cup Packets(Tail(ring)) /\ Before(h, Packets(Tail(ring)))
        /\ Sorted(Tail(ring)) /\ Packets(ring)' = Packets(Tail(ring)) /\ Packets(queue)' = Packets(queue)
    BY <2>1, PacketsTail, OrderTypes DEF OrderInv, OrderParts, Packets
  <2>. HIDE DEF h
  <2>4. /\ Apart(Hand("udp"), Packets(queue), h, Packets(Tail(ring)), written)
        /\ lapsed \/ Ordered(Hand("udp"), Packets(queue), h)
    BY <2>2, <2>3, PlacesReceive DEF OrderInv, OrderParts
  <2>. QED
    BY <1>0, <2>1, <2>2, <2>3, <2>4 DEF OrderInv, OrderParts, NoneBefore, Sorted, Once, Apart, Ordered
<1>3. CASE TunEncapsulate
  <2>1. PICK result \in {hand["tun"], Control, None} :
           Encapsulate(hand["tun"], result) /\ Takes("tun", result)
    BY <1>3 DEF TunEncapsulate
  <2>2. /\ hand["tun"] \in Packet /\ hand'["tun"] = result /\ UNCHANGED ring /\ tunn = "tun"
    BY <1>3, <2>1, OrderTypes DEF TunEncapsulate, OrderInv, FlushInv, LockInv, Handled, TunnOwned, Takes, envVars
  <2>. DEFINE p == hand["tun"]
  <2>3. CASE established /\ result = p /\ queue' = queue
    <3>1. hand["udp"] \notin Packet
      BY <2>2 DEF OrderInv, FlushInv, LockInv, Handled, TunnOwned
    <3>2. lapsed \/ queue = <<>>
      BY <2>2, <2>3 DEF OrderInv, FlushInv, Flushed
    <3>3. Hand("udp") = {} /\ Hand("tun")' = Hand("tun") /\ UNCHANGED <<Packets(queue), Packets(ring)>>
      BY <2>2, <2>3, <3>1 DEF Hand, Packets
    <3>4. lapsed \/ NoneBefore'
      BY <1>0, <3>2, <3>3, PacketsNone DEF NoneBefore
    <3>. QED
      BY <1>0, <2>2, <2>3, <3>3, <3>4 DEF OrderInv, OrderParts, Sorted, Once, Apart, Ordered
  <2>4. CASE result \in {Control, None} /\ queue' = queue
    <3>1. Hand("tun")' = {} /\ UNCHANGED <<Packets(queue), Packets(ring)>> /\ hand'["tun"] \notin Packet
      BY <2>2, <2>4, Distinct DEF Hand, Packets
    <3>2. /\ Apart(Hand("udp"), Packets(queue), {}, Packets(ring), written)
          /\ lapsed \/ Ordered(Hand("udp"), Packets(queue), {})
      BY PlacesFewer DEF OrderInv, OrderParts
    <3>. QED
      BY <1>0, <2>2, <2>4, <3>1, <3>2 DEF OrderInv, OrderParts, NoneBefore, Sorted, Once, Apart, Ordered
  <2>5. CASE result \in {Control, None} /\ queue' = Append(queue, p)
    <3>1. /\ Hand("tun") = {p} /\ {p} \cap Packet = {p} /\ Hand("tun")' = {} /\ UNCHANGED Packets(ring)
          /\ hand'["tun"] \notin Packet /\ p \in Outgoing
      BY <2>2, <2>5, Distinct DEF Hand, Packets
    <3>2. p \notin Packets(queue) /\ (lapsed \/ Before(Packets(queue), {p}))
      BY <3>1 DEF OrderInv, OrderParts, Apart, Ordered
    <3>3. /\ Packets(Append(queue, p)) = Packets(queue) \cup {p} /\ Once(Append(queue, p))
          /\ lapsed \/ Sorted(Append(queue, p))
      BY <3>1, <3>2, PacketsAppend, OrderTypes DEF OrderInv, OrderParts
    <3>4. /\ Apart(Hand("udp"), Packets(queue) \cup {p}, {}, Packets(ring), written)
          /\ lapsed \/ Ordered(Hand("udp"), Packets(queue) \cup {p}, {})
      BY <3>1, PlacesKeep DEF OrderInv, OrderParts
    <3>5. Packets(queue)' = Packets(Append(queue, p)) /\ Once(queue)' = Once(Append(queue, p))
          /\ Sorted(queue)' = Sorted(Append(queue, p)) /\ Sorted(ring)' = Sorted(ring)
      BY <2>2, <2>5 DEF Packets, Once, Sorted
    <3>. HIDE DEF p
    <3>. QED
      BY <1>0, <3>1, <3>3, <3>4, <3>5 DEF OrderInv, OrderParts, NoneBefore, Apart, Ordered
  <2>. QED
    BY <2>1, <2>2, <2>3, <2>4, <2>5, EncapsulateEffect, OrderTypes
<1>4. CASE TunSend
  <2>1. UNCHANGED <<queue, ring>> /\ hand'["tun"] = None
    BY <1>4, OrderTypes DEF TunSend, Takes, envVars, tunnVars
  <2>2. Hand("tun")' = {} /\ UNCHANGED <<Packets(queue), Packets(ring)>> /\ hand'["tun"] \notin Packet
    BY <2>1, Distinct DEF Hand, Packets
  <2>3. /\ Apart(Hand("udp"), Packets(queue), {}, Packets(ring), written)
        /\ lapsed \/ Ordered(Hand("udp"), Packets(queue), {})
    BY PlacesFewer DEF OrderInv, OrderParts
  <2>. QED
    BY <1>0, <2>1, <2>2, <2>3 DEF OrderInv, OrderParts, NoneBefore, Sorted, Once, Apart, Ordered
<1>. QED
  BY <1>1, <1>2, <1>3, <1>4 DEF TunStep

\* What Tunn gives next goes from its queue to worker 2's hands, or to its end.
LEMMA OrderNext ==
    ASSUME OrderInv, NEW result, NextQueued(result), hand'["udp"] = result,
           at["udp"] = "send" \/ (at["udp"] = "result" /\ hand["udp"] = Inner),
           at'["tun"] = at["tun"], hand'["tun"] = hand["tun"], hand'["timer"] = hand["timer"],
           UNCHANGED <<ring, written>>
    PROVE  /\ OrderParts' /\ lapsed' = lapsed
           /\ Hand("udp")' \cup Packets(queue)' = Packets(queue)
<1>1. /\ UNCHANGED <<established, answered, lapsed>>
      /\ \/ result = None /\ queue = <<>> /\ queue' = queue
         \/ established /\ queue # <<>> /\ result = Head(queue) /\ queue' = Tail(queue)
         \/ /\ ~established /\ queue # <<>> /\ result \in {Control, None}
            /\ queue' = Append(Tail(queue), Head(queue))
  BY NextQueuedEffect, OrderTypes
<1>2. lapsed \/ established
  BY Distinct DEF OrderInv, FlushInv, Draining
<1>3. /\ Hand("tun")' = Hand("tun") /\ Packets(ring)' = Packets(ring) /\ Sorted(ring)' = Sorted(ring)
  BY DEF Hand, Packets, Sorted
<1>4. /\ Apart({}, Packets(queue), Hand("tun"), Packets(ring), written)
      /\ lapsed \/ Ordered({}, Packets(queue), Hand("tun"))
  BY PlacesFewer DEF OrderInv, OrderParts
<1>5. CASE result \notin Packet /\ queue' = queue
  <2>1. Hand("udp")' = {} /\ UNCHANGED <<Packets(queue), Once(queue), Sorted(queue)>>
    BY <1>5 DEF Hand, Packets, Once, Sorted
  <2>. QED
    BY <1>1, <1>3, <1>4, <2>1 DEF OrderInv, OrderParts, NoneBefore, Apart, Ordered
<1>6. CASE queue # <<>> /\ result = Head(queue) /\ queue' = Tail(queue)
  <2>. DEFINE h == {Head(queue)} \cap Packet
              others == Packets(Tail(queue))
  <2>1. Hand("udp")' = h /\ Packets(queue)' = others
    BY <1>6 DEF Hand, Packets
  <2>2. Once(queue)' = Once(Tail(queue)) /\ Sorted(queue)' = Sorted(Tail(queue))
    BY <1>6 DEF Once, Sorted
  <2>3. /\ Packets(queue) = h \cup others /\ Once(Tail(queue)) /\ h \cap others = {}
        /\ lapsed \/ (Sorted(Tail(queue)) /\ Before(h, others))
    <3>1. Once(queue) /\ (lapsed \/ Sorted(queue))
      BY DEF OrderInv, OrderParts
    <3>2. /\ Packets(queue) = h \cup others
          /\ Once(queue) => Once(Tail(queue)) /\ Head(queue) \notin others
          /\ Sorted(queue) => Sorted(Tail(queue)) /\ Before(h, others)
      BY <1>6, PacketsTail, OrderTypes
    <3>. QED
      BY <3>1, <3>2
  <2>. HIDE DEF h, others
  <2>4. /\ Apart(h, others, Hand("tun"), Packets(ring), written)
        /\ lapsed \/ Ordered(h, others, Hand("tun"))
    BY <1>4, <2>3, PlacesNext
  <2>5. NoneBefore => NoneBefore'
    BY <2>1, <2>3 DEF NoneBefore
  <2>. QED
    BY <1>1, <1>3, <2>1, <2>2, <2>3, <2>4, <2>5 DEF OrderInv, OrderParts, Apart, Ordered
<1>7. CASE lapsed /\ queue # <<>> /\ result \in {Control, None} /\ queue' = Append(Tail(queue), Head(queue))
  <2>. DEFINE others == Tail(queue)
  <2>1. Head(queue) \in Outgoing /\ others \in Seq(Outgoing)
    BY <1>7, OrderTypes
  <2>2. /\ Packets(queue) = ({Head(queue)} \cap Packet) \cup Packets(others)
        /\ Once(others) /\ Head(queue) \notin Packets(others)
    BY <1>7, PacketsTail, OrderTypes DEF OrderInv, OrderParts
  <2>3. Hand("udp")' = {} /\ Packets(queue)' = Packets(Append(others, Head(queue)))
        /\ Once(queue)' = Once(Append(others, Head(queue)))
    BY <1>7, Distinct DEF Hand, Packets, Once
  <2>. HIDE DEF others
  <2>4. Packets(queue)' = Packets(queue) /\ Once(queue)'
    BY <2>1, <2>2, <2>3, PacketsAppend
  <2>. QED
    BY <1>1, <1>3, <1>4, <1>7, <2>3, <2>4 DEF OrderInv, OrderParts, Apart, Ordered
<1>. QED
  BY <1>1, <1>2, <1>5, <1>6, <1>7, Distinct

LEMMA OrderUdp ==
    ASSUME OrderInv, UdpStep
    PROVE  OrderParts'
<1>0. /\ UNCHANGED <<written, ring>> /\ at'["tun"] = at["tun"]
      /\ hand'["timer"] = hand["timer"] /\ hand'["tun"] = hand["tun"] /\ hand["timer"] \notin Packet
      /\ Hand("tun")' = Hand("tun")
  BY OrderTypes DEF OrderInv, OrderParts, UdpStep, UdpCheck, UdpReceive, UdpLockObf, UdpDecode, UdpLockTunn,
     UdpDecapsulate, UdpResult, UdpWrite, Check, LockTunn, LockObf, EncodeOut, Takes, Goto, envVars, Hand
<1>1. CASE UdpCheck \/ UdpLockObf \/ UdpLockTunn \/ LockObf("udp") \/ EncodeOut("udp")
  <2>1. UNCHANGED <<hand, queue, lapsed>>
    BY <1>1 DEF UdpCheck, UdpLockObf, UdpLockTunn, Check, LockTunn, LockObf, EncodeOut, envVars, tunnVars
  <2>2. Hand("udp")' = Hand("udp")
    BY <2>1 DEF Hand
  <2>. QED
    BY <1>0, <2>1, <2>2, PartsApart DEF OrderInv
<1>2. CASE UdpReceive \/ UdpDecode
  <2>1. UNCHANGED <<queue, lapsed>> /\ hand["udp"] \notin Packet
    BY <1>2 DEF UdpReceive, UdpDecode, tunnVars, OrderInv, FlushInv, LockInv, Handled
  <2>2. hand'["udp"] \notin Packet
    BY <1>2, <2>1, OrderTypes, Distinct DEF UdpReceive, UdpDecode, Takes
  <2>3. Hand("udp")' = Hand("udp")
    BY <2>1, <2>2 DEF Hand
  <2>. QED
    BY <1>0, <2>1, <2>3, PartsApart DEF OrderInv
<1>3. CASE UdpDecapsulate
  <2>1. PICK result \in {Control, Inner, None} :
           Decapsulate(hand["udp"], result) /\ Takes("udp", result)
    BY <1>3 DEF UdpDecapsulate
  <2>2. queue' = queue
    BY <2>1, DecapsulateEffect, OrderTypes
  <2>3. lapsed => lapsed'
    BY <2>1, RecordKeeps DEF Decapsulate, tunnVars
  <2>4. hand["udp"] \notin Packet /\ hand'["udp"] \notin Packet
    BY <1>3, <2>1, OrderTypes, Distinct DEF UdpDecapsulate, Takes, Outgoing, OrderInv, FlushInv, LockInv, Handled
  <2>5. Hand("udp")' = Hand("udp")
    BY <2>4 DEF Hand
  <2>. QED
    BY <1>0, <2>2, <2>3, <2>5, PartsApart DEF OrderInv
<1>4. CASE UdpResult
  <2>1. CASE hand["udp"] = Inner
    <3>1. PICK result \in Outgoing \cup {None} : NextQueued(result) /\ Takes("udp", result)
      BY <1>4, <2>1, Distinct DEF UdpResult
    <3>2. hand'["udp"] = result /\ at["udp"] = "result"
      BY <1>4, <3>1, OrderTypes DEF UdpResult, Takes
    <3>. QED
      BY <1>0, <2>1, <3>1, <3>2, OrderNext
  <2>2. CASE hand["udp"] # Inner
    <3>1. UNCHANGED <<queue, lapsed, hand>>
      BY <1>4, <2>2 DEF UdpResult, tunnVars
    <3>2. Hand("udp")' = Hand("udp")
      BY <3>1 DEF Hand
    <3>. QED
      BY <1>0, <3>1, <3>2, PartsApart DEF OrderInv
  <2>. QED
    BY <2>1, <2>2
<1>5. CASE UdpWrite
  <2>1. PICK result \in Outgoing \cup {None} : NextQueued(result) /\ Takes("udp", result)
    BY <1>5 DEF UdpWrite
  <2>2. hand'["udp"] = result /\ at["udp"] = "send"
    BY <1>5, <2>1, OrderTypes DEF UdpWrite, Takes
  <2>. QED
    BY <1>0, <2>1, <2>2, OrderNext
<1>. QED
  BY <1>1, <1>2, <1>3, <1>4, <1>5 DEF UdpStep

(* Worker 3 may make Tunn give up what it kept, or keep a keepalive.        *)
LEMMA OrderTimer ==
    ASSUME OrderInv, TimerStep
    PROVE  OrderParts'
<1>0. /\ UNCHANGED <<written, ring>> /\ at'["tun"] = at["tun"]
      /\ hand'["udp"] = hand["udp"] /\ hand'["tun"] = hand["tun"]
      /\ Hand("tun")' = Hand("tun") /\ Hand("udp")' = Hand("udp")
  BY OrderTypes DEF OrderInv, TimerStep, TimerCheck, TimerLockTunn, TimerUpdate, TimerSend,
     Check, LockTunn, LockObf, EncodeOut, Takes, Goto, envVars, Hand
<1>1. hand'["timer"] \notin Packet
  BY OrderTypes, Distinct DEF OrderInv, OrderParts, TimerStep, TimerCheck, TimerLockTunn, TimerUpdate, TimerSend,
     Check, LockTunn, LockObf, EncodeOut, Takes
<1>2. CASE TimerCheck \/ TimerLockTunn \/ LockObf("timer") \/ EncodeOut("timer") \/ TimerSend
  <2>1. UNCHANGED <<queue, lapsed>>
    BY <1>2 DEF TimerCheck, TimerLockTunn, TimerSend, Check, LockTunn, LockObf, EncodeOut, tunnVars
  <2>. QED
    BY <1>0, <1>1, <2>1, PartsApart DEF OrderInv
<1>3. CASE TimerUpdate
  <2>1. PICK result \in {Control, None} : UpdateTimers(result)
    BY <1>3 DEF TimerUpdate
  <2>2. queue' = queue \/ queue' = Append(queue, Control) \/ queue' = <<>>
    BY <2>1, TimersEffect, OrderTypes
  <2>3. lapsed => lapsed'
    BY <2>1, RecordKeeps DEF UpdateTimers
  <2>4. Packets(ring)' = Packets(ring) /\ Sorted(ring)' = Sorted(ring) /\ (NoneBefore <=> (
           at'["tun"] \in {"wantObf", "encode", "send"} /\ hand'["tun"] \in Packet
             => Packets(queue) = {} /\ Hand("udp")' = {}))
    BY <1>0 DEF Packets, Sorted, NoneBefore
  <2>5. CASE queue' = queue
    BY <1>0, <1>1, <2>3, <2>5, PartsApart DEF OrderInv
  <2>6. CASE queue' = Append(queue, Control)
    <3>1. Control \in Outgoing /\ {Control} \cap Packet = {} /\ Control \notin Packets(queue)
      BY Distinct DEF Packets
    <3>2. Before(Packets(queue), {Control} \cap Packet)
      BY <3>1 DEF Before
    <3>3. /\ Packets(Append(queue, Control)) = Packets(queue) /\ Once(Append(queue, Control))
          /\ lapsed \/ Sorted(Append(queue, Control))
      BY <3>1, <3>2, PacketsAppend, OrderTypes DEF OrderInv, OrderParts
    <3>4. /\ Packets(queue)' = Packets(Append(queue, Control)) /\ Once(queue)' = Once(Append(queue, Control))
          /\ Sorted(queue)' = Sorted(Append(queue, Control))
      BY <2>6 DEF Packets, Once, Sorted
    <3>. QED
      BY <1>0, <1>1, <2>3, <2>4, <3>3, <3>4 DEF OrderInv, OrderParts, NoneBefore, Apart, Ordered
  <2>7. CASE queue' = <<>>
    <3>1. Packets(queue)' = {} /\ Once(queue)' /\ Sorted(queue)'
      BY <2>7, PacketsNone DEF Packets, Once, Sorted
    <3>2. /\ Apart(Hand("udp"), {}, Hand("tun"), Packets(ring), written)
          /\ lapsed \/ Ordered(Hand("udp"), {}, Hand("tun"))
      BY PlacesFewer DEF OrderInv, OrderParts
    <3>. QED
      BY <1>0, <1>1, <2>3, <2>4, <3>1, <3>2 DEF OrderInv, OrderParts, NoneBefore, Apart, Ordered
  <2>. QED
    BY <2>2, <2>5, <2>6, <2>7
<1>. QED
  BY <1>2, <1>3 DEF TimerStep

(* Around the workers: packets come in, and the session thread moves none.  *)
LEMMA OrderAround ==
    ASSUME OrderInv, Stop \/ PacketArrives \/ SessionStep \/ UNCHANGED vars
    PROVE  OrderParts'
<1>1. CASE PacketArrives
  <2>1. /\ written' = written + 1 /\ written' \in Packet /\ ring' = Append(ring, written')
        /\ UNCHANGED <<hand, at, queue, lapsed>>
    <3>1. written < MaxPackets /\ written \in Nat /\ MaxPackets \in Nat
      BY <1>1, OrderTypes, WorkersAssumption DEF PacketArrives
    <3>. QED
      BY <1>1, <3>1 DEF PacketArrives, Packet, tunnVars
  <2>. DEFINE p == written'
  <2>2. /\ Hand("udp")' = Hand("udp") /\ Hand("tun")' = Hand("tun") /\ Packets(queue)' = Packets(queue)
        /\ Packets(ring)' = Packets(Append(ring, p)) /\ Sorted(ring)' = Sorted(Append(ring, p))
    BY <2>1 DEF Hand, Packets, Sorted
  <2>3. p \in Outgoing /\ {p} \cap Packet = {p}
    BY <2>1, Distinct
  <2>4. /\ Apart(Hand("udp"), Packets(queue), Hand("tun"), Packets(ring) \cup {p}, p)
        /\ Before(Packets(ring), {p})
    BY <2>1, PlacesAccept, OrderTypes DEF OrderInv, OrderParts
  <2>5. Packets(Append(ring, p)) = Packets(ring) \cup {p} /\ Sorted(Append(ring, p))
    BY <2>3, <2>4, PacketsAppend, OrderTypes DEF OrderInv, OrderParts
  <2>. QED
    BY <2>1, <2>2, <2>4, <2>5 DEF OrderInv, OrderParts, NoneBefore, Sorted, Once, Apart, Ordered
<1>2. CASE Stop \/ SessionStep \/ UNCHANGED vars
  <2>1. UNCHANGED <<ring, written, queue, lapsed, hand>> /\ at'["tun"] = at["tun"]
    BY <1>2, OrderTypes DEF Stop, SessionStep, SessionCheck, SessionLockTunn, SessionLook, SessionShutdown, Join,
       Check, LockTunn, Goto, envVars, tunnVars, vars
  <2>2. Hand("udp")' = Hand("udp") /\ Hand("tun")' = Hand("tun")
    BY <2>1 DEF Hand
  <2>. QED
    BY <2>1, <2>2, PartsApart DEF OrderInv, OrderParts
<1>. QED
  BY <1>1, <1>2

LEMMA OrderInit == Init => OrderInv
<1> SUFFICES ASSUME Init PROVE OrderInv
  OBVIOUS
<1>1. /\ hand["timer"] = None /\ hand["tun"] = None /\ hand["udp"] = None
      /\ queue = <<>> /\ ring = <<>> /\ at["tun"] = "check"
  BY DEF Init, Worker, Thread
<1>2. Hand("udp") = {} /\ Hand("tun") = {} /\ Packets(queue) = {} /\ Packets(ring) = {}
  BY <1>1, PacketsNone, Distinct DEF Hand
<1>3. Once(queue) /\ Sorted(queue) /\ Sorted(ring)
  BY <1>1, PacketsNone
<1>. QED
  BY <1>1, <1>2, <1>3, FlushInvInit, Distinct DEF OrderInv, OrderParts, Apart, Ordered, Before, NoneBefore

LEMMA OrderInvariant == Spec => []OrderInv
<1>1. OrderInv /\ FlushInv' /\ [Next]_vars => OrderInv'
  BY OrderTun, OrderUdp, OrderTimer, OrderAround DEF Next, OrderInv
<1>. QED
  BY <1>1, OrderInit, FlushInvariant, PTL DEF Spec

-----------------------------------------------------------------------------
(* Every step is one of the channel's or none.                              *)
LEMMA PendingParts ==
    OrderInv => Pending = Hand("udp") \cup Packets(queue) \cup Hand("tun") \cup Packets(ring)
<1> SUFFICES ASSUME OrderInv
             PROVE  Pending = Hand("udp") \cup Packets(queue) \cup Hand("tun") \cup Packets(ring)
  OBVIOUS
<1>1. Range(hand) = {hand["tun"], hand["udp"], hand["timer"]}
  BY OrderTypes DEF Range, Worker
<1>2. hand["timer"] \notin Packet
  BY DEF OrderInv, OrderParts
<1>. QED
  BY <1>1, <1>2 DEF Pending, Hand, Packets

\* Nothing is sent: packets may be given up or Tunn may lapse, not both.
LEMMA NothingSent ==
    ASSUME UNCHANGED <<written, wire>>, lapsed \in BOOLEAN, lapsed' \in BOOLEAN,
           \/ Pending' \subseteq Pending /\ lapsed' = lapsed
           \/ Pending' = Pending /\ (lapsed => lapsed')
    PROVE  [Channel!CNext]_(Channel!cvars)
<1>1. CASE Pending' \subseteq Pending /\ lapsed' = lapsed
  BY <1>1 DEF Channel!CNext, Channel!Lose
<1>2. CASE Pending' = Pending /\ lapsed /\ lapsed'
  <2>1. lapsed' = lapsed
    BY <1>2, Zenon
  <2>. QED
    BY <1>2, <2>1 DEF Channel!cvars
<1>3. CASE Pending' = Pending /\ ~lapsed
  <2>1. CASE lapsed'
    <3>1. (~lapsed)' = FALSE
      BY <2>1
    <3>. QED
      BY <1>3, <3>1 DEF Channel!CNext, Channel!Unsettle
  <2>2. CASE ~lapsed'
    <3>1. lapsed' = lapsed
      BY <1>3, <2>2
    <3>. QED
      BY <1>3, <3>1 DEF Channel!cvars
  <2>. QED
    BY <2>1, <2>2
<1>. QED
  BY <1>1, <1>2, <1>3

\* A packet leaves the workers, on the wire or lost.
LEMMA OneSent ==
    ASSUME NEW x \in Pending, Pending' = Pending \ {x}, Send(x), x \in Packet,
           UNCHANGED <<written, lapsed>>, lapsed \/ \A y \in Pending : x <= y
    PROVE  Channel!CNext
<1>1. CASE wire' = Append(wire, x)
  BY <1>1 DEF Channel!CNext, Channel!Transmit
<1>2. CASE wire' = wire
  BY <1>2 DEF Channel!CNext, Channel!Lose
<1>. QED
  BY <1>1, <1>2 DEF Send

LEMMA LapseTypes == OrderInv => lapsed \in BOOLEAN
BY DEF OrderInv, FlushInv, LockInv, WTypeOK

LEMMA ChannelTun ==
    ASSUME OrderInv, OrderInv', TunStep
    PROVE  [Channel!CNext]_(Channel!cvars)
<1>0. /\ UNCHANGED <<written, lapsed>> /\ Hand("udp")' = Hand("udp")
      /\ lapsed \in BOOLEAN /\ lapsed' \in BOOLEAN
  <2>1. UNCHANGED written /\ hand'["udp"] = hand["udp"]
    BY OrderTypes DEF TunStep, TunCheck, TunReceive, TunShut, TunLockTunn, TunEncapsulate, TunSend,
       Check, LockTunn, LockObf, EncodeOut, Goto, Takes, envVars
  <2>2. UNCHANGED lapsed
    BY Zenon DEF TunStep, TunCheck, TunReceive, TunShut, TunLockTunn, TunEncapsulate, TunSend,
       Check, LockTunn, LockObf, EncodeOut, Encapsulate, tunnVars
  <2>. QED
    BY <2>1, <2>2, LapseTypes DEF Hand
<1>. DEFINE u == Hand("udp")
            q == Packets(queue)
            t == Hand("tun")
            r == Packets(ring)
<1>1. Pending = u \cup q \cup t \cup r /\ Pending' = u \cup q' \cup t' \cup r'
  <2>1. (OrderInv => Pending = Hand("udp") \cup Packets(queue) \cup Hand("tun") \cup Packets(ring))'
    BY PendingParts, PTL
  <2>. QED
    BY <1>0, <2>1, PendingParts
<1>2. CASE TunCheck \/ TunShut \/ TunLockTunn \/ LockObf("tun") \/ EncodeOut("tun")
  <2>1. UNCHANGED <<hand, queue, ring, wire>>
    BY <1>2 DEF TunCheck, TunShut, TunLockTunn, LockObf, EncodeOut, Check, LockTunn, envVars, tunnVars
  <2>. QED
    BY <1>0, <2>1, NothingSent DEF Pending
<1>3. CASE TunReceive
  <2>1. /\ ring # <<>> /\ ring' = Tail(ring) /\ hand'["tun"] = Head(ring) /\ UNCHANGED <<queue, wire>>
        /\ hand["tun"] \notin Packet
    BY <1>3, OrderTypes DEF TunReceive, Takes, Goto, OrderInv, FlushInv, LockInv, Handled, tunnVars
  <2>2. t = {} /\ t' = {Head(ring)} \cap Packet /\ q' = q /\ r' = Packets(Tail(ring))
    BY <2>1 DEF Hand, Packets
  <2>3. r = ({Head(ring)} \cap Packet) \cup Packets(Tail(ring))
    BY <2>1, PacketsTail, OrderTypes
  <2>4. Pending' = Pending
    BY <1>1, <2>2, <2>3
  <2>. QED
    BY <1>0, <2>1, <2>4, NothingSent
<1>4. CASE TunEncapsulate
  <2>1. PICK result \in {hand["tun"], Control, None} :
           Encapsulate(hand["tun"], result) /\ Takes("tun", result)
    BY <1>4 DEF TunEncapsulate
  <2>2. /\ hand["tun"] \in Packet /\ hand'["tun"] = result /\ UNCHANGED <<ring, wire>>
    BY <1>4, <2>1, OrderTypes DEF TunEncapsulate, OrderInv, FlushInv, LockInv, Handled, Takes, envVars
  <2>3. \/ result = hand["tun"] /\ queue' = queue
        \/ result \in {Control, None} /\ (queue' = queue \/ queue' = Append(queue, hand["tun"]))
    BY <2>1, <2>2, EncapsulateEffect, OrderTypes
  <2>4. r' = r /\ t = {hand["tun"]} /\ t' \subseteq t
    BY <2>2, <2>3, Distinct DEF Hand, Packets
  <2>5. q' = q \/ q' = q \cup t
    <3>1. hand["tun"] \in Outgoing
      BY <2>2, Distinct
    <3>2. Packets(Append(queue, hand["tun"])) = q \cup t
      BY <3>1, PacketsAppend, OrderTypes DEF Hand
    <3>. QED
      BY <2>3, <3>2 DEF Packets
  <2>6. Pending' \subseteq Pending
    BY <1>1, <2>4, <2>5
  <2>. QED
    BY <1>0, <2>2, <2>6, NothingSent
<1>5. CASE TunSend
  <2>1. /\ UNCHANGED <<queue, ring>> /\ at["tun"] = "send" /\ hand'["tun"] = None
        /\ Send(hand["tun"])
    BY <1>5, OrderTypes DEF TunSend, Takes, envVars, tunnVars
  <2>2. q' = q /\ r' = r /\ t' = {}
    BY <2>1, Distinct DEF Hand, Packets
  <2>3. CASE hand["tun"] \in Packet
    <3>1. t = {hand["tun"]} /\ hand["tun"] \in Nat
      BY <2>3, Distinct DEF Hand
    <3>2. Before(t, r) /\ u \cap t = {} /\ q \cap t = {} /\ Packets(ring) \subseteq Nat
      BY Distinct DEF OrderInv, OrderParts, Apart, Packets
    <3>3. hand["tun"] \notin r
      BY <3>1, <3>2 DEF Before
    <3>4. Pending' = Pending \ {hand["tun"]} /\ hand["tun"] \in Pending
      BY <1>1, <2>2, <3>1, <3>2, <3>3
    <3>5. lapsed \/ (u = {} /\ q = {})
      BY <2>1, <2>3 DEF OrderInv, OrderParts, NoneBefore
    <3>6. lapsed \/ \A y \in Pending : hand["tun"] <= y
      BY <1>1, <3>1, <3>2, <3>5 DEF Before
    <3>. QED
      BY <1>0, <2>1, <2>3, <3>4, <3>6, OneSent
  <2>4. CASE hand["tun"] \notin Packet
    <3>1. wire' = wire /\ t = {}
      BY <2>1, <2>4 DEF Send, Hand
    <3>2. Pending' = Pending
      BY <1>1, <2>2, <3>1
    <3>. QED
      BY <1>0, <3>1, <3>2, NothingSent
  <2>. QED
    BY <2>3, <2>4
<1>. QED
  BY <1>2, <1>3, <1>4, <1>5 DEF TunStep

LEMMA ChannelUdp ==
    ASSUME OrderInv, OrderInv', UdpStep
    PROVE  [Channel!CNext]_(Channel!cvars)
<1>0. /\ UNCHANGED <<written, ring>> /\ Hand("tun")' = Hand("tun") /\ Packets(ring)' = Packets(ring)
      /\ at'["tun"] = at["tun"] /\ hand'["tun"] = hand["tun"] /\ hand'["timer"] = hand["timer"]
      /\ lapsed \in BOOLEAN /\ lapsed' \in BOOLEAN
  <2>1. /\ UNCHANGED <<written, ring>> /\ hand'["tun"] = hand["tun"]
        /\ at'["tun"] = at["tun"] /\ hand'["timer"] = hand["timer"]
    BY OrderTypes DEF UdpStep, UdpCheck, UdpReceive, UdpLockObf, UdpDecode, UdpLockTunn,
       UdpDecapsulate, UdpResult, UdpWrite, Check, LockTunn, LockObf, EncodeOut, Takes, Goto, envVars
  <2>2. (OrderInv => lapsed \in BOOLEAN)'
    BY LapseTypes, PTL
  <2>3. lapsed \in BOOLEAN /\ lapsed' \in BOOLEAN
    BY <2>2, LapseTypes
  <2>4. Packets(ring)' = Packets(ring)
    BY <2>1 DEF Packets
  <2>. QED
    BY <2>1, <2>3, <2>4 DEF Hand
<1>. DEFINE u == Hand("udp")
            q == Packets(queue)
            t == Hand("tun")
            r == Packets(ring)
<1>1. Pending = u \cup q \cup t \cup r /\ Pending' = u' \cup q' \cup t \cup r
  <2>1. (OrderInv => Pending = Hand("udp") \cup Packets(queue) \cup Hand("tun") \cup Packets(ring))'
    BY PendingParts, PTL
  <2>. QED
    BY <1>0, <2>1, PendingParts
<1>2. CASE UdpCheck \/ UdpLockObf \/ UdpLockTunn \/ LockObf("udp") \/ EncodeOut("udp")
  <2>1. UNCHANGED <<hand, queue, lapsed, wire>>
    BY <1>2 DEF UdpCheck, UdpLockObf, UdpLockTunn, Check, LockTunn, LockObf, EncodeOut, envVars, tunnVars
  <2>. QED
    BY <1>0, <2>1, NothingSent DEF Pending
<1>3. CASE UdpReceive \/ UdpDecode \/ UdpDecapsulate
  <2>1. /\ wire' = wire /\ hand["udp"] \notin Packet
    BY <1>3 DEF UdpReceive, UdpDecode, UdpDecapsulate, OrderInv, FlushInv, LockInv, Handled
  <2>2. hand'["udp"] \notin Packet
    BY <1>3, <2>1, OrderTypes, Distinct DEF UdpReceive, UdpDecode, UdpDecapsulate, Takes
  <2>3. queue' = queue /\ (lapsed => lapsed')
    <3>1. CASE UdpReceive \/ UdpDecode
      BY <3>1 DEF UdpReceive, UdpDecode, tunnVars
    <3>2. CASE UdpDecapsulate
      <4>1. PICK result \in {Control, Inner, None} : Decapsulate(hand["udp"], result)
        BY <3>2 DEF UdpDecapsulate
      <4>2. queue' = queue
        BY <4>1, DecapsulateEffect, OrderTypes
      <4>3. lapsed => lapsed'
        BY <4>1, RecordKeeps DEF Decapsulate, tunnVars
      <4>. QED
        BY <4>2, <4>3
    <3>. QED
      BY <1>3, <3>1, <3>2
  <2>4. u = {} /\ u' = {} /\ q' = q
    BY <2>1, <2>2, <2>3 DEF Hand, Packets
  <2>5. Pending' = Pending
    BY <1>1, <2>4
  <2>. QED
    BY <1>0, <2>1, <2>3, <2>5, NothingSent
<1>4. CASE UdpResult
  <2>1. CASE hand["udp"] = Inner
    <3>1. PICK result \in Outgoing \cup {None} : NextQueued(result) /\ Takes("udp", result)
      BY <1>4, <2>1, Distinct DEF UdpResult
    <3>2. hand'["udp"] = result /\ at["udp"] = "result" /\ wire' = wire /\ u = {}
      <4>1. at["udp"] = "result" /\ wire' = wire
        BY <1>4 DEF UdpResult
      <4>2. hand'["udp"] = result
        BY <3>1, OrderTypes DEF Takes
      <4>3. hand["udp"] \notin Packet
        BY <2>1, Distinct
      <4>. QED
        BY <4>1, <4>2, <4>3 DEF Hand
    <3>3. lapsed' = lapsed /\ u' \cup q' = q
      BY <1>0, <2>1, <3>1, <3>2, OrderNext
    <3>4. Pending' = Pending
      BY <1>1, <3>2, <3>3
    <3>. QED
      BY <1>0, <3>2, <3>3, <3>4, NothingSent
  <2>2. CASE hand["udp"] # Inner
    <3>1. UNCHANGED <<queue, lapsed, hand, wire>>
      BY <1>4, <2>2 DEF UdpResult, tunnVars
    <3>. QED
      BY <1>0, <3>1, NothingSent DEF Pending
  <2>. QED
    BY <2>1, <2>2
<1>5. CASE UdpWrite
  <2>1. PICK result \in Outgoing \cup {None} : NextQueued(result) /\ Takes("udp", result)
    BY <1>5 DEF UdpWrite
  <2>2. hand'["udp"] = result /\ at["udp"] = "send" /\ Send(hand["udp"])
    BY <1>5, <2>1, OrderTypes DEF UdpWrite, Takes
  <2>3. lapsed' = lapsed /\ u' \cup q' = q
    BY <1>0, <2>1, <2>2, OrderNext
  <2>4. CASE hand["udp"] \in Packet
    <3>1. u = {hand["udp"]} /\ hand["udp"] \in Nat /\ Pending \subseteq Nat
      BY <2>4, Distinct DEF Hand, Pending
    <3>2. u \cap q = {} /\ u \cap t = {} /\ Before(u, r) /\ (lapsed \/ Ordered(u, q, t))
      BY DEF OrderInv, OrderParts, Apart
    <3>3. hand["udp"] \notin r
      BY <3>1, <3>2 DEF Before
    <3>4. Pending' = Pending \ {hand["udp"]} /\ hand["udp"] \in Pending
      BY <1>1, <2>3, <3>1, <3>2, <3>3
    <3>5. lapsed \/ \A y \in Pending : hand["udp"] <= y
      BY <1>1, <3>1, <3>2 DEF Before, Ordered
    <3>. QED
      BY <1>0, <2>2, <2>3, <2>4, <3>4, <3>5, OneSent
  <2>5. CASE hand["udp"] \notin Packet
    <3>1. wire' = wire /\ u = {}
      BY <2>2, <2>5 DEF Send, Hand
    <3>2. Pending' = Pending
      BY <1>1, <2>3, <3>1
    <3>. QED
      BY <1>0, <2>3, <3>1, <3>2, NothingSent
  <2>. QED
    BY <2>4, <2>5
<1>. QED
  BY <1>2, <1>3, <1>4, <1>5 DEF UdpStep

LEMMA ChannelTimer ==
    ASSUME OrderInv, OrderInv', TimerStep
    PROVE  [Channel!CNext]_(Channel!cvars)
<1>0. /\ UNCHANGED <<written, ring, wire>> /\ Hand("udp")' = Hand("udp") /\ Hand("tun")' = Hand("tun")
      /\ Packets(ring)' = Packets(ring) /\ lapsed \in BOOLEAN /\ lapsed' \in BOOLEAN
  <2>1. UNCHANGED <<written, ring, wire>> /\ hand'["udp"] = hand["udp"] /\ hand'["tun"] = hand["tun"]
    BY OrderTypes DEF TimerStep, TimerCheck, TimerLockTunn, TimerUpdate, TimerSend,
       Check, LockTunn, LockObf, EncodeOut, Takes, Goto, envVars
  <2>2. (OrderInv => lapsed \in BOOLEAN)'
    BY LapseTypes, PTL
  <2>3. lapsed \in BOOLEAN /\ lapsed' \in BOOLEAN
    BY <2>2, LapseTypes
  <2>4. Packets(ring)' = Packets(ring)
    BY <2>1 DEF Packets
  <2>. QED
    BY <2>1, <2>3, <2>4 DEF Hand
<1>1. /\ Pending = Hand("udp") \cup Packets(queue) \cup Hand("tun") \cup Packets(ring)
      /\ Pending' = Hand("udp") \cup Packets(queue)' \cup Hand("tun") \cup Packets(ring)
  <2>1. (OrderInv => Pending = Hand("udp") \cup Packets(queue) \cup Hand("tun") \cup Packets(ring))'
    BY PendingParts, PTL
  <2>. QED
    BY <1>0, <2>1, PendingParts
<1>2. CASE TimerCheck \/ TimerLockTunn \/ LockObf("timer") \/ EncodeOut("timer") \/ TimerSend
  <2>1. UNCHANGED <<queue, lapsed>>
    BY <1>2 DEF TimerCheck, TimerLockTunn, TimerSend, Check, LockTunn, LockObf, EncodeOut, tunnVars
  <2>2. Packets(queue)' = Packets(queue)
    BY <2>1 DEF Packets
  <2>3. Pending' = Pending
    BY <1>1, <2>2
  <2>. QED
    BY <1>0, <2>1, <2>3, NothingSent
<1>3. CASE TimerUpdate
  <2>1. PICK result \in {Control, None} : UpdateTimers(result)
    BY <1>3 DEF TimerUpdate
  <2>2. lapsed => lapsed'
    BY <2>1, RecordKeeps DEF UpdateTimers
  <2>3. CASE queue' = queue
    <3>1. Packets(queue)' = Packets(queue)
      BY <2>3 DEF Packets
    <3>2. Pending' = Pending
      BY <1>1, <3>1
    <3>. QED
      BY <1>0, <2>2, <3>2, NothingSent
  <2>4. CASE Keep(Control)
    <3>1. queue' = queue \/ queue' = Append(queue, Control)
      BY <2>4, Distinct, KeepEffect, OrderTypes
    <3>2. Packets(Append(queue, Control)) = Packets(queue)
      <4>1. Control \in Outgoing /\ {Control} \cap Packet = {} /\ queue \in Seq(Outgoing)
        BY Distinct, OrderTypes
      <4>2. Packets(Append(queue, Control)) = Packets(queue) \cup ({Control} \cap Packet)
        BY <4>1, PacketsAppend
      <4>. QED
        BY <4>1, <4>2
    <3>3. Packets(queue)' = Packets(queue)
      BY <3>1, <3>2 DEF Packets
    <3>4. Pending' = Pending
      BY <1>1, <3>3
    <3>. QED
      BY <1>0, <2>2, <3>4, NothingSent
  <2>5. CASE ~answered' /\ queue' = <<>>
    <3>1. lapsed' = lapsed
      <4>1. lapsed' = (lapsed \/ (answered' /\ ~established'))
        BY <2>1 DEF UpdateTimers, Record
      <4>2. (lapsed \/ (answered' /\ ~established')) <=> lapsed
        BY <2>5
      <4>. QED
        BY <1>0, <4>1, <4>2, Zenon
    <3>2. Packets(queue)' = {}
      BY <2>5, PacketsNone DEF Packets
    <3>3. Pending' \subseteq Pending
      BY <1>1, <3>2
    <3>. QED
      BY <1>0, <3>1, <3>3, NothingSent
  <2>. QED
    BY <2>1, <2>3, <2>4, <2>5 DEF UpdateTimers
<1>. QED
  BY <1>2, <1>3 DEF TimerStep

LEMMA ChannelAround ==
    ASSUME OrderInv, Stop \/ PacketArrives \/ SessionStep \/ UNCHANGED vars
    PROVE  [Channel!CNext]_(Channel!cvars)
<1>1. CASE PacketArrives
  <2>1. /\ written' = written + 1 /\ written' \in Packet /\ ring' = Append(ring, written')
        /\ UNCHANGED <<hand, queue, lapsed, wire>>
    <3>1. written < MaxPackets /\ written \in Nat /\ MaxPackets \in Nat
      BY <1>1, OrderTypes, WorkersAssumption DEF PacketArrives
    <3>. QED
      BY <1>1, <3>1 DEF PacketArrives, Packet, tunnVars
  <2>2. Packets(ring)' = Packets(ring) \cup {written'}
    <3>. DEFINE p == written'
    <3>1. p \in Outgoing /\ {p} \cap Packet = {p} /\ ring \in Seq(Outgoing)
      BY <2>1, Distinct, OrderTypes
    <3>2. Packets(ring)' = Packets(Append(ring, p))
      BY <2>1 DEF Packets
    <3>3. \A x \in Outgoing : Packets(Append(ring, x)) = Packets(ring) \cup ({x} \cap Packet)
      BY <3>1, PacketsAppend
    <3>. HIDE DEF p
    <3>. QED
      BY <3>1, <3>2, <3>3 DEF p
  <2>3. Pending' = Pending \cup {written'}
    BY <2>1, <2>2 DEF Pending, Packets
  <2>. QED
    BY <2>1, <2>3 DEF Channel!CNext, Channel!Accept
<1>2. CASE Stop \/ SessionStep \/ UNCHANGED vars
  <2>1. UNCHANGED <<ring, written, queue, lapsed, hand, wire>>
    BY <1>2 DEF Stop, SessionStep, SessionCheck, SessionLockTunn, SessionLook, SessionShutdown, Join,
       Check, LockTunn, envVars, tunnVars, vars
  <2>. QED
    BY <2>1 DEF Pending, Channel!cvars
<1>. QED
  BY <1>1, <1>2

LEMMA EveryStep == OrderInv /\ OrderInv' /\ [Next]_vars => [Channel!CNext]_(Channel!cvars)
BY ChannelTun, ChannelUdp, ChannelTimer, ChannelAround DEF Next

(* The workers implement the channel: every step of theirs is one of its    *)
(* steps or none, for any number of packets, with two threads that send, a  *)
(* socket that refuses, a Tunn that keeps a bounded number of packets, gives*)
(* up the newest or all of them and keeps again what it cannot send, and a  *)
(* server that begins handshakes of its own (tunnel_service.rs 277-411).    *)
THEOREM WorkersImplementChannel == Spec => RefinesChannel
<1>1. Init => Channel!CInit
  <2> SUFFICES ASSUME Init PROVE Channel!CInit
    OBVIOUS
  <2>1. OrderInv /\ \A w \in Worker : hand[w] = None
    BY OrderInit DEF Init
  <2>2. Hand("udp") = {} /\ Hand("tun") = {} /\ Packets(queue) = {} /\ Packets(ring) = {}
    BY <2>1, PacketsNone, Distinct DEF Init, Hand, Worker
  <2>3. Pending = {}
    BY <2>1, <2>2, PendingParts
  <2>. QED
    BY <2>3 DEF Init, Channel!CInit
<1>. QED
  BY <1>1, EveryStep, OrderInvariant, PTL DEF Spec, RefinesChannel, Channel!CSpec

(* Packets reach the wire once each and, while Tunn has not lapsed, in the  *)
(* order in which the system wrote them (tunnel_service.rs 350-377).        *)
SentOnceInOrder ==
    /\ \A i, j \in 1 .. Len(wire) : i # j => wire[i] # wire[j]
    /\ ~lapsed => \A i, j \in 1 .. Len(wire) : i < j => wire[i] < wire[j]

SentInv ==
    /\ OrderInv /\ Once(wire) /\ Packets(wire) \cap Pending = {}
    /\ Packets(wire) \cup Pending \subseteq 1 .. written
    /\ lapsed \/ (Sorted(wire) /\ Before(Packets(wire), Pending))

LEMMA SentKeeps ==
    ASSUME SentInv, OrderInv', [Channel!CNext]_(Channel!cvars)
    PROVE  SentInv'
<1>0. wire \in Seq(Packet) /\ wire \in Seq(Outgoing) /\ written \in Nat /\ lapsed \in BOOLEAN
  <2>1. wire \in Seq(Packet) /\ \A x \in Packet : x \in Outgoing
    BY OrderTypes DEF SentInv, Outgoing
  <2>. QED
    BY <2>1, OrderTypes, LapseTypes DEF SentInv
<1>1. ASSUME UNCHANGED wire
      PROVE  Packets(wire)' = Packets(wire) /\ Once(wire)' = Once(wire) /\ Sorted(wire)' = Sorted(wire)
  BY <1>1 DEF Packets, Once, Sorted
<1>2. CASE Channel!Accept
  <2>1. /\ written' = written + 1 /\ Pending' = Pending \cup {written'} /\ wire' = wire
        /\ (~lapsed)' = ~lapsed
    BY <1>2 DEF Channel!Accept
  <2>2. /\ 1 .. written \subseteq 1 .. written' /\ written' \in 1 .. written'
        /\ \A x \in 1 .. written : x < written'
    BY <1>0, <2>1
  <2>. QED
    BY <1>1, <2>1, <2>2 DEF SentInv, Before
<1>3. CASE Channel!Lose \/ UNCHANGED Channel!cvars
  BY <1>1, <1>3 DEF Channel!Lose, Channel!cvars, SentInv, Before
<1>4. CASE Channel!Unsettle
  BY <1>1, <1>4 DEF Channel!Unsettle, SentInv
<1>5. CASE Channel!Transmit
  <2>1. PICK p \in Pending : /\ ~lapsed => \A y \in Pending : p <= y
                             /\ wire' = Append(wire, p) /\ Pending' = Pending \ {p}
    BY <1>5 DEF Channel!Transmit
  <2>2. UNCHANGED written /\ (~lapsed)' = ~lapsed
    BY <1>5 DEF Channel!Transmit
  <2>3. p \in Packet /\ p \in Outgoing /\ {p} \cap Packet = {p} /\ p \notin Packets(wire) /\ p \in Nat
        /\ Pending \subseteq Nat
    BY Distinct DEF SentInv, Pending
  <2>4. /\ Packets(wire)' = Packets(wire) \cup {p} /\ Once(wire)'
        /\ lapsed \/ Sorted(wire)'
    <3>1. /\ Packets(wire)' = Packets(Append(wire, p)) /\ Once(wire)' = Once(Append(wire, p))
          /\ Sorted(wire)' = Sorted(Append(wire, p))
      BY <2>1 DEF Packets, Once, Sorted
    <3>2. lapsed \/ Before(Packets(wire), {p})
      BY DEF SentInv, Before
    <3>. QED
      BY <1>0, <2>3, <3>1, <3>2, PacketsAppend DEF SentInv
  <2>5. lapsed \/ Before({p}, Pending \ {p})
    BY <2>1, <2>3 DEF Before
  <2>. QED
    BY <2>1, <2>2, <2>3, <2>4, <2>5 DEF SentInv, Before
<1>. QED
  BY <1>2, <1>3, <1>4, <1>5 DEF Channel!CNext

(* No packet is sent twice, and packets keep their order for any number of  *)
(* packets, datagrams and kept packets until Tunn lapses.                   *)
THEOREM PacketsKeepOrder == Spec => []SentOnceInOrder
<1>1. Init => SentInv
  <2> SUFFICES ASSUME Init PROVE SentInv
    OBVIOUS
  <2>1. OrderInv /\ wire = <<>> /\ \A w \in Worker : hand[w] = None
    BY OrderInit DEF Init
  <2>2. Hand("udp") = {} /\ Hand("tun") = {} /\ Packets(queue) = {} /\ Packets(ring) = {}
    BY <2>1, PacketsNone, Distinct DEF Init, Hand, Worker
  <2>3. Pending = {}
    BY <2>1, <2>2, PendingParts
  <2>. QED
    BY <2>1, <2>3, PacketsNone DEF SentInv, Before
<1>2. SentInv /\ OrderInv' /\ [Next]_vars => SentInv'
  BY EveryStep, SentKeeps DEF SentInv
<1>3. SentInv => SentOnceInOrder
  <2> SUFFICES ASSUME SentInv PROVE SentOnceInOrder
    OBVIOUS
  <2>1. wire \in Seq(Packet) /\ Once(wire) /\ (lapsed \/ Sorted(wire))
    BY OrderTypes DEF SentInv
  <2>2. \A i \in 1 .. Len(wire) : i \in Nat /\ wire[i] \in Packet
    BY <2>1
  <2>. QED
    BY <2>1, <2>2 DEF SentOnceInOrder, Once, Sorted
<1>. QED
  BY <1>1, <1>2, <1>3, OrderInvariant, PTL DEF Spec
=============================================================================
