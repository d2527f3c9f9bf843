---------------------------- MODULE TunnelWorkers ----------------------------
(* The threads of one running session, in tunnel_service.rs and tunnel.rs:  *)
(* worker 1 from the adapter to the socket, worker 2 from the socket to the *)
(* adapter, worker 3 for WireGuard's timers, and the session thread, which  *)
(* watches and at the end shuts the adapter's session down and joins the    *)
(* workers.  All four share BoringTun's Tunn and three the Obfuscator, each *)
(* behind a lock; a step is what a thread does between two such points.     *)
EXTENDS Integers, Sequences, Functions

CONSTANTS
    MaxPackets,    \* bound: packets the system writes into the adapter
    MaxDatagrams,  \* bound: datagrams the server sends
    MaxKept,       \* what Tunn keeps at most without a session: 256
    Initiation,    \* the server begins a handshake,
    Response,      \* answers one,
    Cookie,        \* or puts it off;
    Data,          \* its transport data, empty in a keepalive;
    Junk,          \* and what the Obfuscator refuses
    Control,       \* a message Tunn makes itself: handshake or keepalive
    Inner,         \* a decrypted packet for the adapter
    None

Wireguard == {Initiation, Response, Cookie, Data}
Datagram == Wireguard \cup {Junk}

ASSUME WorkersAssumption ==
    /\ MaxPackets \in Nat /\ MaxDatagrams \in Nat /\ MaxKept \in Nat \ {0}
    /\ Initiation \notin {Response, Cookie, Data, Junk} /\ Response \notin {Cookie, Data, Junk}
    /\ Cookie \notin {Data, Junk} /\ Data # Junk
    /\ Control \notin {Inner, None} /\ Inner # None
    /\ Datagram \cap {Control, Inner, None} = {}
    /\ (Datagram \cup {Control, Inner, None}) \cap Nat = {}
    /\ None \notin {"tun", "udp", "timer", "session"}

Worker == {"tun", "udp", "timer"}
Thread == Worker \cup {"session"}
Packet == 1 .. MaxPackets
Outgoing == Packet \cup {Control}

VARIABLES
    stop,         \* stop_signal, or running = false
    adapter,      \* the Wintun session: "open" or "shut"
    ring,         \* packets waiting in the adapter
    written,      \* how many the system has put there
    received,     \* how many datagrams of the server the socket gave out
    tunn,         \* who holds the lock of Tunn
    obf,          \* who holds the lock of the Obfuscator
    established,  \* Tunn has a current session with the server
    answered,     \* one that is current with the first data the server sends in it
    begun,        \* a handshake of Tunn's own is under way
    queue,        \* what Tunn keeps until it has a current session
    lapsed,       \* history: some session was answered while none was current
    at,           \* where each thread is
    hand,         \* what each worker is dealing with
    wire          \* the packets of the adapter sent to the server, in order

tunnVars == <<established, answered, begun, queue, lapsed>>
envVars == <<stop, adapter, ring, written, received>>
vars == <<envVars, tunn, obf, tunnVars, at, hand, wire>>

\* The first handshake is sent before there are workers.
Init ==
    /\ stop = FALSE
    /\ adapter = "open"
    /\ ring = <<>> /\ written = 0
    /\ received = 0
    /\ tunn = None /\ obf = None
    /\ established = FALSE /\ answered = FALSE /\ begun = TRUE
    /\ queue = <<>> /\ lapsed = FALSE
    /\ at = [t \in Thread |-> "check"]
    /\ hand = [w \in Worker |-> None]
    /\ wire = <<>>
-----------------------------------------------------------------------------
(* Around the session                                                       *)

Stop ==
    /\ ~stop
    /\ stop' = TRUE
    /\ UNCHANGED <<adapter, ring, written, received, tunn, obf, tunnVars, at, hand, wire>>

PacketArrives ==
    /\ adapter = "open"
    /\ written < MaxPackets
    /\ written' = written + 1
    /\ ring' = Append(ring, written')
    /\ UNCHANGED <<stop, adapter, received, tunn, obf, tunnVars, at, hand, wire>>

-----------------------------------------------------------------------------
(* Steps several threads take                                               *)

Goto(t, place) == at' = [at EXCEPT ![t] = place]
Takes(w, thing) == hand' = [hand EXCEPT ![w] = thing]

\* The head of every loop: while !stop.
Check(t, inside, after) ==
    /\ at[t] = "check"
    /\ Goto(t, IF stop THEN after ELSE inside)
    /\ UNCHANGED <<envVars, tunn, obf, tunnVars, hand, wire>>

LockTunn(t, then) ==
    /\ at[t] = "wantTunn"
    /\ tunn = None
    /\ tunn' = t
    /\ Goto(t, then)
    /\ UNCHANGED <<envVars, obf, tunnVars, hand, wire>>

\* Encoding is a single statement: the lock goes with it.
LockObf(t) ==
    /\ at[t] = "wantObf"
    /\ obf = None
    /\ obf' = t
    /\ Goto(t, "encode")
    /\ UNCHANGED <<envVars, tunn, tunnVars, hand, wire>>

EncodeOut(t) ==
    /\ at[t] = "encode"
    /\ obf' = None
    /\ Goto(t, "send")
    /\ UNCHANGED <<envVars, tunn, tunnVars, hand, wire>>

\* socket.send, whose failure nobody looks at.
Send(thing) ==
    \/ wire' = IF thing \in Packet THEN Append(wire, thing) ELSE wire
    \/ UNCHANGED wire
-----------------------------------------------------------------------------
(* BoringTun, as the workers use it                                         *)

\* Without room the newest is given up.
Keep(thing) == queue' = IF Len(queue) < MaxKept THEN Append(queue, thing) ELSE queue

\* The handshake that is sent for want of a session, unless one is under way.
Initiate(result) == result = (IF begun THEN None ELSE Control) /\ begun' = TRUE

Record == lapsed' = (lapsed \/ (answered' /\ ~established'))

(* encapsulate: a packet is enciphered in the current session, else kept    *)
(* until there is one.                                                      *)
Encapsulate(packet, result) ==
    \/ established /\ result = packet /\ UNCHANGED tunnVars
    \/ ~established /\ Initiate(result) /\ Keep(packet)
       /\ UNCHANGED <<established, answered, lapsed>>

(* decapsulate.  Anything may be an error, which changes nothing.  The      *)
(* session of a response is current at once; that of an initiation only     *)
(* with the first data in it, unless it takes the place of the current one. *)
(* A keepalive has no packet for the adapter and no answer.                 *)
Decapsulate(datagram, result) ==
    \/ result = None /\ UNCHANGED tunnVars
    \/ /\ datagram = Response /\ result = Control
       /\ established' = TRUE /\ begun' \in {begun, FALSE}
       /\ UNCHANGED <<answered, queue, lapsed>>
    \/ /\ datagram = Initiation /\ result = Control
       /\ \/ answered' = TRUE /\ UNCHANGED established
          \/ established' = TRUE /\ UNCHANGED answered
       /\ begun' = FALSE
       /\ Record
       /\ UNCHANGED queue
    \/ /\ datagram = Data /\ result \in {Inner, None}
       /\ \/ established /\ UNCHANGED <<established, answered>>
          \/ answered /\ established' = TRUE /\ answered' = FALSE
       /\ UNCHANGED <<begun, queue, lapsed>>

(* decapsulate of an empty datagram: encapsulate of the oldest thing kept,  *)
(* which without a current session is kept again, as the newest.            *)
NextQueued(result) ==
    IF queue = <<>>
    THEN result = None /\ UNCHANGED tunnVars
    ELSE /\ \/ /\ established /\ result = Head(queue)
               /\ queue' = Tail(queue) /\ UNCHANGED begun
            \/ /\ ~established /\ Initiate(result)
               /\ queue' = Append(Tail(queue), Head(queue))
         /\ UNCHANGED <<established, answered, lapsed>>

(* update_timers: sessions expire; then there is nothing to do, a handshake *)
(* or a keepalive is sent, a keepalive for want of a session is kept, or    *)
(* all is given up.                                                         *)
UpdateTimers(result) ==
    /\ established' \in {established, FALSE} /\ answered' \in {answered, FALSE}
    /\ \/ (result = None \/ (result = Control /\ established')) /\ UNCHANGED <<begun, queue>>
       \/ result = Control /\ begun' = TRUE /\ UNCHANGED queue
       \/ ~established' /\ Initiate(result) /\ Keep(Control)
       \/ result = None /\ ~established' /\ ~answered' /\ begun' = FALSE /\ queue' = <<>>
    /\ Record
-----------------------------------------------------------------------------
(* Worker 1: adapter to socket                                              *)

TunCheck == Check("tun", "receive", "done")

\* receive_blocking hands out what there is before it looks at the shutdown.
TunReceive ==
    /\ at["tun"] = "receive"
    /\ ring # <<>>
    /\ Takes("tun", Head(ring))
    /\ ring' = Tail(ring)
    /\ Goto("tun", "wantTunn")
    /\ UNCHANGED <<stop, adapter, written, received, tunn, obf, tunnVars, wire>>

TunShut ==
    /\ at["tun"] = "receive"
    /\ ring = <<>> /\ adapter = "shut"
    /\ Goto("tun", "done")
    /\ UNCHANGED <<envVars, tunn, obf, tunnVars, hand, wire>>

TunLockTunn == LockTunn("tun", "encapsulate")

\* Fault: the buffer is sent whatever encapsulate said.
TunEncapsulateFault ==
    /\ at["tun"] = "encapsulate"
    /\ \E result \in {hand["tun"], Control, None} :
          /\ Encapsulate(hand["tun"], result)
          /\ Goto("tun", "wantObf")
    /\ tunn' = None
    /\ UNCHANGED <<envVars, obf, hand, wire>>

TunEncapsulate ==
    /\ at["tun"] = "encapsulate"
    /\ \E result \in {hand["tun"], Control, None} :
          /\ Encapsulate(hand["tun"], result)
          /\ Takes("tun", result)
          /\ Goto("tun", IF result = None THEN "check" ELSE "wantObf")
    /\ tunn' = None
    /\ UNCHANGED <<envVars, obf, wire>>

TunSend ==
    /\ at["tun"] = "send"
    /\ Send(hand["tun"])
    /\ Takes("tun", None)
    /\ Goto("tun", "check")
    /\ UNCHANGED <<envVars, tunn, obf, tunnVars>>

TunStep ==
    \/ TunCheck \/ TunReceive \/ TunShut \/ TunLockTunn \/ TunEncapsulate
    \/ LockObf("tun") \/ EncodeOut("tun") \/ TunSend
-----------------------------------------------------------------------------
(* Worker 2: socket to adapter                                              *)

UdpCheck == Check("udp", "receive", "done")

\* Fault: the socket has no read timeout.
UdpReceiveFault ==
    /\ at["udp"] = "receive"
    /\ received < MaxDatagrams /\ received' = received + 1
    /\ \E datagram \in Datagram : Takes("udp", datagram)
    /\ Goto("udp", "wantDeobf")
    /\ UNCHANGED <<stop, adapter, ring, written, tunn, obf, tunnVars, wire>>

\* recv: a datagram, if one has come, or the read timeout; with another error
\* too the loop goes on.
UdpReceive ==
    /\ at["udp"] = "receive"
    /\ \/ /\ received < MaxDatagrams /\ received' = received + 1
          /\ \E datagram \in Datagram : Takes("udp", datagram)
          /\ Goto("udp", "wantDeobf")
       \/ /\ Goto("udp", "check")
          /\ UNCHANGED <<received, hand>>
    /\ UNCHANGED <<stop, adapter, ring, written, tunn, obf, tunnVars, wire>>

UdpLockObf ==
    /\ at["udp"] = "wantDeobf"
    /\ obf = None
    /\ obf' = "udp"
    /\ Goto("udp", "decode")
    /\ UNCHANGED <<envVars, tunn, tunnVars, hand, wire>>

\* Fault: the guard of the Obfuscator outlives the statement.
UdpDecodeFault ==
    /\ at["udp"] = "decode"
    /\ Goto("udp", "wantTunn")
    /\ UNCHANGED <<envVars, obf, tunn, tunnVars, hand, wire>>

\* Fault: what decode says is not looked at.
UdpDecodeUnchecked ==
    /\ at["udp"] = "decode"
    /\ obf' = None
    /\ Goto("udp", "wantTunn")
    /\ UNCHANGED <<envVars, tunn, tunnVars, hand, wire>>

UdpDecode ==
    /\ at["udp"] = "decode"
    /\ obf' = None
    /\ IF hand["udp"] = Junk
       THEN Goto("udp", "check") /\ Takes("udp", None)
       ELSE Goto("udp", "wantTunn") /\ UNCHANGED hand
    /\ UNCHANGED <<envVars, tunn, tunnVars, wire>>

UdpLockTunn == LockTunn("udp", "decapsulate")

UdpDecapsulate ==
    /\ at["udp"] = "decapsulate"
    /\ \E result \in {Control, Inner, None} :
          Decapsulate(hand["udp"], result) /\ Takes("udp", result)
    /\ Goto("udp", "result")
    /\ UNCHANGED <<envVars, tunn, obf, wire>>

\* Fault: one result of decapsulate is dealt with, not all.
UdpWriteFault ==
    /\ at["udp"] = "send"
    /\ Send(hand["udp"])
    /\ Takes("udp", None)
    /\ Goto("udp", "result")
    /\ UNCHANGED <<envVars, tunn, obf, tunnVars>>

\* The result decides; the lock of Tunn stays until there is none.
UdpResult ==
    /\ at["udp"] = "result"
    /\ \/ /\ hand["udp"] = Inner          \* to the adapter, unless it is shut
          /\ \E result \in Outgoing \cup {None} : NextQueued(result) /\ Takes("udp", result)
          /\ UNCHANGED <<at, tunn>>
       \/ /\ hand["udp"] \in Outgoing
          /\ Goto("udp", "wantObf")
          /\ UNCHANGED <<tunn, tunnVars, hand>>
       \/ /\ hand["udp"] = None
          /\ tunn' = None
          /\ Goto("udp", "check")
          /\ UNCHANGED <<tunnVars, hand>>
    /\ UNCHANGED <<envVars, obf, wire>>

UdpWrite ==
    /\ at["udp"] = "send"
    /\ Send(hand["udp"])
    /\ \E result \in Outgoing \cup {None} : NextQueued(result) /\ Takes("udp", result)
    /\ Goto("udp", "result")
    /\ UNCHANGED <<envVars, tunn, obf>>

UdpStep ==
    \/ UdpCheck \/ UdpReceive \/ UdpLockObf \/ UdpDecode \/ UdpLockTunn
    \/ UdpDecapsulate \/ UdpResult \/ LockObf("udp") \/ EncodeOut("udp") \/ UdpWrite
-----------------------------------------------------------------------------
(* Worker 3: timers.  STUN's keepalive touches nothing shared.              *)

TimerCheck == Check("timer", "wantTunn", "done")
TimerLockTunn == LockTunn("timer", "update")

TimerUpdate ==
    /\ at["timer"] = "update"
    /\ \E result \in {Control, None} :
          /\ UpdateTimers(result)
          /\ Takes("timer", result)
          /\ IF result = None
             THEN Goto("timer", "check") /\ tunn' = None
             ELSE Goto("timer", "wantObf") /\ UNCHANGED tunn
    /\ UNCHANGED <<envVars, obf, wire>>

TimerSend ==
    /\ at["timer"] = "send"
    /\ Takes("timer", None)
    /\ tunn' = None
    /\ Goto("timer", "check")
    /\ UNCHANGED <<envVars, obf, tunnVars, wire>>

TimerStep ==
    \/ TimerCheck \/ TimerLockTunn \/ TimerUpdate
    \/ LockObf("timer") \/ EncodeOut("timer") \/ TimerSend
-----------------------------------------------------------------------------
(* The session thread                                                       *)

SessionCheck == Check("session", "wantTunn", "shutdown")
SessionLockTunn == LockTunn("session", "look")

\* stats() under the lock of Tunn.
SessionLook ==
    /\ at["session"] = "look"
    /\ tunn' = None
    /\ Goto("session", "check")
    /\ UNCHANGED <<envVars, obf, tunnVars, hand, wire>>

\* Fault: the workers are joined with the adapter's session open.
SessionShutdownFault ==
    /\ at["session"] = "shutdown"
    /\ Goto("session", "join")
    /\ UNCHANGED <<envVars, tunn, obf, tunnVars, hand, wire>>

SessionShutdown ==
    /\ at["session"] = "shutdown"
    /\ adapter' = "shut"
    /\ Goto("session", "join")
    /\ UNCHANGED <<stop, ring, written, received, tunn, obf, tunnVars, hand, wire>>

\* Fault: worker 3 is forgotten.
JoinFault ==
    /\ at["session"] = "join"
    /\ \A w \in {"tun", "udp"} : at[w] = "done"
    /\ Goto("session", "done")
    /\ UNCHANGED <<envVars, tunn, obf, tunnVars, hand, wire>>

\* Three joins; then the end is reported.
Join ==
    /\ at["session"] = "join"
    /\ \A w \in Worker : at[w] = "done"
    /\ Goto("session", "done")
    /\ UNCHANGED <<envVars, tunn, obf, tunnVars, hand, wire>>

SessionStep == SessionCheck \/ SessionLockTunn \/ SessionLook \/ SessionShutdown \/ Join
-----------------------------------------------------------------------------
Next ==
    \/ Stop \/ PacketArrives
    \/ TunStep \/ UdpStep \/ TimerStep \/ SessionStep

Spec == Init /\ [][Next]_vars

\* The system runs every thread; packets, datagrams and the stop may not come.
FairSpec ==
    Spec /\ WF_vars(TunStep) /\ WF_vars(UdpStep) /\ WF_vars(TimerStep) /\ WF_vars(SessionStep)
-----------------------------------------------------------------------------
Place == {"check", "receive", "wantTunn", "encapsulate", "wantObf", "encode", "send",
          "wantDeobf", "decode", "decapsulate", "result", "update", "look",
          "shutdown", "join", "done"}

WTypeOK ==
    /\ stop \in BOOLEAN
    /\ adapter \in {"open", "shut"}
    /\ ring \in Seq(Packet) /\ written \in 0 .. MaxPackets
    /\ received \in 0 .. MaxDatagrams
    /\ tunn \in Thread \cup {None} /\ obf \in Worker \cup {None}
    /\ established \in BOOLEAN /\ answered \in BOOLEAN /\ begun \in BOOLEAN /\ lapsed \in BOOLEAN
    /\ queue \in Seq(Outgoing) /\ Len(queue) <= MaxKept
    /\ at \in [Thread -> Place]
    /\ hand \in [Worker -> Outgoing \cup Datagram \cup {Inner, None}]
    /\ wire \in Seq(Packet)
    /\ at["udp"] \in {"wantTunn", "decapsulate"} => hand["udp"] \in Wireguard

\* The packets not yet sent, in the workers' hands, in Tunn or in the adapter.
Pending == (Range(hand) \cup Range(queue) \cup Range(ring)) \cap Packet

(* The workers are a PacketChannel between the adapter and the server: no   *)
(* packet is sent twice, although Tunn keeps, drops and keeps again and two *)
(* threads send; and none overtakes another, because worker 2 keeps the     *)
(* lock of Tunn while it sends what Tunn had kept.  The order holds until   *)
(* a handshake of the server leaves Tunn with a session that is not current *)
(* and none that is (tunnel_service.rs 277-411).                            *)
Channel == INSTANCE PacketChannel WITH
    accepted <- written, pending <- Pending, sent <- wire, steady <- ~lapsed

RefinesChannel == Channel!CSpec

(* Whoever finds the lock of Tunn free and a session current finds nothing  *)
(* left behind in Tunn: decapsulate is called until it has nothing more to  *)
(* give, under one lock.  A session that only the server's keepalive makes  *)
(* current is the exception: its result ends the loop before the first      *)
(* call, and what Tunn kept stays (tunnel_service.rs 355-377).              *)
FlushedWhenEstablished == tunn = None /\ established /\ ~lapsed => queue = <<>>

(* Tunn is locked before the Obfuscator or not at all, so no two threads    *)
(* wait for each other's lock.                                              *)
NoCircularWait ==
    ~ \E t, u \in Thread :
        /\ tunn = t /\ at[t] \in {"wantObf", "wantDeobf"}
        /\ obf = u /\ at[u] = "wantTunn"

(* Once the session thread has reported the end, no thread of the session   *)
(* takes a packet, sends one or holds a lock (tunnel_service.rs 461-468).   *)
NothingAfterReport ==
    [][at["session"] = "done" => UNCHANGED <<tunn, obf, tunnVars, at, hand, wire>>]_vars

(* A stop ends the session, also when the adapter has no packet to wake     *)
(* worker 1, the server none to wake worker 2, and with any lock held.      *)
StopEndsSession == stop ~> at["session"] = "done"
=============================================================================
