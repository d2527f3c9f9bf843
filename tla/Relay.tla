-------------------------------- MODULE Relay --------------------------------
(* relay.rs and the proxy mode of main.rs.  The official WireGuard client   *)
(* talks to a loopback socket; one thread carries its packets to the        *)
(* server, a second carries the answers back to whichever local endpoint is *)
(* bound, a third pings.  The main thread exports the configuration with    *)
(* the private key, starts the relay, waits for Ctrl+C and cleans up.       *)
EXTENDS Integers, Sequences

CONSTANTS
    Endpoint,    \* local endpoints that may send to the relay
    Stun,        \* masking is STUN
    MaxPackets,  \* bound: packets sent to the loopback socket
    MaxAnswers,  \* bound: datagrams the server sends
    MaxPings,    \* bound: keepalives on record
    None

ASSUME RelayAssumption ==
    /\ Stun \in BOOLEAN
    /\ MaxPackets \in Nat /\ MaxAnswers \in Nat /\ MaxPings \in Nat
    /\ None \notin Endpoint

\* A local packet of a known type: a handshake initiation, or another.
Local == [src : Endpoint, kind : {"handshake", "data"}]

Loop == {"client", "server", "timer"}

VARIABLES
    conf,         \* the exported configuration: "none", "partial", "written", "removed"
    main,         \* where the main thread is
    left,         \* why the configuration was left on disk, or "no"
    running,      \* the relay's flag
    client_addr,  \* the endpoint answers go to
    at,           \* where each loop of the relay is
    packet,       \* what the client loop deals with
    target,       \* where the server loop is about to send
    taken,        \* how many packets and answers the loops have taken
    upstream,     \* what the relay handed to its socket for the server, in order
    owners,       \* the endpoints bound since the server loop took its datagram
    stale         \* an answer went to an endpoint not bound since it came

vars == <<conf, main, left, running, client_addr, at, packet, target,
          taken, upstream, owners, stale>>
mainVars == <<conf, main, left>>
loopVars == <<client_addr, at, packet, target, upstream, owners, stale>>

Init ==
    /\ conf = "none" /\ main = "export" /\ left = "no"
    /\ running = FALSE
    /\ client_addr = None
    /\ at = [l \in Loop |-> "none"]
    /\ packet = None /\ target = None
    /\ taken = [locals |-> 0, answers |-> 0]
    /\ upstream = <<>>
    /\ owners = {} /\ stale = FALSE

Alive == main # "exited"
-----------------------------------------------------------------------------
(* The main thread                                                          *)

(* export_ready_wg_conf.  Writing can fail before there is a file or when   *)
(* some of it is there; either way the program ends without a look at it.   *)
Export ==
    /\ main = "export"
    /\ \/ conf' = "written" /\ main' = "start" /\ UNCHANGED left
       \/ conf' \in {"none", "partial"} /\ main' = "exited" /\ left' = "export failed"
    /\ UNCHANGED <<running, loopVars, taken>>

(* relay.start sets running, then opens its sockets and at last spawns its  *)
(* loops; a failure on the way ends the program without any clean-up.       *)
StartRelay ==
    /\ main = "start"
    /\ running' = TRUE
    /\ \/ /\ main' = "handler"
          /\ at' = [l \in Loop |-> IF l = "timer" /\ ~Stun THEN "none" ELSE "check"]
          /\ UNCHANGED left
       \/ /\ main' = "exited" /\ left' = "relay failed"
          /\ UNCHANGED at
    /\ UNCHANGED <<conf, client_addr, packet, target, upstream, owners, stale, taken>>

\* The result of ctrlc::set_handler is ignored: without it the loop waits all the same.
SetHandler ==
    /\ main = "handler"
    /\ main' \in {"wait", "deaf"}
    /\ UNCHANGED <<conf, left, running, loopVars, taken>>

(* Ctrl+C: until the handler is in place it ends the process on the spot,   *)
(* also in the middle of the export.                                        *)
CtrlC ==
    /\ main \in {"export", "start", "handler", "wait", "deaf"}
    /\ IF main = "wait" THEN main' = "stop" /\ UNCHANGED left
                        ELSE main' = "exited" /\ left' = "killed"
    /\ conf' \in IF main = "export" THEN {"none", "partial"} ELSE {conf}
    /\ UNCHANGED <<running, loopVars, taken>>

StopRelay ==
    /\ main = "stop"
    /\ running' = FALSE
    /\ main' = "ask"
    /\ UNCHANGED <<conf, left, loopVars, taken>>

\* Fault: only an explicit yes removes the file, an empty line does not.
AskFault ==
    /\ main = "ask"
    /\ main' = "exited"
    /\ UNCHANGED <<conf, left, running, loopVars, taken>>

\* Yes or an empty line removes the file, if Windows lets us; no keeps it, and
\* so does an answer that cannot be read.
Ask ==
    /\ main = "ask"
    /\ main' = "exited"
    /\ \/ conf' = "removed" /\ UNCHANGED left
       \/ UNCHANGED conf /\ left' \in {"kept", "refused", "unanswered"}
    /\ UNCHANGED <<running, loopVars, taken>>
-----------------------------------------------------------------------------
(* The loops                                                                *)

Goto(l, place) == at' = [at EXCEPT ![l] = place]

Check(l) ==
    /\ Alive /\ at[l] = "check"
    /\ Goto(l, IF running THEN "receive" ELSE "done")
    /\ UNCHANGED <<mainVars, running, client_addr, packet, target, upstream, owners, stale, taken>>

\* Fault: recv_from without a timeout.
NothingFault(l) ==
    /\ Alive /\ at[l] = "receive" /\ running
    /\ Goto(l, "check")
    /\ UNCHANGED <<mainVars, running, client_addr, packet, target, upstream, owners, stale, taken>>

\* Both sockets have a read timeout; any other error too ends in the next round.
Nothing(l) ==
    /\ Alive /\ at[l] = "receive"
    /\ Goto(l, "check")
    /\ UNCHANGED <<mainVars, running, client_addr, packet, target, upstream, owners, stale, taken>>

(* The client loop takes a packet; short ones and unknown types go no       *)
(* further, as if nothing had come.                                         *)
TakeLocal ==
    /\ Alive /\ at["client"] = "receive"
    /\ taken.locals < MaxPackets
    /\ taken' = [taken EXCEPT !.locals = @ + 1]
    /\ packet' \in Local
    /\ Goto("client", "bind")
    /\ UNCHANGED <<mainVars, running, client_addr, target, upstream, owners, stale>>

Bind ==
    /\ client_addr' = packet.src
    /\ owners' = IF at["server"] \in {"look", "deliver"} THEN owners \cup {packet.src} ELSE {}

Accepts(p) == client_addr \in {None, p.src} \/ p.kind = "handshake"

\* Fault: any known type rebinds.
BindClientFault ==
    /\ Alive /\ at["client"] = "bind"
    /\ Bind
    /\ Goto("client", IF Stun /\ packet.kind = "handshake" THEN "announce" ELSE "forward")
    /\ UNCHANGED <<mainVars, running, packet, target, upstream, stale, taken>>

\* Fault: only a change of client is announced, not a repeated handshake.
BindClientQuiet ==
    /\ Alive /\ at["client"] = "bind"
    /\ IF Accepts(packet)
       THEN /\ Bind
            /\ Goto("client", IF Stun /\ client_addr # packet.src THEN "announce" ELSE "forward")
            /\ UNCHANGED packet
       ELSE Goto("client", "check") /\ packet' = None /\ UNCHANGED <<client_addr, owners>>
    /\ UNCHANGED <<mainVars, running, target, upstream, stale, taken>>

(* Under the lock of client_addr: the first endpoint is bound, another one  *)
(* only by a handshake; what it sends otherwise is dropped.                 *)
BindClient ==
    /\ Alive /\ at["client"] = "bind"
    /\ IF Accepts(packet)
       THEN /\ Bind
            /\ Goto("client", IF Stun /\ packet.kind = "handshake" THEN "announce" ELSE "forward")
            /\ UNCHANGED packet
       ELSE Goto("client", "check") /\ packet' = None /\ UNCHANGED <<client_addr, owners>>
    /\ UNCHANGED <<mainVars, running, target, upstream, stale, taken>>

\* A binding request goes before a handshake.
Announce ==
    /\ Alive /\ at["client"] = "announce"
    /\ upstream' = Append(upstream, [src |-> None, kind |-> "binding"])
    /\ Goto("client", "forward")
    /\ UNCHANGED <<mainVars, running, client_addr, packet, target, owners, stale, taken>>

Forward ==
    /\ Alive /\ at["client"] = "forward"
    /\ upstream' = Append(upstream, packet)
    /\ packet' = None
    /\ Goto("client", "check")
    /\ UNCHANGED <<mainVars, running, client_addr, target, owners, stale, taken>>

(* The server loop takes a datagram; binding responses and what does not    *)
(* unwrap or decode are dropped, as if nothing had come.                    *)
TakeAnswer ==
    /\ Alive /\ at["server"] = "receive"
    /\ taken.answers < MaxAnswers
    /\ taken' = [taken EXCEPT !.answers = @ + 1]
    /\ Goto("server", "look")
    /\ owners' = {client_addr} \ {None}
    /\ UNCHANGED <<mainVars, running, client_addr, packet, target, upstream, stale>>

\* Fault: the address is looked up once and kept.
LookUpFault ==
    /\ Alive /\ at["server"] = "look"
    /\ target' = IF target = None THEN client_addr ELSE target
    /\ Goto("server", IF target' = None THEN "check" ELSE "deliver")
    /\ UNCHANGED <<mainVars, running, client_addr, packet, upstream, owners, stale, taken>>

\* Under the lock of client_addr, which is free again before the answer goes out.
LookUp ==
    /\ Alive /\ at["server"] = "look"
    /\ target' = client_addr
    /\ Goto("server", IF client_addr = None THEN "check" ELSE "deliver")
    /\ UNCHANGED <<mainVars, running, client_addr, packet, upstream, owners, stale, taken>>

Deliver ==
    /\ Alive /\ at["server"] = "deliver"
    /\ stale' = (stale \/ target \notin owners)
    /\ owners' = {}
    /\ Goto("server", "check")
    /\ UNCHANGED <<mainVars, running, client_addr, packet, target, upstream, taken>>

\* The timer sleeps ten seconds and looks at running once more before it pings.
Ping ==
    /\ Alive /\ at["timer"] = "receive"
    /\ Goto("timer", IF running THEN "check" ELSE "done")
    /\ IF running /\ Len(SelectSeq(upstream, LAMBDA u : u.kind = "ping")) < MaxPings
       THEN upstream' = Append(upstream, [src |-> None, kind |-> "ping"])
       ELSE UNCHANGED upstream
    /\ UNCHANGED <<mainVars, running, client_addr, packet, target, owners, stale, taken>>

ClientStep ==
    Check("client") \/ Nothing("client") \/ TakeLocal \/ BindClient \/ Announce \/ Forward
ServerStep == Check("server") \/ Nothing("server") \/ TakeAnswer \/ LookUp \/ Deliver
TimerStep == Check("timer") \/ Ping
MainStep == Export \/ StartRelay \/ SetHandler \/ CtrlC \/ StopRelay \/ Ask

Next == MainStep \/ ClientStep \/ ServerStep \/ TimerStep

Spec == Init /\ [][Next]_vars

\* The system runs the loops; the user need not press or answer anything.
FairSpec == Spec /\ WF_vars(ClientStep) /\ WF_vars(ServerStep) /\ WF_vars(TimerStep)
-----------------------------------------------------------------------------
(* Data reaches the server only from the endpoint that sent the latest      *)
(* handshake or, before any handshake, the first packet (relay.rs 129-149). *)
ForwardedFromClient ==
    \A i \in 1 .. Len(upstream) :
        upstream[i].kind = "data" =>
            \E j \in 1 .. i :
                /\ upstream[j].src = upstream[i].src
                /\ \/ upstream[j].kind = "handshake"
                   \/ \A k \in 1 .. j - 1 : upstream[k].src = None
                /\ \A k \in j .. i : upstream[k].src \in {None, upstream[i].src}

(* Under STUN a binding request goes to the server after whatever data went *)
(* before and ahead of each handshake, the keepalive's pings among them.    *)
HandshakeAnnounced ==
    Stun => \A i \in 1 .. Len(upstream) :
        upstream[i].kind = "handshake" =>
            \E j \in 1 .. i - 1 :
                /\ upstream[j].kind = "binding"
                /\ \A k \in j + 1 .. i - 1 : upstream[k].kind = "ping"

(* The lock of client_addr is free again when the answer is sent; still it  *)
(* goes to an endpoint that was bound at some time since it came in, never  *)
(* to one replaced before (relay.rs 228-236).                               *)
NoStaleDelivery == ~stale

\* What became of the file when the user was asked, and what comes before that.
Asked == {"kept", "refused", "unanswered"}
Unasked == {"export failed", "relay failed", "killed"}

(* A file with the private key, whole or in part, outlives the program only *)
(* if the user keeps it or the removal fails, or if the program ended       *)
(* before it could ask: writing the file failed half-way, the relay did not *)
(* start, or Ctrl+C came before its handler was in place or where it could  *)
(* not be set (main.rs 224-230, 252-255, 282-314).  The question is asked   *)
(* of a whole file only, and not while the relay is on.                     *)
ConfAccountedFor ==
    main = "exited" /\ conf \notin {"none", "removed"} =>
        \/ left \in Asked /\ conf = "written" /\ ~running
        \/ left \in Unasked /\ (left = "relay failed" => conf = "written")

(* After stop every loop of the relay ends, whatever its sockets receive,   *)
(* unless the process is gone first (relay.rs 275-277).                     *)
StopEndsLoops ==
    main = "ask" ~> main = "exited" \/ \A l \in Loop : at[l] \in {"none", "done"}
=============================================================================
