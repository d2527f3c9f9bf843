----------------------------- MODULE RelayProofs -----------------------------
(* What the relay sends to the server and to the client, for any number of  *)
(* local endpoints, packets, answers and pings.                             *)
EXTENDS Relay, TLAPS

Place == {"none", "check", "receive", "bind", "announce", "forward", "look", "deliver", "done"}
Sent == Local \cup [src : {None}, kind : {"binding", "ping"}]

\* The client loop has bound a client and still has its packet in hand.
Carrying == at["client"] \in {"announce", "forward"}

\* The shape of the state; no loop runs before the main thread has started the relay.
RelayType ==
    /\ client_addr \in Endpoint \cup {None}
    /\ at \in [Loop -> Place]
    /\ main \in {"export", "start"} => \A l \in Loop : at[l] = "none"
    /\ at["client"] \in {"bind", "announce", "forward"} => packet \in Local
    /\ at["client"] = "announce" => packet.kind = "handshake"
    /\ upstream \in Seq(Sent)

\* Nothing of any client has gone to the server.
Quiet == \A k \in 1 .. Len(upstream) : upstream[k].src = None

\* What went to the server at place j makes e its client, and since then no other spoke.
Speaks(e, j) ==
    /\ upstream[j].src = e
    /\ upstream[j].kind = "handshake" \/ \A k \in 1 .. j - 1 : upstream[k].src = None
    /\ \A k \in j .. Len(upstream) : upstream[k].src \in {None, e}

Speaker(e) == \E j \in 1 .. Len(upstream) : Speaks(e, j)

(* The server has heard the bound client last, but for the moment between   *)
(* a binding and the packet that caused it: then that packet is a handshake *)
(* or the first of all, or comes from the one the server knows.             *)
SpeakerBound ==
    IF Carrying
    THEN /\ packet.src = client_addr
         /\ packet.kind = "handshake" \/ Quiet \/ Speaker(client_addr)
    ELSE IF client_addr = None THEN Quiet ELSE Speaker(client_addr)

ForwardInv == RelayType /\ SpeakerBound /\ ForwardedFromClient

\* Nothing but pings since a binding request.
Announced ==
    \E j \in 1 .. Len(upstream) :
        /\ upstream[j].kind = "binding"
        /\ \A k \in j + 1 .. Len(upstream) : upstream[k].kind = "ping"

AnnounceInv ==
    /\ RelayType
    /\ Stun /\ at["client"] = "forward" /\ packet.kind = "handshake" => Announced
    /\ HandshakeAnnounced

\* From the datagram to its delivery the owners include whoever is bound.
DeliveryInv ==
    /\ RelayType
    /\ at["server"] \in {"look", "deliver"} => client_addr \in owners \cup {None}
    /\ at["server"] = "deliver" => target \in owners
    /\ NoStaleDelivery

ConfInv ==
    /\ main = "export" => conf = "none"
    /\ main \notin {"export", "exited"} => conf = "written"
    /\ main = "ask" => ~running
    /\ ConfAccountedFor
-----------------------------------------------------------------------------
LEMMA TypeInit == Init => RelayType
  BY DEF Init, RelayType, Loop, Place

\* A loop's step leaves the others where they are.
LEMMA GotoType ==
    ASSUME RelayType, NEW l \in Loop, NEW place \in Place, Goto(l, place)
    PROVE  /\ at' \in [Loop -> Place]
           /\ at'[l] = place
           /\ \A m \in Loop \ {l} : at'[m] = at[m]
  BY DEF RelayType, Goto

\* What the three actions that send to the server append.
LEMMA SentType ==
    /\ [src |-> None, kind |-> "binding"] \in Sent
    /\ [src |-> None, kind |-> "ping"] \in Sent
    /\ \A p \in Local : p \in Sent
    /\ \A p \in Local : p.src \in Endpoint /\ p.kind \in {"handshake", "data"}
    /\ \A p \in Local : p.src # None
  BY RelayAssumption DEF Sent, Local

LEMMA PingStep ==
    ASSUME Ping
    PROVE  /\ Goto("timer", "check") \/ Goto("timer", "done")
           /\ upstream' = Append(upstream, [src |-> None, kind |-> "ping"]) \/ UNCHANGED upstream
           /\ UNCHANGED <<mainVars, running, client_addr, packet, target, owners, stale>>
  BY Zenon DEF Ping

LEMMA TypeStep == RelayType /\ [Next]_vars => RelayType'
  <1> SUFFICES ASSUME RelayType, [Next]_vars PROVE RelayType'
    OBVIOUS
  <1> USE DEF mainVars, loopVars
  <1>1. CASE MainStep
    BY <1>1 DEF MainStep, Export, StartRelay, SetHandler, CtrlC, StopRelay, Ask,
                RelayType, Loop, Place
  <1>2. ASSUME NEW l \in Loop, Check(l) PROVE RelayType'
    BY <1>2, GotoType DEF Check, RelayType, Goto, Loop, Place
  <1>3. ASSUME NEW l \in Loop, Nothing(l) PROVE RelayType'
    BY <1>3, GotoType DEF Nothing, RelayType, Goto, Loop, Place
  <1>4. CASE TakeLocal
    BY <1>4, GotoType DEF TakeLocal, RelayType, Goto, Loop, Place
  <1>5. CASE BindClient
    BY <1>5, GotoType, SentType DEF BindClient, Bind, RelayType, Goto, Loop, Place
  <1>6. CASE Announce
    BY <1>6, GotoType, SentType DEF Announce, RelayType, Goto, Loop, Place
  <1>7. CASE Forward
    BY <1>7, GotoType, SentType DEF Forward, RelayType, Goto, Loop, Place
  <1>8. CASE TakeAnswer \/ LookUp \/ Deliver
    BY <1>8, GotoType DEF TakeAnswer, LookUp, Deliver, RelayType, Goto, Loop, Place
  <1>9. CASE Ping
    <2>1. /\ at' \in [Loop -> Place]
          /\ \A m \in Loop \ {"timer"} : at'[m] = at[m]
          /\ main' = main /\ client_addr' = client_addr /\ packet' = packet
      BY <1>9, PingStep, GotoType DEF Loop, Place
    <2>2. at["timer"] = "receive"
      BY <1>9 DEF Ping
    <2>3. upstream' \in Seq(Sent)
      BY <1>9, PingStep, SentType DEF RelayType
    <2> QED
      BY <2>1, <2>2, <2>3 DEF RelayType, Loop
  <1>10. CASE UNCHANGED vars
    BY <1>10 DEF vars, RelayType
  <1> QED
    BY <1>1, <1>2, <1>3, <1>4, <1>5, <1>6, <1>7, <1>8, <1>9, <1>10
       DEF Next, ClientStep, ServerStep, TimerStep, Loop
-----------------------------------------------------------------------------
(* Who may speak to the server                                              *)

LEMMA Appended ==
    ASSUME RelayType, NEW u \in Sent, upstream' = Append(upstream, u)
    PROVE  /\ Len(upstream) \in Nat /\ Len(upstream') = Len(upstream) + 1
           /\ \A i \in 1 .. Len(upstream) : upstream'[i] = upstream[i]
           /\ upstream'[Len(upstream) + 1] = u
  BY DEF RelayType

\* A ping or a binding request changes nothing between the server and the clients.
LEMMA SilentStep ==
    ASSUME RelayType, NEW u \in Sent, upstream' = Append(upstream, u),
           u.src = None, u.kind # "data"
    PROVE  /\ Quiet => Quiet'
           /\ \A e \in Endpoint : Speaker(e) => Speaker(e)'
           /\ ForwardedFromClient => ForwardedFromClient'
  <1> DEFINE n == Len(upstream)
  <1>1. /\ n \in Nat /\ Len(upstream') = n + 1
        /\ \A i \in 1 .. n : upstream'[i] = upstream[i]
        /\ upstream'[n + 1] = u
    BY Appended
  <1> HIDE DEF n
  <1>2. Quiet => Quiet'
    BY <1>1 DEF Quiet, n
  <1>3. ASSUME NEW e \in Endpoint, NEW j \in 1 .. n, Speaks(e, j)
        PROVE  j \in 1 .. n + 1 /\ Speaks(e, j)'
    BY <1>1, <1>3 DEF Speaks, n
  <1>4. \A e \in Endpoint : Speaker(e) => Speaker(e)'
    BY <1>1, <1>3 DEF Speaker, n
  <1>5. ForwardedFromClient => ForwardedFromClient'
    BY <1>1 DEF ForwardedFromClient, n
  <1> QED
    BY <1>2, <1>4, <1>5

\* A client's packet makes it the one the server knows, if it was or if it may be.
LEMMA ClientStepSpeaks ==
    ASSUME RelayType, NEW p \in Local, upstream' = Append(upstream, p),
           p.kind = "handshake" \/ Quiet \/ Speaker(p.src),
           ForwardedFromClient
    PROVE  Speaker(p.src)' /\ ForwardedFromClient'
  <1> DEFINE n == Len(upstream)
             e == p.src
  <1>1. /\ n \in Nat /\ Len(upstream') = n + 1
        /\ \A i \in 1 .. n : upstream'[i] = upstream[i]
        /\ upstream'[n + 1] = p
    BY Appended, SentType
  <1> HIDE DEF n
  <1> DEFINE Now(j) ==
                /\ upstream'[j].src = e
                /\ upstream'[j].kind = "handshake" \/ \A k \in 1 .. j - 1 : upstream'[k].src = None
                /\ \A k \in j .. n + 1 : upstream'[k].src \in {None, e}
  <1>2. \E j \in 1 .. n + 1 : Now(j)
    <2>1. CASE p.kind = "handshake"
      <3>1. n + 1 \in 1 .. n + 1 /\ Now(n + 1)
        BY <1>1, <2>1
      <3> QED
        BY <3>1
    <2>2. CASE Quiet
      <3>1. n + 1 \in 1 .. n + 1 /\ Now(n + 1)
        BY <1>1, <2>2 DEF Quiet, n
      <3> QED
        BY <3>1
    <2>3. CASE Speaker(e)
      <3>1. PICK j \in 1 .. n : Speaks(e, j)
        BY <2>3 DEF Speaker, n
      <3>2. j \in 1 .. n + 1 /\ Now(j)
        BY <1>1, <3>1 DEF Speaks, n
      <3> QED
        BY <3>2
    <2> QED
      BY <2>1, <2>2, <2>3
  <1>3. Speaker(e)'
    BY <1>1, <1>2 DEF Speaker, Speaks
  <1> DEFINE Allowed(i) ==
                \E j \in 1 .. i :
                    /\ upstream'[j].src = upstream'[i].src
                    /\ \/ upstream'[j].kind = "handshake"
                       \/ \A k \in 1 .. j - 1 : upstream'[k].src = None
                    /\ \A k \in j .. i : upstream'[k].src \in {None, upstream'[i].src}
  <1>4. ASSUME NEW i \in 1 .. n, upstream'[i].kind = "data"
        PROVE  Allowed(i)
    <2>1. upstream[i].kind = "data" /\ \A k \in 1 .. i : upstream'[k] = upstream[k]
      BY <1>1, <1>4
    <2>2. PICK j \in 1 .. i :
              /\ upstream[j].src = upstream[i].src
              /\ upstream[j].kind = "handshake" \/ \A k \in 1 .. j - 1 : upstream[k].src = None
              /\ \A k \in j .. i : upstream[k].src \in {None, upstream[i].src}
      BY <1>1, <2>1 DEF ForwardedFromClient, n
    <2>3. \A k \in 1 .. j - 1 : k \in 1 .. i
      BY <1>1, <2>2
    <2>4. \A k \in j .. i : k \in 1 .. i
      BY <1>1, <2>2
    <2>5. i \in 1 .. i
      BY <1>1
    <2> QED
      BY <2>1, <2>2, <2>3, <2>4, <2>5
  <1>5. Allowed(n + 1)
    BY <1>1, <1>2
  <1>6. ForwardedFromClient'
    <2>1. \A i \in 1 .. n + 1 : i \in 1 .. n \/ i = n + 1
      BY <1>1
    <2>2. \A i \in 1 .. n + 1 : upstream'[i].kind = "data" => Allowed(i)
      BY <1>4, <1>5, <2>1
    <2> QED
      BY <1>1, <2>2 DEF ForwardedFromClient
  <1> QED
    BY <1>3, <1>6

LEMMA ForwardStep == ForwardInv /\ [Next]_vars => ForwardInv'
  <1> SUFFICES ASSUME ForwardInv, [Next]_vars PROVE ForwardInv'
    OBVIOUS
  <1> USE DEF mainVars, loopVars
  <1>1. RelayType /\ RelayType'
    BY TypeStep DEF ForwardInv
  <1>2. ASSUME UNCHANGED upstream
        PROVE  /\ ForwardedFromClient' /\ (Quiet' <=> Quiet)
               /\ \A e : Speaker(e)' <=> Speaker(e)
    BY <1>2 DEF ForwardInv, ForwardedFromClient, Quiet, Speaker, Speaks
  <1>3. ASSUME UNCHANGED <<upstream, client_addr>>, ~Carrying, ~Carrying'
        PROVE  ForwardInv'
    BY <1>1, <1>2, <1>3 DEF ForwardInv, SpeakerBound
  <1>4. ASSUME UNCHANGED <<upstream, client_addr, packet>>, Carrying' <=> Carrying
        PROVE  ForwardInv'
    BY <1>1, <1>2, <1>4 DEF ForwardInv, SpeakerBound
  <1>5. CASE MainStep
    <2>1. UNCHANGED <<upstream, client_addr, packet>>
      BY <1>5 DEF MainStep, Export, StartRelay, SetHandler, CtrlC, StopRelay, Ask
    <2>2. Carrying' <=> Carrying
      BY <1>1, <1>5 DEF MainStep, Export, StartRelay, SetHandler, CtrlC, StopRelay, Ask,
                        Carrying, RelayType, Loop
    <2> QED
      BY <1>4, <2>1, <2>2
  <1>6. ASSUME NEW l \in Loop, Check(l) \/ Nothing(l) PROVE ForwardInv'
    <2>1. UNCHANGED <<upstream, client_addr, packet>>
      BY <1>6 DEF Check, Nothing
    <2>2. Carrying' <=> Carrying
      BY <1>1, <1>6 DEF Check, Nothing, Goto, Carrying, RelayType, Loop
    <2> QED
      BY <1>4, <2>1, <2>2
  <1>7. CASE TakeLocal
    BY <1>1, <1>3, <1>7 DEF TakeLocal, Goto, Carrying, RelayType, Loop
  <1>8. CASE BindClient
    <2>1. at["client"] = "bind" /\ packet \in Local /\ UNCHANGED upstream /\ ~Carrying
      BY <1>1, <1>8 DEF BindClient, RelayType, Carrying
    <2>2. CASE Accepts(packet)
      <3>1. client_addr' = packet.src /\ packet' = packet /\ Carrying'
        BY <1>1, <1>8, <2>2 DEF BindClient, Bind, Goto, Carrying, RelayType, Loop
      <3>2. packet.kind = "handshake" \/ Quiet \/ Speaker(packet.src)
        BY <2>1, <2>2 DEF Accepts, ForwardInv, SpeakerBound
      <3> QED
        BY <1>1, <1>2, <2>1, <3>1, <3>2 DEF ForwardInv, SpeakerBound
    <2>3. CASE ~Accepts(packet)
      <3>1. UNCHANGED client_addr /\ ~Carrying'
        BY <1>1, <1>8, <2>3 DEF BindClient, Goto, Carrying, RelayType, Loop
      <3> QED
        BY <1>3, <2>1, <3>1
    <2> QED
      BY <2>2, <2>3
  <1>9. CASE Announce
    <2>1. /\ Carrying /\ Carrying' /\ UNCHANGED <<client_addr, packet>>
          /\ upstream' = Append(upstream, [src |-> None, kind |-> "binding"])
      BY <1>1, <1>9 DEF Announce, Goto, Carrying, RelayType, Loop
    <2>2. client_addr \in Endpoint
      BY <1>1, <2>1, SentType DEF ForwardInv, SpeakerBound, RelayType, Carrying
    <2> QED
      BY <1>1, <2>1, <2>2, SilentStep, SentType DEF ForwardInv, SpeakerBound
  <1>10. CASE Forward
    <2>1. /\ Carrying /\ ~Carrying' /\ UNCHANGED client_addr
          /\ upstream' = Append(upstream, packet) /\ packet \in Local
      BY <1>1, <1>10 DEF Forward, Goto, Carrying, RelayType, Loop
    <2>2. packet.src = client_addr /\ client_addr # None
      BY <2>1, SentType DEF ForwardInv, SpeakerBound
    <2> PICK p \in Local : p = packet
      BY <2>1
    <2>3. p.kind = "handshake" \/ Quiet \/ Speaker(p.src)
      BY <2>1, <2>2 DEF ForwardInv, SpeakerBound
    <2>4. upstream' = Append(upstream, p) /\ p.src = client_addr'
      BY <2>1, <2>2
    <2>5. Speaker(p.src)' /\ ForwardedFromClient'
      BY <1>1, <2>3, <2>4, ClientStepSpeaks DEF ForwardInv
    <2>6. Speaker(client_addr)'
      BY <2>4, <2>5 DEF Speaker, Speaks
    <2> QED
      BY <1>1, <2>1, <2>2, <2>5, <2>6 DEF ForwardInv, SpeakerBound
  <1>11. CASE TakeAnswer \/ LookUp \/ Deliver
    <2>1. UNCHANGED <<upstream, client_addr, packet>>
      BY <1>11 DEF TakeAnswer, LookUp, Deliver
    <2>2. Carrying' <=> Carrying
      BY <1>1, <1>11 DEF TakeAnswer, LookUp, Deliver, Goto, Carrying, RelayType, Loop
    <2> QED
      BY <1>4, <2>1, <2>2
  <1>12. CASE Ping
    <2>1. UNCHANGED <<client_addr, packet>> /\ (Carrying' <=> Carrying)
      BY <1>1, <1>12, PingStep, GotoType DEF Carrying, Loop, Place
    <2>2. CASE UNCHANGED upstream
      BY <1>4, <2>1, <2>2
    <2>3. CASE upstream' = Append(upstream, [src |-> None, kind |-> "ping"])
      <3>1. Carrying => client_addr \in Endpoint
        BY <1>1, SentType DEF ForwardInv, SpeakerBound, RelayType, Carrying
      <3> QED
        BY <1>1, <2>1, <2>3, <3>1, SilentStep, SentType DEF ForwardInv, SpeakerBound, RelayType
    <2> QED
      BY <1>12, <2>2, <2>3, PingStep
  <1>13. CASE UNCHANGED vars
    BY <1>4, <1>13 DEF vars, Carrying
  <1> QED
    BY <1>5, <1>6, <1>7, <1>8, <1>9, <1>10, <1>11, <1>12, <1>13
       DEF Next, ClientStep, ServerStep, TimerStep, Loop

LEMMA ForwardInit == Init => ForwardInv
  <1> SUFFICES ASSUME Init PROVE ForwardInv
    OBVIOUS
  <1>1. upstream = <<>> /\ at["client"] = "none" /\ client_addr = None
    BY DEF Init, Loop
  <1> QED
    BY <1>1, TypeInit DEF ForwardInv, SpeakerBound, Carrying, Quiet, ForwardedFromClient

(* For any number of endpoints and packets: data reaches the server only    *)
(* from the endpoint that sent the latest handshake or the first packet.    *)
THEOREM OnlyTheClientIsForwarded == Spec => []ForwardedFromClient
  <1>1. ForwardInv => ForwardedFromClient
    BY DEF ForwardInv
  <1> QED
    BY <1>1, ForwardInit, ForwardStep, PTL DEF Spec
-----------------------------------------------------------------------------
(* The binding request before a handshake                                   *)

LEMMA AnnouncedStep ==
    ASSUME RelayType, NEW u \in Sent, upstream' = Append(upstream, u)
    PROVE  /\ u.kind = "binding" \/ (u.kind = "ping" /\ Announced) => Announced'
           /\ (HandshakeAnnounced /\ (Stun /\ u.kind = "handshake" => Announced))
              => HandshakeAnnounced'
  <1> DEFINE n == Len(upstream)
             Before(i) ==
                \E j \in 1 .. i - 1 :
                    /\ upstream'[j].kind = "binding"
                    /\ \A k \in j + 1 .. i - 1 : upstream'[k].kind = "ping"
  <1>1. /\ n \in Nat /\ Len(upstream') = n + 1
        /\ \A i \in 1 .. n : upstream'[i] = upstream[i]
        /\ upstream'[n + 1] = u
    BY Appended
  <1> HIDE DEF n
  <1>2. ASSUME u.kind = "binding" PROVE Announced'
    <2>1. /\ n + 1 \in 1 .. n + 1 /\ upstream'[n + 1].kind = "binding"
          /\ \A k \in (n + 1) + 1 .. n + 1 : upstream'[k].kind = "ping"
      BY <1>1, <1>2
    <2> QED
      BY <1>1, <2>1 DEF Announced
  <1>3. ASSUME u.kind = "ping", Announced PROVE Announced'
    <2>1. PICK j \in 1 .. n :
              /\ upstream[j].kind = "binding"
              /\ \A k \in j + 1 .. n : upstream[k].kind = "ping"
      BY <1>3 DEF Announced, n
    <2>2. /\ j \in 1 .. n + 1 /\ upstream'[j].kind = "binding"
          /\ \A k \in j + 1 .. n + 1 : upstream'[k].kind = "ping"
      BY <1>1, <1>3, <2>1
    <2> QED
      BY <1>1, <2>2 DEF Announced
  <1>4. ASSUME HandshakeAnnounced, Stun, Stun /\ u.kind = "handshake" => Announced,
               NEW i \in 1 .. n + 1, upstream'[i].kind = "handshake"
        PROVE  Before(i)
    <2>1. CASE i \in 1 .. n
      <3>1. PICK j \in 1 .. i - 1 :
                /\ upstream[j].kind = "binding"
                /\ \A k \in j + 1 .. i - 1 : upstream[k].kind = "ping"
        BY <1>1, <1>4, <2>1 DEF HandshakeAnnounced, n
      <3>2. /\ j \in 1 .. n
            /\ \A k \in j + 1 .. i - 1 : k \in 1 .. n
        BY <1>1, <2>1
      <3> QED
        BY <1>1, <3>1, <3>2
    <2>2. CASE i = n + 1
      <3>1. PICK j \in 1 .. n :
                /\ upstream[j].kind = "binding"
                /\ \A k \in j + 1 .. n : upstream[k].kind = "ping"
        BY <1>1, <1>4, <2>2 DEF Announced, n
      <3>2. /\ i - 1 = n
            /\ \A k \in j + 1 .. n : k \in 1 .. n
        BY <1>1, <2>2
      <3> QED
        BY <1>1, <3>1, <3>2
    <2> QED
      BY <1>1, <2>1, <2>2
  <1> QED
    BY <1>1, <1>2, <1>3, <1>4 DEF HandshakeAnnounced

LEMMA AnnounceStep == AnnounceInv /\ [Next]_vars => AnnounceInv'
  <1> SUFFICES ASSUME AnnounceInv, [Next]_vars PROVE AnnounceInv'
    OBVIOUS
  <1> USE DEF mainVars, loopVars
  <1> DEFINE Ready == Stun /\ at["client"] = "forward" /\ packet.kind = "handshake"
  <1>1. RelayType /\ RelayType'
    BY TypeStep DEF AnnounceInv
  <1>2. ASSUME UNCHANGED upstream
        PROVE  HandshakeAnnounced' /\ (Announced' <=> Announced)
    BY <1>2 DEF AnnounceInv, HandshakeAnnounced, Announced
  <1>3. ASSUME UNCHANGED upstream, ~Ready' PROVE AnnounceInv'
    BY <1>1, <1>2, <1>3 DEF AnnounceInv
  <1>4. ASSUME UNCHANGED <<upstream, packet>>,
               at'["client"] = "forward" <=> at["client"] = "forward"
        PROVE  AnnounceInv'
    BY <1>1, <1>2, <1>4 DEF AnnounceInv
  <1>5. CASE MainStep
    <2>1. UNCHANGED <<upstream, packet>>
      BY <1>5 DEF MainStep, Export, StartRelay, SetHandler, CtrlC, StopRelay, Ask
    <2>2. at'["client"] = "forward" <=> at["client"] = "forward"
      BY <1>1, <1>5 DEF MainStep, Export, StartRelay, SetHandler, CtrlC, StopRelay, Ask,
                        RelayType, Loop
    <2> QED
      BY <1>4, <2>1, <2>2
  <1>6. ASSUME NEW l \in Loop, Check(l) \/ Nothing(l) PROVE AnnounceInv'
    <2>1. UNCHANGED <<upstream, packet>>
      BY <1>6 DEF Check, Nothing
    <2>2. at'["client"] = "forward" <=> at["client"] = "forward"
      BY <1>1, <1>6 DEF Check, Nothing, Goto, RelayType, Loop
    <2> QED
      BY <1>4, <2>1, <2>2
  <1>7. CASE TakeLocal
    BY <1>1, <1>3, <1>7 DEF TakeLocal, Goto, RelayType, Loop
  <1>8. CASE BindClient
    BY <1>1, <1>3, <1>8 DEF BindClient, Goto, RelayType, Loop
  <1>9. CASE Announce
    <2> DEFINE u == [src |-> None, kind |-> "binding"]
    <2>1. u \in Sent /\ upstream' = Append(upstream, u) /\ u.kind = "binding"
      BY <1>9, SentType DEF Announce
    <2> HIDE DEF u
    <2>2. HandshakeAnnounced' /\ Announced'
      BY <1>1, <2>1, AnnouncedStep DEF AnnounceInv
    <2> QED
      BY <1>1, <2>2 DEF AnnounceInv
  <1>10. CASE Forward
    <2>1. /\ at["client"] = "forward" /\ at'["client"] = "check"
          /\ upstream' = Append(upstream, packet) /\ packet \in Local
      BY <1>1, <1>10 DEF Forward, Goto, RelayType, Loop
    <2> PICK p \in Local : p = packet
      BY <2>1
    <2>2. p \in Sent /\ upstream' = Append(upstream, p) /\ (Stun /\ p.kind = "handshake" => Announced)
      BY <2>1, SentType DEF AnnounceInv
    <2>3. HandshakeAnnounced'
      BY <1>1, <2>2, AnnouncedStep DEF AnnounceInv
    <2> QED
      BY <1>1, <2>1, <2>3 DEF AnnounceInv
  <1>11. CASE TakeAnswer \/ LookUp \/ Deliver
    <2>1. UNCHANGED <<upstream, packet>>
      BY <1>11 DEF TakeAnswer, LookUp, Deliver
    <2>2. at'["client"] = "forward" <=> at["client"] = "forward"
      BY <1>1, <1>11 DEF TakeAnswer, LookUp, Deliver, Goto, RelayType, Loop
    <2> QED
      BY <1>4, <2>1, <2>2
  <1>12. CASE Ping
    <2>1. UNCHANGED packet /\ at'["client"] = at["client"]
      BY <1>1, <1>12, PingStep, GotoType DEF Loop, Place
    <2>2. CASE UNCHANGED upstream
      BY <1>4, <2>1, <2>2
    <2>3. CASE upstream' = Append(upstream, [src |-> None, kind |-> "ping"])
      <3> DEFINE u == [src |-> None, kind |-> "ping"]
      <3>1. u \in Sent /\ upstream' = Append(upstream, u) /\ u.kind = "ping"
        BY <2>3, SentType
      <3> HIDE DEF u
      <3>2. HandshakeAnnounced' /\ (Announced => Announced')
        BY <1>1, <3>1, AnnouncedStep DEF AnnounceInv
      <3> QED
        BY <1>1, <2>1, <3>2 DEF AnnounceInv
    <2> QED
      BY <1>12, <2>2, <2>3, PingStep
  <1>13. CASE UNCHANGED vars
    BY <1>4, <1>13 DEF vars
  <1> QED
    BY <1>5, <1>6, <1>7, <1>8, <1>9, <1>10, <1>11, <1>12, <1>13
       DEF Next, ClientStep, ServerStep, TimerStep, Loop

(* For any number of pings and packets in between: under STUN a binding     *)
(* request goes ahead of every handshake.                                   *)
THEOREM HandshakesAreAnnounced == Spec => []HandshakeAnnounced
  <1>1. Init => AnnounceInv
    BY TypeInit DEF Init, AnnounceInv, HandshakeAnnounced, Loop
  <1>2. AnnounceInv => HandshakeAnnounced
    BY DEF AnnounceInv
  <1> QED
    BY <1>1, <1>2, AnnounceStep, PTL DEF Spec
-----------------------------------------------------------------------------
(* Where answers go                                                         *)

LEMMA DeliveryStep == DeliveryInv /\ [Next]_vars => DeliveryInv'
  <1> SUFFICES ASSUME DeliveryInv, [Next]_vars PROVE DeliveryInv'
    OBVIOUS
  <1> USE DEF mainVars, loopVars, NoStaleDelivery
  <1>1. RelayType /\ RelayType'
    BY TypeStep DEF DeliveryInv
  <1>2. ASSUME UNCHANGED <<client_addr, owners, target, stale>>,
               at'["server"] = at["server"] \/ at'["server"] \notin {"look", "deliver"}
        PROVE  DeliveryInv'
    BY <1>1, <1>2 DEF DeliveryInv
  <1>3. CASE MainStep
    <2>1. UNCHANGED <<client_addr, owners, target, stale>>
      BY <1>3 DEF MainStep, Export, StartRelay, SetHandler, CtrlC, StopRelay, Ask
    <2>2. at'["server"] = at["server"] \/ at'["server"] \notin {"look", "deliver"}
      BY <1>3 DEF MainStep, Export, StartRelay, SetHandler, CtrlC, StopRelay, Ask, Loop
    <2> QED
      BY <1>2, <2>1, <2>2
  <1>4. ASSUME NEW l \in Loop, Check(l) \/ Nothing(l) PROVE DeliveryInv'
    <2>1. UNCHANGED <<client_addr, owners, target, stale>>
      BY <1>4 DEF Check, Nothing
    <2>2. at'["server"] = at["server"] \/ at'["server"] \notin {"look", "deliver"}
      BY <1>1, <1>4 DEF Check, Nothing, Goto, RelayType, Loop
    <2> QED
      BY <1>2, <2>1, <2>2
  <1>5. CASE TakeLocal \/ Announce \/ Forward
    <2>1. UNCHANGED <<client_addr, owners, target, stale>>
      BY <1>5 DEF TakeLocal, Announce, Forward
    <2>2. at'["server"] = at["server"]
      BY <1>1, <1>5 DEF TakeLocal, Announce, Forward, Goto, RelayType, Loop
    <2> QED
      BY <1>2, <2>1, <2>2
  <1>6. CASE BindClient
    <2>1. UNCHANGED <<target, stale>> /\ at'["server"] = at["server"]
      BY <1>1, <1>6 DEF BindClient, Goto, RelayType, Loop
    <2>2. \/ UNCHANGED <<client_addr, owners>>
          \/ /\ client_addr' = packet.src
             /\ at["server"] \in {"look", "deliver"} => owners' = owners \cup {packet.src}
      BY <1>6 DEF BindClient, Bind
    <2> QED
      BY <1>1, <2>1, <2>2 DEF DeliveryInv
  <1>7. CASE TakeAnswer
    <2>1. /\ UNCHANGED <<client_addr, target, stale>> /\ at'["server"] = "look"
          /\ owners' = {client_addr} \ {None}
      BY <1>1, <1>7 DEF TakeAnswer, Goto, RelayType, Loop
    <2> QED
      BY <1>1, <2>1 DEF DeliveryInv
  <1>8. CASE LookUp
    <2>1. /\ UNCHANGED <<client_addr, owners, stale>> /\ target' = client_addr
          /\ at["server"] = "look"
          /\ at'["server"] = IF client_addr = None THEN "check" ELSE "deliver"
      BY <1>1, <1>8 DEF LookUp, Goto, RelayType, Loop
    <2> QED
      BY <1>1, <2>1 DEF DeliveryInv
  <1>9. CASE Deliver
    <2>1. /\ at["server"] = "deliver" /\ at'["server"] = "check"
          /\ stale' = (stale \/ target \notin owners)
      BY <1>1, <1>9 DEF Deliver, Goto, RelayType, Loop
    <2>2. ~stale'
      BY <2>1 DEF DeliveryInv
    <2> QED
      BY <1>1, <2>1, <2>2 DEF DeliveryInv
  <1>10. CASE Ping
    <2>1. /\ UNCHANGED <<client_addr, owners, target, stale>>
          /\ at'["server"] = at["server"]
      BY <1>1, <1>10, PingStep, GotoType DEF Loop, Place
    <2> QED
      BY <1>2, <2>1
  <1>11. CASE UNCHANGED vars
    BY <1>2, <1>11 DEF vars
  <1> QED
    BY <1>3, <1>4, <1>5, <1>6, <1>7, <1>8, <1>9, <1>10, <1>11
       DEF Next, ClientStep, ServerStep, TimerStep, Loop

(* For any number of endpoints: an answer goes to an endpoint that was      *)
(* bound at some time since it came in.                                     *)
THEOREM AnswersReachAnOwner == Spec => []NoStaleDelivery
  <1>1. Init => DeliveryInv
    BY TypeInit DEF Init, DeliveryInv, NoStaleDelivery, Loop
  <1>2. DeliveryInv => NoStaleDelivery
    BY DEF DeliveryInv
  <1> QED
    BY <1>1, <1>2, DeliveryStep, PTL DEF Spec
-----------------------------------------------------------------------------
(* The exported file                                                        *)

\* Only the main thread writes the file or ends the program.
LEMMA LoopsLeaveConf ==
    ASSUME ClientStep \/ ServerStep \/ TimerStep \/ UNCHANGED vars
    PROVE  UNCHANGED <<conf, main, left, running>>
  <1>1. CASE ClientStep
    BY <1>1 DEF ClientStep, Check, Nothing, TakeLocal, BindClient, Announce, Forward, mainVars
  <1>2. CASE ServerStep
    BY <1>2 DEF ServerStep, Check, Nothing, TakeAnswer, LookUp, Deliver, mainVars
  <1>3. CASE TimerStep
    BY <1>3, PingStep DEF TimerStep, Check, mainVars
  <1>4. CASE UNCHANGED vars
    BY <1>4 DEF vars
  <1> QED
    BY <1>1, <1>2, <1>3, <1>4

LEMMA ConfStep == ConfInv /\ [Next]_vars => ConfInv'
  <1> SUFFICES ASSUME ConfInv, [Next]_vars PROVE ConfInv'
    OBVIOUS
  <1> USE DEF ConfInv, ConfAccountedFor, Asked, Unasked
  <1>1. CASE Export
    BY <1>1 DEF Export
  <1>2. CASE StartRelay
    BY <1>2 DEF StartRelay
  <1>3. CASE SetHandler
    BY <1>3 DEF SetHandler
  <1>4. CASE CtrlC
    BY <1>4 DEF CtrlC
  <1>5. CASE StopRelay
    BY <1>5 DEF StopRelay
  <1>6. CASE Ask
    <2>1. main = "ask" /\ main' = "exited" /\ ~running /\ conf = "written"
          /\ UNCHANGED running
      BY <1>6 DEF Ask
    <2>2. CASE conf' = "removed"
      BY <2>1, <2>2
    <2>3. CASE conf' = conf /\ left' \in Asked
      <3>1. ~running' /\ conf' = "written"
        BY <2>1, <2>3, Zenon
      <3> QED
        BY <2>1, <2>3, <3>1
    <2> QED
      BY <1>6, <2>2, <2>3 DEF Ask
  <1>7. CASE ClientStep \/ ServerStep \/ TimerStep \/ UNCHANGED vars
    <2>1. UNCHANGED <<conf, main, left, running>>
      BY <1>7, LoopsLeaveConf
    <2>2. running' <=> running
      BY <2>1, Zenon
    <2> QED
      BY <2>1, <2>2
  <1> QED
    BY <1>1, <1>2, <1>3, <1>4, <1>5, <1>6, <1>7 DEF Next, MainStep

(* However the proxy ends, the file with the private key is left behind     *)
(* only for one of the reasons ConfAccountedFor names.                      *)
THEOREM ConfIsAccountedFor == Spec => []ConfAccountedFor
  <1>1. Init => ConfInv
    BY DEF Init, ConfInv, ConfAccountedFor, Asked, Unasked
  <1>2. ConfInv => ConfAccountedFor
    BY DEF ConfInv
  <1> QED
    BY <1>1, <1>2, ConfStep, PTL DEF Spec
=============================================================================
