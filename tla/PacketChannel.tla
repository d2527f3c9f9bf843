---------------------------- MODULE PacketChannel ----------------------------
(* What a session promises of the packets the system writes into the        *)
(* adapter: a channel to the server that invents no packet, sends each at   *)
(* most once and, as long as it is steady, the oldest that is left first.   *)
(* It may give up any of them, and cease to be steady, at any time.         *)
EXTENDS Integers, Sequences

VARIABLES accepted, pending, sent, steady

cvars == <<accepted, pending, sent, steady>>

CInit == accepted = 0 /\ pending = {} /\ sent = <<>> /\ steady = TRUE

\* Packets are numbered as they come.
Accept ==
    /\ accepted' = accepted + 1
    /\ pending' = pending \cup {accepted'}
    /\ UNCHANGED <<sent, steady>>

Transmit ==
    /\ \E p \in pending :
          /\ steady => \A q \in pending : p <= q
          /\ sent' = Append(sent, p)
          /\ pending' = pending \ {p}
    /\ UNCHANGED <<accepted, steady>>

\* The socket refuses one, Tunn has no room for one or expires with its own.
Lose ==
    /\ pending' \in SUBSET pending
    /\ UNCHANGED <<accepted, sent, steady>>

Unsettle ==
    /\ steady' = FALSE
    /\ UNCHANGED <<accepted, pending, sent>>

CNext == Accept \/ Transmit \/ Lose \/ Unsettle

CSpec == CInit /\ [][CNext]_cvars
=============================================================================
