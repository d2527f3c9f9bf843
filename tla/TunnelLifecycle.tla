--------------------------- MODULE TunnelLifecycle ---------------------------
(* What the window shows of the tunnel, as the user may understand it: at   *)
(* most one session runs; a tunnel is started when none is up, it is        *)
(* connecting until its handshake, and it goes down when its session ends.  *)
(* Only after a wait in start has run out ("overrun") is nothing promised.  *)
CONSTANT Session

VARIABLES phase, running

lvars == <<phase, running>>

LInit == phase = "down" /\ running = {}

Start ==
    /\ phase = "down" /\ running = {}
    /\ phase' = "connecting"
    /\ UNCHANGED running

Attach(s) ==
    /\ phase = "connecting" /\ running = {}
    /\ running' = {s}
    /\ UNCHANGED phase

Connect ==
    /\ phase = "connecting" /\ running # {}
    /\ phase' = "connected"
    /\ UNCHANGED running

End ==
    /\ phase \in {"connecting", "connected"} /\ running # {}
    /\ phase' = "down"
    /\ running' = {}

Overrun ==
    /\ phase \in {"connecting", "connected"} /\ running # {}
    /\ phase' = "overrun"
    /\ UNCHANGED running

AfterOverrun == phase = "overrun" /\ phase' = "overrun"

Exit == phase' = "exited" /\ running' = {}

LNext ==
    \/ Start \/ (\E s \in Session : Attach(s)) \/ Connect \/ End
    \/ Overrun \/ AfterOverrun \/ Exit

LSpec == LInit /\ [][LNext]_lvars
=============================================================================
