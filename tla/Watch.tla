------------------------------- MODULE Watch -------------------------------
(***************************************************************************)
(* What a SelectManager promises to the program that owns it: a callback   *)
(* on a socket starts only on the strength of a look at the socket that    *)
(* began while the socket was watched and the manager active, and each     *)
(* such look starts at most one callback.  After a remove() or a stop() a  *)
(* socket can therefore be served once more, and never again.              *)
(***************************************************************************)
CONSTANT Sockets

VARIABLES watched,  \* the sockets handed over with add() and not taken back
          active,   \* between the start and the stop of the manager
          looking,  \* the sockets somebody is waiting on
          serving   \* the sockets whose callback is executing

vars == <<watched, active, looking, serving>>

Init == watched = {} /\ active = FALSE /\ looking = {} /\ serving = {}

Watched(s) == watched' = watched \cup {s} /\ UNCHANGED <<active, looking, serving>>

Dropped(s) == watched' = watched \ {s} /\ UNCHANGED <<active, looking, serving>>

AllDropped == watched' = {} /\ UNCHANGED <<active, looking, serving>>

Switched(on) == active' = on /\ UNCHANGED <<watched, looking, serving>>

Look(s) ==
    /\ active /\ s \in watched
    /\ looking' = looking \cup {s}
    /\ UNCHANGED <<watched, active, serving>>

LookAway(s) == looking' = looking \ {s} /\ UNCHANGED <<watched, active, serving>>

Serve(s) ==
    /\ s \in looking
    /\ looking' = looking \ {s}
    /\ serving' = serving \cup {s}
    /\ UNCHANGED <<watched, active>>

Served(s) == serving' = serving \ {s} /\ UNCHANGED <<watched, active, looking>>

Next ==
    \/ AllDropped
    \/ \E on \in BOOLEAN : Switched(on)
    \/ \E s \in Sockets : Watched(s) \/ Dropped(s) \/ Look(s) \/ LookAway(s)
                          \/ Serve(s) \/ Served(s)

Spec == Init /\ [][Next]_vars
=============================================================================
