-------------------------- MODULE ScreenShareFloor --------------------------
(***************************************************************************)
(* What screen sharing promises to a Workspace: at most one session holds  *)
(* the floor; a session goes live only after its own sharer showed a       *)
(* screen; a session that lost the floor never has it again; only a        *)
(* session that is not live may be pushed aside by the next one; and no    *)
(* session stays live for ever.                                            *)
(***************************************************************************)
CONSTANTS
    Session,
    Nobody              \* no session

VARIABLES
    holder,             \* the session that has the floor, or Nobody
    live,               \* it is announced to the Workspace
    over,               \* the sessions that had the floor before
    shown               \* its sharer has shown a screen

vars == <<holder, live, over, shown>>

Init == holder = Nobody /\ live = FALSE /\ over = {} /\ shown = FALSE

Show ==
    /\ holder # Nobody
    /\ shown' = TRUE
    /\ UNCHANGED <<holder, live, over>>

Take(s) ==
    /\ holder = Nobody
    /\ s \notin over
    /\ holder' = s
    /\ shown' = FALSE
    /\ UNCHANGED <<live, over>>

GoLive(s) ==
    /\ holder = s
    /\ shown
    /\ live' = TRUE
    /\ UNCHANGED <<holder, over, shown>>

Finish(s) ==
    /\ holder = s
    /\ holder' = Nobody
    /\ live' = FALSE
    /\ over' = over \cup {s}
    /\ UNCHANGED shown

PushAside(s, t) ==
    /\ holder = s
    /\ ~live
    /\ t \notin over \cup {s}
    /\ holder' = t
    /\ over' = over \cup {s}
    /\ shown' = FALSE
    /\ UNCHANGED live

Next ==
    \/ Show
    \/ \E s \in Session :
        \/ Take(s) \/ GoLive(s) \/ Finish(s)
        \/ \E t \in Session : PushAside(s, t)

Spec ==
    /\ Init
    /\ [][Next]_vars
    /\ WF_vars(live /\ \E s \in Session : Finish(s))
=============================================================================
