------------------------ MODULE CanvasCheckpointQueue ------------------------
(***************************************************************************)
(* When the classic Canvas rooms of one Realtime Server are checkpointed.  *)
(*                                                                         *)
(* A dirty room has timers; an empty room is drained after a grace period  *)
(* and then forgotten; a shutdown drains every room.  All of them only ask *)
(* for a checkpoint: requests for one room are merged, rooms wait in one   *)
(* queue, and at most MaxConcurrent cycles run.  What a cycle saves is     *)
(* module CanvasRoom's subject; here a room is dirty or clean.             *)
(*                                                                         *)
(* Node runs the reactions to a resolved promise before the next event.    *)
(* So while a reaction is due (~Quiet) no event is handled.                *)
(***************************************************************************)
EXTENDS Integers, Sequences, FiniteSets

CONSTANTS
    Room,               \* classic Canvas rooms
    Session,            \* sockets, each of its own user and in one room
    RoomOf,             \* the room of a session
    MaxConcurrent,      \* CANVAS_CHECKPOINT_MAX_CONCURRENT_ROOMS
    DropsWhileJoining,  \* a socket may disconnect while its join is handled
    MaxEdits,           \* bound: changes of the room state
    MaxFaults,          \* bound: failed cycles, joins and cleanups
    MaxRevokes,         \* bound: revoked memberships
    MaxCloses           \* bound: 1 lets the process shut down

ASSUME ConstantsAssumption ==
    /\ IsFiniteSet(Room) /\ IsFiniteSet(Session)
    /\ RoomOf \in [Session -> Room]
    /\ MaxConcurrent \in Nat \ {0}
    /\ DropsWhileJoining \in BOOLEAN
    /\ {MaxEdits, MaxFaults, MaxRevokes} \subseteq Nat
    /\ MaxCloses \in {0, 1}

VARIABLES
    stage,          \* how far a session is: new, asked, registered, in, ...
    online,         \* its socket is connected
    dirty,          \* the room state has dirty shapes
    known,          \* roomsByKey and lifecycleByRoom have the room
    auth,           \* authorizationsByRoom
    participants,   \* lifecycle.participants
    timers,         \* the timers of a room that are set
    cleanup,        \* lifecycle.emptyCleanupRequested
    request,        \* pendingRequestsByRoom
    queue,          \* checkpointQueue
    cycle,          \* runningCheckpointsByRoom
    closing,        \* isClosing
    awaited,        \* the rooms whose drain close() waits for
    closed,         \* close() has returned
    edits, faults, revoked

sessionVars == <<stage, online, revoked>>
roomVars    == <<known, auth, participants, cleanup>>
queueVars   == <<timers, request, queue, cycle>>
closeVars   == <<closing, awaited, closed>>
vars == <<sessionVars, dirty, roomVars, queueVars, closeVars, edits, faults>>

DirtyTimers == {"idle", "maxAge"}
Timers == DirtyTimers \cup {"retry", "empty"}
Waiter == {"cleanup", "close"}      \* who awaits a checkpoint

NoRequest == [mode |-> "none", waiters |-> {}]
Request == [mode : {"snapshot", "drain"}, waiters : SUBSET Waiter]

Idle == [stage |-> "idle", mode |-> "none", waiters |-> {}, changed |-> FALSE]
Cycle == [stage : {"sending", "yielding", "ending"}, mode : {"snapshot", "drain"},
          waiters : SUBSET Waiter, changed : BOOLEAN]

Running(r) == cycle[r] # Idle
Queued == {queue[i] : i \in DOMAIN queue}

TypeOK ==
    /\ stage \in [Session ->
           {"new", "asked", "registered", "in", "leaving", "left", "stuck"}]
    /\ online \in [Session -> BOOLEAN]
    /\ revoked \subseteq Session
    /\ dirty \in [Room -> BOOLEAN]
    /\ known \in [Room -> BOOLEAN]
    /\ auth \in [Room -> SUBSET Session]
    /\ participants \in [Room -> SUBSET Session]
    /\ cleanup \in [Room -> BOOLEAN]
    /\ timers \in [Room -> SUBSET Timers]
    /\ request \in [Room -> Request \cup {NoRequest}]
    /\ queue \in Seq(Room)
    /\ cycle \in [Room -> Cycle \cup {Idle}]
    /\ closing \in BOOLEAN /\ closed \in BOOLEAN
    /\ awaited \subseteq Room
    /\ edits \in 0 .. MaxEdits /\ faults \in 0 .. MaxFaults

Init ==
    /\ stage = [s \in Session |-> "new"]
    /\ online = [s \in Session |-> TRUE]
    /\ revoked = {}
    /\ dirty = [r \in Room |-> FALSE]
    /\ known = [r \in Room |-> FALSE]
    /\ auth = [r \in Room |-> {}]
    /\ participants = [r \in Room |-> {}]
    /\ cleanup = [r \in Room |-> FALSE]
    /\ timers = [r \in Room |-> {}]
    /\ request = [r \in Room |-> NoRequest]
    /\ queue = <<>>
    /\ cycle = [r \in Room |-> Idle]
    /\ closing = FALSE /\ awaited = {} /\ closed = FALSE
    /\ edits = 0 /\ faults = 0

Fault == faults < MaxFaults /\ faults' = faults + 1

\* No promise reaction is due: the next event may be handled.
Quiet ==
    /\ \A r \in Room : cycle[r].stage # "ending"
    /\ closing /\ awaited = {} => closed

-----------------------------------------------------------------------------
(* The queue *)

\* pumpCheckpointQueue, on the queue q, the requests req, the cycles cyc and
\* the timers t an event leaves.  A cycle that finds no authorization or
\* nothing dirty ends at once.
Pump(q, req, cyc, t) ==
    LET free  == MaxConcurrent - Cardinality({r \in Room : cyc[r] # Idle})
        count == IF free < Len(q) THEN free ELSE Len(q)
        begun == {q[i] : i \in 1 .. count}
        Authorized(r) == known'[r] /\ auth'[r] # {}
        Begin(r) == [mode |-> req[r].mode, waiters |-> req[r].waiters, changed |-> FALSE,
                     stage |-> IF Authorized(r) /\ dirty'[r] THEN "sending" ELSE "ending"]
    IN /\ queue' = SubSeq(q, count + 1, Len(q))
       /\ request' = [r \in Room |-> IF r \in begun THEN NoRequest ELSE req[r]]
       /\ cycle' = [r \in Room |-> IF r \in begun THEN Begin(r) ELSE cyc[r]]
       /\ timers' = [r \in Room |->
              IF r \in begun /\ Authorized(r) /\ ~dirty'[r]
                THEN t[r] \ (DirtyTimers \cup {"retry"}) ELSE t[r]]

\* A second request for a room joins the first one, which it may turn into a
\* drain.
MergedMutant(old, mode, waiters) == [old EXCEPT !.waiters = @ \cup waiters]
Merged(old, mode, waiters) ==
    [mode    |-> IF old.mode = "none" \/ mode = "drain" THEN mode ELSE old.mode,
     waiters |-> old.waiters \cup waiters]

Orderings(S) == {order \in [1 .. Cardinality(S) -> S] :
                     \A r \in S : \E i \in DOMAIN order : order[i] = r}

\* enqueueCheckpoint for the rooms asked, one after the other; cyc and t are the
\* cycles and the timers the event leaves.  queueRoomKey leaves out the rooms
\* that wait or run.
Enqueue(asked, mode, waiters, cyc, t) ==
    \E new \in Orderings({r \in asked : r \notin Queued /\ ~Running(r)}) :
        Pump(queue \o new,
             [r \in Room |-> IF r \in asked THEN Merged(request[r], mode, waiters)
                                            ELSE request[r]],
             cyc, t)

-----------------------------------------------------------------------------
(* Sessions *)

\* registerRoomParticipant (nothing once the service closes)
Register(r, s) ==
    IF closing THEN UNCHANGED <<roomVars, timers>> ELSE
    /\ known' = [known EXCEPT ![r] = TRUE]
    /\ auth' = [auth EXCEPT ![r] = @ \cup {s}]
    /\ participants' = [participants EXCEPT ![r] = @ \cup {s}]
    /\ cleanup' = [cleanup EXCEPT ![r] = FALSE]
    /\ timers' = [timers EXCEPT ![r] = @ \ {"empty"}]

\* unregisterRoomParticipant: the last one to go starts the grace period.
Unregister(r, s) ==
    /\ participants' = [participants EXCEPT ![r] = @ \ {s}]
    /\ timers' = IF known[r] /\ participants'[r] = {} /\ ~closing
                   THEN [timers EXCEPT ![r] = @ \cup {"empty"}] ELSE timers
    /\ UNCHANGED <<known, cleanup>>

Move(s, from, to) == stage[s] = from /\ stage' = [stage EXCEPT ![s] = to]

\* canvas:join arrives and its access is looked up.
Join(s) ==
    /\ Quiet /\ online[s]
    /\ Move(s, "new", "asked")
    /\ UNCHANGED <<online, revoked, dirty, roomVars, queueVars, closeVars, edits, faults>>

\* onAccessGranted; the viewport and the previews are still to be read.
JoinGranted(s) ==
    /\ Quiet
    /\ Move(s, "asked", "registered")
    /\ Register(RoomOf[s], s)
    /\ UNCHANGED <<online, revoked, dirty, request, queue, cycle, closeVars, edits, faults>>

JoinDenied(s) ==
    /\ Quiet /\ s \in revoked
    /\ Move(s, "asked", "left")
    /\ UNCHANGED <<online, revoked, dirty, roomVars, queueVars, closeVars, edits, faults>>

\* The socket is in the room, whether or not it is still connected.
Joined(s) ==
    /\ Quiet /\ s \notin revoked
    /\ Move(s, "registered", "in")
    /\ UNCHANGED <<online, revoked, dirty, roomVars, queueVars, closeVars, edits, faults>>

\* rejectRevokedClassicJoin
JoinRejected(s) ==
    /\ Quiet /\ s \in revoked
    /\ Move(s, "registered", "left")
    /\ Unregister(RoomOf[s], s)
    /\ auth' = [auth EXCEPT ![RoomOf[s]] = @ \ {s}]
    /\ UNCHANGED <<online, revoked, dirty, request, queue, cycle, closeVars, edits, faults>>

\* Redis fails the read of the previews or of the locks.
JoinFails(s) ==
    /\ Quiet /\ Fault
    /\ Move(s, "registered", "left")
    /\ Unregister(RoomOf[s], s)
    /\ UNCHANGED <<online, revoked, dirty, auth, request, queue, cycle, closeVars, edits>>

\* canvas:leave, or the disconnection of a socket that is in the room: locks
\* and previews are cleared first.
Leave(s) ==
    /\ Quiet /\ online[s]
    /\ Move(s, "in", "leaving")
    /\ UNCHANGED <<revoked, dirty, roomVars, queueVars, closeVars, edits, faults>>
    /\ online' \in {online, [online EXCEPT ![s] = FALSE]}

Left(s) ==
    /\ Quiet
    /\ Move(s, "leaving", "left")
    /\ Unregister(RoomOf[s], s)
    /\ UNCHANGED <<online, revoked, dirty, auth, request, queue, cycle, closeVars, edits, faults>>

\* Redis fails the clearing of the locks or the previews, and the participant is
\* not unregistered.  A canvas:leave may be tried again; a socket that has gone,
\* or that a revocation disconnects for this, has no room left to leave.
LeaveFails(s) ==
    /\ Quiet /\ Fault
    /\ LET again == online[s] /\ s \notin revoked IN
       /\ Move(s, "leaving", IF again THEN "in" ELSE "stuck")
       /\ online' = [online EXCEPT ![s] = again]
    /\ UNCHANGED <<revoked, dirty, roomVars, queueVars, closeVars, edits>>

\* The disconnection of a socket whose join is still being handled: its data
\* names no room yet, so cleanupCanvasSocket has nothing to leave.
Drop(s) ==
    /\ Quiet /\ DropsWhileJoining /\ online[s]
    /\ stage[s] \in {"asked", "registered"}
    /\ online' = [online EXCEPT ![s] = FALSE]
    /\ UNCHANGED <<stage, revoked, dirty, roomVars, queueVars, closeVars, edits, faults>>

\* The socket's data names the room: it is in it, or a canvas:leave is clearing
\* its locks.
HasAccess(s) == stage[s] = "in" \/ (stage[s] = "leaving" /\ online[s] /\ s \notin revoked)

\* The user of s loses the workspace membership.
RevokeMembership(s) ==
    /\ Quiet /\ online[s]
    /\ s \notin revoked /\ Cardinality(revoked) < MaxRevokes
    /\ revoked' = revoked \cup {s}
    /\ IF HasAccess(s)
         THEN /\ stage' = [stage EXCEPT ![s] = "leaving"]
              /\ auth' = [auth EXCEPT ![RoomOf[s]] = @ \ {s}]
         ELSE UNCHANGED <<stage, auth>>
    /\ UNCHANGED <<online, dirty, known, participants, cleanup, queueVars,
                   closeVars, edits, faults>>

\* A shape patch, an undo or a redo, and scheduleCheckpoint: the timers are set
\* anew, and a large room is also queued at once.
Edit(s) ==
    /\ Quiet /\ online[s] /\ HasAccess(s)
    /\ edits < MaxEdits
    /\ edits' = edits + 1
    /\ LET r   == RoomOf[s]
           cyc == [cycle EXCEPT ![r].changed = Running(r)]
           t   == [timers EXCEPT ![r] = (@ \ {"retry"}) \cup DirtyTimers]
       IN /\ dirty' = [dirty EXCEPT ![r] = TRUE]
          /\ IF closing
               THEN cycle' = cyc /\ UNCHANGED <<known, auth, timers, request, queue>>
               ELSE /\ known' = [known EXCEPT ![r] = TRUE]
                    /\ auth' = [auth EXCEPT ![r] = @ \cup {s}]
                    /\ \/ cycle' = cyc /\ timers' = t /\ UNCHANGED <<request, queue>>
                       \/ Enqueue({r}, "snapshot", {}, cyc, t)
    /\ UNCHANGED <<sessionVars, participants, cleanup, closeVars, faults>>

-----------------------------------------------------------------------------
(* Timers and cycles *)

\* The idle, the max-age and the retry timer ask for a snapshot.
DirtyTimerFires(r) ==
    /\ Quiet
    /\ \E timer \in timers[r] \ {"empty"} :
          /\ UNCHANGED <<sessionVars, dirty, roomVars, closeVars, edits, faults>>
          /\ Enqueue({r}, "snapshot", {}, cycle, [timers EXCEPT ![r] = @ \ {timer}])

EmptyTimerFires(r) ==
    /\ Quiet /\ "empty" \in timers[r]
    /\ UNCHANGED <<sessionVars, dirty, known, auth, participants, closeVars, edits, faults>>
    /\ LET t == [timers EXCEPT ![r] = @ \ {"empty"}] IN
       IF participants[r] # {}
         THEN timers' = t /\ UNCHANGED <<cleanup, request, queue, cycle>>
         ELSE /\ cleanup' = [cleanup EXCEPT ![r] = TRUE]
              /\ Enqueue({r}, "drain", {"cleanup"}, cycle, t)

\* A drain saves until nothing is dirty.
DrainsOnMutant(r) == FALSE
DrainsOn(r) == cycle[r].mode = "drain" /\ cycle[r].changed

\* updateLifecycleAfterSuccessfulCycle: what was changed meanwhile has its own
\* timers.
TimersAfterSuccessMutant(r) == timers[r] \ (DirtyTimers \cup {"retry"})
TimersAfterSuccess(r) ==
    LET other == timers[r] \ {"retry"} IN
    IF ~cycle[r].changed THEN other \ DirtyTimers
    ELSE IF closing THEN other ELSE other \cup DirtyTimers

\* Every batch of the snapshot is saved.
Saves(r) ==
    /\ Quiet /\ cycle[r].stage = "sending"
    /\ dirty' = [dirty EXCEPT ![r] = cycle[r].changed]
    /\ IF DrainsOn(r)
         THEN /\ cycle' = [cycle EXCEPT ![r].stage = "yielding"]
              /\ UNCHANGED timers
         ELSE /\ cycle' = [cycle EXCEPT ![r].stage = "ending"]
              /\ timers' = [timers EXCEPT ![r] = TimersAfterSuccess(r)]
    /\ UNCHANGED <<sessionVars, roomVars, request, queue, closeVars, edits, faults>>

\* After the yield a drain takes another snapshot.
Continues(r) ==
    /\ Quiet /\ cycle[r].stage = "yielding"
    /\ cycle' = [cycle EXCEPT ![r].stage = "sending", ![r].changed = FALSE]
    /\ UNCHANGED <<sessionVars, dirty, roomVars, timers, request, queue,
                   closeVars, edits, faults>>

\* scheduleRetry (nothing once the service closes)
TimersAfterFailureMutant(r) == timers[r] \ DirtyTimers
TimersAfterFailure(r) ==
    IF closing THEN timers[r] ELSE (timers[r] \ DirtyTimers) \cup {"retry"}

\* Some batch fails; its operations stay dirty.
Fails(r) ==
    /\ Quiet /\ Fault
    /\ cycle[r].stage = "sending"
    /\ cycle' = [cycle EXCEPT ![r].stage = "ending"]
    /\ timers' = [timers EXCEPT ![r] = TimersAfterFailure(r)]
    /\ UNCHANGED <<sessionVars, dirty, roomVars, request, queue, closeVars, edits>>

\* Nobody is in the room and nothing in it is dirty.
IsClearableMutant(r) == known[r] /\ participants[r] = {}
IsClearable(r) == known[r] /\ participants[r] = {} /\ ~dirty[r]

\* clearEmptyRoomIfReady
ClearsEmptyRoomMutant(r) == FALSE
ClearsEmptyRoom(r) == cleanup[r] /\ request[r] = NoRequest

\* A request that came during the cycle is queued when the cycle ends.
RequeuedMutant(r, req) == <<>>
Requeued(r, req) == IF req[r] = NoRequest THEN <<>> ELSE <<r>>

\* The waiters of the cycle are resolved, the cleanup among them first; then
\* the cycle's slot is free.  clearRoom also drops the room's next request.
EndCycle(r) ==
    /\ cycle[r].stage = "ending"
    /\ awaited' = IF "close" \in cycle[r].waiters THEN awaited \ {r} ELSE awaited
    /\ LET cleared == /\ IsClearable(r)
                      /\ "cleanup" \in cycle[r].waiters \/ ClearsEmptyRoom(r)
           req == IF cleared THEN [request EXCEPT ![r] = NoRequest] ELSE request
       IN /\ known' = [known EXCEPT ![r] = @ /\ ~cleared]
          /\ auth' = IF cleared THEN [auth EXCEPT ![r] = {}] ELSE auth
          /\ cleanup' = [cleanup EXCEPT ![r] = @ /\ ~cleared]
          /\ dirty' = [dirty EXCEPT ![r] = @ /\ ~cleared]
          /\ UNCHANGED <<sessionVars, participants, closing, closed, edits, faults>>
          /\ Pump(queue \o Requeued(r, req), req, [cycle EXCEPT ![r] = Idle],
                  IF cleared THEN [timers EXCEPT ![r] = {}] ELSE timers)

-----------------------------------------------------------------------------
(* Shutdown *)

\* close(): no timer is left, and every room is drained.
Close ==
    /\ Quiet /\ ~closing /\ MaxCloses = 1
    /\ closing' = TRUE
    /\ LET rooms == {r \in Room : known[r]} IN
       /\ awaited' = rooms
       /\ UNCHANGED <<sessionVars, dirty, roomVars, closed, edits, faults>>
       /\ Enqueue(rooms, "drain", {"close"}, cycle, [r \in Room |-> {}])

\* All drains have ended: close() forgets every room and returns.
Closed ==
    /\ closing /\ ~closed /\ awaited = {}
    /\ \A r \in Room : cycle[r].stage # "ending"
    /\ closed' = TRUE
    /\ known' = [r \in Room |-> FALSE]
    /\ auth' = [r \in Room |-> {}]
    /\ participants' = [r \in Room |-> {}]
    /\ cleanup' = [r \in Room |-> FALSE]
    /\ request' = [r \in Room |-> NoRequest]
    /\ queue' = <<>>
    /\ cycle' = [r \in Room |-> Idle]
    /\ timers' = [r \in Room |-> {}]
    /\ UNCHANGED <<sessionVars, dirty, closing, awaited, edits, faults>>

-----------------------------------------------------------------------------
Next ==
    \/ \E s \in Session :
          \/ Join(s) \/ JoinGranted(s) \/ JoinDenied(s) \/ Joined(s)
          \/ JoinRejected(s) \/ JoinFails(s) \/ Leave(s) \/ Left(s) \/ LeaveFails(s)
          \/ Drop(s) \/ RevokeMembership(s) \/ Edit(s)
    \/ \E r \in Room :
          \/ DirtyTimerFires(r) \/ EmptyTimerFires(r)
          \/ Saves(r) \/ Continues(r) \/ Fails(r) \/ EndCycle(r)
    \/ Close \/ Closed

Spec == Init /\ [][Next]_vars

\* Timers fire, handlers and requests that were begun end.
Fairness ==
    /\ \A s \in Session : WF_vars(JoinGranted(s) \/ JoinDenied(s))
    /\ \A s \in Session : WF_vars(Joined(s) \/ JoinRejected(s)) /\ WF_vars(Left(s))
    /\ \A r \in Room :
          /\ WF_vars(DirtyTimerFires(r)) /\ WF_vars(EmptyTimerFires(r))
          /\ WF_vars(Saves(r)) /\ WF_vars(Continues(r)) /\ WF_vars(EndCycle(r))
    /\ WF_vars(Closed)

FairSpec == Spec /\ Fairness

-----------------------------------------------------------------------------
(* Properties *)

\* No request is lost and no slot idles: a room with a request is queued once or
\* about to be, and rooms wait only while MaxConcurrent cycles run.
QueueIsServed ==
    LET running == {r \in Room : Running(r)} IN
    /\ Cardinality(running) <= MaxConcurrent
    /\ Cardinality(running) < MaxConcurrent => queue = <<>>
    /\ Len(queue) = Cardinality(Queued)
    /\ \A r \in Room : request[r] # NoRequest => (r \in Queued <=> ~Running(r))
    /\ \A r \in Queued : request[r] # NoRequest

\* A dirty room is about to be saved: it has a timer, a request or a cycle.
\* When the room's last token may have been revoked this no longer holds.
DirtyIsScheduled ==
    \A r \in Room : dirty[r] /\ ~closing /\ (\A s \in revoked : RoomOf[s] # r) =>
        \/ timers[r] \cap (DirtyTimers \cup {"retry"}) # {}
        \/ request[r] # NoRequest
        \/ cycle[r].stage \in {"sending", "yielding"}

\* A running service forgets a room only when the room is saved.
ForgottenIsSaved ==
    [][\A r \in Room : known[r] /\ ~known'[r] /\ ~closing => ~dirty[r]]_vars

\* The drain a shutdown waits for ends with its room saved, edits made during
\* the drain included, unless a save failed or a member of the room was revoked.
DrainedIsSaved ==
    [][\A r \in awaited \ awaited' :
          faults = 0 /\ (\A s \in revoked : RoomOf[s] # r) => ~dirty[r]]_vars

\* When close() returns, every room is saved.
ShutdownSavesAll == [][~closed /\ closed' => \A r \in Room : ~dirty[r]]_vars

\* Every change of a room is saved in the end.
EditsGetSaved == \A r \in Room : dirty[r] ~> ~dirty[r]

\* Somebody is in the room, or on the way in or out.
Visited(r) ==
    \E s \in Session :
        RoomOf[s] = r /\ online[s] /\ stage[s] \in {"asked", "registered", "in", "leaving"}

\* A participant of the room that is gone for good: its socket dropped before
\* its join was through, or Redis failed the last attempt to clean up after it.
Haunted(r) ==
    \E s \in Session :
        RoomOf[s] = r /\ (stage[s] = "stuck" \/ (stage[s] = "in" /\ ~online[s]))

\* docs/api/canvas-api.md: when nobody is in a room for 7.5 seconds it is drained
\* and its state is cleared, whoever left, was turned away or failed to join,
\* and whatever happens to the drain.  The code keeps a room for a participant
\* that is gone without having been unregistered, and for no other reason.
LeftRoomIsForgotten ==
    \A r \in Room : known[r] ~> ~known[r] \/ Visited(r) \/ Haunted(r)

\* close() returns.
ShutdownEnds == closing ~> closed
=============================================================================
