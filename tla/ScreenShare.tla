----------------------------- MODULE ScreenShare -----------------------------
(***************************************************************************)
(* The screen sharing of one Workspace.  Redis holds the session that has  *)
(* the floor; every change of it is one Lua script.  Start requests, reads *)
(* that repair the state, webhooks of LiveKit, the deadline sweep and the  *)
(* workers that clean up LiveKit rooms run side by side in several App     *)
(* Servers and may stop between any two of their steps.                    *)
(*                                                                         *)
(* A start request creates its candidate session and its rollback attempt  *)
(* with one fresh id, so a request, its session and its attempt share a    *)
(* name here.  createdAt changes exactly when the rollback attempt does,   *)
(* which is why the attempt also stands for the createdAt a request read.  *)
(***************************************************************************)
EXTENDS Naturals, FiniteSets

CONSTANTS
    Request,            \* calls of start, and the sessions they create
    User,               \* who may share
    Sharers,            \* which users may make the requests
    Caller,             \* reads, explicit ends and deadline sweeps under way
    Worker,             \* cleanup workers, one in every App Server
    None,
    MaxBusy,            \* bound: processes that are half way through at a time
    MaxHooks,           \* bound: webhooks on their way at a time
    MaxFaults           \* bound: crashes, failed calls, webhooks lost or twice

ASSUME NamesAssumption ==
    /\ None \notin Request \cup Caller \cup Worker
    /\ Request \cap Caller = {} /\ Request \cap Worker = {} /\ Caller \cap Worker = {}
ASSUME SharersAssumption == Sharers \subseteq [Request -> User]
ASSUME BoundsAssumption == MaxBusy \in Nat /\ MaxHooks \in Nat /\ MaxFaults \in Nat

Process == Request \cup Caller \cup Worker

VARIABLES
    \* Redis
    session,            \* the authority of the Workspace
    deadline,           \* the sorted set of deadlines
    cleanups,           \* the stream of sessions whose room is to be deleted
    lock,               \* the worker that holds the lock of a cleanup entry
    \* the App Servers
    step,               \* where each process stands
    seen,               \* the session it deals with, and its attempt as it read it
    \* LiveKit
    publisher,          \* of each session: without a token, invited (perhaps in
                        \* the room), sharing its screen, or removed
    hooks,              \* webhooks on their way
    \* observed only
    sharer,             \* the user who makes each request
    past,               \* sessions that have or had the floor
    shown,              \* the sharer of the current session has shown its screen
    adrift,             \* sessions nobody cleans up after: the record ran out, or
                        \* a token was signed after the publisher was removed
    faults

redis == <<session, deadline, cleanups, lock>>
processes == <<step, seen>>
livekit == <<publisher, hooks>>
observed == <<sharer, past, shown, adrift>>
vars == <<redis, processes, livekit, observed, faults>>

NoSession == [id |-> None, status |-> "none", attempt |-> None, expired |-> FALSE]

Init ==
    /\ session = NoSession
    /\ deadline = [s \in Request |-> "none"]
    /\ cleanups = {}
    /\ lock = [s \in Request |-> None]
    /\ step = [p \in Process |-> IF p \in Request THEN "start" ELSE "idle"]
    /\ seen = [p \in Process |-> [id |-> None, attempt |-> None]]
    /\ publisher = [s \in Request |-> "no-token"]
    /\ hooks = {}
    /\ sharer \in Sharers
    /\ past = {}
    /\ shown = FALSE
    /\ adrift = {}
    /\ faults = 0

Fault == faults < MaxFaults /\ faults' = faults + 1

\* Where process p goes, and what it remembers of the session on the way.
Moves(p, next, id, attempt) ==
    /\ step' = [step EXCEPT ![p] = next]
    /\ seen' = [seen EXCEPT ![p] = [id |-> id, attempt |-> attempt]]

Goto(p, next, id) == Moves(p, next, id, None)

MayBegin == Cardinality({p \in Process : step[p] \notin {"start", "idle", "done"}}) < MaxBusy

Quit(p) == Moves(p, IF p \in Request THEN "done" ELSE "idle", None, None)
-----------------------------------------------------------------------------
\* The Lua scripts

\* What reserve and replaceExpiredStarting store for a candidate.
Reservation(q) == [id |-> q, status |-> "starting", attempt |-> q, expired |-> FALSE]

NewHolder(q) ==
    /\ past' = past \cup {q}
    /\ shown' = FALSE
    /\ UNCHANGED <<sharer, adrift>>

\* activate: only the session with this id; an active one stays as it is.
CanActivateMutant(s) == session.status = "starting"           \* any session
CanActivate(s) == session.id = s /\ session.status = "starting"

Activate(s) ==
    /\ IF CanActivate(s)
       THEN /\ session' = [session EXCEPT !.status = "active", !.attempt = None,
                                          !.expired = FALSE]
            /\ deadline' = [deadline EXCEPT ![session.id] = "set"]
       ELSE UNCHANGED <<session, deadline>>
    /\ UNCHANGED <<cleanups, lock>>

\* terminateIfCurrent: the state, the deadline and the cleanup entry in one.
TerminateIfCurrent(s) ==
    /\ IF session.id = s
       THEN /\ session' = NoSession
            /\ deadline' = [deadline EXCEPT ![s] = "none"]
            /\ cleanups' = cleanups \cup {s}
       ELSE UNCHANGED <<session, deadline, cleanups>>
    /\ UNCHANGED lock

\* What releaseStartingIfCurrent and replaceExpiredStartingIfCurrent compare.
MayReleaseMutant(q) == session.id = q /\ session.status = "starting"
MayRelease(q) ==
    /\ session.id = q
    /\ session.status = "starting"
    /\ session.attempt = q

\* All keys of the session are deleted.
ReleasedMutant == [session EXCEPT !.id = None]                \* some are left
Released == NoSession

MayReplace(q) ==
    /\ session.id = seen[q].id
    /\ session.status = "starting"
    /\ session.attempt = seen[q].attempt
    /\ session.expired
-----------------------------------------------------------------------------
\* LiveKit, as the App Server calls it

HasActiveScreenTrack(s) == publisher[s] = "sharing"

\* removeParticipantForRevocation and deleteRoom.  They are called for a
\* session that has lost the floor, so the webhook of the departure would be
\* ignored, and is left out.  The tokens signed so far are revoked with it, and
\* those of the next second: revokeTokenTs is then.
EvictPublisher(s) ==
    /\ publisher' = [publisher EXCEPT ![s] = "removed"]
    /\ UNCHANGED hooks

Report(s, event) ==
    /\ Cardinality(hooks) < MaxHooks
    /\ hooks' = hooks \cup {[session |-> s, event |-> event]}

PublishTrack(s) ==
    /\ publisher[s] = "invited"
    /\ publisher' = [publisher EXCEPT ![s] = "sharing"]
    /\ Report(s, "published")
    /\ shown' = (shown \/ session.id = s)
    /\ UNCHANGED <<redis, processes, sharer, past, adrift, faults>>

\* The track is muted: no webhook tells of it.
Mute(s) ==
    /\ publisher[s] = "sharing"
    /\ publisher' = [publisher EXCEPT ![s] = "invited"]
    /\ UNCHANGED <<redis, processes, hooks, observed, faults>>

\* The publisher takes its track back, or leaves the room, shared or not.
StopSharing(s) ==
    /\ publisher[s] \in {"invited", "sharing"}
    /\ publisher' = [publisher EXCEPT ![s] = "invited"]
    /\ Report(s, "stopped")
    /\ UNCHANGED <<redis, processes, observed, faults>>

\* handleVerifiedEvent: what is sent for a session that is no longer the
\* current one finds no room and is ignored.
HandleEvent(h) ==
    /\ IF h.event = "published" THEN Activate(h.session)
                                ELSE TerminateIfCurrent(h.session)
    /\ UNCHANGED <<processes, publisher, observed>>

HandleHook(h) ==
    /\ HandleEvent(h)
    /\ hooks' = hooks \ {h}
    /\ UNCHANGED faults

\* The answer to LiveKit is lost: it will send the webhook again.
HandleTwice(h) ==
    /\ Fault
    /\ HandleEvent(h)
    /\ UNCHANGED hooks

LoseHook(h) ==
    /\ Fault
    /\ hooks' = hooks \ {h}
    /\ UNCHANGED <<redis, processes, publisher, observed>>
-----------------------------------------------------------------------------
\* start: the steps of startWithLockedMembership, one per awaited call

Reserve(q) ==
    /\ (step[q] = "start" /\ MayBegin) \/ step[q] = "reserve-again"
    /\ IF session = NoSession
       THEN /\ session' = Reservation(q)
            /\ NewHolder(q)
            /\ Goto(q, "sign", q)
       ELSE /\ Goto(q, IF step[q] = "start" THEN "look" ELSE "look-for-winner", None)
            /\ UNCHANGED <<session, observed>>
    /\ UNCHANGED <<deadline, cleanups, lock, livekit, faults>>

IsOwn(q) == sharer[session.id] = sharer[q]

\* getCurrent after a reservation that did not succeed: a sharer goes on with
\* a reservation of its own; one of somebody else may be old enough.
Look(q) ==
    /\ step[q] = "look"
    /\ \/ /\ session.status = "active"
          /\ Goto(q, "probe-active", session.id)
       \/ /\ session.status = "starting"
          /\ IsOwn(q)
          /\ Goto(q, "claim", session.id)
       \/ /\ session.status = "starting"
          /\ ~IsOwn(q)
          /\ session.expired
          /\ Moves(q, "probe-starting", session.id, session.attempt)
       \/ /\ session.status = "starting" => ~IsOwn(q) /\ ~session.expired
          /\ session.status # "active"
          /\ Quit(q)
    /\ UNCHANGED <<redis, livekit, observed, faults>>

\* resolveReservationWinner
LookForWinner(q) ==
    /\ step[q] = "look-for-winner"
    /\ IF session.status = "starting" /\ IsOwn(q)
       THEN Goto(q, "claim", session.id)
       ELSE Quit(q)
    /\ UNCHANGED <<redis, livekit, observed, faults>>

\* hasActiveScreenTrack of what the request has read
ProbeHolder(q) ==
    /\ step[q] \in {"probe-active", "probe-starting"}
    /\ IF HasActiveScreenTrack(seen[q].id) THEN Quit(q)
       ELSE IF step[q] = "probe-active" THEN Goto(q, "end-stale", seen[q].id)
       ELSE Moves(q, "replace", seen[q].id, seen[q].attempt)
    /\ UNCHANGED <<redis, livekit, observed, faults>>

ClaimStarting(q) ==
    /\ step[q] = "claim"
    /\ IF session.id = seen[q].id /\ session.status = "starting"
       THEN /\ session' = [session EXCEPT !.attempt = q, !.expired = FALSE]
            /\ Goto(q, "sign-claimed", seen[q].id)
       ELSE /\ Quit(q)
            /\ UNCHANGED session
    /\ UNCHANGED <<deadline, cleanups, lock, livekit, observed, faults>>

ReplaceExpired(q) ==
    /\ step[q] = "replace"
    /\ IF MayReplace(q)
       THEN /\ session' = Reservation(q)
            /\ cleanups' = cleanups \cup {seen[q].id}
            /\ NewHolder(q)
            /\ Goto(q, "evict-reclaimed", seen[q].id)
       ELSE /\ Goto(q, "look-for-winner", None)
            /\ UNCHANGED <<session, cleanups, observed>>
    /\ UNCHANGED <<deadline, lock, livekit, faults>>

\* cleanupReclaimedRoom
EvictReclaimed(q) ==
    /\ step[q] = "evict-reclaimed"
    /\ EvictPublisher(seen[q].id)
    /\ Goto(q, "sign", q)
    /\ UNCHANGED <<redis, observed, faults>>

EvictReclaimedFails(q) ==
    /\ step[q] = "evict-reclaimed"
    /\ Fault
    /\ Goto(q, "release", q)
    /\ UNCHANGED <<redis, livekit, observed>>

\* The App Server signs by itself: nothing asks whether the session still has
\* the floor.  A token signed after the removal of its publisher lets it in
\* again, unless the second of the revocation is not over.
SignFor(s) ==
    \/ /\ publisher[s] = "removed"
       /\ publisher' = [publisher EXCEPT ![s] = "invited"]
       /\ adrift' = adrift \cup {s}
    \/ /\ publisher' = [publisher EXCEPT ![s] = IF @ = "no-token" THEN "invited" ELSE @]
       /\ UNCHANGED adrift

Sign(q) ==
    /\ step[q] \in {"sign", "sign-claimed"}
    /\ SignFor(seen[q].id)
    /\ Quit(q)
    /\ UNCHANGED <<redis, hooks, sharer, past, shown, faults>>

\* Only a reservation of the request's own is rolled back.
SignFails(q) ==
    /\ step[q] \in {"sign", "sign-claimed"}
    /\ Fault
    /\ IF step[q] = "sign" THEN Goto(q, "release", q) ELSE Quit(q)
    /\ UNCHANGED <<redis, livekit, observed>>

ReleaseStarting(q) ==
    /\ step[q] = "release"
    /\ session' = IF MayRelease(q) THEN Released ELSE session
    /\ Quit(q)
    /\ UNCHANGED <<deadline, cleanups, lock, livekit, observed, faults>>
-----------------------------------------------------------------------------
\* Reads, explicit ends and the deadline

\* getCurrent and createViewerToken ask LiveKit about what they have read ...
ReadCurrent(c) ==
    /\ step[c] = "idle" /\ MayBegin
    /\ session # NoSession
    /\ Goto(c, IF session.status = "active" THEN "probe-active" ELSE "probe-starting",
            session.id)
    /\ UNCHANGED <<redis, livekit, observed, faults>>

\* ... and a track makes a starting session active, while an active session
\* without one is ended.
ProbeSeen(c) ==
    /\ step[c] \in {"probe-active", "probe-starting"}
    /\ IF HasActiveScreenTrack(seen[c].id) <=> step[c] = "probe-active" THEN Quit(c)
       ELSE Goto(c, IF step[c] = "probe-active" THEN "end-stale" ELSE "activate", seen[c].id)
    /\ UNCHANGED <<redis, livekit, observed, faults>>

ActivateSeen(c) ==
    /\ step[c] = "activate"
    /\ Activate(seen[c].id)
    /\ Quit(c)
    /\ UNCHANGED <<livekit, observed, faults>>

\* endStaleSession, of a start request or of a read
EndStale(p) ==
    /\ step[p] = "end-stale"
    /\ TerminateIfCurrent(seen[p].id)
    /\ IF session.id = seen[p].id THEN Goto(p, "evict-ended", seen[p].id)
       ELSE IF p \in Request THEN Goto(p, "look-for-winner", None)
       ELSE Quit(p)
    /\ UNCHANGED <<livekit, observed, faults>>

\* end and endForRevocation, of the session they have read
End(c) ==
    /\ step[c] = "idle" /\ MayBegin
    /\ session # NoSession
    /\ TerminateIfCurrent(session.id)
    /\ Goto(c, "evict-ended", session.id)
    /\ UNCHANGED <<livekit, observed, faults>>

\* cleanupRoom is best effort: whoever ended the session goes on either way.
GoOn(p) == IF p \in Request THEN Goto(p, "reserve-again", None) ELSE Quit(p)

EvictEnded(p) ==
    /\ step[p] = "evict-ended"
    /\ EvictPublisher(seen[p].id)
    /\ GoOn(p)
    /\ UNCHANGED <<redis, observed, faults>>

EvictEndedFails(p) ==
    /\ step[p] = "evict-ended"
    /\ Fault
    /\ GoOn(p)
    /\ UNCHANGED <<redis, livekit, observed>>

\* claimDueDeadline puts the entry off by the lease instead of taking it out.
ClaimedDeadlineMutant == "none"
ClaimedDeadline == "leased"

ClaimDueDeadline(c, s) ==
    /\ step[c] = "idle" /\ MayBegin
    /\ deadline[s] = "due"
    /\ deadline' = [deadline EXCEPT ![s] = ClaimedDeadline]
    /\ Goto(c, "expire", s)
    /\ UNCHANGED <<session, cleanups, lock, livekit, observed, faults>>

Expire(c) ==
    /\ step[c] = "expire"
    /\ TerminateIfCurrent(seen[c].id)
    /\ Quit(c)
    /\ UNCHANGED <<livekit, observed, faults>>

\* Twelve hours, or the 30 seconds of a lease.
DeadlinePasses(s) ==
    /\ deadline[s] \in {"set", "leased"}
    /\ deadline' = [deadline EXCEPT ![s] = "due"]
    /\ UNCHANGED <<session, cleanups, lock, processes, livekit, observed, faults>>

\* The 60 seconds of SCREEN_SHARE_STARTING_LEASE_MS.
StartingLeasePasses ==
    /\ session.status = "starting"
    /\ ~session.expired
    /\ session' = [session EXCEPT !.expired = TRUE]
    /\ UNCHANGED <<deadline, cleanups, lock, processes, livekit, observed, faults>>
\* The 12 hours a starting record is kept; only activation makes it last.
\* The floor is free then, and nothing is left that names the room.
RecordExpires ==
    /\ session.status = "starting"
    /\ session' = NoSession
    /\ adrift' = adrift \cup {session.id}
    /\ UNCHANGED <<deadline, cleanups, lock, processes, livekit, sharer, past, shown, faults>>
-----------------------------------------------------------------------------
\* The cleanup workers

ClaimCleanup(w, s) ==
    /\ step[w] = "idle" /\ MayBegin
    /\ s \in cleanups
    /\ lock[s] = None
    /\ lock' = [lock EXCEPT ![s] = w]
    /\ Goto(w, "clean", s)
    /\ UNCHANGED <<session, deadline, cleanups, livekit, observed, faults>>

Clean(w) ==
    /\ step[w] = "clean"
    /\ EvictPublisher(seen[w].id)
    /\ Goto(w, "ack", seen[w].id)
    /\ UNCHANGED <<redis, observed, faults>>

AfterFailureMutant == "ack"
AfterFailure == "unlock"

CleanFails(w) ==
    /\ step[w] = "clean"
    /\ Fault
    /\ Goto(w, AfterFailure, seen[w].id)
    /\ UNCHANGED <<redis, livekit, observed>>

\* Acknowledge or release, unless the lock is another worker's by now.
Unlock(w) ==
    LET s == seen[w].id IN
    /\ step[w] \in {"ack", "unlock"}
    /\ IF lock[s] = w
       THEN /\ lock' = [lock EXCEPT ![s] = None]
            /\ cleanups' = IF step[w] = "ack" THEN cleanups \ {s} ELSE cleanups
       ELSE UNCHANGED <<lock, cleanups>>
    /\ Quit(w)
    /\ UNCHANGED <<session, deadline, livekit, observed, faults>>

\* The lock's 30 seconds: the worker died, or it is slow, which is a fault.
LockExpires(s) ==
    /\ lock[s] # None
    /\ IF seen[lock[s]].id = s THEN Fault ELSE UNCHANGED faults
    /\ lock' = [lock EXCEPT ![s] = None]
    /\ UNCHANGED <<session, deadline, cleanups, processes, livekit, observed>>

\* A call that is not handled fails, or the process stops.
Abandon(p) ==
    /\ step[p] \notin {"start", "idle", "done"}
    /\ Fault
    /\ Quit(p)
    /\ UNCHANGED <<redis, livekit, observed>>
-----------------------------------------------------------------------------
CallerStep(c) ==
    ProbeSeen(c) \/ ActivateSeen(c) \/ EndStale(c) \/ EvictEnded(c) \/ Expire(c)
WorkerStep(w) == Clean(w) \/ Unlock(w)

Next ==
    \/ \E q \in Request :
        \/ Reserve(q) \/ Look(q) \/ LookForWinner(q) \/ ProbeHolder(q)
        \/ ClaimStarting(q) \/ ReplaceExpired(q)
        \/ EvictReclaimed(q) \/ EvictReclaimedFails(q) \/ Sign(q) \/ SignFails(q)
        \/ ReleaseStarting(q) \/ EndStale(q) \/ EvictEnded(q) \/ EvictEndedFails(q)
    \/ \E c \in Caller :
        \/ ReadCurrent(c) \/ End(c) \/ CallerStep(c) \/ EvictEndedFails(c)
        \/ \E s \in Request : ClaimDueDeadline(c, s)
    \/ \E w \in Worker :
        \/ WorkerStep(w) \/ CleanFails(w)
        \/ \E s \in Request : ClaimCleanup(w, s)
    \/ \E p \in Process : Abandon(p)
    \/ \E s \in Request :
        \/ PublishTrack(s) \/ Mute(s) \/ StopSharing(s)
        \/ DeadlinePasses(s) \/ LockExpires(s)
    \/ \E h \in hooks : HandleHook(h) \/ HandleTwice(h) \/ LoseHook(h)
    \/ StartingLeasePasses
    \/ RecordExpires

Spec == Init /\ [][Next]_vars

\* Calls return, timers fire and keys expire.  The sweeps of deadlines and of
\* cleanups run every second and come to every entry, whatever else is going
\* on.  Users, LiveKit's webhooks and start requests owe nothing.
FairSpec ==
    /\ Spec
    /\ \A c \in Caller : WF_vars(CallerStep(c))
    /\ \A w \in Worker : WF_vars(WorkerStep(w))
    /\ \A s \in Request :
        /\ WF_vars(DeadlinePasses(s))
        /\ WF_vars(LockExpires(s))
        /\ SF_vars(\E c \in Caller : ClaimDueDeadline(c, s))
        /\ SF_vars(\E w \in Worker : ClaimCleanup(w, s))
-----------------------------------------------------------------------------
\* Every variable keeps to its type.
TypeOK ==
    /\ session \in [id : Request \cup {None}, status : {"none", "starting", "active"},
                    attempt : Request \cup {None}, expired : BOOLEAN]
    /\ session.id = None <=> session = NoSession
    /\ deadline \in [Request -> {"none", "set", "due", "leased"}]
    /\ cleanups \subseteq Request
    /\ lock \in [Request -> Worker \cup {None}]
    /\ step \in [Process -> {"start", "look", "look-for-winner", "probe-active",
          "probe-starting", "claim", "replace", "evict-reclaimed", "sign",
          "sign-claimed", "release", "end-stale", "evict-ended", "reserve-again",
          "done", "idle", "activate", "expire", "clean", "ack", "unlock"}]
    /\ seen \in [Process -> [id : Request \cup {None}, attempt : Request \cup {None}]]
    /\ publisher \in [Request -> {"no-token", "invited", "sharing", "removed"}]
    /\ hooks \subseteq [session : Request, event : {"published", "stopped"}]
    /\ sharer \in [Request -> User] /\ past \subseteq Request /\ shown \in BOOLEAN
    /\ adrift \subseteq Request
    /\ faults \in 0..MaxFaults

\* Whoever holds a usable publisher token has the floor, or a cleanup entry
\* still owes its removal: no rollback of another attempt, takeover or failed
\* cleanup leaves a publisher behind.  The code has two ways to do so, and the
\* model takes both: a starting record that runs out leaves no cleanup entry,
\* and a token may be signed after the removal.  Nothing else does.
IssuedIsAccountedFor ==
    \A s \in Request :
        publisher[s] \in {"invited", "sharing"}
        => s = session.id \/ s \in cleanups \/ s \in adrift

\* A deadline stands for the live session and for no other.
OnlyLiveHasDeadline ==
    \A s \in Request :
        (deadline[s] # "none") <=> (session.id = s /\ session.status = "active")

\* The session of the Workspace follows the rules of the floor.
Floor == INSTANCE ScreenShareFloor WITH
    Session <- Request,
    Nobody <- None,
    holder <- session.id,
    live <- (session.status = "active"),
    over <- past \ {session.id}
ImplementsFloor == Floor!Spec

\* A publisher whose session has lost the floor is out of LiveKit in the end,
\* unless its record ran out or a token was signed after it had been removed.
FormerPublisherLeaves ==
    \A s \in Request :
        (session.id # s /\ publisher[s] # "no-token")
        ~> (publisher[s] = "removed" \/ s \in adrift)
=============================================================================
