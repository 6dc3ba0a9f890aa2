-------------------------- MODULE ScreenShareProofs ---------------------------
(***************************************************************************)
(* What ScreenShare keeps for any requests, callers and workers, and for   *)
(* every bound: its types, the deadlines, that a session has the floor     *)
(* only once and is never cleaned up while it has it, that every publisher *)
(* token is accounted for, and the safety of ScreenShareFloor.             *)
(***************************************************************************)
EXTENDS ScreenShare, TLAPS

\* The steps of a process that has not read a session, or is through with it.
Blank == {"start", "look", "look-for-winner", "reserve-again", "done", "idle"}

\* Types, in three parts, and a process that deals with a session knows which.
AnySession == [id : Request \cup {None}, status : {"none", "starting", "active"},
               attempt : Request \cup {None}, expired : BOOLEAN]
AnyHook == [session : Request, event : {"published", "stopped"}]

RedisTyped ==
    /\ session \in AnySession
    /\ session.id = None <=> session = NoSession
    /\ deadline \in [Request -> {"none", "set", "due", "leased"}]
    /\ cleanups \subseteq Request
    /\ lock \in [Request -> Worker \cup {None}]

Step == Blank \cup {"probe-active", "probe-starting", "claim", "replace",
          "evict-reclaimed", "sign", "sign-claimed", "release", "end-stale",
          "evict-ended", "activate", "expire", "clean", "ack", "unlock"}

ProcessesTyped ==
    /\ step \in [Process -> Step]
    /\ seen \in [Process -> [id : Request \cup {None}, attempt : Request \cup {None}]]
    /\ \A p \in Process : step[p] \notin Blank => seen[p].id \in Request

RestTyped ==
    /\ publisher \in [Request -> {"no-token", "invited", "sharing", "removed"}]
    /\ hooks \subseteq AnyHook
    /\ sharer \in [Request -> User] /\ past \subseteq Request /\ shown \in BOOLEAN
    /\ adrift \subseteq Request
    /\ faults \in 0..MaxFaults

Typed == RedisTyped /\ ProcessesTyped /\ RestTyped

\* The steps of a request that has not had the floor.
Waiting == (Blank \ {"done"}) \cup {"probe-active", "probe-starting", "claim", "replace",
             "sign-claimed", "end-stale", "evict-ended"}

\* A session gets the floor once: whatever deals with a session deals with one
\* that has had it, and no request that is still waiting has.
FloorIsTakenOnce ==
    /\ session.id # None => session.id \in past
    /\ cleanups \subseteq past
    /\ \A h \in hooks : h.session \in past
    /\ \A s \in Request : publisher[s] # "no-token" => s \in past
    /\ \A p \in Process : step[p] \notin Blank => seen[p].id \in past
    /\ \A q \in Request : step[q] \in Waiting => q \notin past
    /\ \A q \in Request : step[q] \in {"evict-reclaimed", "sign", "release"} => q \in past

\* What removes a publisher from LiveKit deals with sessions that have lost
\* the floor.
CleanupIsLate ==
    /\ session.id \notin cleanups
    /\ \A s \in Request : publisher[s] = "removed" => s # session.id
    /\ \A p \in Process :
          step[p] \in {"evict-ended", "evict-reclaimed", "clean", "ack"}
          => seen[p].id # session.id

\* Where the token of a session can be: a request that will still sign one
\* for it, or may release it, and what that means for the session.
TokensAreOwed ==
    /\ IssuedIsAccountedFor
    /\ \A q \in Request :
          step[q] \in {"sign", "release"} => seen[q].id = q
    /\ \A q \in Request : LET s == seen[q].id IN
          step[q] \in {"sign", "sign-claimed"}
          => s = session.id \/ s \in cleanups \/ s \in adrift \/ publisher[s] = "removed"
    /\ \A q \in Request :
          step[q] = "evict-reclaimed"
          => q = session.id \/ q \in cleanups \/ q \in adrift \/ publisher[q] = "removed"
    /\ \A q \in Request :
          step[q] = "sign-claimed" /\ session.id = seen[q].id => session.attempt # session.id
    /\ \A q \in Request :
          /\ step[q] \in {"evict-reclaimed", "sign", "release"}
          /\ session.id = q
          /\ session.attempt = q
          => publisher[q] \notin {"invited", "sharing"}
    /\ \A p \in Process :
          step[p] = "ack" => publisher[seen[p].id] = "removed" \/ seen[p].id \in adrift

\* Whatever may make a session active has seen its screen.
ActiveWasShown ==
    \A s \in Request :
        /\ s = session.id
        /\ \/ publisher[s] = "sharing"
           \/ \E h \in hooks : h.session = s /\ h.event = "published"
           \/ \E p \in Process : step[p] = "activate" /\ seen[p].id = s
        => shown

USE NamesAssumption
-----------------------------------------------------------------------------
\* Types

\* What Moves, Goto and Quit leave of a process.
LEMMA MovesTyped ==
  ASSUME ProcessesTyped, NEW p \in Process, NEW next \in Step,
         NEW id \in Request \cup {None}, NEW attempt \in Request \cup {None},
         next \notin Blank => id \in Request, Moves(p, next, id, attempt)
  PROVE  ProcessesTyped'
<1>1. [id |-> id, attempt |-> attempt]
      \in [id : Request \cup {None}, attempt : Request \cup {None}]
  OBVIOUS
<1> QED
  BY <1>1 DEF ProcessesTyped, Moves

LEMMA GotoTyped ==
  ASSUME ProcessesTyped, NEW p \in Process, NEW next \in Step,
         NEW id \in Request \cup {None}, next \notin Blank => id \in Request,
         Goto(p, next, id)
  PROVE  ProcessesTyped'
  BY MovesTyped DEF Goto

LEMMA QuitTyped ==
  ASSUME ProcessesTyped, NEW p \in Process, Quit(p)
  PROVE  ProcessesTyped'
  BY MovesTyped DEF Quit, Step, Blank

\* What the Lua scripts leave of the state in Redis.
LEMMA ReservationTyped ==
  ASSUME NEW q \in Request
  PROVE  /\ Reservation(q) \in AnySession
         /\ Reservation(q).id = q /\ q # None /\ Reservation(q) # NoSession
  BY DEF Reservation, NoSession, AnySession

LEMMA NoSessionTyped == NoSession \in AnySession /\ NoSession.id = None
  BY DEF NoSession, AnySession

\* A session in Redis, and its fields one by one.
LEMMA SessionFields ==
  ASSUME RedisTyped
  PROVE  /\ session.id \in Request \cup {None} /\ session.attempt \in Request \cup {None}
         /\ session # NoSession \/ session.status # "none" => session.id \in Request
         /\ session = NoSession => session.status = "none" /\ session.id = None
         /\ session.status # "none" => session # NoSession
  BY DEF RedisTyped, AnySession, NoSession

\* Writing a field of a session that is there leaves one that is there.
LEMMA UpdateTyped ==
  ASSUME RedisTyped, session # NoSession, NEW st \in {"starting", "active"},
         NEW attempt \in Request \cup {None}, NEW expired \in BOOLEAN
  PROVE  LET new == [session EXCEPT !.status = st, !.attempt = attempt, !.expired = expired]
         IN  new \in AnySession /\ new.id = session.id /\ new # NoSession
  BY DEF RedisTyped, AnySession, NoSession

LEMMA FaultTyped == RestTyped /\ Fault => faults' \in 0..MaxFaults
<1> SUFFICES ASSUME faults \in 0..MaxFaults, Fault PROVE faults' \in 0..MaxFaults
  BY DEF RestTyped
<1> QED
  BY BoundsAssumption DEF Fault

LEMMA ActivateTyped ==
  ASSUME RedisTyped, NEW s \in Request, Activate(s)
  PROVE  RedisTyped'
<1>1. CASE CanActivate(s)
  <2>1. /\ session' = [session EXCEPT !.status = "active", !.attempt = None, !.expired = FALSE]
        /\ session # NoSession /\ session.id \in Request
        /\ deadline' = [deadline EXCEPT ![session.id] = "set"] /\ UNCHANGED <<cleanups, lock>>
    BY <1>1, SessionFields DEF Activate, CanActivate
  <2>2. session' \in AnySession /\ session'.id = session.id /\ session' # NoSession
    BY <2>1, UpdateTyped
  <2> QED BY <2>1, <2>2 DEF RedisTyped
<1>2. CASE ~CanActivate(s)
  BY <1>2 DEF Activate, RedisTyped
<1> QED BY <1>1, <1>2

LEMMA TerminateTyped ==
  ASSUME RedisTyped, NEW s \in Request, TerminateIfCurrent(s)
  PROVE  RedisTyped'
<1>1. CASE session.id = s
  BY <1>1, NoSessionTyped DEF TerminateIfCurrent, RedisTyped
<1>2. CASE session.id # s
  BY <1>2 DEF TerminateIfCurrent, RedisTyped
<1> QED BY <1>1, <1>2

LEMMA HandleEventTyped ==
  ASSUME RedisTyped, RestTyped, NEW h \in hooks, HandleEvent(h)
  PROVE  RedisTyped'
<1>1. h.session \in Request
  BY DEF RestTyped, AnyHook
<1> QED
  BY <1>1, ActivateTyped, TerminateTyped DEF HandleEvent

LEMMA TypedInit == Init => Typed
<1> SUFFICES ASSUME Init PROVE Typed
  OBVIOUS
<1>1. RedisTyped
  BY NoSessionTyped DEF Init, RedisTyped
<1>2. ProcessesTyped
  BY DEF Init, ProcessesTyped, Process, Step, Blank
<1>3. RestTyped
  <2>1. sharer \in [Request -> User] /\ faults \in 0..MaxFaults
    <3>1. sharer \in [Request -> User]
      BY SharersAssumption DEF Init
    <3>2. faults = 0
      BY DEF Init
    <3>3. faults \in 0..MaxFaults
      BY <3>2, BoundsAssumption
    <3> QED BY <3>1, <3>3
  <2> QED BY <2>1 DEF Init, RestTyped
<1> QED BY <1>1, <1>2, <1>3 DEF Typed

LEMMA TypedStep == Typed /\ [Next]_vars => Typed'
<1> SUFFICES ASSUME Typed, [Next]_vars PROVE Typed'
  OBVIOUS
<1> USE DEF Typed
<1>1. ASSUME NEW q \in Request, Reserve(q) PROVE Typed'
  <2>1. RedisTyped'
    BY <1>1, ReservationTyped DEF Reserve, RedisTyped, NewHolder
  <2>2. ProcessesTyped'
    BY <1>1, GotoTyped DEF Reserve, Step, Blank, Process
  <2>3. RestTyped'
    BY <1>1 DEF Reserve, NewHolder, RestTyped, livekit, observed
  <2> QED BY <2>1, <2>2, <2>3 DEF Typed
<1>2. ASSUME NEW q \in Request, Look(q) PROVE Typed'
  <2>1. RedisTyped'
    BY <1>2 DEF Look, RedisTyped, redis
  <2>2. ProcessesTyped'
    BY <1>2, SessionFields, MovesTyped, GotoTyped, QuitTyped DEF Look, Step, Blank, Process
  <2>3. RestTyped'
    BY <1>2 DEF Look, RestTyped, livekit, observed
  <2> QED BY <2>1, <2>2, <2>3 DEF Typed
<1>3. ASSUME NEW q \in Request, LookForWinner(q) PROVE Typed'
  <2>1. RedisTyped'
    BY <1>3 DEF LookForWinner, RedisTyped, redis
  <2>2. ProcessesTyped'
    BY <1>3, SessionFields, GotoTyped, QuitTyped DEF LookForWinner, Step, Blank, Process
  <2>3. RestTyped'
    BY <1>3 DEF LookForWinner, RestTyped, livekit, observed
  <2> QED BY <2>1, <2>2, <2>3 DEF Typed
<1>4. ASSUME NEW q \in Request, ProbeHolder(q) PROVE Typed'
  <2>1. RedisTyped'
    BY <1>4 DEF ProbeHolder, RedisTyped, redis
  <2>2. ProcessesTyped'
    <3>1. q \in Process /\ seen[q] \in [id : Request, attempt : Request \cup {None}]
      BY <1>4 DEF ProbeHolder, ProcessesTyped, Blank, Process
    <3> QED BY <1>4, <3>1, MovesTyped, GotoTyped, QuitTyped DEF ProbeHolder, Step, Blank, Process
  <2>3. RestTyped'
    BY <1>4 DEF ProbeHolder, RestTyped, livekit, observed
  <2> QED BY <2>1, <2>2, <2>3 DEF Typed
<1>5. ASSUME NEW q \in Request, ClaimStarting(q) PROVE Typed'
  <2>1. RedisTyped'
    <3>1. CASE UNCHANGED session
      BY <1>5, <3>1 DEF ClaimStarting, RedisTyped
    <3>2. CASE session' # session
      <4>1. session # NoSession /\ session.status \in {"starting", "active"}
            /\ session.attempt \in Request \cup {None} /\ session.expired \in BOOLEAN
        BY <1>5, <3>2, SessionFields DEF ClaimStarting, RedisTyped, AnySession
      <4>2. session' \in AnySession /\ session'.id = session.id /\ session' # NoSession
        <5>1. session' = [session EXCEPT !.status = session.status, !.attempt = q, !.expired = FALSE]
          BY <1>5, <3>2 DEF ClaimStarting, RedisTyped, AnySession
        <5> QED BY <4>1, <5>1, UpdateTyped
      <4> QED BY <1>5, <4>1, <4>2 DEF ClaimStarting, RedisTyped
    <3> QED BY <3>1, <3>2
  <2>2. ProcessesTyped'
    <3>1. q \in Process /\ seen[q] \in [id : Request, attempt : Request \cup {None}]
      BY <1>5 DEF ClaimStarting, ProcessesTyped, Blank, Process
    <3> QED BY <1>5, <3>1, GotoTyped, QuitTyped DEF ClaimStarting, Step, Blank, Process
  <2>3. RestTyped'
    BY <1>5 DEF ClaimStarting, RestTyped, livekit, observed
  <2> QED BY <2>1, <2>2, <2>3 DEF Typed
<1>6. ASSUME NEW q \in Request, ReplaceExpired(q) PROVE Typed'
  <2>1. RedisTyped'
    <3>1. MayReplace(q) => seen[q].id \in Request
      BY SessionFields DEF MayReplace
    <3> QED BY <1>6, <3>1, ReservationTyped DEF ReplaceExpired, RedisTyped
  <2>2. ProcessesTyped'
    <3>1. q \in Process /\ seen[q] \in [id : Request, attempt : Request \cup {None}]
      BY <1>6 DEF ReplaceExpired, ProcessesTyped, Blank, Process
    <3> QED BY <1>6, <3>1, GotoTyped DEF ReplaceExpired, Step, Blank, Process
  <2>3. RestTyped'
    BY <1>6 DEF ReplaceExpired, NewHolder, RestTyped, livekit, observed
  <2> QED BY <2>1, <2>2, <2>3 DEF Typed
<1>7. ASSUME NEW q \in Request, EvictReclaimed(q) PROVE Typed'
  <2>1. RedisTyped'
    BY <1>7 DEF EvictReclaimed, RedisTyped, redis
  <2>2. ProcessesTyped'
    BY <1>7, GotoTyped DEF EvictReclaimed, Step, Blank, Process
  <2>3. RestTyped'
    BY <1>7 DEF EvictReclaimed, EvictPublisher, RestTyped, observed
  <2> QED BY <2>1, <2>2, <2>3 DEF Typed
<1>8. ASSUME NEW q \in Request, EvictReclaimedFails(q) PROVE Typed'
  <2>1. RedisTyped'
    BY <1>8 DEF EvictReclaimedFails, RedisTyped, redis
  <2>2. ProcessesTyped'
    BY <1>8, GotoTyped DEF EvictReclaimedFails, Step, Blank, Process
  <2>3. RestTyped'
    BY <1>8, FaultTyped DEF EvictReclaimedFails, RestTyped, livekit, observed
  <2> QED BY <2>1, <2>2, <2>3 DEF Typed
<1>9. ASSUME NEW q \in Request, Sign(q) PROVE Typed'
  <2>1. RedisTyped'
    BY <1>9 DEF Sign, RedisTyped, redis
  <2>2. ProcessesTyped'
    BY <1>9, QuitTyped DEF Sign, Step, Blank, Process
  <2>3. RestTyped'
    <3>1. seen[q].id \in Request
      BY <1>9 DEF Sign, ProcessesTyped, Blank, Process
    <3> QED BY <1>9, <3>1 DEF Sign, SignFor, RestTyped
  <2> QED BY <2>1, <2>2, <2>3 DEF Typed
<1>10. ASSUME NEW q \in Request, SignFails(q) PROVE Typed'
  <2>1. RedisTyped'
    BY <1>10 DEF SignFails, RedisTyped, redis
  <2>2. ProcessesTyped'
    BY <1>10, GotoTyped, QuitTyped DEF SignFails, Step, Blank, Process
  <2>3. RestTyped'
    BY <1>10, FaultTyped DEF SignFails, RestTyped, livekit, observed
  <2> QED BY <2>1, <2>2, <2>3 DEF Typed
<1>11. ASSUME NEW q \in Request, ReleaseStarting(q) PROVE Typed'
  <2>1. RedisTyped'
    BY <1>11, NoSessionTyped DEF ReleaseStarting, Released, RedisTyped
  <2>2. ProcessesTyped'
    BY <1>11, QuitTyped DEF ReleaseStarting, Step, Blank, Process
  <2>3. RestTyped'
    BY <1>11 DEF ReleaseStarting, RestTyped, livekit, observed
  <2> QED BY <2>1, <2>2, <2>3 DEF Typed
<1>12. ASSUME NEW p \in Request \cup Caller, EndStale(p) PROVE Typed'
  <2>1. RedisTyped'
    <3>1. seen[p].id \in Request
      BY <1>12 DEF EndStale, ProcessesTyped, Blank, Process
    <3> QED BY <1>12, <3>1, TerminateTyped DEF EndStale
  <2>2. ProcessesTyped'
    <3>1. p \in Process /\ seen[p] \in [id : Request, attempt : Request \cup {None}]
      BY <1>12 DEF EndStale, ProcessesTyped, Blank, Process
    <3> QED BY <1>12, <3>1, GotoTyped, QuitTyped DEF EndStale, Step, Blank, Process
  <2>3. RestTyped'
    BY <1>12 DEF EndStale, RestTyped, livekit, observed
  <2> QED BY <2>1, <2>2, <2>3 DEF Typed
<1>13. ASSUME NEW p \in Request \cup Caller, EvictEnded(p) PROVE Typed'
  <2>1. RedisTyped'
    BY <1>13 DEF EvictEnded, RedisTyped, redis
  <2>2. ProcessesTyped'
    <3>1. p \in Process /\ seen[p] \in [id : Request, attempt : Request \cup {None}]
      BY <1>13 DEF EvictEnded, ProcessesTyped, Blank, Process
    <3> QED BY <1>13, <3>1, GotoTyped, QuitTyped DEF EvictEnded, Step, Blank, Process, GoOn
  <2>3. RestTyped'
    BY <1>13 DEF EvictEnded, EvictPublisher, RestTyped, observed
  <2> QED BY <2>1, <2>2, <2>3 DEF Typed
<1>14. ASSUME NEW p \in Request \cup Caller, EvictEndedFails(p) PROVE Typed'
  <2>1. RedisTyped'
    BY <1>14 DEF EvictEndedFails, RedisTyped, redis
  <2>2. ProcessesTyped'
    <3>1. p \in Process /\ seen[p] \in [id : Request, attempt : Request \cup {None}]
      BY <1>14 DEF EvictEndedFails, ProcessesTyped, Blank, Process
    <3> QED BY <1>14, <3>1, GotoTyped, QuitTyped DEF EvictEndedFails, Step, Blank, Process, GoOn
  <2>3. RestTyped'
    BY <1>14, FaultTyped DEF EvictEndedFails, RestTyped, livekit, observed
  <2> QED BY <2>1, <2>2, <2>3 DEF Typed
<1>15. ASSUME NEW c \in Caller, ReadCurrent(c) PROVE Typed'
  <2>1. RedisTyped'
    BY <1>15 DEF ReadCurrent, RedisTyped, redis
  <2>2. ProcessesTyped'
    BY <1>15, SessionFields, GotoTyped, QuitTyped DEF ReadCurrent, Step, Blank, Process
  <2>3. RestTyped'
    BY <1>15 DEF ReadCurrent, RestTyped, livekit, observed
  <2> QED BY <2>1, <2>2, <2>3 DEF Typed
<1>16. ASSUME NEW c \in Caller, End(c) PROVE Typed'
  <2>1. RedisTyped'
    <3>1. session.id \in Request
      BY <1>16, SessionFields DEF End
    <3> QED BY <1>16, <3>1, TerminateTyped DEF End
  <2>2. ProcessesTyped'
    BY <1>16, SessionFields, GotoTyped, QuitTyped DEF End, Step, Blank, Process
  <2>3. RestTyped'
    BY <1>16 DEF End, RestTyped, livekit, observed
  <2> QED BY <2>1, <2>2, <2>3 DEF Typed
<1>17. ASSUME NEW c \in Caller, ProbeSeen(c) PROVE Typed'
  <2>1. RedisTyped'
    BY <1>17 DEF ProbeSeen, RedisTyped, redis
  <2>2. ProcessesTyped'
    <3>1. c \in Process /\ seen[c] \in [id : Request, attempt : Request \cup {None}]
      BY <1>17 DEF ProbeSeen, ProcessesTyped, Blank, Process
    <3> QED BY <1>17, <3>1, GotoTyped, QuitTyped DEF ProbeSeen, Step, Blank, Process
  <2>3. RestTyped'
    BY <1>17 DEF ProbeSeen, RestTyped, livekit, observed
  <2> QED BY <2>1, <2>2, <2>3 DEF Typed
<1>18. ASSUME NEW c \in Caller, ActivateSeen(c) PROVE Typed'
  <2>1. RedisTyped'
    <3>1. seen[c].id \in Request
      BY <1>18 DEF ActivateSeen, ProcessesTyped, Blank, Process
    <3> QED BY <1>18, <3>1, ActivateTyped DEF ActivateSeen
  <2>2. ProcessesTyped'
    BY <1>18, QuitTyped DEF ActivateSeen, Step, Blank, Process
  <2>3. RestTyped'
    BY <1>18 DEF ActivateSeen, RestTyped, livekit, observed
  <2> QED BY <2>1, <2>2, <2>3 DEF Typed
<1>19. ASSUME NEW c \in Caller, Expire(c) PROVE Typed'
  <2>1. RedisTyped'
    <3>1. seen[c].id \in Request
      BY <1>19 DEF Expire, ProcessesTyped, Blank, Process
    <3> QED BY <1>19, <3>1, TerminateTyped DEF Expire
  <2>2. ProcessesTyped'
    BY <1>19, QuitTyped DEF Expire, Step, Blank, Process
  <2>3. RestTyped'
    BY <1>19 DEF Expire, RestTyped, livekit, observed
  <2> QED BY <2>1, <2>2, <2>3 DEF Typed
<1>20. ASSUME NEW c \in Caller, NEW s \in Request, ClaimDueDeadline(c, s) PROVE Typed'
  <2>1. RedisTyped'
    BY <1>20 DEF ClaimDueDeadline, ClaimedDeadline, RedisTyped
  <2>2. ProcessesTyped'
    BY <1>20, GotoTyped DEF ClaimDueDeadline, Step, Blank, Process
  <2>3. RestTyped'
    BY <1>20 DEF ClaimDueDeadline, RestTyped, livekit, observed
  <2> QED BY <2>1, <2>2, <2>3 DEF Typed
<1>21. ASSUME NEW w \in Worker, Clean(w) PROVE Typed'
  <2>1. RedisTyped'
    BY <1>21 DEF Clean, RedisTyped, redis
  <2>2. ProcessesTyped'
    <3>1. w \in Process /\ seen[w] \in [id : Request, attempt : Request \cup {None}]
      BY <1>21 DEF Clean, ProcessesTyped, Blank, Process
    <3> QED BY <1>21, <3>1, GotoTyped DEF Clean, Step, Blank, Process
  <2>3. RestTyped'
    BY <1>21 DEF Clean, EvictPublisher, RestTyped, observed
  <2> QED BY <2>1, <2>2, <2>3 DEF Typed
<1>22. ASSUME NEW w \in Worker, Unlock(w) PROVE Typed'
  <2>1. RedisTyped'
    BY <1>22 DEF Unlock, RedisTyped
  <2>2. ProcessesTyped'
    BY <1>22, QuitTyped DEF Unlock, Step, Blank, Process
  <2>3. RestTyped'
    BY <1>22 DEF Unlock, RestTyped, livekit, observed
  <2> QED BY <2>1, <2>2, <2>3 DEF Typed
<1>23. ASSUME NEW w \in Worker, CleanFails(w) PROVE Typed'
  <2>1. RedisTyped'
    BY <1>23 DEF CleanFails, RedisTyped, redis
  <2>2. ProcessesTyped'
    <3>1. w \in Process /\ seen[w] \in [id : Request, attempt : Request \cup {None}]
      BY <1>23 DEF CleanFails, ProcessesTyped, Blank, Process
    <3> QED BY <1>23, <3>1, GotoTyped DEF CleanFails, Step, Blank, Process, AfterFailure
  <2>3. RestTyped'
    BY <1>23, FaultTyped DEF CleanFails, RestTyped, livekit, observed
  <2> QED BY <2>1, <2>2, <2>3 DEF Typed
<1>24. ASSUME NEW w \in Worker, NEW s \in Request, ClaimCleanup(w, s) PROVE Typed'
  <2>1. RedisTyped'
    BY <1>24 DEF ClaimCleanup, RedisTyped, redis
  <2>2. ProcessesTyped'
    BY <1>24, GotoTyped DEF ClaimCleanup, Step, Blank, Process
  <2>3. RestTyped'
    BY <1>24 DEF ClaimCleanup, RestTyped, livekit, observed
  <2> QED BY <2>1, <2>2, <2>3 DEF Typed
<1>25. ASSUME NEW p \in Process, Abandon(p) PROVE Typed'
  <2>1. RedisTyped'
    BY <1>25 DEF Abandon, RedisTyped, redis
  <2>2. ProcessesTyped'
    BY <1>25, QuitTyped DEF Abandon, Step, Blank, Process
  <2>3. RestTyped'
    BY <1>25, FaultTyped DEF Abandon, RestTyped, livekit, observed
  <2> QED BY <2>1, <2>2, <2>3 DEF Typed
<1>26. ASSUME NEW s \in Request, PublishTrack(s) PROVE Typed'
  <2>1. RedisTyped'
    BY <1>26 DEF PublishTrack, RedisTyped, redis
  <2>2. ProcessesTyped'
    BY <1>26 DEF PublishTrack, ProcessesTyped, processes
  <2>3. RestTyped'
    <3>1. hooks' \subseteq AnyHook
      <4>1. [session |-> s, event |-> "published"] \in AnyHook
        BY DEF AnyHook
      <4> QED BY <1>26, <4>1 DEF PublishTrack, Report, RestTyped
    <3> QED BY <1>26, <3>1 DEF PublishTrack, RestTyped
  <2> QED BY <2>1, <2>2, <2>3 DEF Typed
<1>27. ASSUME NEW s \in Request, Mute(s) PROVE Typed'
  <2>1. RedisTyped'
    BY <1>27 DEF Mute, RedisTyped, redis
  <2>2. ProcessesTyped'
    BY <1>27 DEF Mute, ProcessesTyped, processes
  <2>3. RestTyped'
    BY <1>27 DEF Mute, RestTyped, livekit, observed
  <2> QED BY <2>1, <2>2, <2>3 DEF Typed
<1>28. ASSUME NEW s \in Request, StopSharing(s) PROVE Typed'
  <2>1. RedisTyped'
    BY <1>28 DEF StopSharing, RedisTyped, redis
  <2>2. ProcessesTyped'
    BY <1>28 DEF StopSharing, ProcessesTyped, processes
  <2>3. RestTyped'
    <3>1. hooks' \subseteq AnyHook
      <4>1. [session |-> s, event |-> "stopped"] \in AnyHook
        BY DEF AnyHook
      <4> QED BY <1>28, <4>1 DEF StopSharing, Report, RestTyped
    <3> QED BY <1>28, <3>1 DEF StopSharing, RestTyped, observed
  <2> QED BY <2>1, <2>2, <2>3 DEF Typed
<1>29. ASSUME NEW s \in Request, DeadlinePasses(s) PROVE Typed'
  <2>1. RedisTyped'
    BY <1>29 DEF DeadlinePasses, RedisTyped, redis
  <2>2. ProcessesTyped'
    BY <1>29 DEF DeadlinePasses, ProcessesTyped, processes
  <2>3. RestTyped'
    BY <1>29 DEF DeadlinePasses, RestTyped, livekit, observed
  <2> QED BY <2>1, <2>2, <2>3 DEF Typed
<1>30. ASSUME NEW s \in Request, LockExpires(s) PROVE Typed'
  <2>1. RedisTyped'
    BY <1>30 DEF LockExpires, RedisTyped
  <2>2. ProcessesTyped'
    BY <1>30 DEF LockExpires, ProcessesTyped, processes
  <2>3. RestTyped'
    BY <1>30, FaultTyped DEF LockExpires, RestTyped, livekit, observed
  <2> QED BY <2>1, <2>2, <2>3 DEF Typed
<1>31. ASSUME NEW h \in hooks, HandleHook(h) PROVE Typed'
  <2>1. RedisTyped'
    BY <1>31, HandleEventTyped DEF HandleHook
  <2>2. ProcessesTyped'
    BY <1>31 DEF HandleHook, HandleEvent, ProcessesTyped, processes
  <2>3. RestTyped'
    BY <1>31 DEF HandleHook, HandleEvent, RestTyped, observed
  <2> QED BY <2>1, <2>2, <2>3 DEF Typed
<1>32. ASSUME NEW h \in hooks, HandleTwice(h) PROVE Typed'
  <2>1. RedisTyped'
    BY <1>32, HandleEventTyped DEF HandleTwice
  <2>2. ProcessesTyped'
    BY <1>32 DEF HandleTwice, HandleEvent, ProcessesTyped, processes
  <2>3. RestTyped'
    BY <1>32, FaultTyped DEF HandleTwice, HandleEvent, RestTyped, observed
  <2> QED BY <2>1, <2>2, <2>3 DEF Typed
<1>33. ASSUME NEW h \in hooks, LoseHook(h) PROVE Typed'
  <2>1. RedisTyped'
    BY <1>33 DEF LoseHook, RedisTyped, redis
  <2>2. ProcessesTyped'
    BY <1>33 DEF LoseHook, ProcessesTyped, processes
  <2>3. RestTyped'
    BY <1>33, FaultTyped DEF LoseHook, RestTyped, livekit, observed
  <2> QED BY <2>1, <2>2, <2>3 DEF Typed
<1>34. CASE StartingLeasePasses
  <2>1. RedisTyped'
    <3>1. CASE UNCHANGED session
      BY <1>34, <3>1 DEF StartingLeasePasses, RedisTyped
    <3>2. CASE session' # session
      <4>1. session # NoSession /\ session.status \in {"starting", "active"}
            /\ session.attempt \in Request \cup {None} /\ session.expired \in BOOLEAN
        BY <1>34, <3>2, SessionFields DEF StartingLeasePasses, RedisTyped, AnySession
      <4>2. session' \in AnySession /\ session'.id = session.id /\ session' # NoSession
        BY <1>34, <3>2, <4>1 DEF StartingLeasePasses, RedisTyped, AnySession, NoSession
      <4> QED BY <1>34, <4>1, <4>2 DEF StartingLeasePasses, RedisTyped
    <3> QED BY <3>1, <3>2
  <2>2. ProcessesTyped'
    BY <1>34 DEF StartingLeasePasses, ProcessesTyped, processes
  <2>3. RestTyped'
    BY <1>34 DEF StartingLeasePasses, RestTyped, livekit, observed
  <2> QED BY <2>1, <2>2, <2>3 DEF Typed
<1>35. CASE RecordExpires
  <2>1. RedisTyped'
    BY <1>35, NoSessionTyped DEF RecordExpires, RedisTyped
  <2>2. ProcessesTyped'
    BY <1>35 DEF RecordExpires, ProcessesTyped, processes
  <2>3. RestTyped'
    <3>1. session.id \in Request
      BY <1>35, SessionFields DEF RecordExpires
    <3> QED BY <1>35, <3>1 DEF RecordExpires, RestTyped, livekit
  <2> QED BY <2>1, <2>2, <2>3 DEF Typed
<1>36. CASE UNCHANGED vars
  BY <1>36 DEF vars, redis, processes, livekit, observed, RedisTyped,
       ProcessesTyped, RestTyped
<1> QED
  BY <1>1, <1>2, <1>3, <1>4, <1>5, <1>6, <1>7, <1>8, <1>9, <1>10, <1>11, <1>12, <1>13,
     <1>14, <1>15, <1>16, <1>17, <1>18, <1>19, <1>20, <1>21, <1>22, <1>23, <1>24, <1>25, <1>26,
     <1>27, <1>28, <1>29, <1>30, <1>31, <1>32, <1>33, <1>34, <1>35, <1>36 DEF Next, CallerStep, WorkerStep

LEMMA TypedAlways == Spec => []Typed
  BY TypedInit, TypedStep, PTL DEF Spec

\* Every variable keeps to its type, whatever the constants are.
THEOREM ScreenShareTypeCorrect == Spec => []TypeOK
<1>1. Typed => TypeOK
  BY DEF Typed, RedisTyped, ProcessesTyped, RestTyped, TypeOK, Step, Blank,
         AnySession, AnyHook
<1> QED
  BY TypedAlways, <1>1, PTL
-----------------------------------------------------------------------------
\* What the steps of the model are built from, seen field by field

LEMMA MovesEffect ==
  ASSUME Typed, NEW p \in Process, NEW next, NEW id, NEW attempt,
         Moves(p, next, id, attempt)
  PROVE  /\ step'[p] = next /\ seen'[p].id = id
         /\ \A x \in Process : x # p => step'[x] = step[x] /\ seen'[x].id = seen[x].id
  BY DEF Typed, ProcessesTyped, Moves

LEMMA GotoEffect ==
  ASSUME Typed, NEW p \in Process, NEW next, NEW id, Goto(p, next, id)
  PROVE  /\ step'[p] = next /\ seen'[p].id = id
         /\ \A x \in Process : x # p => step'[x] = step[x] /\ seen'[x].id = seen[x].id
  BY MovesEffect DEF Goto

LEMMA QuitEffect ==
  ASSUME Typed, NEW p \in Process, Quit(p)
  PROVE  /\ step'[p] = IF p \in Request THEN "done" ELSE "idle"
         /\ \A x \in Process : x # p => step'[x] = step[x] /\ seen'[x].id = seen[x].id
  BY MovesEffect DEF Quit

LEMMA ReservationFields ==
  ASSUME NEW q
  PROVE  /\ Reservation(q).id = q /\ Reservation(q).attempt = q
         /\ Reservation(q).status = "starting"
  BY DEF Reservation

LEMMA NoSessionFields ==
  NoSession.id = None /\ NoSession.status = "none" /\ NoSession.attempt = None
  BY DEF NoSession

LEMMA ActivateEffect ==
  ASSUME Typed, NEW s \in Request, Activate(s)
  PROVE  /\ session'.id = session.id
         /\ session'.attempt \in {session.attempt, None}
         /\ session'.status = session.status \/ (session'.status = "active" /\ CanActivate(s))
         /\ UNCHANGED <<cleanups, lock>>
<1>1. CASE CanActivate(s)
  <2>1. session' = [session EXCEPT !.status = "active", !.attempt = None, !.expired = FALSE]
    BY <1>1 DEF Activate
  <2> QED BY <1>1, <2>1 DEF Typed, RedisTyped, AnySession, Activate
<1>2. CASE ~CanActivate(s)
  <2>1. UNCHANGED <<session, cleanups, lock>>
    BY <1>2 DEF Activate
  <2> QED BY <2>1
<1> QED BY <1>1, <1>2

LEMMA TerminateEffect ==
  ASSUME NEW s, TerminateIfCurrent(s)
  PROVE  /\ \/ session.id = s /\ session' = NoSession /\ cleanups' = cleanups \cup {s}
            \/ session.id # s /\ UNCHANGED <<session, cleanups>>
         /\ UNCHANGED lock
  BY DEF TerminateIfCurrent

LEMMA HandleEventEffect ==
  ASSUME Typed, NEW h \in hooks, HandleEvent(h)
  PROVE  /\ \/ session' = NoSession /\ cleanups' = cleanups \cup {session.id} /\ session.id \in Request
            \/ session'.id = session.id /\ session'.attempt \in {session.attempt, None}
               /\ UNCHANGED cleanups
         /\ UNCHANGED <<lock, processes, publisher, observed>>
<1>1. h.session \in Request
  BY DEF Typed, RestTyped, AnyHook
<1>2. CASE h.event = "published"
  BY <1>1, <1>2, ActivateEffect DEF HandleEvent
<1>3. CASE h.event # "published"
  BY <1>1, <1>3, TerminateEffect DEF HandleEvent
<1> QED BY <1>2, <1>3 DEF HandleEvent

\* Where each process is, and that the names of processes and sessions differ.
LEMMA ProcessFacts ==
  ASSUME Typed
  PROVE  /\ Request \subseteq Process /\ Caller \subseteq Process /\ Worker \subseteq Process
         /\ session.id \in Request \cup {None} /\ None \notin Request
         /\ \A p \in Process : step[p] \notin Blank => seen[p].id \in Request
         /\ publisher \in [Request -> {"no-token", "invited", "sharing", "removed"}]
         /\ past \subseteq Request /\ cleanups \subseteq Request
         /\ \A h \in hooks : h.session \in Request
  BY SessionFields DEF Typed, ProcessesTyped, RestTyped, AnyHook, Process, RedisTyped

LEMMA SessionFacts ==
  ASSUME Typed
  PROVE  /\ session # NoSession \/ session.status # "none" => session.id \in Request
         /\ session = NoSession => session.status = "none" /\ session.id = None
  BY SessionFields DEF Typed
-----------------------------------------------------------------------------
\* Deadlines

LEMMA DeadlineInit == Init => OnlyLiveHasDeadline
  BY NoSessionFields DEF Init, OnlyLiveHasDeadline

LEMMA ActivateDeadline ==
  ASSUME Typed, OnlyLiveHasDeadline, NEW s \in Request, Activate(s)
  PROVE  OnlyLiveHasDeadline'
<1>1. CASE CanActivate(s)
  <2>1. /\ session' = [session EXCEPT !.status = "active", !.attempt = None, !.expired = FALSE]
        /\ deadline' = [deadline EXCEPT ![s] = "set"] /\ session.id = s
    BY <1>1 DEF Activate, CanActivate
  <2>2. session'.id = s /\ session'.status = "active"
    BY <2>1 DEF Typed, RedisTyped, AnySession
  <2> QED BY <2>1, <2>2 DEF OnlyLiveHasDeadline, Typed, RedisTyped
<1>2. CASE ~CanActivate(s)
  BY <1>2 DEF Activate, OnlyLiveHasDeadline
<1> QED BY <1>1, <1>2

LEMMA TerminateDeadline ==
  ASSUME Typed, OnlyLiveHasDeadline, NEW s \in Request, TerminateIfCurrent(s)
  PROVE  OnlyLiveHasDeadline'
  BY NoSessionFields DEF TerminateIfCurrent, OnlyLiveHasDeadline, Typed, RedisTyped

LEMMA HandleEventDeadline ==
  ASSUME Typed, OnlyLiveHasDeadline, NEW h \in hooks, HandleEvent(h)
  PROVE  OnlyLiveHasDeadline'
  BY ProcessFacts, ActivateDeadline, TerminateDeadline DEF HandleEvent

LEMMA DeadlineStep == Typed /\ OnlyLiveHasDeadline /\ [Next]_vars => OnlyLiveHasDeadline'
<1> SUFFICES ASSUME Typed, OnlyLiveHasDeadline, [Next]_vars PROVE OnlyLiveHasDeadline'
  OBVIOUS
<1> USE DEF redis, OnlyLiveHasDeadline
<1>1. ASSUME NEW q \in Request, Reserve(q) PROVE OnlyLiveHasDeadline'
  BY <1>1, ReservationFields, NoSessionFields DEF Reserve
<1>2. ASSUME NEW q \in Request, Look(q) PROVE OnlyLiveHasDeadline'
  BY <1>2 DEF Look
<1>3. ASSUME NEW q \in Request, LookForWinner(q) PROVE OnlyLiveHasDeadline'
  BY <1>3 DEF LookForWinner
<1>4. ASSUME NEW q \in Request, ProbeHolder(q) PROVE OnlyLiveHasDeadline'
  BY <1>4 DEF ProbeHolder
<1>5. ASSUME NEW q \in Request, ClaimStarting(q) PROVE OnlyLiveHasDeadline'
  BY <1>5 DEF ClaimStarting, Typed, RedisTyped, AnySession
<1>6. ASSUME NEW q \in Request, ReplaceExpired(q) PROVE OnlyLiveHasDeadline'
  BY <1>6, ReservationFields, NoSessionFields DEF ReplaceExpired, MayReplace
<1>7. ASSUME NEW q \in Request, EvictReclaimed(q) PROVE OnlyLiveHasDeadline'
  BY <1>7 DEF EvictReclaimed
<1>8. ASSUME NEW q \in Request, EvictReclaimedFails(q) PROVE OnlyLiveHasDeadline'
  BY <1>8 DEF EvictReclaimedFails
<1>9. ASSUME NEW q \in Request, Sign(q) PROVE OnlyLiveHasDeadline'
  BY <1>9 DEF Sign
<1>10. ASSUME NEW q \in Request, SignFails(q) PROVE OnlyLiveHasDeadline'
  BY <1>10 DEF SignFails
<1>11. ASSUME NEW q \in Request, ReleaseStarting(q) PROVE OnlyLiveHasDeadline'
  BY <1>11, NoSessionFields DEF ReleaseStarting, MayRelease, Released
<1>12. ASSUME NEW p \in Request \cup Caller, EndStale(p) PROVE OnlyLiveHasDeadline'
  BY <1>12, ProcessFacts, TerminateDeadline DEF EndStale, Blank
<1>13. ASSUME NEW p \in Request \cup Caller, EvictEnded(p) PROVE OnlyLiveHasDeadline'
  BY <1>13 DEF EvictEnded
<1>14. ASSUME NEW p \in Request \cup Caller, EvictEndedFails(p) PROVE OnlyLiveHasDeadline'
  BY <1>14 DEF EvictEndedFails
<1>15. ASSUME NEW c \in Caller, ReadCurrent(c) PROVE OnlyLiveHasDeadline'
  BY <1>15 DEF ReadCurrent
<1>16. ASSUME NEW c \in Caller, End(c) PROVE OnlyLiveHasDeadline'
  BY <1>16, SessionFields, TerminateDeadline DEF End, Typed
<1>17. ASSUME NEW c \in Caller, ProbeSeen(c) PROVE OnlyLiveHasDeadline'
  BY <1>17 DEF ProbeSeen
<1>18. ASSUME NEW c \in Caller, ActivateSeen(c) PROVE OnlyLiveHasDeadline'
  BY <1>18, ProcessFacts, ActivateDeadline DEF ActivateSeen, Blank
<1>19. ASSUME NEW c \in Caller, Expire(c) PROVE OnlyLiveHasDeadline'
  BY <1>19, ProcessFacts, TerminateDeadline DEF Expire, Blank
<1>20. ASSUME NEW c \in Caller, NEW s \in Request, ClaimDueDeadline(c, s) PROVE OnlyLiveHasDeadline'
  BY <1>20 DEF ClaimDueDeadline, ClaimedDeadline, Typed, RedisTyped
<1>21. ASSUME NEW w \in Worker, Clean(w) PROVE OnlyLiveHasDeadline'
  BY <1>21 DEF Clean
<1>22. ASSUME NEW w \in Worker, Unlock(w) PROVE OnlyLiveHasDeadline'
  BY <1>22 DEF Unlock
<1>23. ASSUME NEW w \in Worker, CleanFails(w) PROVE OnlyLiveHasDeadline'
  BY <1>23 DEF CleanFails
<1>24. ASSUME NEW w \in Worker, NEW s \in Request, ClaimCleanup(w, s) PROVE OnlyLiveHasDeadline'
  BY <1>24 DEF ClaimCleanup
<1>25. ASSUME NEW p \in Process, Abandon(p) PROVE OnlyLiveHasDeadline'
  BY <1>25 DEF Abandon
<1>26. ASSUME NEW s \in Request, PublishTrack(s) PROVE OnlyLiveHasDeadline'
  BY <1>26 DEF PublishTrack
<1>27. ASSUME NEW s \in Request, Mute(s) PROVE OnlyLiveHasDeadline'
  BY <1>27 DEF Mute
<1>28. ASSUME NEW s \in Request, StopSharing(s) PROVE OnlyLiveHasDeadline'
  BY <1>28 DEF StopSharing
<1>29. ASSUME NEW s \in Request, DeadlinePasses(s) PROVE OnlyLiveHasDeadline'
  BY <1>29 DEF DeadlinePasses, Typed, RedisTyped
<1>30. ASSUME NEW s \in Request, LockExpires(s) PROVE OnlyLiveHasDeadline'
  BY <1>30 DEF LockExpires
<1>31. ASSUME NEW h \in hooks, HandleHook(h) PROVE OnlyLiveHasDeadline'
  BY <1>31, HandleEventDeadline DEF HandleHook
<1>32. ASSUME NEW h \in hooks, HandleTwice(h) PROVE OnlyLiveHasDeadline'
  BY <1>32, HandleEventDeadline DEF HandleTwice
<1>33. ASSUME NEW h \in hooks, LoseHook(h) PROVE OnlyLiveHasDeadline'
  BY <1>33 DEF LoseHook
<1>34. CASE StartingLeasePasses
  BY <1>34 DEF StartingLeasePasses, Typed, RedisTyped, AnySession
<1>35. CASE RecordExpires
  BY <1>35, NoSessionFields DEF RecordExpires
<1>36. CASE UNCHANGED vars
  BY <1>36 DEF vars
<1> QED
  BY <1>1, <1>2, <1>3, <1>4, <1>5, <1>6, <1>7, <1>8, <1>9, <1>10, <1>11, <1>12, <1>13,
     <1>14, <1>15, <1>16, <1>17, <1>18, <1>19, <1>20, <1>21, <1>22, <1>23, <1>24, <1>25, <1>26,
     <1>27, <1>28, <1>29, <1>30, <1>31, <1>32, <1>33, <1>34, <1>35, <1>36 DEF Next, CallerStep, WorkerStep

LEMMA DeadlineAlways == Spec => []OnlyLiveHasDeadline
  BY TypedAlways, DeadlineInit, DeadlineStep, PTL DEF Spec

\* A deadline stands for the live session and for no other.
THEOREM DeadlineIsOfLive == Spec => []OnlyLiveHasDeadline
  BY DeadlineAlways
-----------------------------------------------------------------------------
\* The floor is taken once

LEMMA FloorInit == Init => FloorIsTakenOnce
  BY NoSessionFields DEF Init, FloorIsTakenOnce, Waiting, Blank, Process

LEMMA FloorStep == Typed /\ OnlyLiveHasDeadline /\ FloorIsTakenOnce /\ [Next]_vars => FloorIsTakenOnce'
<1> SUFFICES ASSUME Typed, OnlyLiveHasDeadline, FloorIsTakenOnce, [Next]_vars PROVE FloorIsTakenOnce'
  OBVIOUS
<1> USE DEF redis, processes, livekit, observed
<1>1. ASSUME NEW q \in Request, Reserve(q) PROVE FloorIsTakenOnce'
  BY <1>1, GotoEffect, ProcessFacts, ReservationFields, NoSessionFields
     DEF Reserve, NewHolder, FloorIsTakenOnce, Waiting, Blank
<1>2. ASSUME NEW q \in Request, Look(q) PROVE FloorIsTakenOnce'
  BY <1>2, MovesEffect, GotoEffect, QuitEffect, ProcessFacts, SessionFacts
     DEF Look, FloorIsTakenOnce, Waiting, Blank
<1>3. ASSUME NEW q \in Request, LookForWinner(q) PROVE FloorIsTakenOnce'
  BY <1>3, GotoEffect, QuitEffect, ProcessFacts, SessionFacts
     DEF LookForWinner, FloorIsTakenOnce, Waiting, Blank
<1>4. ASSUME NEW q \in Request, ProbeHolder(q) PROVE FloorIsTakenOnce'
  BY <1>4, MovesEffect, GotoEffect, QuitEffect, ProcessFacts
     DEF ProbeHolder, FloorIsTakenOnce, Waiting, Blank
<1>5. ASSUME NEW q \in Request, ClaimStarting(q) PROVE FloorIsTakenOnce'
  <2>1. session'.id = session.id
    BY <1>5 DEF ClaimStarting, Typed, RedisTyped, AnySession
  <2> QED BY <1>5, <2>1, GotoEffect, QuitEffect, ProcessFacts
       DEF ClaimStarting, FloorIsTakenOnce, Waiting, Blank
<1>6. ASSUME NEW q \in Request, ReplaceExpired(q) PROVE FloorIsTakenOnce'
  BY <1>6, GotoEffect, ProcessFacts, ReservationFields, NoSessionFields
     DEF ReplaceExpired, NewHolder, MayReplace, FloorIsTakenOnce, Waiting, Blank
<1>7. ASSUME NEW q \in Request, EvictReclaimed(q) PROVE FloorIsTakenOnce'
  BY <1>7, GotoEffect, ProcessFacts
     DEF EvictReclaimed, EvictPublisher, FloorIsTakenOnce, Waiting, Blank
<1>8. ASSUME NEW q \in Request, EvictReclaimedFails(q) PROVE FloorIsTakenOnce'
  BY <1>8, GotoEffect, ProcessFacts
     DEF EvictReclaimedFails, FloorIsTakenOnce, Waiting, Blank
<1>9. ASSUME NEW q \in Request, Sign(q) PROVE FloorIsTakenOnce'
  BY <1>9, QuitEffect, ProcessFacts
     DEF Sign, SignFor, FloorIsTakenOnce, Waiting, Blank
<1>10. ASSUME NEW q \in Request, SignFails(q) PROVE FloorIsTakenOnce'
  BY <1>10, GotoEffect, QuitEffect, ProcessFacts
     DEF SignFails, FloorIsTakenOnce, Waiting, Blank
<1>11. ASSUME NEW q \in Request, ReleaseStarting(q) PROVE FloorIsTakenOnce'
  BY <1>11, QuitEffect, ProcessFacts, NoSessionFields
     DEF ReleaseStarting, Released, MayRelease, FloorIsTakenOnce, Waiting, Blank
<1>12. ASSUME NEW p \in Request \cup Caller, EndStale(p) PROVE FloorIsTakenOnce'
  BY <1>12, GotoEffect, QuitEffect, ProcessFacts, TerminateEffect, NoSessionFields
     DEF EndStale, FloorIsTakenOnce, Waiting, Blank
<1>13. ASSUME NEW p \in Request \cup Caller, EvictEnded(p) PROVE FloorIsTakenOnce'
  BY <1>13, GotoEffect, QuitEffect, ProcessFacts
     DEF EvictEnded, EvictPublisher, GoOn, FloorIsTakenOnce, Waiting, Blank
<1>14. ASSUME NEW p \in Request \cup Caller, EvictEndedFails(p) PROVE FloorIsTakenOnce'
  BY <1>14, GotoEffect, QuitEffect, ProcessFacts
     DEF EvictEndedFails, GoOn, FloorIsTakenOnce, Waiting, Blank
<1>15. ASSUME NEW c \in Caller, ReadCurrent(c) PROVE FloorIsTakenOnce'
  BY <1>15, GotoEffect, ProcessFacts, SessionFacts
     DEF ReadCurrent, FloorIsTakenOnce, Waiting, Blank
<1>16. ASSUME NEW c \in Caller, End(c) PROVE FloorIsTakenOnce'
  BY <1>16, GotoEffect, ProcessFacts, TerminateEffect, NoSessionFields, SessionFacts
     DEF End, FloorIsTakenOnce, Waiting, Blank
<1>17. ASSUME NEW c \in Caller, ProbeSeen(c) PROVE FloorIsTakenOnce'
  BY <1>17, GotoEffect, QuitEffect, ProcessFacts
     DEF ProbeSeen, FloorIsTakenOnce, Waiting, Blank
<1>18. ASSUME NEW c \in Caller, ActivateSeen(c) PROVE FloorIsTakenOnce'
  BY <1>18, QuitEffect, ProcessFacts, ActivateEffect
     DEF ActivateSeen, FloorIsTakenOnce, Waiting, Blank
<1>19. ASSUME NEW c \in Caller, Expire(c) PROVE FloorIsTakenOnce'
  BY <1>19, QuitEffect, ProcessFacts, TerminateEffect, NoSessionFields
     DEF Expire, FloorIsTakenOnce, Waiting, Blank
<1>20. ASSUME NEW c \in Caller, NEW s \in Request, ClaimDueDeadline(c, s) PROVE FloorIsTakenOnce'
  <2>1. session.id = s
    BY <1>20 DEF ClaimDueDeadline, OnlyLiveHasDeadline
  <2> QED BY <1>20, <2>1, GotoEffect, ProcessFacts
       DEF ClaimDueDeadline, FloorIsTakenOnce, Waiting, Blank
<1>21. ASSUME NEW w \in Worker, Clean(w) PROVE FloorIsTakenOnce'
  BY <1>21, GotoEffect, ProcessFacts
     DEF Clean, EvictPublisher, FloorIsTakenOnce, Waiting, Blank
<1>22. ASSUME NEW w \in Worker, Unlock(w) PROVE FloorIsTakenOnce'
  BY <1>22, QuitEffect, ProcessFacts
     DEF Unlock, FloorIsTakenOnce, Waiting, Blank
<1>23. ASSUME NEW w \in Worker, CleanFails(w) PROVE FloorIsTakenOnce'
  BY <1>23, GotoEffect, ProcessFacts
     DEF CleanFails, AfterFailure, FloorIsTakenOnce, Waiting, Blank
<1>24. ASSUME NEW w \in Worker, NEW s \in Request, ClaimCleanup(w, s) PROVE FloorIsTakenOnce'
  BY <1>24, GotoEffect, ProcessFacts
     DEF ClaimCleanup, FloorIsTakenOnce, Waiting, Blank
<1>25. ASSUME NEW p \in Process, Abandon(p) PROVE FloorIsTakenOnce'
  BY <1>25, QuitEffect, ProcessFacts
     DEF Abandon, FloorIsTakenOnce, Waiting, Blank
<1>26. ASSUME NEW s \in Request, PublishTrack(s) PROVE FloorIsTakenOnce'
  BY <1>26, ProcessFacts
     DEF PublishTrack, Report, FloorIsTakenOnce, Waiting, Blank
<1>27. ASSUME NEW s \in Request, Mute(s) PROVE FloorIsTakenOnce'
  BY <1>27, ProcessFacts
     DEF Mute, FloorIsTakenOnce, Waiting, Blank
<1>28. ASSUME NEW s \in Request, StopSharing(s) PROVE FloorIsTakenOnce'
  BY <1>28, ProcessFacts
     DEF StopSharing, Report, FloorIsTakenOnce, Waiting, Blank
<1>29. ASSUME NEW s \in Request, DeadlinePasses(s) PROVE FloorIsTakenOnce'
  BY <1>29, ProcessFacts
     DEF DeadlinePasses, FloorIsTakenOnce, Waiting, Blank
<1>30. ASSUME NEW s \in Request, LockExpires(s) PROVE FloorIsTakenOnce'
  BY <1>30, ProcessFacts
     DEF LockExpires, FloorIsTakenOnce, Waiting, Blank
<1>31. ASSUME NEW h \in hooks, HandleHook(h) PROVE FloorIsTakenOnce'
  BY <1>31, ProcessFacts, HandleEventEffect, NoSessionFields
     DEF HandleHook, FloorIsTakenOnce, Waiting, Blank
<1>32. ASSUME NEW h \in hooks, HandleTwice(h) PROVE FloorIsTakenOnce'
  BY <1>32, ProcessFacts, HandleEventEffect, NoSessionFields
     DEF HandleTwice, FloorIsTakenOnce, Waiting, Blank
<1>33. ASSUME NEW h \in hooks, LoseHook(h) PROVE FloorIsTakenOnce'
  BY <1>33, ProcessFacts
     DEF LoseHook, FloorIsTakenOnce, Waiting, Blank
<1>34. CASE StartingLeasePasses
  BY <1>34, ProcessFacts
     DEF StartingLeasePasses, FloorIsTakenOnce, Waiting, Blank
<1>35. CASE RecordExpires
  BY <1>35, ProcessFacts, NoSessionFields, SessionFacts
     DEF RecordExpires, FloorIsTakenOnce, Waiting, Blank
<1>36. CASE UNCHANGED vars
  BY <1>36 DEF vars, FloorIsTakenOnce
<1> QED
  BY <1>1, <1>2, <1>3, <1>4, <1>5, <1>6, <1>7, <1>8, <1>9, <1>10, <1>11, <1>12, <1>13,
     <1>14, <1>15, <1>16, <1>17, <1>18, <1>19, <1>20, <1>21, <1>22, <1>23, <1>24, <1>25, <1>26,
     <1>27, <1>28, <1>29, <1>30, <1>31, <1>32, <1>33, <1>34, <1>35, <1>36 DEF Next, CallerStep, WorkerStep

LEMMA FloorAlways == Spec => []FloorIsTakenOnce
  BY TypedAlways, DeadlineAlways, FloorInit, FloorStep, PTL DEF Spec
-----------------------------------------------------------------------------
\* What is cleaned up has lost the floor

LEMMA CleanupInit == Init => CleanupIsLate
  BY NoSessionFields DEF Init, CleanupIsLate, Process

LEMMA CleanupStep == Typed /\ FloorIsTakenOnce /\ CleanupIsLate /\ [Next]_vars => CleanupIsLate'
<1> SUFFICES ASSUME Typed, FloorIsTakenOnce, CleanupIsLate, [Next]_vars PROVE CleanupIsLate'
  OBVIOUS
<1> USE DEF redis, processes, livekit, observed
<1>1. ASSUME NEW q \in Request, Reserve(q) PROVE CleanupIsLate'
  BY <1>1, GotoEffect, ProcessFacts, ReservationFields, NoSessionFields
     DEF Reserve, NewHolder, CleanupIsLate, FloorIsTakenOnce, Waiting, Blank
<1>2. ASSUME NEW q \in Request, Look(q) PROVE CleanupIsLate'
  BY <1>2, MovesEffect, GotoEffect, QuitEffect, ProcessFacts, SessionFacts
     DEF Look, CleanupIsLate, FloorIsTakenOnce, Waiting, Blank
<1>3. ASSUME NEW q \in Request, LookForWinner(q) PROVE CleanupIsLate'
  BY <1>3, GotoEffect, QuitEffect, ProcessFacts, SessionFacts
     DEF LookForWinner, CleanupIsLate, FloorIsTakenOnce, Waiting, Blank
<1>4. ASSUME NEW q \in Request, ProbeHolder(q) PROVE CleanupIsLate'
  BY <1>4, MovesEffect, GotoEffect, QuitEffect, ProcessFacts
     DEF ProbeHolder, CleanupIsLate, FloorIsTakenOnce, Waiting, Blank
<1>5. ASSUME NEW q \in Request, ClaimStarting(q) PROVE CleanupIsLate'
  <2>1. session'.id = session.id
    BY <1>5 DEF ClaimStarting, Typed, RedisTyped, AnySession
  <2> QED BY <1>5, <2>1, GotoEffect, QuitEffect, ProcessFacts DEF ClaimStarting, CleanupIsLate
<1>6. ASSUME NEW q \in Request, ReplaceExpired(q) PROVE CleanupIsLate'
  BY <1>6, GotoEffect, ProcessFacts, ReservationFields, NoSessionFields
     DEF ReplaceExpired, NewHolder, MayReplace, CleanupIsLate, FloorIsTakenOnce, Waiting, Blank
<1>7. ASSUME NEW q \in Request, EvictReclaimed(q) PROVE CleanupIsLate'
  BY <1>7, GotoEffect, ProcessFacts
     DEF EvictReclaimed, EvictPublisher, CleanupIsLate, FloorIsTakenOnce, Waiting, Blank
<1>8. ASSUME NEW q \in Request, EvictReclaimedFails(q) PROVE CleanupIsLate'
  BY <1>8, GotoEffect, ProcessFacts
     DEF EvictReclaimedFails, CleanupIsLate, FloorIsTakenOnce, Waiting, Blank
<1>9. ASSUME NEW q \in Request, Sign(q) PROVE CleanupIsLate'
  BY <1>9, QuitEffect, ProcessFacts
     DEF Sign, SignFor, CleanupIsLate, FloorIsTakenOnce, Waiting, Blank
<1>10. ASSUME NEW q \in Request, SignFails(q) PROVE CleanupIsLate'
  BY <1>10, GotoEffect, QuitEffect, ProcessFacts
     DEF SignFails, CleanupIsLate, FloorIsTakenOnce, Waiting, Blank
<1>11. ASSUME NEW q \in Request, ReleaseStarting(q) PROVE CleanupIsLate'
  BY <1>11, QuitEffect, ProcessFacts, NoSessionFields
     DEF ReleaseStarting, Released, MayRelease, CleanupIsLate, FloorIsTakenOnce, Waiting, Blank
<1>12. ASSUME NEW p \in Request \cup Caller, EndStale(p) PROVE CleanupIsLate'
  BY <1>12, GotoEffect, QuitEffect, ProcessFacts, TerminateEffect, NoSessionFields
     DEF EndStale, CleanupIsLate, FloorIsTakenOnce, Waiting, Blank
<1>13. ASSUME NEW p \in Request \cup Caller, EvictEnded(p) PROVE CleanupIsLate'
  BY <1>13, GotoEffect, QuitEffect, ProcessFacts
     DEF EvictEnded, EvictPublisher, GoOn, CleanupIsLate, FloorIsTakenOnce, Waiting, Blank
<1>14. ASSUME NEW p \in Request \cup Caller, EvictEndedFails(p) PROVE CleanupIsLate'
  BY <1>14, GotoEffect, QuitEffect, ProcessFacts
     DEF EvictEndedFails, GoOn, CleanupIsLate, FloorIsTakenOnce, Waiting, Blank
<1>15. ASSUME NEW c \in Caller, ReadCurrent(c) PROVE CleanupIsLate'
  BY <1>15, GotoEffect, ProcessFacts, SessionFacts
     DEF ReadCurrent, CleanupIsLate, FloorIsTakenOnce, Waiting, Blank
<1>16. ASSUME NEW c \in Caller, End(c) PROVE CleanupIsLate'
  BY <1>16, GotoEffect, ProcessFacts, TerminateEffect, NoSessionFields, SessionFacts
     DEF End, CleanupIsLate, FloorIsTakenOnce, Waiting, Blank
<1>17. ASSUME NEW c \in Caller, ProbeSeen(c) PROVE CleanupIsLate'
  BY <1>17, GotoEffect, QuitEffect, ProcessFacts
     DEF ProbeSeen, CleanupIsLate, FloorIsTakenOnce, Waiting, Blank
<1>18. ASSUME NEW c \in Caller, ActivateSeen(c) PROVE CleanupIsLate'
  BY <1>18, QuitEffect, ProcessFacts, ActivateEffect
     DEF ActivateSeen, CleanupIsLate, FloorIsTakenOnce, Waiting, Blank
<1>19. ASSUME NEW c \in Caller, Expire(c) PROVE CleanupIsLate'
  BY <1>19, QuitEffect, ProcessFacts, TerminateEffect, NoSessionFields
     DEF Expire, CleanupIsLate, FloorIsTakenOnce, Waiting, Blank
<1>20. ASSUME NEW c \in Caller, NEW s \in Request, ClaimDueDeadline(c, s) PROVE CleanupIsLate'
  BY <1>20, GotoEffect, ProcessFacts
     DEF ClaimDueDeadline, ClaimedDeadline, CleanupIsLate, FloorIsTakenOnce, Waiting, Blank
<1>21. ASSUME NEW w \in Worker, Clean(w) PROVE CleanupIsLate'
  BY <1>21, GotoEffect, ProcessFacts
     DEF Clean, EvictPublisher, CleanupIsLate, FloorIsTakenOnce, Waiting, Blank
<1>22. ASSUME NEW w \in Worker, Unlock(w) PROVE CleanupIsLate'
  BY <1>22, QuitEffect, ProcessFacts
     DEF Unlock, CleanupIsLate, FloorIsTakenOnce, Waiting, Blank
<1>23. ASSUME NEW w \in Worker, CleanFails(w) PROVE CleanupIsLate'
  BY <1>23, GotoEffect, ProcessFacts
     DEF CleanFails, AfterFailure, CleanupIsLate, FloorIsTakenOnce, Waiting, Blank
<1>24. ASSUME NEW w \in Worker, NEW s \in Request, ClaimCleanup(w, s) PROVE CleanupIsLate'
  BY <1>24, GotoEffect, ProcessFacts
     DEF ClaimCleanup, CleanupIsLate, FloorIsTakenOnce, Waiting, Blank
<1>25. ASSUME NEW p \in Process, Abandon(p) PROVE CleanupIsLate'
  BY <1>25, QuitEffect, ProcessFacts
     DEF Abandon, CleanupIsLate, FloorIsTakenOnce, Waiting, Blank
<1>26. ASSUME NEW s \in Request, PublishTrack(s) PROVE CleanupIsLate'
  BY <1>26, ProcessFacts
     DEF PublishTrack, Report, CleanupIsLate, FloorIsTakenOnce, Waiting, Blank
<1>27. ASSUME NEW s \in Request, Mute(s) PROVE CleanupIsLate'
  BY <1>27, ProcessFacts
     DEF Mute, CleanupIsLate, FloorIsTakenOnce, Waiting, Blank
<1>28. ASSUME NEW s \in Request, StopSharing(s) PROVE CleanupIsLate'
  BY <1>28, ProcessFacts
     DEF StopSharing, Report, CleanupIsLate, FloorIsTakenOnce, Waiting, Blank
<1>29. ASSUME NEW s \in Request, DeadlinePasses(s) PROVE CleanupIsLate'
  BY <1>29, ProcessFacts
     DEF DeadlinePasses, CleanupIsLate, FloorIsTakenOnce, Waiting, Blank
<1>30. ASSUME NEW s \in Request, LockExpires(s) PROVE CleanupIsLate'
  BY <1>30, ProcessFacts
     DEF LockExpires, CleanupIsLate, FloorIsTakenOnce, Waiting, Blank
<1>31. ASSUME NEW h \in hooks, HandleHook(h) PROVE CleanupIsLate'
  BY <1>31, ProcessFacts, HandleEventEffect, NoSessionFields
     DEF HandleHook, CleanupIsLate, FloorIsTakenOnce, Waiting, Blank
<1>32. ASSUME NEW h \in hooks, HandleTwice(h) PROVE CleanupIsLate'
  BY <1>32, ProcessFacts, HandleEventEffect, NoSessionFields
     DEF HandleTwice, CleanupIsLate, FloorIsTakenOnce, Waiting, Blank
<1>33. ASSUME NEW h \in hooks, LoseHook(h) PROVE CleanupIsLate'
  BY <1>33, ProcessFacts
     DEF LoseHook, CleanupIsLate, FloorIsTakenOnce, Waiting, Blank
<1>34. CASE StartingLeasePasses
  <2>1. session'.id = session.id
    BY <1>34 DEF StartingLeasePasses, Typed, RedisTyped, AnySession
  <2> QED BY <1>34, <2>1 DEF StartingLeasePasses, CleanupIsLate
<1>35. CASE RecordExpires
  BY <1>35, ProcessFacts, NoSessionFields, SessionFacts
     DEF RecordExpires, CleanupIsLate, FloorIsTakenOnce, Waiting, Blank
<1>36. CASE UNCHANGED vars
  BY <1>36 DEF vars, CleanupIsLate
<1> QED
  BY <1>1, <1>2, <1>3, <1>4, <1>5, <1>6, <1>7, <1>8, <1>9, <1>10, <1>11, <1>12, <1>13,
     <1>14, <1>15, <1>16, <1>17, <1>18, <1>19, <1>20, <1>21, <1>22, <1>23, <1>24, <1>25, <1>26,
     <1>27, <1>28, <1>29, <1>30, <1>31, <1>32, <1>33, <1>34, <1>35, <1>36 DEF Next, CallerStep, WorkerStep

LEMMA CleanupAlways == Spec => []CleanupIsLate
  BY TypedAlways, FloorAlways, CleanupInit, CleanupStep, PTL DEF Spec

\* LiveKit and the cleanup only ever take a publisher out whose session has
\* lost the floor, whatever is retried, claimed twice or handled late.
HolderIsNeverEvicted ==
    /\ session.id \notin cleanups
    /\ \A s \in Request : publisher[s] = "removed" => s # session.id

\* The session that has the floor keeps its publisher.
THEOREM HolderStays == Spec => []HolderIsNeverEvicted
<1>1. CleanupIsLate => HolderIsNeverEvicted
  BY DEF CleanupIsLate, HolderIsNeverEvicted
<1> QED
  BY CleanupAlways, <1>1, PTL
-----------------------------------------------------------------------------
\* Every token is accounted for

LEMMA TokensInit == Init => TokensAreOwed
  BY DEF Init, TokensAreOwed, IssuedIsAccountedFor, Process

LEMMA TokensStep == Typed /\ FloorIsTakenOnce /\ TokensAreOwed /\ [Next]_vars => TokensAreOwed'
<1> SUFFICES ASSUME Typed, FloorIsTakenOnce, TokensAreOwed, [Next]_vars PROVE TokensAreOwed'
  OBVIOUS
<1> USE DEF redis, processes, livekit, observed
<1>1. ASSUME NEW q \in Request, Reserve(q) PROVE TokensAreOwed'
  BY <1>1, GotoEffect, ProcessFacts, ReservationFields, NoSessionFields
     DEF Reserve, NewHolder, TokensAreOwed, IssuedIsAccountedFor, FloorIsTakenOnce, Waiting, Blank
<1>2. ASSUME NEW q \in Request, Look(q) PROVE TokensAreOwed'
  BY <1>2, MovesEffect, GotoEffect, QuitEffect, ProcessFacts, SessionFacts
     DEF Look, TokensAreOwed, IssuedIsAccountedFor, FloorIsTakenOnce, Waiting, Blank
<1>3. ASSUME NEW q \in Request, LookForWinner(q) PROVE TokensAreOwed'
  BY <1>3, GotoEffect, QuitEffect, ProcessFacts, SessionFacts
     DEF LookForWinner, TokensAreOwed, IssuedIsAccountedFor, FloorIsTakenOnce, Waiting, Blank
<1>4. ASSUME NEW q \in Request, ProbeHolder(q) PROVE TokensAreOwed'
  BY <1>4, MovesEffect, GotoEffect, QuitEffect, ProcessFacts
     DEF ProbeHolder, TokensAreOwed, IssuedIsAccountedFor, FloorIsTakenOnce, Waiting, Blank
<1>5. ASSUME NEW q \in Request, ClaimStarting(q) PROVE TokensAreOwed'
  <2>1. CASE session.id = seen[q].id /\ session.status = "starting"
    <3>1. session'.id = session.id /\ session'.attempt = q
      BY <1>5, <2>1 DEF ClaimStarting, Typed, RedisTyped, AnySession
    <3>2. q # session.id
      BY <1>5, SessionFacts, <2>1 DEF ClaimStarting, FloorIsTakenOnce, Waiting
    <3>3. /\ step'[q] = "sign-claimed" /\ seen'[q].id = session.id
          /\ \A x \in Process : x # q => step'[x] = step[x] /\ seen'[x].id = seen[x].id
      BY <1>5, <2>1, GotoEffect, ProcessFacts DEF ClaimStarting
    <3> QED BY <1>5, <3>1, <3>2, <3>3, ProcessFacts
         DEF ClaimStarting, TokensAreOwed, IssuedIsAccountedFor
  <2>2. CASE ~(session.id = seen[q].id /\ session.status = "starting")
    BY <1>5, <2>2, QuitEffect, ProcessFacts DEF ClaimStarting, TokensAreOwed, IssuedIsAccountedFor
  <2> QED BY <2>1, <2>2
<1>6. ASSUME NEW q \in Request, ReplaceExpired(q) PROVE TokensAreOwed'
  BY <1>6, GotoEffect, ProcessFacts, ReservationFields, NoSessionFields
     DEF ReplaceExpired, NewHolder, MayReplace, TokensAreOwed, IssuedIsAccountedFor, FloorIsTakenOnce, Waiting, Blank
<1>7. ASSUME NEW q \in Request, EvictReclaimed(q) PROVE TokensAreOwed'
  BY <1>7, GotoEffect, ProcessFacts
     DEF EvictReclaimed, EvictPublisher, TokensAreOwed, IssuedIsAccountedFor, FloorIsTakenOnce, Waiting, Blank
<1>8. ASSUME NEW q \in Request, EvictReclaimedFails(q) PROVE TokensAreOwed'
  BY <1>8, GotoEffect, ProcessFacts
     DEF EvictReclaimedFails, TokensAreOwed, IssuedIsAccountedFor, FloorIsTakenOnce, Waiting, Blank
<1>9. ASSUME NEW q \in Request, Sign(q) PROVE TokensAreOwed'
  BY <1>9, QuitEffect, ProcessFacts
     DEF Sign, SignFor, TokensAreOwed, IssuedIsAccountedFor, FloorIsTakenOnce, Waiting, Blank
<1>10. ASSUME NEW q \in Request, SignFails(q) PROVE TokensAreOwed'
  BY <1>10, GotoEffect, QuitEffect, ProcessFacts
     DEF SignFails, TokensAreOwed, IssuedIsAccountedFor, FloorIsTakenOnce, Waiting, Blank
<1>11. ASSUME NEW q \in Request, ReleaseStarting(q) PROVE TokensAreOwed'
  BY <1>11, QuitEffect, ProcessFacts, NoSessionFields
     DEF ReleaseStarting, Released, MayRelease, TokensAreOwed, IssuedIsAccountedFor, FloorIsTakenOnce, Waiting, Blank
<1>12. ASSUME NEW p \in Request \cup Caller, EndStale(p) PROVE TokensAreOwed'
  BY <1>12, GotoEffect, QuitEffect, ProcessFacts, TerminateEffect, NoSessionFields
     DEF EndStale, TokensAreOwed, IssuedIsAccountedFor, FloorIsTakenOnce, Waiting, Blank
<1>13. ASSUME NEW p \in Request \cup Caller, EvictEnded(p) PROVE TokensAreOwed'
  BY <1>13, GotoEffect, QuitEffect, ProcessFacts
     DEF EvictEnded, EvictPublisher, GoOn, TokensAreOwed, IssuedIsAccountedFor, FloorIsTakenOnce, Waiting, Blank
<1>14. ASSUME NEW p \in Request \cup Caller, EvictEndedFails(p) PROVE TokensAreOwed'
  BY <1>14, GotoEffect, QuitEffect, ProcessFacts
     DEF EvictEndedFails, GoOn, TokensAreOwed, IssuedIsAccountedFor, FloorIsTakenOnce, Waiting, Blank
<1>15. ASSUME NEW c \in Caller, ReadCurrent(c) PROVE TokensAreOwed'
  BY <1>15, GotoEffect, ProcessFacts, SessionFacts
     DEF ReadCurrent, TokensAreOwed, IssuedIsAccountedFor, FloorIsTakenOnce, Waiting, Blank
<1>16. ASSUME NEW c \in Caller, End(c) PROVE TokensAreOwed'
  BY <1>16, GotoEffect, ProcessFacts, TerminateEffect, NoSessionFields, SessionFacts
     DEF End, TokensAreOwed, IssuedIsAccountedFor, FloorIsTakenOnce, Waiting, Blank
<1>17. ASSUME NEW c \in Caller, ProbeSeen(c) PROVE TokensAreOwed'
  BY <1>17, GotoEffect, QuitEffect, ProcessFacts
     DEF ProbeSeen, TokensAreOwed, IssuedIsAccountedFor, FloorIsTakenOnce, Waiting, Blank
<1>18. ASSUME NEW c \in Caller, ActivateSeen(c) PROVE TokensAreOwed'
  BY <1>18, QuitEffect, ProcessFacts, ActivateEffect
     DEF ActivateSeen, TokensAreOwed, IssuedIsAccountedFor, FloorIsTakenOnce, Waiting, Blank
<1>19. ASSUME NEW c \in Caller, Expire(c) PROVE TokensAreOwed'
  BY <1>19, QuitEffect, ProcessFacts, TerminateEffect, NoSessionFields
     DEF Expire, TokensAreOwed, IssuedIsAccountedFor, FloorIsTakenOnce, Waiting, Blank
<1>20. ASSUME NEW c \in Caller, NEW s \in Request, ClaimDueDeadline(c, s) PROVE TokensAreOwed'
  BY <1>20, GotoEffect, ProcessFacts
     DEF ClaimDueDeadline, ClaimedDeadline, TokensAreOwed, IssuedIsAccountedFor, FloorIsTakenOnce, Waiting, Blank
<1>21. ASSUME NEW w \in Worker, Clean(w) PROVE TokensAreOwed'
  BY <1>21, GotoEffect, ProcessFacts
     DEF Clean, EvictPublisher, TokensAreOwed, IssuedIsAccountedFor, FloorIsTakenOnce, Waiting, Blank
<1>22. ASSUME NEW w \in Worker, Unlock(w) PROVE TokensAreOwed'
  BY <1>22, QuitEffect, ProcessFacts
     DEF Unlock, TokensAreOwed, IssuedIsAccountedFor, FloorIsTakenOnce, Waiting, Blank
<1>23. ASSUME NEW w \in Worker, CleanFails(w) PROVE TokensAreOwed'
  BY <1>23, GotoEffect, ProcessFacts
     DEF CleanFails, AfterFailure, TokensAreOwed, IssuedIsAccountedFor, FloorIsTakenOnce, Waiting, Blank
<1>24. ASSUME NEW w \in Worker, NEW s \in Request, ClaimCleanup(w, s) PROVE TokensAreOwed'
  BY <1>24, GotoEffect, ProcessFacts
     DEF ClaimCleanup, TokensAreOwed, IssuedIsAccountedFor, FloorIsTakenOnce, Waiting, Blank
<1>25. ASSUME NEW p \in Process, Abandon(p) PROVE TokensAreOwed'
  BY <1>25, QuitEffect, ProcessFacts
     DEF Abandon, TokensAreOwed, IssuedIsAccountedFor, FloorIsTakenOnce, Waiting, Blank
<1>26. ASSUME NEW s \in Request, PublishTrack(s) PROVE TokensAreOwed'
  BY <1>26, ProcessFacts
     DEF PublishTrack, Report, TokensAreOwed, IssuedIsAccountedFor, FloorIsTakenOnce, Waiting, Blank
<1>27. ASSUME NEW s \in Request, Mute(s) PROVE TokensAreOwed'
  BY <1>27, ProcessFacts
     DEF Mute, TokensAreOwed, IssuedIsAccountedFor, FloorIsTakenOnce, Waiting, Blank
<1>28. ASSUME NEW s \in Request, StopSharing(s) PROVE TokensAreOwed'
  BY <1>28, ProcessFacts
     DEF StopSharing, Report, TokensAreOwed, IssuedIsAccountedFor, FloorIsTakenOnce, Waiting, Blank
<1>29. ASSUME NEW s \in Request, DeadlinePasses(s) PROVE TokensAreOwed'
  BY <1>29, ProcessFacts
     DEF DeadlinePasses, TokensAreOwed, IssuedIsAccountedFor, FloorIsTakenOnce, Waiting, Blank
<1>30. ASSUME NEW s \in Request, LockExpires(s) PROVE TokensAreOwed'
  BY <1>30, ProcessFacts
     DEF LockExpires, TokensAreOwed, IssuedIsAccountedFor, FloorIsTakenOnce, Waiting, Blank
<1>31. ASSUME NEW h \in hooks, HandleHook(h) PROVE TokensAreOwed'
  BY <1>31, ProcessFacts, HandleEventEffect, NoSessionFields
     DEF HandleHook, TokensAreOwed, IssuedIsAccountedFor, FloorIsTakenOnce, Waiting, Blank
<1>32. ASSUME NEW h \in hooks, HandleTwice(h) PROVE TokensAreOwed'
  BY <1>32, ProcessFacts, HandleEventEffect, NoSessionFields
     DEF HandleTwice, TokensAreOwed, IssuedIsAccountedFor, FloorIsTakenOnce, Waiting, Blank
<1>33. ASSUME NEW h \in hooks, LoseHook(h) PROVE TokensAreOwed'
  BY <1>33, ProcessFacts
     DEF LoseHook, TokensAreOwed, IssuedIsAccountedFor, FloorIsTakenOnce, Waiting, Blank
<1>34. CASE StartingLeasePasses
  <2>1. session'.id = session.id /\ session'.attempt = session.attempt
    BY <1>34 DEF StartingLeasePasses, Typed, RedisTyped, AnySession
  <2> QED BY <1>34, <2>1 DEF StartingLeasePasses, TokensAreOwed, IssuedIsAccountedFor
<1>35. CASE RecordExpires
  BY <1>35, ProcessFacts, NoSessionFields, SessionFacts
     DEF RecordExpires, TokensAreOwed, IssuedIsAccountedFor, FloorIsTakenOnce, Waiting, Blank
<1>36. CASE UNCHANGED vars
  BY <1>36 DEF vars, TokensAreOwed, IssuedIsAccountedFor
<1> QED
  BY <1>1, <1>2, <1>3, <1>4, <1>5, <1>6, <1>7, <1>8, <1>9, <1>10, <1>11, <1>12, <1>13,
     <1>14, <1>15, <1>16, <1>17, <1>18, <1>19, <1>20, <1>21, <1>22, <1>23, <1>24, <1>25, <1>26,
     <1>27, <1>28, <1>29, <1>30, <1>31, <1>32, <1>33, <1>34, <1>35, <1>36 DEF Next, CallerStep, WorkerStep

\* No rollback of another attempt, takeover or failed cleanup leaves a
\* publisher behind that nobody will remove: only a starting record that runs
\* out and a token signed after the removal do.
THEOREM IssuedAccounted == Spec => []IssuedIsAccountedFor
<1>1. TokensAreOwed => IssuedIsAccountedFor
  BY DEF TokensAreOwed
<1> QED
  BY TypedAlways, FloorAlways, TokensInit, TokensStep, <1>1, PTL DEF Spec
-----------------------------------------------------------------------------
\* The safety of ScreenShareFloor

LEMMA ShownInit == Init => ActiveWasShown
  BY NoSessionFields DEF Init, ActiveWasShown

LEMMA ShownStep == Typed /\ FloorIsTakenOnce /\ ActiveWasShown /\ [Next]_vars => ActiveWasShown'
<1> SUFFICES ASSUME Typed, FloorIsTakenOnce, ActiveWasShown, [Next]_vars PROVE ActiveWasShown'
  OBVIOUS
<1> USE DEF redis, processes, livekit, observed
<1>1. ASSUME NEW q \in Request, Reserve(q) PROVE ActiveWasShown'
  BY <1>1, GotoEffect, ProcessFacts, ReservationFields, NoSessionFields
     DEF Reserve, NewHolder, ActiveWasShown, FloorIsTakenOnce, Waiting, Blank
<1>2. ASSUME NEW q \in Request, Look(q) PROVE ActiveWasShown'
  BY <1>2, MovesEffect, GotoEffect, QuitEffect, ProcessFacts, SessionFacts
     DEF Look, ActiveWasShown, FloorIsTakenOnce, Waiting, Blank
<1>3. ASSUME NEW q \in Request, LookForWinner(q) PROVE ActiveWasShown'
  BY <1>3, GotoEffect, QuitEffect, ProcessFacts, SessionFacts
     DEF LookForWinner, ActiveWasShown, FloorIsTakenOnce, Waiting, Blank
<1>4. ASSUME NEW q \in Request, ProbeHolder(q) PROVE ActiveWasShown'
  BY <1>4, MovesEffect, GotoEffect, QuitEffect, ProcessFacts
     DEF ProbeHolder, ActiveWasShown, FloorIsTakenOnce, Waiting, Blank
<1>5. ASSUME NEW q \in Request, ClaimStarting(q) PROVE ActiveWasShown'
  <2>1. session'.id = session.id
    BY <1>5 DEF ClaimStarting, Typed, RedisTyped, AnySession
  <2> QED BY <1>5, <2>1, GotoEffect, QuitEffect, ProcessFacts DEF ClaimStarting, ActiveWasShown
<1>6. ASSUME NEW q \in Request, ReplaceExpired(q) PROVE ActiveWasShown'
  BY <1>6, GotoEffect, ProcessFacts, ReservationFields, NoSessionFields
     DEF ReplaceExpired, NewHolder, MayReplace, ActiveWasShown, FloorIsTakenOnce, Waiting, Blank
<1>7. ASSUME NEW q \in Request, EvictReclaimed(q) PROVE ActiveWasShown'
  BY <1>7, GotoEffect, ProcessFacts
     DEF EvictReclaimed, EvictPublisher, ActiveWasShown, FloorIsTakenOnce, Waiting, Blank
<1>8. ASSUME NEW q \in Request, EvictReclaimedFails(q) PROVE ActiveWasShown'
  BY <1>8, GotoEffect, ProcessFacts
     DEF EvictReclaimedFails, ActiveWasShown, FloorIsTakenOnce, Waiting, Blank
<1>9. ASSUME NEW q \in Request, Sign(q) PROVE ActiveWasShown'
  BY <1>9, QuitEffect, ProcessFacts
     DEF Sign, SignFor, ActiveWasShown, FloorIsTakenOnce, Waiting, Blank
<1>10. ASSUME NEW q \in Request, SignFails(q) PROVE ActiveWasShown'
  BY <1>10, GotoEffect, QuitEffect, ProcessFacts
     DEF SignFails, ActiveWasShown, FloorIsTakenOnce, Waiting, Blank
<1>11. ASSUME NEW q \in Request, ReleaseStarting(q) PROVE ActiveWasShown'
  BY <1>11, QuitEffect, ProcessFacts, NoSessionFields
     DEF ReleaseStarting, Released, MayRelease, ActiveWasShown, FloorIsTakenOnce, Waiting, Blank
<1>12. ASSUME NEW p \in Request \cup Caller, EndStale(p) PROVE ActiveWasShown'
  BY <1>12, GotoEffect, QuitEffect, ProcessFacts, TerminateEffect, NoSessionFields
     DEF EndStale, ActiveWasShown, FloorIsTakenOnce, Waiting, Blank
<1>13. ASSUME NEW p \in Request \cup Caller, EvictEnded(p) PROVE ActiveWasShown'
  BY <1>13, GotoEffect, QuitEffect, ProcessFacts
     DEF EvictEnded, EvictPublisher, GoOn, ActiveWasShown, FloorIsTakenOnce, Waiting, Blank
<1>14. ASSUME NEW p \in Request \cup Caller, EvictEndedFails(p) PROVE ActiveWasShown'
  BY <1>14, GotoEffect, QuitEffect, ProcessFacts
     DEF EvictEndedFails, GoOn, ActiveWasShown, FloorIsTakenOnce, Waiting, Blank
<1>15. ASSUME NEW c \in Caller, ReadCurrent(c) PROVE ActiveWasShown'
  BY <1>15, GotoEffect, ProcessFacts, SessionFacts
     DEF ReadCurrent, ActiveWasShown, FloorIsTakenOnce, Waiting, Blank
<1>16. ASSUME NEW c \in Caller, End(c) PROVE ActiveWasShown'
  BY <1>16, GotoEffect, ProcessFacts, TerminateEffect, NoSessionFields, SessionFacts
     DEF End, ActiveWasShown, FloorIsTakenOnce, Waiting, Blank
<1>17. ASSUME NEW c \in Caller, ProbeSeen(c) PROVE ActiveWasShown'
  BY <1>17, GotoEffect, QuitEffect, ProcessFacts
     DEF ProbeSeen, HasActiveScreenTrack, ActiveWasShown, Blank
<1>18. ASSUME NEW c \in Caller, ActivateSeen(c) PROVE ActiveWasShown'
  BY <1>18, QuitEffect, ProcessFacts, ActivateEffect
     DEF ActivateSeen, ActiveWasShown, FloorIsTakenOnce, Waiting, Blank
<1>19. ASSUME NEW c \in Caller, Expire(c) PROVE ActiveWasShown'
  BY <1>19, QuitEffect, ProcessFacts, TerminateEffect, NoSessionFields
     DEF Expire, ActiveWasShown, FloorIsTakenOnce, Waiting, Blank
<1>20. ASSUME NEW c \in Caller, NEW s \in Request, ClaimDueDeadline(c, s) PROVE ActiveWasShown'
  BY <1>20, GotoEffect, ProcessFacts
     DEF ClaimDueDeadline, ClaimedDeadline, ActiveWasShown, FloorIsTakenOnce, Waiting, Blank
<1>21. ASSUME NEW w \in Worker, Clean(w) PROVE ActiveWasShown'
  BY <1>21, GotoEffect, ProcessFacts
     DEF Clean, EvictPublisher, ActiveWasShown, FloorIsTakenOnce, Waiting, Blank
<1>22. ASSUME NEW w \in Worker, Unlock(w) PROVE ActiveWasShown'
  BY <1>22, QuitEffect, ProcessFacts
     DEF Unlock, ActiveWasShown, FloorIsTakenOnce, Waiting, Blank
<1>23. ASSUME NEW w \in Worker, CleanFails(w) PROVE ActiveWasShown'
  BY <1>23, GotoEffect, ProcessFacts
     DEF CleanFails, AfterFailure, ActiveWasShown, FloorIsTakenOnce, Waiting, Blank
<1>24. ASSUME NEW w \in Worker, NEW s \in Request, ClaimCleanup(w, s) PROVE ActiveWasShown'
  BY <1>24, GotoEffect, ProcessFacts
     DEF ClaimCleanup, ActiveWasShown, FloorIsTakenOnce, Waiting, Blank
<1>25. ASSUME NEW p \in Process, Abandon(p) PROVE ActiveWasShown'
  BY <1>25, QuitEffect, ProcessFacts
     DEF Abandon, ActiveWasShown, FloorIsTakenOnce, Waiting, Blank
<1>26. ASSUME NEW s \in Request, PublishTrack(s) PROVE ActiveWasShown'
  <2>1. CASE session.id = s
    <3>1. shown'
      BY <1>26, <2>1 DEF PublishTrack
    <3> QED BY <3>1 DEF ActiveWasShown
  <2>2. CASE session.id # s
    <3>1. shown' = shown
      BY <1>26, <2>2 DEF PublishTrack, Typed, RestTyped
    <3>2. \A h \in hooks' : h \in hooks \/ h.session = s
      BY <1>26 DEF PublishTrack, Report
    <3> QED BY <1>26, <2>2, <3>1, <3>2, ProcessFacts DEF PublishTrack, ActiveWasShown
  <2> QED BY <2>1, <2>2
<1>27. ASSUME NEW s \in Request, Mute(s) PROVE ActiveWasShown'
  BY <1>27, ProcessFacts
     DEF Mute, ActiveWasShown, FloorIsTakenOnce, Waiting, Blank
<1>28. ASSUME NEW s \in Request, StopSharing(s) PROVE ActiveWasShown'
  BY <1>28, ProcessFacts
     DEF StopSharing, Report, ActiveWasShown, FloorIsTakenOnce, Waiting, Blank
<1>29. ASSUME NEW s \in Request, DeadlinePasses(s) PROVE ActiveWasShown'
  BY <1>29, ProcessFacts
     DEF DeadlinePasses, ActiveWasShown, FloorIsTakenOnce, Waiting, Blank
<1>30. ASSUME NEW s \in Request, LockExpires(s) PROVE ActiveWasShown'
  BY <1>30, ProcessFacts
     DEF LockExpires, ActiveWasShown, FloorIsTakenOnce, Waiting, Blank
<1>31. ASSUME NEW h \in hooks, HandleHook(h) PROVE ActiveWasShown'
  BY <1>31, ProcessFacts, HandleEventEffect, NoSessionFields
     DEF HandleHook, ActiveWasShown, FloorIsTakenOnce, Waiting, Blank
<1>32. ASSUME NEW h \in hooks, HandleTwice(h) PROVE ActiveWasShown'
  BY <1>32, ProcessFacts, HandleEventEffect, NoSessionFields
     DEF HandleTwice, ActiveWasShown, FloorIsTakenOnce, Waiting, Blank
<1>33. ASSUME NEW h \in hooks, LoseHook(h) PROVE ActiveWasShown'
  BY <1>33, ProcessFacts
     DEF LoseHook, ActiveWasShown, FloorIsTakenOnce, Waiting, Blank
<1>34. CASE StartingLeasePasses
  <2>1. session'.id = session.id
    BY <1>34 DEF StartingLeasePasses, Typed, RedisTyped, AnySession
  <2> QED BY <1>34, <2>1 DEF StartingLeasePasses, ActiveWasShown
<1>35. CASE RecordExpires
  BY <1>35, ProcessFacts, NoSessionFields, SessionFacts
     DEF RecordExpires, ActiveWasShown, FloorIsTakenOnce, Waiting, Blank
<1>36. CASE UNCHANGED vars
  BY <1>36 DEF vars, ActiveWasShown
<1> QED
  BY <1>1, <1>2, <1>3, <1>4, <1>5, <1>6, <1>7, <1>8, <1>9, <1>10, <1>11, <1>12, <1>13,
     <1>14, <1>15, <1>16, <1>17, <1>18, <1>19, <1>20, <1>21, <1>22, <1>23, <1>24, <1>25, <1>26,
     <1>27, <1>28, <1>29, <1>30, <1>31, <1>32, <1>33, <1>34, <1>35, <1>36 DEF Next, CallerStep, WorkerStep

LEMMA ShownAlways == Spec => []ActiveWasShown
  BY TypedAlways, FloorAlways, ShownInit, ShownStep, PTL DEF Spec

LEMMA FloorSpecInit == Init => Floor!Init
  BY NoSessionFields DEF Init, Floor!Init

\* A step of the floor, or one it does not see.
Maps == [Floor!Next]_(Floor!vars)

LEMMA StutterMaps ==
  ASSUME session'.id = session.id, UNCHANGED <<past, shown>>,
         session'.status = "active" <=> session.status = "active"
  PROVE  Maps
<1>1. (session'.status = "active") = (session.status = "active")
  OBVIOUS
<1> QED BY <1>1 DEF Maps, Floor!vars

LEMMA SameSessionMaps ==
  ASSUME UNCHANGED <<session, past, shown>>
  PROVE  Maps
  BY StutterMaps

LEMMA FinishMaps ==
  ASSUME Typed, FloorIsTakenOnce, session.id \in Request, session' = NoSession,
         UNCHANGED <<past, shown>>
  PROVE  Maps
<1>1. Floor!Finish(session.id)
  BY NoSessionFields, ProcessFacts DEF Floor!Finish, FloorIsTakenOnce
<1>2. \E s \in Request : Floor!Finish(s)
  BY <1>1 DEF Floor!Finish
<1> QED BY <1>2 DEF Maps, Floor!Next

LEMMA TakeMaps ==
  ASSUME Typed, FloorIsTakenOnce, NEW q \in Request, q \notin past,
         session = NoSession, session' = Reservation(q), NewHolder(q)
  PROVE  Maps
<1>1. Floor!Take(q)
  BY NoSessionFields, ReservationFields, ProcessFacts DEF Floor!Take, NewHolder
<1>2. \E s \in Request : Floor!Take(s)
  BY <1>1 DEF Floor!Take
<1> QED BY <1>2 DEF Maps, Floor!Next

LEMMA PushAsideMaps ==
  ASSUME Typed, FloorIsTakenOnce, NEW q \in Request, q \notin past,
         session.status = "starting", session' = Reservation(q), NewHolder(q)
  PROVE  Maps
<1>1. session.id \in Request /\ session.id \in past
  BY SessionFacts, ProcessFacts DEF FloorIsTakenOnce
<1>2. Floor!PushAside(session.id, q)
  BY <1>1, ReservationFields DEF Floor!PushAside, NewHolder
<1>3. \E s \in Request : \E t \in Request : Floor!PushAside(s, t)
  BY <1>1, <1>2 DEF Floor!PushAside
<1> QED BY <1>3 DEF Maps, Floor!Next

LEMMA ActivateMaps ==
  ASSUME Typed, NEW s \in Request, Activate(s), UNCHANGED <<past, shown>>,
         s = session.id => shown
  PROVE  Maps
<1>1. CASE CanActivate(s)
  <2>1. session' = [session EXCEPT !.status = "active", !.attempt = None, !.expired = FALSE]
    BY <1>1 DEF Activate
  <2>2. session'.id = session.id /\ session'.status = "active" /\ session.id = s
    BY <1>1, <2>1 DEF Typed, RedisTyped, AnySession, CanActivate
  <2>3. Floor!GoLive(s)
    BY <2>2 DEF Floor!GoLive, Typed, RestTyped
  <2>4. \E x \in Request : Floor!GoLive(x)
    BY <2>3 DEF Floor!GoLive
  <2> QED BY <2>4 DEF Maps, Floor!Next
<1>2. CASE ~CanActivate(s)
  BY <1>2, SameSessionMaps DEF Activate
<1> QED BY <1>1, <1>2

LEMMA TerminateMaps ==
  ASSUME Typed, FloorIsTakenOnce, NEW s \in Request, TerminateIfCurrent(s),
         UNCHANGED <<past, shown>>
  PROVE  Maps
  BY TerminateEffect, FinishMaps, SameSessionMaps

LEMMA HandleEventMaps ==
  ASSUME Typed, FloorIsTakenOnce, ActiveWasShown, NEW h \in hooks, HandleEvent(h)
  PROVE  Maps
<1>1. h.session \in Request /\ UNCHANGED <<past, shown>>
  BY ProcessFacts DEF HandleEvent, observed
<1>2. CASE h.event = "published"
  BY <1>1, <1>2, ActivateMaps DEF HandleEvent, ActiveWasShown
<1>3. CASE h.event # "published"
  BY <1>1, <1>3, TerminateMaps DEF HandleEvent
<1> QED BY <1>2, <1>3

LEMMA MapsStep == Typed /\ FloorIsTakenOnce /\ ActiveWasShown /\ [Next]_vars => Maps
<1> SUFFICES ASSUME Typed, FloorIsTakenOnce, ActiveWasShown, [Next]_vars PROVE Maps
  OBVIOUS
<1> USE DEF redis, livekit, observed
<1>1. ASSUME NEW q \in Request, Reserve(q) PROVE Maps
  <2>1. q \notin past
    BY <1>1 DEF Reserve, FloorIsTakenOnce, Waiting, Blank
  <2> QED BY <1>1, <2>1, TakeMaps, SameSessionMaps DEF Reserve
<1>2. ASSUME NEW q \in Request, Look(q) PROVE Maps
  BY <1>2, SameSessionMaps DEF Look
<1>3. ASSUME NEW q \in Request, LookForWinner(q) PROVE Maps
  BY <1>3, SameSessionMaps DEF LookForWinner
<1>4. ASSUME NEW q \in Request, ProbeHolder(q) PROVE Maps
  BY <1>4, SameSessionMaps DEF ProbeHolder
<1>5. ASSUME NEW q \in Request, ClaimStarting(q) PROVE Maps
  <2>1. session'.id = session.id /\ session'.status = session.status
    BY <1>5 DEF ClaimStarting, Typed, RedisTyped, AnySession
  <2> QED BY <1>5, <2>1, StutterMaps DEF ClaimStarting
<1>6. ASSUME NEW q \in Request, ReplaceExpired(q) PROVE Maps
  <2>1. q \notin past
    BY <1>6 DEF ReplaceExpired, FloorIsTakenOnce, Waiting
  <2> QED BY <1>6, <2>1, PushAsideMaps, SameSessionMaps DEF ReplaceExpired, MayReplace
<1>7. ASSUME NEW q \in Request, EvictReclaimed(q) PROVE Maps
  BY <1>7, SameSessionMaps DEF EvictReclaimed
<1>8. ASSUME NEW q \in Request, EvictReclaimedFails(q) PROVE Maps
  BY <1>8, SameSessionMaps DEF EvictReclaimedFails
<1>9. ASSUME NEW q \in Request, Sign(q) PROVE Maps
  BY <1>9, SameSessionMaps DEF Sign
<1>10. ASSUME NEW q \in Request, SignFails(q) PROVE Maps
  BY <1>10, SameSessionMaps DEF SignFails
<1>11. ASSUME NEW q \in Request, ReleaseStarting(q) PROVE Maps
  BY <1>11, FinishMaps, SameSessionMaps DEF ReleaseStarting, MayRelease, Released
<1>12. ASSUME NEW p \in Request \cup Caller, EndStale(p) PROVE Maps
  BY <1>12, ProcessFacts, TerminateMaps DEF EndStale, Blank
<1>13. ASSUME NEW p \in Request \cup Caller, EvictEnded(p) PROVE Maps
  BY <1>13, SameSessionMaps DEF EvictEnded
<1>14. ASSUME NEW p \in Request \cup Caller, EvictEndedFails(p) PROVE Maps
  BY <1>14, SameSessionMaps DEF EvictEndedFails
<1>15. ASSUME NEW c \in Caller, ReadCurrent(c) PROVE Maps
  BY <1>15, SameSessionMaps DEF ReadCurrent
<1>16. ASSUME NEW c \in Caller, End(c) PROVE Maps
  BY <1>16, SessionFacts, TerminateMaps DEF End
<1>17. ASSUME NEW c \in Caller, ProbeSeen(c) PROVE Maps
  BY <1>17, SameSessionMaps DEF ProbeSeen
<1>18. ASSUME NEW c \in Caller, ActivateSeen(c) PROVE Maps
  <2>1. seen[c].id \in Request /\ (seen[c].id = session.id => shown)
    BY <1>18, ProcessFacts DEF ActivateSeen, ActiveWasShown, Blank
  <2> QED BY <1>18, <2>1, ActivateMaps DEF ActivateSeen
<1>19. ASSUME NEW c \in Caller, Expire(c) PROVE Maps
  BY <1>19, ProcessFacts, TerminateMaps DEF Expire, Blank
<1>20. ASSUME NEW c \in Caller, NEW s \in Request, ClaimDueDeadline(c, s) PROVE Maps
  BY <1>20, SameSessionMaps DEF ClaimDueDeadline
<1>21. ASSUME NEW w \in Worker, Clean(w) PROVE Maps
  BY <1>21, SameSessionMaps DEF Clean
<1>22. ASSUME NEW w \in Worker, Unlock(w) PROVE Maps
  BY <1>22, SameSessionMaps DEF Unlock
<1>23. ASSUME NEW w \in Worker, CleanFails(w) PROVE Maps
  BY <1>23, SameSessionMaps DEF CleanFails
<1>24. ASSUME NEW w \in Worker, NEW s \in Request, ClaimCleanup(w, s) PROVE Maps
  BY <1>24, SameSessionMaps DEF ClaimCleanup
<1>25. ASSUME NEW p \in Process, Abandon(p) PROVE Maps
  BY <1>25, SameSessionMaps DEF Abandon
<1>26. ASSUME NEW s \in Request, PublishTrack(s) PROVE Maps
  <2>1. CASE session.id = s
    <3>1. Floor!Show
      BY <1>26, <2>1 DEF PublishTrack, Floor!Show
    <3> QED BY <3>1 DEF Maps, Floor!Next
  <2>2. CASE session.id # s
    <3>1. shown' = shown
      BY <1>26, <2>2 DEF PublishTrack, Typed, RestTyped
    <3> QED BY <1>26, <3>1, SameSessionMaps DEF PublishTrack
  <2> QED BY <2>1, <2>2
<1>27. ASSUME NEW s \in Request, Mute(s) PROVE Maps
  BY <1>27, SameSessionMaps DEF Mute
<1>28. ASSUME NEW s \in Request, StopSharing(s) PROVE Maps
  BY <1>28, SameSessionMaps DEF StopSharing
<1>29. ASSUME NEW s \in Request, DeadlinePasses(s) PROVE Maps
  BY <1>29, SameSessionMaps DEF DeadlinePasses
<1>30. ASSUME NEW s \in Request, LockExpires(s) PROVE Maps
  BY <1>30, SameSessionMaps DEF LockExpires
<1>31. ASSUME NEW h \in hooks, HandleHook(h) PROVE Maps
  BY <1>31, HandleEventMaps DEF HandleHook
<1>32. ASSUME NEW h \in hooks, HandleTwice(h) PROVE Maps
  BY <1>32, HandleEventMaps DEF HandleTwice
<1>33. ASSUME NEW h \in hooks, LoseHook(h) PROVE Maps
  BY <1>33, SameSessionMaps DEF LoseHook
<1>34. CASE StartingLeasePasses
  <2>1. session'.id = session.id /\ session'.status = session.status
    BY <1>34 DEF StartingLeasePasses, Typed, RedisTyped, AnySession
  <2> QED BY <1>34, <2>1, StutterMaps DEF StartingLeasePasses
<1>35. CASE RecordExpires
  BY <1>35, SessionFacts, FinishMaps DEF RecordExpires
<1>36. CASE UNCHANGED vars
  BY <1>36, SameSessionMaps DEF vars
<1> QED
  BY <1>1, <1>2, <1>3, <1>4, <1>5, <1>6, <1>7, <1>8, <1>9, <1>10, <1>11, <1>12, <1>13,
     <1>14, <1>15, <1>16, <1>17, <1>18, <1>19, <1>20, <1>21, <1>22, <1>23, <1>24, <1>25, <1>26,
     <1>27, <1>28, <1>29, <1>30, <1>31, <1>32, <1>33, <1>34, <1>35, <1>36 DEF Next, CallerStep, WorkerStep

\* The session of the Workspace follows the rules of the floor as far as safety
\* goes.  The fairness of ImplementsFloor is left to the run.
THEOREM FloorIsSafe == Spec => Floor!Init /\ [][Floor!Next]_(Floor!vars)
  BY FloorSpecInit, MapsStep, TypedAlways, FloorAlways, ShownAlways, PTL DEF Spec, Maps
=============================================================================
