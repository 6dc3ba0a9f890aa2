----------------------- MODULE ScreenShareViewersProofs -----------------------
(***************************************************************************)
(* What ScreenShareViewers keeps for any members, tokens, App Servers and  *)
(* runs, and for every number of removals and faults: its types, that a    *)
(* token is signed only for a member, and that no token of a removed       *)
(* member is forgotten while the session is live.                          *)
(***************************************************************************)
EXTENDS ScreenShareViewers, TLAPS

\* Types, and a run that is not revoking has nothing left to revoke.
Typed ==
    /\ TypeOK
    /\ \A r \in Run : step[r] # "revoke" => todo[r] = {} /\ gone[r] = {}

\* The lock of the membership row: a call that is under way is a member's,
\* and everything the revocation has come to is no member's.
RowsAreLocked ==
    /\ \A v \in Token : call[v] \in {"locked", "registered"} => holder[v] \in member
    /\ \A u \in handled : u \notin member
    /\ \A e \in inbox : e.user \notin member
    /\ \A u \in User : task[u] # "none" => u \notin member
    /\ \A r \in Run : step[r] # "idle" => target[r] \notin member

\* The registry of a live session has every identity that can still be used
\* to join it; what a run has revoked cannot be.
RegistryIsComplete ==
    /\ \A v \in Token : IsUsable(v) => call[v] = "done"
    /\ \A r \in Run : \A v \in gone[r] : ~IsUsable(v)
    /\ \A v \in Token :
          live /\ (call[v] = "registered" \/ IsUsable(v)) => v \in registry
    /\ NoTokenIsForgotten

\* A token is handed out only while its holder is a member.
TokensNeedMembership ==
    [][\A v \in Token : ~IsUsable(v) /\ IsUsable(v)'
                        => holder[v] \in member /\ holder[v] \in member']_vars

USE UserAssumption, HoldersAssumption, BoundsAssumption
-----------------------------------------------------------------------------
LEMMA TypedInit == Init => Typed
  BY DEF Init, Typed, TypeOK, Of

LEMMA TypedStep == Typed /\ [Next]_vars => Typed'
<1> SUFFICES ASSUME Typed, [Next]_vars PROVE Typed'
  OBVIOUS
<1> USE DEF Typed, TypeOK, Of, calls, runs, observed, Fault, Calls, Views, IsUsable, OutOfRoom
<1>1. ASSUME NEW v \in Token, LockMembership(v) PROVE Typed'
  BY <1>1 DEF LockMembership
<1>2. ASSUME NEW v \in Token, Register(v) PROVE Typed'
  BY <1>2 DEF Register
<1>3. ASSUME NEW v \in Token, Sign(v) PROVE Typed'
  BY <1>3 DEF Sign
<1>4. ASSUME NEW v \in Token, SignFails(v) PROVE Typed'
  BY <1>4 DEF SignFails
<1>4a. ASSUME NEW v \in Token, CallStops(v) PROVE Typed'
  BY <1>4a DEF CallStops
<1>5. ASSUME NEW v \in Token, Watch(v) PROVE Typed'
  BY <1>5 DEF Watch
<1>6. ASSUME NEW v \in Token, StopWatching(v) PROVE Typed'
  BY <1>6 DEF StopWatching
<1>7. ASSUME NEW v \in Token, TokenLapses(v) PROVE Typed'
  BY <1>7 DEF TokenLapses
<1>8. ASSUME NEW u \in User, RemoveMember(u) PROVE Typed'
  BY <1>8 DEF RemoveMember
<1>9. ASSUME NEW u \in User, RegistryExpires(u) PROVE Typed'
  BY <1>9 DEF RegistryExpires
<1>10. ASSUME NEW u \in User, TaskComesDue(u) PROVE Typed'
  BY <1>10 DEF TaskComesDue
<1>11. ASSUME NEW r \in Run, NEW u \in User, Claim(r, u) PROVE Typed'
  BY <1>11 DEF Claim, ClaimedTask
<1>12. ASSUME NEW e \in inbox, HandleRevocation(e) PROVE Typed'
  BY <1>12 DEF HandleRevocation
<1>13. ASSUME NEW e \in inbox, LoseRevocation(e) PROVE Typed'
  BY <1>13 DEF LoseRevocation
<1>14. ASSUME NEW r \in Run, List(r) PROVE Typed'
  BY <1>14 DEF List, Listed
<1>15. ASSUME NEW r \in Run, Complete(r) PROVE Typed'
  BY <1>15 DEF Complete
<1>16. ASSUME NEW r \in Run, NEW v \in Token, RevokeIdentity(r, v) PROVE Typed'
  BY <1>16 DEF RevokeIdentity
<1>17. ASSUME NEW r \in Run, NEW v \in Token, Unregister(r, v) PROVE Typed'
  BY <1>17 DEF Unregister
<1>18. ASSUME NEW r \in Run, NEW v \in Token, RevokeFails(r, v) PROVE Typed'
  BY <1>18 DEF RevokeFails
<1>19. ASSUME NEW r \in Run, Abandon(r) PROVE Typed'
  BY <1>19 DEF Abandon
<1>20. CASE SessionEnds
  BY <1>20 DEF SessionEnds
<1>21. CASE UNCHANGED vars
  BY <1>21 DEF vars
<1> QED
  BY <1>1, <1>2, <1>3, <1>4, <1>4a, <1>5, <1>6, <1>7, <1>8, <1>9, <1>10, <1>11, <1>12, <1>13,
     <1>14, <1>15, <1>16, <1>17, <1>18, <1>19, <1>20, <1>21 DEF Next, RunStep

LEMMA TypedAlways == Spec => []Typed
  BY TypedInit, TypedStep, PTL DEF Spec

\* Every variable keeps to its type, and a run only works on its own target.
THEOREM ViewersTypeCorrect == Spec => []TypeOK
<1>1. Typed => TypeOK
  BY DEF Typed
<1> QED
  BY TypedAlways, <1>1, PTL
-----------------------------------------------------------------------------
\* The membership row and the revocation

LEMMA RowsInit == Init => RowsAreLocked
  BY DEF Init, RowsAreLocked

LEMMA RowsStep == Typed /\ RowsAreLocked /\ [Next]_vars => RowsAreLocked'
<1> SUFFICES ASSUME Typed, RowsAreLocked, [Next]_vars PROVE RowsAreLocked'
  OBVIOUS
<1> USE DEF Typed, TypeOK, RowsAreLocked, Of, calls, runs, observed, Calls, Views
<1>1. ASSUME NEW v \in Token, LockMembership(v) PROVE RowsAreLocked'
  BY <1>1 DEF LockMembership
<1>2. ASSUME NEW v \in Token, Register(v) PROVE RowsAreLocked'
  BY <1>2 DEF Register
<1>3. ASSUME NEW v \in Token, Sign(v) PROVE RowsAreLocked'
  BY <1>3 DEF Sign
<1>4. ASSUME NEW v \in Token, SignFails(v) PROVE RowsAreLocked'
  BY <1>4 DEF SignFails
<1>4a. ASSUME NEW v \in Token, CallStops(v) PROVE RowsAreLocked'
  BY <1>4a DEF CallStops
<1>5. ASSUME NEW v \in Token, Watch(v) PROVE RowsAreLocked'
  BY <1>5 DEF Watch
<1>6. ASSUME NEW v \in Token, StopWatching(v) PROVE RowsAreLocked'
  BY <1>6 DEF StopWatching
<1>7. ASSUME NEW v \in Token, TokenLapses(v) PROVE RowsAreLocked'
  BY <1>7 DEF TokenLapses
<1>8. ASSUME NEW u \in User, RemoveMember(u) PROVE RowsAreLocked'
  BY <1>8 DEF RemoveMember, RowIsFree
<1>9. ASSUME NEW u \in User, RegistryExpires(u) PROVE RowsAreLocked'
  BY <1>9 DEF RegistryExpires
<1>10. ASSUME NEW u \in User, TaskComesDue(u) PROVE RowsAreLocked'
  BY <1>10 DEF TaskComesDue
<1>11. ASSUME NEW r \in Run, NEW u \in User, Claim(r, u) PROVE RowsAreLocked'
  BY <1>11 DEF Claim
<1>12. ASSUME NEW e \in inbox, HandleRevocation(e) PROVE RowsAreLocked'
  BY <1>12 DEF HandleRevocation
<1>13. ASSUME NEW e \in inbox, LoseRevocation(e) PROVE RowsAreLocked'
  BY <1>13 DEF LoseRevocation
<1>14. ASSUME NEW r \in Run, List(r) PROVE RowsAreLocked'
  BY <1>14 DEF List
<1>15. ASSUME NEW r \in Run, Complete(r) PROVE RowsAreLocked'
  BY <1>15 DEF Complete
<1>16. ASSUME NEW r \in Run, NEW v \in Token, RevokeIdentity(r, v) PROVE RowsAreLocked'
  BY <1>16 DEF RevokeIdentity
<1>17. ASSUME NEW r \in Run, NEW v \in Token, Unregister(r, v) PROVE RowsAreLocked'
  BY <1>17 DEF Unregister
<1>18. ASSUME NEW r \in Run, NEW v \in Token, RevokeFails(r, v) PROVE RowsAreLocked'
  BY <1>18 DEF RevokeFails
<1>19. ASSUME NEW r \in Run, Abandon(r) PROVE RowsAreLocked'
  BY <1>19 DEF Abandon
<1>20. CASE SessionEnds
  BY <1>20 DEF SessionEnds
<1>21. CASE UNCHANGED vars
  BY <1>21 DEF vars
<1> QED
  BY <1>1, <1>2, <1>3, <1>4, <1>4a, <1>5, <1>6, <1>7, <1>8, <1>9, <1>10, <1>11, <1>12, <1>13,
     <1>14, <1>15, <1>16, <1>17, <1>18, <1>19, <1>20, <1>21 DEF Next, RunStep

LEMMA RowsAlways == Spec => []RowsAreLocked
  BY TypedAlways, RowsInit, RowsStep, PTL DEF Spec

\* No call signs a token for a user whose membership has ended.
THEOREM TokensAreMembers == Spec => TokensNeedMembership
<1> DEFINE Needs ==
      \A v \in Token : ~IsUsable(v) /\ IsUsable(v)'
                       => holder[v] \in member /\ holder[v] \in member'
<1>1. Typed /\ RowsAreLocked /\ [Next]_vars => [Needs]_vars
  <2> SUFFICES ASSUME Typed, RowsAreLocked, Next, NEW v \in Token,
                      ~IsUsable(v), IsUsable(v)'
               PROVE  holder[v] \in member /\ holder[v] \in member'
    OBVIOUS
  <2>1. ASSUME NEW x \in Token, Sign(x)
        PROVE  holder[v] \in member /\ holder[v] \in member'
    BY <2>1 DEF Sign, Views, IsUsable, Typed, TypeOK, RowsAreLocked
  <2>2. \E x \in Token : Sign(x)
    BY DEF Next, RunStep, LockMembership, Register, SignFails, CallStops, Watch, StopWatching,
           TokenLapses, RemoveMember, RegistryExpires, TaskComesDue, Claim,
           HandleRevocation, LoseRevocation, List, Complete, RevokeIdentity,
           Unregister, RevokeFails, Abandon, SessionEnds, Views, Typed, TypeOK,
           IsUsable, OutOfRoom, IsInside
  <2> QED BY <2>1, <2>2
<1> QED
  BY TypedAlways, RowsAlways, <1>1, PTL DEF Spec, TokensNeedMembership
-----------------------------------------------------------------------------
\* The registry

LEMMA RegistryInit == Init => RegistryIsComplete
  BY DEF Init, RegistryIsComplete, NoTokenIsForgotten, IsUsable

LEMMA RegistryStep == Typed /\ RowsAreLocked /\ RegistryIsComplete /\ [Next]_vars => RegistryIsComplete'
<1> SUFFICES ASSUME Typed, RowsAreLocked, RegistryIsComplete, [Next]_vars PROVE RegistryIsComplete'
  OBVIOUS
<1> USE DEF Typed, TypeOK, RegistryIsComplete, NoTokenIsForgotten, Of, calls,
           runs, observed, Calls, Views, IsUsable, OutOfRoom
<1>1. ASSUME NEW v \in Token, LockMembership(v) PROVE RegistryIsComplete'
  BY <1>1 DEF LockMembership
<1>2. ASSUME NEW v \in Token, Register(v) PROVE RegistryIsComplete'
  BY <1>2 DEF Register
<1>3. ASSUME NEW v \in Token, Sign(v) PROVE RegistryIsComplete'
  BY <1>3 DEF Sign, RowsAreLocked
<1>4. ASSUME NEW v \in Token, SignFails(v) PROVE RegistryIsComplete'
  BY <1>4 DEF SignFails
<1>4a. ASSUME NEW v \in Token, CallStops(v) PROVE RegistryIsComplete'
  BY <1>4a DEF CallStops
<1>5. ASSUME NEW v \in Token, Watch(v) PROVE RegistryIsComplete'
  BY <1>5 DEF Watch
<1>6. ASSUME NEW v \in Token, StopWatching(v) PROVE RegistryIsComplete'
  BY <1>6 DEF StopWatching
<1>7. ASSUME NEW v \in Token, TokenLapses(v) PROVE RegistryIsComplete'
  BY <1>7 DEF TokenLapses
<1>8. ASSUME NEW u \in User, RemoveMember(u) PROVE RegistryIsComplete'
  BY <1>8 DEF RemoveMember
<1>9. ASSUME NEW u \in User, RegistryExpires(u) PROVE RegistryIsComplete'
  BY <1>9 DEF RegistryExpires, RegistryMayExpire
<1>10. ASSUME NEW u \in User, TaskComesDue(u) PROVE RegistryIsComplete'
  BY <1>10 DEF TaskComesDue
<1>11. ASSUME NEW r \in Run, NEW u \in User, Claim(r, u) PROVE RegistryIsComplete'
  BY <1>11 DEF Claim, ClaimedTask
<1>12. ASSUME NEW e \in inbox, HandleRevocation(e) PROVE RegistryIsComplete'
  BY <1>12 DEF HandleRevocation
<1>13. ASSUME NEW e \in inbox, LoseRevocation(e) PROVE RegistryIsComplete'
  BY <1>13 DEF LoseRevocation
<1>14. ASSUME NEW r \in Run, List(r) PROVE RegistryIsComplete'
  BY <1>14 DEF List, Listed
<1>15. ASSUME NEW r \in Run, Complete(r) PROVE RegistryIsComplete'
  BY <1>15 DEF Complete, IsDone
<1>16. ASSUME NEW r \in Run, NEW v \in Token, RevokeIdentity(r, v) PROVE RegistryIsComplete'
  BY <1>16 DEF RevokeIdentity
<1>17. ASSUME NEW r \in Run, NEW v \in Token, Unregister(r, v) PROVE RegistryIsComplete'
  BY <1>17 DEF Unregister, RowsAreLocked
<1>18. ASSUME NEW r \in Run, NEW v \in Token, RevokeFails(r, v) PROVE RegistryIsComplete'
  BY <1>18 DEF RevokeFails
<1>19. ASSUME NEW r \in Run, Abandon(r) PROVE RegistryIsComplete'
  BY <1>19 DEF Abandon
<1>20. CASE SessionEnds
  BY <1>20 DEF SessionEnds
<1>21. CASE UNCHANGED vars
  BY <1>21 DEF vars
<1> QED
  BY <1>1, <1>2, <1>3, <1>4, <1>4a, <1>5, <1>6, <1>7, <1>8, <1>9, <1>10, <1>11, <1>12, <1>13,
     <1>14, <1>15, <1>16, <1>17, <1>18, <1>19, <1>20, <1>21 DEF Next, RunStep

\* Once a revocation was taken in and no task is left of it, no token of the
\* removed member can be used to join the live session.
THEOREM NoTokenForgotten == Spec => []NoTokenIsForgotten
<1>1. RegistryIsComplete => NoTokenIsForgotten
  BY DEF RegistryIsComplete
<1> QED
  BY TypedAlways, RowsAlways, RegistryInit, RegistryStep, <1>1, PTL DEF Spec
=============================================================================
