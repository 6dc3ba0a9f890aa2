---------------------- MODULE MembershipRevocationProofs ----------------------
(***************************************************************************)
(* What MembershipRevocation keeps for every number of publishers, servers *)
(* and sockets, and for every bound: its types, the rule of the claims,    *)
(* that no handled removal leaves a socket in the room, and that the rows  *)
(* are a reliable outbox as far as safety goes.                            *)
(***************************************************************************)
EXTENDS MembershipRevocation, TLAPS

\* The steps between the claim of a row and the update that ends it.
Working(p) == step[p] \in {"publish", "deliver", "fail"}

\* Types, and a publisher that is past the choice of a row has one.
Typed ==
    /\ TypeOK
    /\ \A p \in Publisher : step[p] \notin {"idle", "leave"} => target[p] \in Row

\* Rows come into being in the order of the removals, and nobody deals with a
\* row that is not there yet.
RowsExist ==
    /\ \A r \in Row : status[r] # "none" <=> r <= removals
    /\ \A p \in Publisher : step[p] \notin {"idle", "leave"} => target[p] <= removals
    /\ \A n \in Server : \A e \in inbox[n] : e.row <= removals
    /\ \A n \in Server : \A r \in handled[n] : r <= removals

\* Only what has been published can be marked as delivered.
DeliveredIsPublished ==
    /\ \A p \in Publisher : step[p] = "deliver" => target[p] \in published
    /\ \A r \in Row : status[r] = "delivered" => r \in published

\* A claim is held under the number of the latest attempt, and no two
\* publishers at work on a row were given the same number.
TokensDiffer ==
    /\ \A r \in Row : status[r] = "publishing" => claim[r] = attempts[r]
    /\ \A p \in Publisher : Working(p) => token[p] <= attempts[target[p]]
    /\ \A p, q \in Publisher :
          Working(p) /\ Working(q) /\ target[p] = target[q] /\ p # q
          => token[p] # token[q]

\* What the fence has to keep between the steps of a join: a join that was
\* granted before a handled removal finds the socket fenced when it goes on.
FenceHolds ==
    /\ \A s \in Socket :
          /\ join[s] # "idle" \/ room[s] # Outside => connected[s]
          /\ granted[s] <= removals
    /\ \A s \in Socket : \A r \in handled[Home[s]] :
          join[s] = "allowed" /\ granted[s] < r => fenced[s]
    /\ HandledMeansOutside

USE HomeAssumption, BoundsAssumption
-----------------------------------------------------------------------------
LEMMA TypedInit == Init => Typed
  BY DEF Init, Typed, TypeOK, Row, Epoch, Outside

LEMMA EndClaimType ==
  ASSUME Typed, NEW p \in Publisher, NEW next \in {"pending", "delivered"},
         step[p] \in {"deliver", "fail"}, EndClaim(p, next, FALSE)
  PROVE  /\ member' \in BOOLEAN /\ removals' \in Epoch
         /\ status' \in [Row -> {"none", "pending", "publishing", "delivered"}]
         /\ due' \in [Row -> BOOLEAN] /\ stale' \in [Row -> BOOLEAN]
         /\ claim' \in [Row -> Nat] /\ attempts' \in [Row -> Nat]
         /\ step' \in [Publisher -> {"idle", "leave", "claim", "publish", "deliver", "fail"}]
<1> target[p] \in Row
  BY DEF Typed
<1>1. CASE HoldsClaim(p)
  <2>1. /\ status' = [status EXCEPT ![target[p]] = next]
        /\ due' = [due EXCEPT ![target[p]] = FALSE]
        /\ claim' = [claim EXCEPT ![target[p]] = 0]
        /\ stale' = [stale EXCEPT ![target[p]] = FALSE]
        /\ step' = [step EXCEPT ![p] = "idle"]
        /\ UNCHANGED <<member, removals, attempts>>
    BY <1>1 DEF EndClaim
  <2> QED BY <2>1 DEF Typed, TypeOK
<1>2. CASE ~HoldsClaim(p)
  BY <1>2 DEF Typed, TypeOK, EndClaim
<1> QED BY <1>1, <1>2

LEMMA GoneType ==
  ASSUME Typed, NEW S, Gone(S)
  PROVE  /\ connected' \in [Socket -> BOOLEAN] /\ fenced' \in [Socket -> BOOLEAN]
         /\ evicting' \in [Socket -> BOOLEAN]
         /\ join' \in [Socket -> {"idle", "allowed", "entered"}]
         /\ granted' \in [Socket -> Epoch]
         /\ room' \in [Socket -> Epoch \cup {Outside}]
<1> USE DEF Typed, TypeOK, Gone
<1>1. connected' \in [Socket -> BOOLEAN]
  OBVIOUS
<1>2. fenced' \in [Socket -> BOOLEAN]
  OBVIOUS
<1>3. evicting' \in [Socket -> BOOLEAN]
  OBVIOUS
<1>4. join' \in [Socket -> {"idle", "allowed", "entered"}]
  OBVIOUS
<1>5. granted' \in [Socket -> Epoch]
  BY DEF Epoch
<1>6. room' \in [Socket -> Epoch \cup {Outside}]
  OBVIOUS
<1> QED
  BY <1>1, <1>2, <1>3, <1>4, <1>5, <1>6

LEMMA EnqueueType ==
  ASSUME Typed, NEW p \in Publisher, Enqueue(p)
  PROVE  Typed'
<1>1. removals + 1 \in Row /\ removals' \in Epoch
  BY DEF Typed, TypeOK, Enqueue, Row, Epoch
<1> QED
  BY <1>1 DEF Typed, TypeOK, Enqueue, sockets, observed

LEMMA TypedStep == Typed /\ [Next]_vars => Typed'
<1> SUFFICES ASSUME Typed, [Next]_vars PROVE Typed'
  OBVIOUS
<1> USE DEF database, publishers, sockets, observed, Fault
<1>1. CASE AcceptInvitation
  BY <1>1 DEF Typed, TypeOK, AcceptInvitation
<1>2. ASSUME NEW p \in Publisher, RemoveMember(p) PROVE Typed'
  BY <1>2, EnqueueType DEF RemoveMember
<1>3. ASSUME NEW p \in Publisher, StartLeave(p) PROVE Typed'
  BY <1>3 DEF Typed, TypeOK, StartLeave
<1>4. ASSUME NEW p \in Publisher, LeaveWorkspace(p) PROVE Typed'
  <2>1. CASE removals < MaxRemovals
    BY <1>4, <2>1, EnqueueType DEF LeaveWorkspace
  <2>2. CASE ~(removals < MaxRemovals)
    BY <1>4, <2>2 DEF Typed, TypeOK, LeaveWorkspace
  <2> QED BY <2>1, <2>2
<1>5. ASSUME NEW p \in Publisher, Claim(p) PROVE Typed'
  <2>1. CASE IsDue(target[p])
    <3>1. target[p] \in Row /\ attempts[target[p]] + 1 \in Nat
      BY <1>5 DEF Typed, TypeOK, Claim
    <3>2. /\ status' \in [Row -> {"none", "pending", "publishing", "delivered"}]
          /\ stale' \in [Row -> BOOLEAN]
      BY <1>5, <2>1 DEF Typed, TypeOK, Claim
    <3>3. /\ claim' \in [Row -> Nat] /\ attempts' \in [Row -> Nat]
          /\ token' \in [Publisher -> Nat]
      BY <1>5, <2>1, <3>1 DEF Typed, TypeOK, Claim, NextAttempt
    <3>4. /\ step' \in [Publisher -> {"idle", "leave", "claim", "publish", "deliver", "fail"}]
          /\ \A q \in Publisher : step'[q] \notin {"idle", "leave"} => target[q] \in Row
      BY <1>5, <2>1, <3>1 DEF Typed, TypeOK, Claim
    <3> QED BY <1>5, <3>2, <3>3, <3>4 DEF Typed, TypeOK, Claim
  <2>2. CASE ~IsDue(target[p])
    BY <1>5, <2>2 DEF Typed, TypeOK, Claim
  <2> QED BY <2>1, <2>2
<1>6. ASSUME NEW p \in Publisher, Publish(p) PROVE Typed'
  BY <1>6 DEF Typed, TypeOK, Publish, SendEvent
<1>7. ASSUME NEW p \in Publisher, MarkDelivered(p) PROVE Typed'
  BY <1>7, EndClaimType DEF Typed, TypeOK, MarkDelivered, EndClaim
<1>8. ASSUME NEW p \in Publisher, MarkPublishFailure(p) PROVE Typed'
  BY <1>8, EndClaimType DEF Typed, TypeOK, MarkPublishFailure, EndClaim
<1>9. ASSUME NEW p \in Publisher, PublishFails(p) PROVE Typed'
  BY <1>9 DEF Typed, TypeOK, PublishFails, SendEvent
<1>10. ASSUME NEW p \in Publisher, DeliverFails(p) PROVE Typed'
  BY <1>10 DEF Typed, TypeOK, DeliverFails
<1>11. ASSUME NEW p \in Publisher, Abandon(p) PROVE Typed'
  BY <1>11 DEF Typed, TypeOK, Abandon
<1>12. ASSUME NEW p \in Publisher, NEW r \in Row, Sweep(p, r) PROVE Typed'
  BY <1>12 DEF Typed, TypeOK, Sweep
<1>13. ASSUME NEW r \in Row, BecomesDue(r) PROVE Typed'
  BY <1>13 DEF Typed, TypeOK, BecomesDue
<1>14. ASSUME NEW r \in Row, ClaimExpires(r) PROVE Typed'
  BY <1>14 DEF Typed, TypeOK, ClaimExpires
<1>15. ASSUME NEW s \in Socket, Connect(s) PROVE Typed'
  BY <1>15 DEF Typed, TypeOK, Connect
<1>16. ASSUME NEW s \in Socket, Disconnect(s) PROVE Typed'
  BY <1>16, GoneType DEF Typed, TypeOK, Disconnect
<1>17. ASSUME NEW s \in Socket, CheckAccess(s) PROVE Typed'
  BY <1>17 DEF Typed, TypeOK, CheckAccess
<1>18. ASSUME NEW s \in Socket, LeaveRoom(s) PROVE Typed'
  BY <1>18 DEF Typed, TypeOK, LeaveRoom
<1>19. ASSUME NEW s \in Socket, EnterRoom(s) PROVE Typed'
  BY <1>19 DEF Typed, TypeOK, EnterRoom
<1>20. ASSUME NEW s \in Socket, ConfirmJoin(s) PROVE Typed'
  BY <1>20 DEF Typed, TypeOK, ConfirmJoin
<1>21. ASSUME NEW s \in Socket, Evict(s) PROVE Typed'
  BY <1>21 DEF Typed, TypeOK, Evict
<1>22. ASSUME NEW s \in Socket, EvictFails(s) PROVE Typed'
  BY <1>22, GoneType DEF Typed, TypeOK, EvictFails
<1>23. ASSUME NEW n \in Server, RestartServer(n) PROVE Typed'
  BY <1>23, GoneType DEF Typed, TypeOK, RestartServer
<1>24. ASSUME NEW n \in Server, NEW e \in inbox[n], HandleEvent(n, e) PROVE Typed'
  BY <1>24 DEF Typed, TypeOK, HandleEvent, FencedBy
<1>25. CASE UNCHANGED vars
  BY <1>25 DEF Typed, TypeOK, vars
<1> QED
  BY <1>1, <1>2, <1>3, <1>4, <1>5, <1>6, <1>7, <1>8, <1>9, <1>10, <1>11, <1>12,
     <1>13, <1>14, <1>15, <1>16, <1>17, <1>18, <1>19, <1>20, <1>21, <1>22,
     <1>23, <1>24, <1>25 DEF Next, PublisherStep, JoinStep

LEMMA TypedAlways == Spec => []Typed
  BY TypedInit, TypedStep, PTL DEF Spec

\* Every variable keeps to its type, whatever the constants are.
THEOREM MembershipTypeCorrect == Spec => []TypeOK
<1>1. Typed => TypeOK
  BY DEF Typed
<1> QED
  BY TypedAlways, <1>1, PTL
-----------------------------------------------------------------------------
\* The rows: what is enqueued, claimed, published and put aside

LEMMA EnqueueRows ==
  ASSUME Typed, RowsExist, NEW p \in Publisher, Enqueue(p)
  PROVE  RowsExist'
<1>1. removals + 1 \in Row /\ removals \in Nat /\ removals' = removals + 1
  BY DEF Typed, TypeOK, Enqueue, Row, Epoch
<1>2. \A r \in Row : status'[r] # "none" <=> r <= removals'
  BY <1>1 DEF Typed, TypeOK, RowsExist, Enqueue, Row
<1>3. \A q \in Publisher : step'[q] \notin {"idle", "leave"} => target'[q] <= removals'
  BY <1>1 DEF Typed, TypeOK, RowsExist, Enqueue, Row
<1>4. UNCHANGED <<inbox, handled>>
  BY DEF Enqueue, observed
<1>5. \A n \in Server : \A e \in inbox[n] : e.row \in Row
  BY DEF Typed, TypeOK
<1>6. /\ \A n \in Server : \A e \in inbox'[n] : e.row <= removals'
      /\ \A n \in Server : \A r \in handled'[n] : r <= removals'
  BY <1>1, <1>4, <1>5 DEF Typed, TypeOK, RowsExist, Row
<1> QED
  BY <1>2, <1>3, <1>6 DEF RowsExist

LEMMA RowsStep == Typed /\ RowsExist /\ [Next]_vars => RowsExist'
<1> SUFFICES ASSUME Typed, RowsExist, [Next]_vars PROVE RowsExist'
  OBVIOUS
<1> USE DEF Typed, TypeOK, RowsExist, database, publishers, sockets, observed
<1>1. CASE AcceptInvitation
  BY <1>1 DEF AcceptInvitation
<1>2. ASSUME NEW p \in Publisher, RemoveMember(p) PROVE RowsExist'
  BY <1>2, EnqueueRows DEF RemoveMember
<1>3. ASSUME NEW p \in Publisher, StartLeave(p) PROVE RowsExist'
  BY <1>3 DEF StartLeave
<1>4. ASSUME NEW p \in Publisher, LeaveWorkspace(p) PROVE RowsExist'
  <2>1. CASE removals < MaxRemovals
    BY <1>4, <2>1, EnqueueRows DEF LeaveWorkspace
  <2>2. CASE ~(removals < MaxRemovals)
    BY <1>4, <2>2 DEF LeaveWorkspace
  <2> QED BY <2>1, <2>2
<1>5. ASSUME NEW p \in Publisher, Claim(p) PROVE RowsExist'
  BY <1>5 DEF Claim, IsDue
<1>6. ASSUME NEW p \in Publisher, Publish(p) PROVE RowsExist'
  BY <1>6 DEF Publish, SendEvent
<1>7. ASSUME NEW p \in Publisher, MarkDelivered(p) PROVE RowsExist'
  BY <1>7 DEF MarkDelivered, EndClaim, HoldsClaim
<1>8. ASSUME NEW p \in Publisher, MarkPublishFailure(p) PROVE RowsExist'
  BY <1>8 DEF MarkPublishFailure, EndClaim, HoldsClaim
<1>9. ASSUME NEW p \in Publisher, PublishFails(p) PROVE RowsExist'
  BY <1>9 DEF PublishFails, SendEvent
<1>10. ASSUME NEW p \in Publisher, DeliverFails(p) PROVE RowsExist'
  BY <1>10 DEF DeliverFails
<1>11. ASSUME NEW p \in Publisher, Abandon(p) PROVE RowsExist'
  BY <1>11 DEF Abandon
<1>12. ASSUME NEW p \in Publisher, NEW r \in Row, Sweep(p, r) PROVE RowsExist'
  BY <1>12 DEF Sweep, IsDue
<1>13. ASSUME NEW r \in Row, BecomesDue(r) PROVE RowsExist'
  BY <1>13 DEF BecomesDue
<1>14. ASSUME NEW r \in Row, ClaimExpires(r) PROVE RowsExist'
  BY <1>14 DEF ClaimExpires
<1>15. ASSUME NEW s \in Socket, Connect(s) PROVE RowsExist'
  BY <1>15 DEF Connect
<1>16. ASSUME NEW s \in Socket, Disconnect(s) PROVE RowsExist'
  BY <1>16 DEF Disconnect
<1>17. ASSUME NEW s \in Socket, CheckAccess(s) PROVE RowsExist'
  BY <1>17 DEF CheckAccess
<1>18. ASSUME NEW s \in Socket, LeaveRoom(s) PROVE RowsExist'
  BY <1>18 DEF LeaveRoom
<1>19. ASSUME NEW s \in Socket, EnterRoom(s) PROVE RowsExist'
  BY <1>19 DEF EnterRoom
<1>20. ASSUME NEW s \in Socket, ConfirmJoin(s) PROVE RowsExist'
  BY <1>20 DEF ConfirmJoin
<1>21. ASSUME NEW s \in Socket, Evict(s) PROVE RowsExist'
  BY <1>21 DEF Evict
<1>22. ASSUME NEW s \in Socket, EvictFails(s) PROVE RowsExist'
  BY <1>22 DEF EvictFails
<1>23. ASSUME NEW n \in Server, RestartServer(n) PROVE RowsExist'
  BY <1>23 DEF RestartServer
<1>24. ASSUME NEW n \in Server, NEW e \in inbox[n], HandleEvent(n, e) PROVE RowsExist'
  BY <1>24 DEF HandleEvent
<1>25. CASE UNCHANGED vars
  BY <1>25 DEF vars
<1> QED
  BY <1>1, <1>2, <1>3, <1>4, <1>5, <1>6, <1>7, <1>8, <1>9, <1>10, <1>11, <1>12, <1>13,
     <1>14, <1>15, <1>16, <1>17, <1>18, <1>19, <1>20, <1>21, <1>22, <1>23, <1>24, <1>25 DEF Next, PublisherStep, JoinStep

LEMMA DeliveredStep == Typed /\ DeliveredIsPublished /\ [Next]_vars => DeliveredIsPublished'
<1> SUFFICES ASSUME Typed, DeliveredIsPublished, [Next]_vars PROVE DeliveredIsPublished'
  OBVIOUS
<1> USE DEF Typed, TypeOK, DeliveredIsPublished, database, publishers, sockets, observed
<1>1. CASE AcceptInvitation
  BY <1>1 DEF AcceptInvitation
<1>2. ASSUME NEW p \in Publisher, RemoveMember(p) PROVE DeliveredIsPublished'
  BY <1>2 DEF RemoveMember, Enqueue
<1>3. ASSUME NEW p \in Publisher, StartLeave(p) PROVE DeliveredIsPublished'
  BY <1>3 DEF StartLeave
<1>4. ASSUME NEW p \in Publisher, LeaveWorkspace(p) PROVE DeliveredIsPublished'
  BY <1>4 DEF LeaveWorkspace, Enqueue
<1>5. ASSUME NEW p \in Publisher, Claim(p) PROVE DeliveredIsPublished'
  BY <1>5 DEF Claim, IsDue
<1>6. ASSUME NEW p \in Publisher, Publish(p) PROVE DeliveredIsPublished'
  BY <1>6 DEF Publish, SendEvent
<1>7. ASSUME NEW p \in Publisher, MarkDelivered(p) PROVE DeliveredIsPublished'
  BY <1>7 DEF MarkDelivered, EndClaim, HoldsClaim
<1>8. ASSUME NEW p \in Publisher, MarkPublishFailure(p) PROVE DeliveredIsPublished'
  BY <1>8 DEF MarkPublishFailure, EndClaim, HoldsClaim
<1>9. ASSUME NEW p \in Publisher, PublishFails(p) PROVE DeliveredIsPublished'
  BY <1>9 DEF PublishFails, SendEvent
<1>10. ASSUME NEW p \in Publisher, DeliverFails(p) PROVE DeliveredIsPublished'
  BY <1>10 DEF DeliverFails
<1>11. ASSUME NEW p \in Publisher, Abandon(p) PROVE DeliveredIsPublished'
  BY <1>11 DEF Abandon
<1>12. ASSUME NEW p \in Publisher, NEW r \in Row, Sweep(p, r) PROVE DeliveredIsPublished'
  BY <1>12 DEF Sweep, IsDue
<1>13. ASSUME NEW r \in Row, BecomesDue(r) PROVE DeliveredIsPublished'
  BY <1>13 DEF BecomesDue
<1>14. ASSUME NEW r \in Row, ClaimExpires(r) PROVE DeliveredIsPublished'
  BY <1>14 DEF ClaimExpires
<1>15. ASSUME NEW s \in Socket, Connect(s) PROVE DeliveredIsPublished'
  BY <1>15 DEF Connect
<1>16. ASSUME NEW s \in Socket, Disconnect(s) PROVE DeliveredIsPublished'
  BY <1>16 DEF Disconnect
<1>17. ASSUME NEW s \in Socket, CheckAccess(s) PROVE DeliveredIsPublished'
  BY <1>17 DEF CheckAccess
<1>18. ASSUME NEW s \in Socket, LeaveRoom(s) PROVE DeliveredIsPublished'
  BY <1>18 DEF LeaveRoom
<1>19. ASSUME NEW s \in Socket, EnterRoom(s) PROVE DeliveredIsPublished'
  BY <1>19 DEF EnterRoom
<1>20. ASSUME NEW s \in Socket, ConfirmJoin(s) PROVE DeliveredIsPublished'
  BY <1>20 DEF ConfirmJoin
<1>21. ASSUME NEW s \in Socket, Evict(s) PROVE DeliveredIsPublished'
  BY <1>21 DEF Evict
<1>22. ASSUME NEW s \in Socket, EvictFails(s) PROVE DeliveredIsPublished'
  BY <1>22 DEF EvictFails
<1>23. ASSUME NEW n \in Server, RestartServer(n) PROVE DeliveredIsPublished'
  BY <1>23 DEF RestartServer
<1>24. ASSUME NEW n \in Server, NEW e \in inbox[n], HandleEvent(n, e) PROVE DeliveredIsPublished'
  BY <1>24 DEF HandleEvent
<1>25. CASE UNCHANGED vars
  BY <1>25 DEF vars
<1> QED
  BY <1>1, <1>2, <1>3, <1>4, <1>5, <1>6, <1>7, <1>8, <1>9, <1>10, <1>11, <1>12, <1>13,
     <1>14, <1>15, <1>16, <1>17, <1>18, <1>19, <1>20, <1>21, <1>22, <1>23, <1>24, <1>25 DEF Next, PublisherStep, JoinStep

LEMMA TokensStep == Typed /\ TokensDiffer /\ [Next]_vars => TokensDiffer'
<1> SUFFICES ASSUME Typed, TokensDiffer, [Next]_vars PROVE TokensDiffer'
  OBVIOUS
<1> USE DEF Typed, TypeOK, TokensDiffer, Working, database, publishers, sockets, observed
<1>1. CASE AcceptInvitation
  BY <1>1 DEF AcceptInvitation
<1>a. ASSUME NEW p \in Publisher, Enqueue(p) PROVE TokensDiffer'
  <2>0. removals + 1 \in Row
    BY <1>a, BoundsAssumption DEF Enqueue, Row, Epoch
  <2>1. /\ status'[removals + 1] = "pending"
        /\ UNCHANGED <<claim, attempts, token>>
        /\ ~Working(p)'
    BY <1>a, <2>0 DEF Enqueue
  <2>2. \A r \in Row : r # removals + 1 => status'[r] = status[r]
    BY <1>a DEF Enqueue
  <2>3. \A q \in Publisher : Working(q)' => Working(q) /\ target'[q] = target[q]
    BY <1>a, <2>1 DEF Enqueue
  <2> QED BY <2>1, <2>2, <2>3
<1>2. ASSUME NEW p \in Publisher, RemoveMember(p) PROVE TokensDiffer'
  BY <1>2, <1>a DEF RemoveMember
<1>3. ASSUME NEW p \in Publisher, StartLeave(p) PROVE TokensDiffer'
  BY <1>3 DEF StartLeave
<1>4. ASSUME NEW p \in Publisher, LeaveWorkspace(p) PROVE TokensDiffer'
  <2>1. CASE removals < MaxRemovals
    BY <1>4, <2>1, <1>a DEF LeaveWorkspace
  <2>2. CASE ~(removals < MaxRemovals)
    BY <1>4, <2>2 DEF LeaveWorkspace
  <2> QED BY <2>1, <2>2
<1>5. ASSUME NEW p \in Publisher, Claim(p) PROVE TokensDiffer'
  <2>1. CASE IsDue(target[p])
    <3> DEFINE r == target[p]
               a == attempts[r] + 1
    <3>1. /\ r \in Row /\ a \in Nat
          /\ claim' = [claim EXCEPT ![r] = a] /\ attempts' = [attempts EXCEPT ![r] = a]
          /\ status' = [status EXCEPT ![r] = "publishing"]
          /\ token' = [token EXCEPT ![p] = a] /\ step' = [step EXCEPT ![p] = "publish"]
          /\ UNCHANGED target
      BY <1>5, <2>1 DEF Claim, NextAttempt
    <3>2. \A x \in Row : status'[x] = "publishing" => claim'[x] = attempts'[x]
      BY <3>1
    <3>3. \A q \in Publisher : Working(q)' =>
            /\ token'[q] <= attempts'[target[q]]
            /\ q # p => token'[q] = token[q] /\ token[q] <= attempts[target[q]]
      BY <3>1
    <3>4. \A q \in Publisher : Working(q)' /\ q # p /\ target[q] = r => token'[q] # a
      BY <3>1, <3>3
    <3>5. \A q1, q2 \in Publisher :
            Working(q1)' /\ Working(q2)' /\ target[q1] = target[q2] /\ q1 # q2
            => token'[q1] # token'[q2]
      BY <3>1, <3>4
    <3> QED BY <3>1, <3>2, <3>3, <3>5
  <2>2. CASE ~IsDue(target[p])
    BY <1>5, <2>2 DEF Claim
  <2> QED BY <2>1, <2>2
<1>6. ASSUME NEW p \in Publisher, Publish(p) PROVE TokensDiffer'
  BY <1>6 DEF Publish, SendEvent
<1>7. ASSUME NEW p \in Publisher, MarkDelivered(p) PROVE TokensDiffer'
  BY <1>7 DEF MarkDelivered, EndClaim, HoldsClaim
<1>8. ASSUME NEW p \in Publisher, MarkPublishFailure(p) PROVE TokensDiffer'
  BY <1>8 DEF MarkPublishFailure, EndClaim, HoldsClaim
<1>9. ASSUME NEW p \in Publisher, PublishFails(p) PROVE TokensDiffer'
  BY <1>9 DEF PublishFails, SendEvent
<1>10. ASSUME NEW p \in Publisher, DeliverFails(p) PROVE TokensDiffer'
  BY <1>10 DEF DeliverFails
<1>11. ASSUME NEW p \in Publisher, Abandon(p) PROVE TokensDiffer'
  BY <1>11 DEF Abandon
<1>12. ASSUME NEW p \in Publisher, NEW r \in Row, Sweep(p, r) PROVE TokensDiffer'
  BY <1>12 DEF Sweep, IsDue
<1>13. ASSUME NEW r \in Row, BecomesDue(r) PROVE TokensDiffer'
  BY <1>13 DEF BecomesDue
<1>14. ASSUME NEW r \in Row, ClaimExpires(r) PROVE TokensDiffer'
  BY <1>14 DEF ClaimExpires
<1>15. ASSUME NEW s \in Socket, Connect(s) PROVE TokensDiffer'
  BY <1>15 DEF Connect
<1>16. ASSUME NEW s \in Socket, Disconnect(s) PROVE TokensDiffer'
  BY <1>16 DEF Disconnect
<1>17. ASSUME NEW s \in Socket, CheckAccess(s) PROVE TokensDiffer'
  BY <1>17 DEF CheckAccess
<1>18. ASSUME NEW s \in Socket, LeaveRoom(s) PROVE TokensDiffer'
  BY <1>18 DEF LeaveRoom
<1>19. ASSUME NEW s \in Socket, EnterRoom(s) PROVE TokensDiffer'
  BY <1>19 DEF EnterRoom
<1>20. ASSUME NEW s \in Socket, ConfirmJoin(s) PROVE TokensDiffer'
  BY <1>20 DEF ConfirmJoin
<1>21. ASSUME NEW s \in Socket, Evict(s) PROVE TokensDiffer'
  BY <1>21 DEF Evict
<1>22. ASSUME NEW s \in Socket, EvictFails(s) PROVE TokensDiffer'
  BY <1>22 DEF EvictFails
<1>23. ASSUME NEW n \in Server, RestartServer(n) PROVE TokensDiffer'
  BY <1>23 DEF RestartServer
<1>24. ASSUME NEW n \in Server, NEW e \in inbox[n], HandleEvent(n, e) PROVE TokensDiffer'
  BY <1>24 DEF HandleEvent
<1>25. CASE UNCHANGED vars
  BY <1>25 DEF vars
<1> QED
  BY <1>1, <1>2, <1>3, <1>4, <1>5, <1>6, <1>7, <1>8, <1>9, <1>10, <1>11, <1>12, <1>13,
     <1>14, <1>15, <1>16, <1>17, <1>18, <1>19, <1>20, <1>21, <1>22, <1>23, <1>24, <1>25 DEF Next, PublisherStep, JoinStep
-----------------------------------------------------------------------------
\* The fence: joins, events and evictions

LEMMA EnqueueFence ==
  ASSUME Typed, FenceHolds, NEW p \in Publisher, Enqueue(p)
  PROVE  FenceHolds'
  BY DEF Typed, TypeOK, FenceHolds, HandledMeansOutside, IsInsideSince, Enqueue,
         sockets, observed, Epoch

LEMMA FenceStep == Typed /\ RowsExist /\ FenceHolds /\ [Next]_vars => FenceHolds'
<1> SUFFICES ASSUME Typed, RowsExist, FenceHolds, [Next]_vars PROVE FenceHolds'
  OBVIOUS
<1> USE DEF Typed, TypeOK, FenceHolds, HandledMeansOutside, IsInsideSince,
           database, publishers, sockets, observed, Row, Epoch, Outside
<1>1. CASE AcceptInvitation
  BY <1>1 DEF AcceptInvitation
<1>2. ASSUME NEW p \in Publisher, RemoveMember(p) PROVE FenceHolds'
  BY <1>2, EnqueueFence DEF RemoveMember
<1>3. ASSUME NEW p \in Publisher, StartLeave(p) PROVE FenceHolds'
  BY <1>3 DEF StartLeave
<1>4. ASSUME NEW p \in Publisher, LeaveWorkspace(p) PROVE FenceHolds'
  <2>1. CASE removals < MaxRemovals
    BY <1>4, <2>1, EnqueueFence DEF LeaveWorkspace
  <2>2. CASE ~(removals < MaxRemovals)
    BY <1>4, <2>2 DEF LeaveWorkspace
  <2> QED BY <2>1, <2>2
<1>5. ASSUME NEW p \in Publisher, Claim(p) PROVE FenceHolds'
  BY <1>5 DEF Claim
<1>6. ASSUME NEW p \in Publisher, Publish(p) PROVE FenceHolds'
  BY <1>6 DEF Publish, SendEvent
<1>7. ASSUME NEW p \in Publisher, MarkDelivered(p) PROVE FenceHolds'
  BY <1>7 DEF MarkDelivered, EndClaim
<1>8. ASSUME NEW p \in Publisher, MarkPublishFailure(p) PROVE FenceHolds'
  BY <1>8 DEF MarkPublishFailure, EndClaim
<1>9. ASSUME NEW p \in Publisher, PublishFails(p) PROVE FenceHolds'
  BY <1>9 DEF PublishFails, SendEvent
<1>10. ASSUME NEW p \in Publisher, DeliverFails(p) PROVE FenceHolds'
  BY <1>10 DEF DeliverFails
<1>11. ASSUME NEW p \in Publisher, Abandon(p) PROVE FenceHolds'
  BY <1>11 DEF Abandon
<1>12. ASSUME NEW p \in Publisher, NEW r \in Row, Sweep(p, r) PROVE FenceHolds'
  BY <1>12 DEF Sweep
<1>13. ASSUME NEW r \in Row, BecomesDue(r) PROVE FenceHolds'
  BY <1>13 DEF BecomesDue
<1>14. ASSUME NEW r \in Row, ClaimExpires(r) PROVE FenceHolds'
  BY <1>14 DEF ClaimExpires
<1>15. ASSUME NEW s \in Socket, Connect(s) PROVE FenceHolds'
  BY <1>15 DEF Connect
<1>16. ASSUME NEW s \in Socket, Disconnect(s) PROVE FenceHolds'
  BY <1>16 DEF Disconnect, Gone
<1>17. ASSUME NEW s \in Socket, CheckAccess(s) PROVE FenceHolds'
  BY <1>17 DEF CheckAccess, RowsExist
<1>18. ASSUME NEW s \in Socket, LeaveRoom(s) PROVE FenceHolds'
  BY <1>18 DEF LeaveRoom
<1>19. ASSUME NEW s \in Socket, EnterRoom(s) PROVE FenceHolds'
  <2>1. CASE fenced[s]
    BY <1>19, <2>1 DEF EnterRoom
  <2>2. CASE ~fenced[s]
    <3>1. /\ join' = [join EXCEPT ![s] = "entered"] /\ room' = [room EXCEPT ![s] = granted[s]]
          /\ join[s] = "allowed" /\ connected[s]
          /\ UNCHANGED <<removals, handled, connected, granted, fenced, evicting>>
      BY <1>19, <2>2 DEF EnterRoom
    <3>2. ASSUME NEW r \in handled[Home[s]]
          PROVE  ~(granted[s] \in 0..(r - 1))
      <4>1. r \in Int /\ granted[s] \in Int
        OBVIOUS
      <4> QED BY <2>2, <3>1, <4>1
    <3>3. room'[s] = granted[s]
      BY <3>1
    <3>4. HandledMeansOutside'
      BY <3>1, <3>2, <3>3
    <3>5. \A x \in Socket :
            /\ join'[x] # "idle" \/ room'[x] # Outside => connected'[x]
            /\ granted'[x] <= removals'
      BY <3>1
    <3>6. \A x \in Socket : \A r \in handled'[Home[x]] :
            join'[x] = "allowed" /\ granted'[x] < r => fenced'[x]
      BY <3>1
    <3> QED BY <3>4, <3>5, <3>6
  <2> QED BY <2>1, <2>2
<1>20. ASSUME NEW s \in Socket, ConfirmJoin(s) PROVE FenceHolds'
  BY <1>20 DEF ConfirmJoin
<1>21. ASSUME NEW s \in Socket, Evict(s) PROVE FenceHolds'
  BY <1>21 DEF Evict
<1>22. ASSUME NEW s \in Socket, EvictFails(s) PROVE FenceHolds'
  BY <1>22 DEF EvictFails, Gone
<1>23. ASSUME NEW n \in Server, RestartServer(n) PROVE FenceHolds'
  BY <1>23 DEF RestartServer, Gone
<1>24. ASSUME NEW n \in Server, NEW e \in inbox[n], HandleEvent(n, e) PROVE FenceHolds'
  BY <1>24 DEF HandleEvent, FencedBy
<1>25. CASE UNCHANGED vars
  BY <1>25 DEF vars
<1> QED
  BY <1>1, <1>2, <1>3, <1>4, <1>5, <1>6, <1>7, <1>8, <1>9, <1>10, <1>11, <1>12, <1>13,
     <1>14, <1>15, <1>16, <1>17, <1>18, <1>19, <1>20, <1>21, <1>22, <1>23, <1>24, <1>25 DEF Next, PublisherStep, JoinStep

-----------------------------------------------------------------------------
\* The results

LEMMA InvariantsInit ==
  Init => RowsExist /\ DeliveredIsPublished /\ TokensDiffer /\ FenceHolds
  BY DEF Init, RowsExist, DeliveredIsPublished, TokensDiffer, Working, FenceHolds,
         HandledMeansOutside, IsInsideSince, Row, Outside

LEMMA InvariantsAlways ==
  Spec => [](RowsExist /\ DeliveredIsPublished /\ TokensDiffer /\ FenceHolds)
  BY TypedAlways, InvariantsInit, RowsStep, DeliveredStep, TokensStep, FenceStep, PTL
     DEF Spec

\* Once a process has handled a removal and done its evictions, none of its
\* sockets is established in the room under a membership that ended with it.
THEOREM HandledRemovalExcludes == Spec => []HandledMeansOutside
<1>1. FenceHolds => HandledMeansOutside
  BY DEF FenceHolds
<1> QED
  BY InvariantsAlways, <1>1, PTL

\* Two publishers never hold the claim of a row at once: whichever of them
\* was taken over by the other finds its token gone.
OneHolder ==
    \A p, q \in Publisher :
        /\ Working(p) /\ HoldsClaim(p)
        /\ Working(q) /\ HoldsClaim(q)
        /\ target[p] = target[q]
        => p = q

\* The claims exclude each other, for any number of publishers and takeovers.
THEOREM ClaimsExclude == Spec => []OneHolder
<1>1. TokensDiffer => OneHolder
  BY DEF TokensDiffer, OneHolder, HoldsClaim
<1> QED
  BY InvariantsAlways, <1>1, PTL

\* A row under a live claim changes hands only by the publisher that holds it.
THEOREM ClaimsRespected == Spec => ClaimIsRespected
<1> DEFINE Respected ==
      \A r \in Row :
          status[r] = "publishing" /\ ~stale[r] /\ claim'[r] # claim[r]
          => \E p \in Publisher :
                /\ target[p] = r /\ token[p] = claim[r]
                /\ step[p] \in {"deliver", "fail"} /\ step'[p] = "idle"
<1>1. Typed /\ [Next]_vars => [Respected]_vars
  <2> SUFFICES ASSUME Typed, Next, NEW r \in Row,
                      status[r] = "publishing", ~stale[r], claim'[r] # claim[r]
               PROVE  \E p \in Publisher :
                         /\ target[p] = r /\ token[p] = claim[r]
                         /\ step[p] \in {"deliver", "fail"} /\ step'[p] = "idle"
    OBVIOUS
  <2>1. ASSUME NEW p \in Publisher, Claim(p) PROVE FALSE
    BY <2>1 DEF Typed, TypeOK, Claim, IsDue
  <2>2. ASSUME NEW p \in Publisher, step[p] \in {"deliver", "fail"},
               NEW next, EndClaim(p, next, FALSE)
        PROVE  /\ target[p] = r /\ token[p] = claim[r] /\ step'[p] = "idle"
    BY <2>2 DEF Typed, TypeOK, EndClaim, HoldsClaim
  <2>3. ASSUME NEW p \in Publisher, MarkDelivered(p) \/ MarkPublishFailure(p)
        PROVE  \E q \in Publisher :
                  /\ target[q] = r /\ token[q] = claim[r]
                  /\ step[q] \in {"deliver", "fail"} /\ step'[q] = "idle"
    BY <2>2, <2>3 DEF MarkDelivered, MarkPublishFailure
  <2>4. \E p \in Publisher : Claim(p) \/ MarkDelivered(p) \/ MarkPublishFailure(p)
    BY DEF Next, PublisherStep, JoinStep, AcceptInvitation, RemoveMember, Enqueue,
           StartLeave, LeaveWorkspace, Publish, PublishFails, DeliverFails, Abandon,
           Sweep, BecomesDue, ClaimExpires, Connect, Disconnect, CheckAccess,
           LeaveRoom, EnterRoom, ConfirmJoin, Evict, EvictFails, RestartServer,
           HandleEvent, database
  <2> QED BY <2>1, <2>3, <2>4
<1> QED
  BY TypedAlways, <1>1, PTL DEF Spec, ClaimIsRespected

LEMMA OutboxInit == Init => Outbox!Init
  BY DEF Init, Outbox!Init

\* A step of the outbox, or one it does not see.
Maps == [Outbox!Next]_(Outbox!vars)

LEMMA EnqueueMaps ==
  ASSUME Typed, RowsExist, NEW p \in Publisher, Enqueue(p)
  PROVE  Maps
<1>1. /\ removals + 1 \in Row /\ status[removals + 1] = "none"
      /\ status' = [status EXCEPT ![removals + 1] = "pending"] /\ UNCHANGED published
  BY DEF Typed, TypeOK, RowsExist, Enqueue, Row, Epoch, observed
<1>2. Outbox!Enqueue(removals + 1)
  BY <1>1 DEF Outbox!Enqueue, Typed, TypeOK
<1>3. \E r \in Row : Outbox!Enqueue(r)
  BY <1>1, <1>2 DEF Outbox!Enqueue
<1> QED
  BY <1>3 DEF Maps, Outbox!Next

LEMMA MapsStep == Typed /\ RowsExist /\ DeliveredIsPublished /\ [Next]_vars => Maps
<1> SUFFICES ASSUME Typed, RowsExist, DeliveredIsPublished, [Next]_vars PROVE Maps
  OBVIOUS
<1> USE DEF database, observed
<1>1. CASE AcceptInvitation
  BY <1>1 DEF AcceptInvitation, Maps, Outbox!vars
<1>2. ASSUME NEW p \in Publisher, RemoveMember(p) PROVE Maps
  BY <1>2, EnqueueMaps DEF RemoveMember
<1>3. ASSUME NEW p \in Publisher, StartLeave(p) PROVE Maps
  BY <1>3 DEF StartLeave, Maps, Outbox!vars
<1>4. ASSUME NEW p \in Publisher, LeaveWorkspace(p) PROVE Maps
  <2>1. CASE removals < MaxRemovals
    BY <1>4, <2>1, EnqueueMaps DEF LeaveWorkspace
  <2>2. CASE ~(removals < MaxRemovals)
    BY <1>4, <2>2 DEF LeaveWorkspace, Maps, Outbox!vars
  <2> QED BY <2>1, <2>2
<1>5. ASSUME NEW p \in Publisher, Claim(p) PROVE Maps
  <2>1. \A r \in Row : /\ status'[r] = "none" <=> status[r] = "none"
                       /\ status'[r] = "delivered" <=> status[r] = "delivered"
    BY <1>5 DEF Claim, IsDue, Typed, TypeOK
  <2> QED BY <1>5, <2>1 DEF Claim, Maps, Outbox!vars, observed
<1>6. ASSUME NEW p \in Publisher, Publish(p) PROVE Maps
  <2>1. /\ target[p] \in Row /\ status[target[p]] # "none"
        /\ published' = published \cup {target[p]} /\ UNCHANGED status
    BY <1>6 DEF Publish, SendEvent, Typed, TypeOK, RowsExist
  <2>2. Outbox!Send(target[p])
    BY <2>1 DEF Outbox!Send
  <2> QED BY <2>1, <2>2 DEF Maps, Outbox!Next
<1>7. ASSUME NEW p \in Publisher, MarkDelivered(p) PROVE Maps
  <2>1. CASE HoldsClaim(p)
    <3>1. /\ target[p] \in Row /\ target[p] \in published /\ UNCHANGED published
          /\ status[target[p]] = "publishing"
          /\ status' = [status EXCEPT ![target[p]] = "delivered"]
      BY <1>7, <2>1 DEF MarkDelivered, EndClaim, HoldsClaim, Typed, DeliveredIsPublished
    <3>2. Outbox!Settle(target[p])
      BY <3>1 DEF Outbox!Settle, Typed, TypeOK
    <3>3. \E r \in Row : Outbox!Settle(r)
      BY <3>1, <3>2 DEF Outbox!Settle
    <3> QED BY <3>3 DEF Maps, Outbox!Next
  <2>2. CASE ~HoldsClaim(p)
    BY <1>7, <2>2 DEF MarkDelivered, EndClaim, Maps, Outbox!vars
  <2> QED BY <2>1, <2>2
<1>8. ASSUME NEW p \in Publisher, MarkPublishFailure(p) PROVE Maps
  <2>1. \A r \in Row : /\ status'[r] = "none" <=> status[r] = "none"
                       /\ status'[r] = "delivered" <=> status[r] = "delivered"
    BY <1>8 DEF MarkPublishFailure, EndClaim, HoldsClaim, Typed, TypeOK
  <2> QED BY <1>8, <2>1 DEF MarkPublishFailure, EndClaim, Maps, Outbox!vars, observed
<1>9. ASSUME NEW p \in Publisher, PublishFails(p) PROVE Maps
  <2>1. /\ target[p] \in Row /\ status[target[p]] # "none" /\ UNCHANGED status
        /\ published' = published \cup {target[p]} \/ UNCHANGED published
    BY <1>9 DEF PublishFails, SendEvent, Typed, TypeOK, RowsExist
  <2>2. CASE published' = published \cup {target[p]}
    <3>1. Outbox!Send(target[p])
      BY <2>1, <2>2 DEF Outbox!Send
    <3> QED BY <2>1, <3>1 DEF Maps, Outbox!Next
  <2>3. CASE UNCHANGED published
    BY <2>1, <2>3 DEF Maps, Outbox!vars
  <2> QED BY <2>1, <2>2, <2>3
<1>10. ASSUME NEW p \in Publisher, DeliverFails(p) PROVE Maps
  BY <1>10 DEF DeliverFails, Maps, Outbox!vars
<1>11. ASSUME NEW p \in Publisher, Abandon(p) PROVE Maps
  BY <1>11 DEF Abandon, Maps, Outbox!vars
<1>12. ASSUME NEW p \in Publisher, NEW r \in Row, Sweep(p, r) PROVE Maps
  BY <1>12 DEF Sweep, Maps, Outbox!vars
<1>13. ASSUME NEW r \in Row, BecomesDue(r) PROVE Maps
  BY <1>13 DEF BecomesDue, Maps, Outbox!vars
<1>14. ASSUME NEW r \in Row, ClaimExpires(r) PROVE Maps
  BY <1>14 DEF ClaimExpires, Maps, Outbox!vars
<1>15. ASSUME NEW s \in Socket, Connect(s) PROVE Maps
  BY <1>15 DEF Connect, Maps, Outbox!vars
<1>16. ASSUME NEW s \in Socket, Disconnect(s) PROVE Maps
  BY <1>16 DEF Disconnect, Maps, Outbox!vars
<1>17. ASSUME NEW s \in Socket, CheckAccess(s) PROVE Maps
  BY <1>17 DEF CheckAccess, Maps, Outbox!vars
<1>18. ASSUME NEW s \in Socket, LeaveRoom(s) PROVE Maps
  BY <1>18 DEF LeaveRoom, Maps, Outbox!vars
<1>19. ASSUME NEW s \in Socket, EnterRoom(s) PROVE Maps
  BY <1>19 DEF EnterRoom, Maps, Outbox!vars
<1>20. ASSUME NEW s \in Socket, ConfirmJoin(s) PROVE Maps
  BY <1>20 DEF ConfirmJoin, Maps, Outbox!vars
<1>21. ASSUME NEW s \in Socket, Evict(s) PROVE Maps
  BY <1>21 DEF Evict, Maps, Outbox!vars
<1>22. ASSUME NEW s \in Socket, EvictFails(s) PROVE Maps
  BY <1>22 DEF EvictFails, Maps, Outbox!vars
<1>23. ASSUME NEW n \in Server, RestartServer(n) PROVE Maps
  BY <1>23 DEF RestartServer, Maps, Outbox!vars
<1>24. ASSUME NEW n \in Server, NEW e \in inbox[n], HandleEvent(n, e) PROVE Maps
  BY <1>24 DEF HandleEvent, Maps, Outbox!vars
<1>25. CASE UNCHANGED vars
  BY <1>25 DEF vars, Maps, Outbox!vars
<1> QED
  BY <1>1, <1>2, <1>3, <1>4, <1>5, <1>6, <1>7, <1>8, <1>9, <1>10, <1>11, <1>12, <1>13,
     <1>14, <1>15, <1>16, <1>17, <1>18, <1>19, <1>20, <1>21, <1>22, <1>23, <1>24, <1>25 DEF Next, PublisherStep, JoinStep

\* The rows are a reliable outbox as far as safety goes: what is put aside was
\* published before, and nothing that is owed, sent or settled is taken back.
\* The fairness of ImplementsOutbox is left to the run.
THEOREM OutboxIsSafe == Spec => Outbox!Init /\ [][Outbox!Next]_(Outbox!vars)
<1> QED
  BY OutboxInit, MapsStep, TypedAlways, InvariantsAlways, PTL DEF Spec, Maps
=============================================================================
