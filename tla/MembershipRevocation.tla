------------------------ MODULE MembershipRevocation ------------------------
(***************************************************************************)
(* How the removal of a Workspace member reaches the rooms of the Realtime *)
(* Server.  The App Server deletes the membership and writes an outbox row *)
(* in one transaction; publishers claim rows and publish them on a Redis   *)
(* channel; every realtime process fences and evicts the sockets of the    *)
(* removed user, while joins of those sockets may be half way through.     *)
(*                                                                         *)
(* The model follows one user in one Workspace: rows, events and fences of *)
(* other pairs are independent of it.  Removals are numbered in the order  *)
(* they commit, so that a room entry can be compared with the removals     *)
(* that came after the membership it was granted for.                      *)
(***************************************************************************)
EXTENDS Integers, FiniteSets

CONSTANTS
    Publisher,          \* runs of publishOutbox that can be under way at once
    Server,             \* realtime processes
    Socket,             \* sockets of the user; each may connect again
    Home,               \* Home[s]: the realtime process socket s connects to
    MaxRemovals,        \* bound: how often the membership ends
    MaxFaults           \* bound: crashes, lost answers, failed publishes, stalls

ASSUME HomeAssumption == Home \in [Socket -> Server]
ASSUME BoundsAssumption == MaxRemovals \in Nat /\ MaxFaults \in Nat

Row == 1..MaxRemovals
Epoch == 0..MaxRemovals
Outside == -1           \* the socket is not in the room

VARIABLES
    \* the database
    member,             \* the workspace_members row exists
    removals,           \* outbox rows inserted so far
    status,             \* workspace_membership_revocation_outbox.status
    due,                \* next_attempt_at <= now()
    claim,              \* claim_token: the attempt that holds the row, 0 for NULL
    stale,              \* claimed_at is more than CLAIM_TIMEOUT_SECONDS ago
    attempts,           \* attempt_count
    \* the App Server
    step,               \* where each run of publishOutbox stands
    target,             \* its row
    token,              \* the claim_token it was given
    \* Redis
    inbox,              \* events on their way to each realtime process
    \* the Realtime Server
    connected,          \* the socket is connected
    join,               \* where its board:join handler stands
    granted,            \* the number of removals its access check had seen
    room,               \* the same for the entry it has in the room
    fenced,             \* revokedWorkspaceIdsBySocket holds the Workspace
    evicting,           \* a leave of the revocation handler is under way
    \* observed only
    published,          \* rows published at least once
    handled,            \* rows whose event each realtime process has handled
    faults

database == <<member, removals, status, due, claim, stale, attempts>>
publishers == <<step, target, token>>
sockets == <<connected, join, granted, room, fenced, evicting>>
observed == <<published, handled>>
vars == <<database, publishers, inbox, sockets, observed, faults>>

Init ==
    /\ member = TRUE /\ removals = 0
    /\ status = [r \in Row |-> "none"]
    /\ due = [r \in Row |-> FALSE]
    /\ claim = [r \in Row |-> 0]
    /\ stale = [r \in Row |-> FALSE]
    /\ attempts = [r \in Row |-> 0]
    /\ step = [p \in Publisher |-> "idle"]
    /\ target = [p \in Publisher |-> 0]
    /\ token = [p \in Publisher |-> 0]
    /\ inbox = [n \in Server |-> {}]
    /\ connected = [s \in Socket |-> FALSE]
    /\ join = [s \in Socket |-> "idle"]
    /\ granted = [s \in Socket |-> 0]
    /\ room = [s \in Socket |-> Outside]
    /\ fenced = [s \in Socket |-> FALSE]
    /\ evicting = [s \in Socket |-> FALSE]
    /\ published = {}
    /\ handled = [n \in Server |-> {}]
    /\ faults = 0

Fault == faults < MaxFaults /\ faults' = faults + 1
-----------------------------------------------------------------------------
\* The App Server: membership and outbox

\* enqueueMembershipRevoked, inside the transaction that deletes the
\* membership, and the publishOutbox call that follows the commit.
Enqueue(p) ==
    /\ removals < MaxRemovals
    /\ member' = FALSE
    /\ removals' = removals + 1
    /\ status' = [status EXCEPT ![removals + 1] = "pending"]
    /\ due' = [due EXCEPT ![removals + 1] = TRUE]
    /\ step' = [step EXCEPT ![p] = "claim"]
    /\ target' = [target EXCEPT ![p] = removals + 1]
    /\ UNCHANGED <<claim, stale, attempts, token, inbox, sockets, observed, faults>>

\* removeMember, which holds the membership row; deleteCurrentUser likewise.
RemoveMember(p) ==
    /\ step[p] = "idle"
    /\ member
    /\ Enqueue(p)

\* leaveWorkspace checks the access first and deletes in a later transaction
\* that does not look at what it deleted.
StartLeave(p) ==
    /\ step[p] = "idle"
    /\ member
    /\ removals < MaxRemovals
    /\ step' = [step EXCEPT ![p] = "leave"]
    /\ UNCHANGED <<database, target, token, inbox, sockets, observed, faults>>

LeaveWorkspace(p) ==
    /\ step[p] = "leave"
    /\ IF removals < MaxRemovals
       THEN Enqueue(p)
       ELSE /\ step' = [step EXCEPT ![p] = "idle"]    \* the bound is reached
            /\ UNCHANGED <<database, target, token, inbox, sockets, observed, faults>>

\* An invitation is accepted: the user is a member again.
AcceptInvitation ==
    /\ ~member
    /\ removals < MaxRemovals
    /\ member' = TRUE
    /\ UNCHANGED <<removals, status, due, claim, stale, attempts, publishers,
                   inbox, sockets, observed, faults>>

\* The rows publishDue selects, and the rows claim still accepts.
IsDueMutant(r) == status[r] = "pending" /\ due[r]     \* forgets abandoned claims
IsDue(r) ==
    \/ status[r] = "pending" /\ due[r]
    \/ status[r] = "publishing" /\ stale[r]

\* publishDue hands one of the rows it has read to publishOutbox.
Sweep(p, r) ==
    /\ step[p] = "idle"
    /\ IsDue(r)
    /\ step' = [step EXCEPT ![p] = "claim"]
    /\ target' = [target EXCEPT ![p] = r]
    /\ UNCHANGED <<database, token, inbox, sockets, observed, faults>>

NextAttemptMutant(r) == attempts[r] - 1
NextAttempt(r) == attempts[r] + 1

\* claim: the row is checked again under its lock and gets a token of its own.
Claim(p) ==
    LET r == target[p] IN
    /\ step[p] = "claim"
    /\ IF IsDue(r)
       THEN /\ status' = [status EXCEPT ![r] = "publishing"]
            /\ attempts' = [attempts EXCEPT ![r] = NextAttempt(r)]
            /\ claim' = [claim EXCEPT ![r] = NextAttempt(r)]
            /\ stale' = [stale EXCEPT ![r] = FALSE]
            /\ token' = [token EXCEPT ![p] = NextAttempt(r)]
            /\ step' = [step EXCEPT ![p] = "publish"]
       ELSE /\ step' = [step EXCEPT ![p] = "idle"]
            /\ UNCHANGED <<status, attempts, claim, stale, token>>
    /\ UNCHANGED <<member, removals, due, target, inbox, sockets, observed, faults>>

\* PUBLISH reaches Redis, which passes the event to every subscriber.
SendEvent(p) ==
    /\ inbox' = [n \in Server |->
                   inbox[n] \cup {[row |-> target[p], attempt |-> token[p]]}]
    /\ published' = published \cup {target[p]}

Publish(p) ==
    /\ step[p] = "publish"
    /\ SendEvent(p)
    /\ step' = [step EXCEPT ![p] = "deliver"]
    /\ UNCHANGED <<database, target, token, sockets, handled, faults>>

\* Redis refuses, or only its answer is lost: publishMembershipRevoked
\* returns false either way.
PublishFails(p) ==
    /\ step[p] = "publish"
    /\ Fault
    /\ SendEvent(p) \/ UNCHANGED <<inbox, published>>
    /\ step' = [step EXCEPT ![p] = "fail"]
    /\ UNCHANGED <<database, target, token, sockets, handled>>

\* The condition both updates carry: the row is still under this claim.
HoldsClaimMutant(p) == status[target[p]] = "publishing"        \* any claim
HoldsClaim(p) ==
    /\ status[target[p]] = "publishing"
    /\ claim[target[p]] = token[p]

\* An update that ends the claim, or finds it gone.
EndClaim(p, next, isDue) ==
    LET r == target[p] IN
    /\ IF HoldsClaim(p)
       THEN /\ status' = [status EXCEPT ![r] = next]
            /\ due' = [due EXCEPT ![r] = isDue]
            /\ claim' = [claim EXCEPT ![r] = 0]
            /\ stale' = [stale EXCEPT ![r] = FALSE]
       ELSE UNCHANGED <<status, due, claim, stale>>
    /\ step' = [step EXCEPT ![p] = "idle"]
    /\ UNCHANGED <<member, removals, attempts, target, token, inbox, sockets, observed>>

MarkDelivered(p) ==
    /\ step[p] = "deliver"
    /\ EndClaim(p, "delivered", FALSE)
    /\ UNCHANGED faults

\* The update to delivered fails: the catch block reports a publish failure.
DeliverFails(p) ==
    /\ step[p] = "deliver"
    /\ Fault
    /\ step' = [step EXCEPT ![p] = "fail"]
    /\ UNCHANGED <<database, target, token, inbox, sockets, observed>>

\* markPublishFailure: pending again, at a later next_attempt_at.
MarkPublishFailure(p) ==
    /\ step[p] = "fail"
    /\ EndClaim(p, "pending", FALSE)
    /\ UNCHANGED faults

\* The process stops, or markPublishFailure fails too: nothing more is done.
Abandon(p) ==
    /\ step[p] # "idle"
    /\ Fault
    /\ step' = [step EXCEPT ![p] = "idle"]
    /\ UNCHANGED <<database, target, token, inbox, sockets, observed>>

\* The backoff of a pending row passes.
BecomesDue(r) ==
    /\ status[r] = "pending"
    /\ ~due[r]
    /\ due' = [due EXCEPT ![r] = TRUE]
    /\ UNCHANGED <<member, removals, status, claim, stale, attempts, publishers,
                   inbox, sockets, observed, faults>>

\* CLAIM_TIMEOUT_SECONDS pass.  The publisher of the claim is gone, or it is
\* still at work, which counts as a fault.
IsHeld(r) ==
    \E p \in Publisher :
        step[p] \in {"publish", "deliver", "fail"} /\ target[p] = r /\ HoldsClaim(p)

ClaimExpires(r) ==
    /\ status[r] = "publishing"
    /\ ~stale[r]
    /\ IF IsHeld(r) THEN Fault ELSE UNCHANGED faults
    /\ stale' = [stale EXCEPT ![r] = TRUE]
    /\ UNCHANGED <<member, removals, status, due, claim, attempts, publishers,
                   inbox, sockets, observed>>
-----------------------------------------------------------------------------
\* The Realtime Server: sockets, joins and the revocation event

Connect(s) ==
    /\ ~connected[s]
    /\ connected' = [connected EXCEPT ![s] = TRUE]
    /\ UNCHANGED <<database, publishers, inbox, join, granted, room, fenced,
                   evicting, observed, faults>>

\* A socket ends: socket.io takes it out of its rooms and turns its join into
\* a no-op, and clearSocket forgets the fence.
Gone(S) ==
    /\ connected' = [s \in Socket |-> IF s \in S THEN FALSE ELSE connected[s]]
    /\ join' = [s \in Socket |-> IF s \in S THEN "idle" ELSE join[s]]
    /\ granted' = [s \in Socket |-> IF s \in S THEN 0 ELSE granted[s]]
    /\ room' = [s \in Socket |-> IF s \in S THEN Outside ELSE room[s]]
    /\ fenced' = [s \in Socket |-> IF s \in S THEN FALSE ELSE fenced[s]]
    /\ evicting' = [s \in Socket |-> IF s \in S THEN FALSE ELSE evicting[s]]

Disconnect(s) ==
    /\ connected[s]
    /\ Gone({s})
    /\ UNCHANGED <<database, publishers, inbox, observed, faults>>

\* A realtime process is restarted: its sockets and the events it had not
\* handled are lost; it subscribes again before it listens.
RestartServer(n) ==
    /\ Fault
    /\ Gone({s \in Socket : Home[s] = n})
    /\ inbox' = [inbox EXCEPT ![n] = {}]
    /\ UNCHANGED <<database, publishers, observed>>

\* board:join: canJoinBoard reads the membership ...
CheckAccess(s) ==
    /\ connected[s]
    /\ join[s] = "idle"
    /\ member
    /\ join' = [join EXCEPT ![s] = "allowed"]
    /\ granted' = [granted EXCEPT ![s] = removals]
    /\ UNCHANGED <<database, publishers, inbox, connected, room, fenced, evicting,
                   observed, faults>>

\* ... its answer arrives, and the socket enters the room unless it is fenced ...
EnterRoom(s) ==
    /\ join[s] = "allowed"
    /\ IF fenced[s]
       THEN /\ join' = [join EXCEPT ![s] = "idle"]
            /\ UNCHANGED room
       ELSE /\ join' = [join EXCEPT ![s] = "entered"]
            /\ room' = [room EXCEPT ![s] = granted[s]]
    /\ UNCHANGED <<database, publishers, inbox, connected, granted, fenced, evicting,
                   observed, faults>>

\* ... and is asked again when socket.join is done.
ConfirmJoin(s) ==
    /\ join[s] = "entered"
    /\ join' = [join EXCEPT ![s] = "idle"]
    /\ room' = [room EXCEPT ![s] = IF fenced[s] THEN Outside ELSE @]
    /\ UNCHANGED <<database, publishers, inbox, connected, granted, fenced, evicting,
                   observed, faults>>

\* board:leave, which does not wait for a join under way.
LeaveRoom(s) ==
    /\ room[s] # Outside
    /\ room' = [room EXCEPT ![s] = Outside]
    /\ UNCHANGED <<database, publishers, inbox, connected, join, granted, fenced,
                   evicting, observed, faults>>

\* revokeUserWorkspace fences every socket of the user in this process.
FencedByMutant(n) == {s \in Socket : Home[s] = n /\ room[s] # Outside}
FencedBy(n) == {s \in Socket : Home[s] = n /\ connected[s]}

\* The event arrives: the sockets are fenced, then the handlers read which of
\* them are in a room of the Workspace.
HandleEvent(n, e) ==
    /\ e \in inbox[n]
    /\ inbox' = [inbox EXCEPT ![n] = @ \ {e}]
    /\ fenced' = [s \in Socket |-> fenced[s] \/ s \in FencedBy(n)]
    /\ evicting' = [s \in Socket |->
                      evicting[s] \/ (Home[s] = n /\ room[s] # Outside)]
    /\ handled' = [handled EXCEPT ![n] = @ \cup {e.row}]
    /\ UNCHANGED <<database, publishers, connected, join, granted, room, published,
                   faults>>

\* evictBoardSocketFromRooms leaves the rooms ...
Evict(s) ==
    /\ evicting[s]
    /\ room' = [room EXCEPT ![s] = Outside]
    /\ evicting' = [evicting EXCEPT ![s] = FALSE]
    /\ UNCHANGED <<database, publishers, inbox, connected, join, granted, fenced,
                   observed, faults>>

\* ... and disconnects the socket when it cannot.
EvictFails(s) ==
    /\ evicting[s]
    /\ Fault
    /\ Gone({s})
    /\ UNCHANGED <<database, publishers, inbox, observed>>
-----------------------------------------------------------------------------
PublisherStep(p) ==
    \/ LeaveWorkspace(p)
    \/ Claim(p) \/ Publish(p) \/ MarkDelivered(p) \/ MarkPublishFailure(p)

JoinStep(s) == EnterRoom(s) \/ ConfirmJoin(s)

Next ==
    \/ AcceptInvitation
    \/ \E p \in Publisher :
        \/ RemoveMember(p) \/ StartLeave(p) \/ PublisherStep(p)
        \/ PublishFails(p) \/ DeliverFails(p) \/ Abandon(p)
        \/ \E r \in Row : Sweep(p, r)
    \/ \E r \in Row : BecomesDue(r) \/ ClaimExpires(r)
    \/ \E s \in Socket :
        \/ Connect(s) \/ Disconnect(s) \/ CheckAccess(s) \/ LeaveRoom(s)
        \/ JoinStep(s) \/ Evict(s) \/ EvictFails(s)
    \/ \E n \in Server :
        \/ RestartServer(n)
        \/ \E e \in inbox[n] : HandleEvent(n, e)

Spec == Init /\ [][Next]_vars

\* Promises settle, timers fire and subscribed events arrive.  The sweep runs
\* every second and comes back to every due row, however often Publisher runs
\* are busy when it does.  Users owe nothing.
FairSpec ==
    /\ Spec
    /\ \A p \in Publisher : WF_vars(PublisherStep(p))
    /\ \A r \in Row : /\ WF_vars(BecomesDue(r))
                      /\ WF_vars(~IsHeld(r) /\ ClaimExpires(r))
                      /\ SF_vars(\E p \in Publisher : Sweep(p, r))
    /\ \A s \in Socket : WF_vars(JoinStep(s)) /\ WF_vars(Evict(s))
    /\ \A n \in Server : WF_vars(\E e \in inbox[n] : HandleEvent(n, e))
-----------------------------------------------------------------------------
\* Every variable keeps to its type.
TypeOK ==
    /\ member \in BOOLEAN /\ removals \in Epoch
    /\ status \in [Row -> {"none", "pending", "publishing", "delivered"}]
    /\ due \in [Row -> BOOLEAN] /\ stale \in [Row -> BOOLEAN]
    /\ claim \in [Row -> Nat] /\ attempts \in [Row -> Nat]
    /\ step \in [Publisher -> {"idle", "leave", "claim", "publish", "deliver", "fail"}]
    /\ target \in [Publisher -> Row \cup {0}] /\ token \in [Publisher -> Nat]
    /\ inbox \in [Server -> SUBSET [row : Row, attempt : Nat]]
    /\ connected \in [Socket -> BOOLEAN] /\ fenced \in [Socket -> BOOLEAN]
    /\ evicting \in [Socket -> BOOLEAN]
    /\ join \in [Socket -> {"idle", "allowed", "entered"}]
    /\ granted \in [Socket -> Epoch] /\ room \in [Socket -> Epoch \cup {Outside}]
    /\ published \subseteq Row /\ handled \in [Server -> SUBSET Row]
    /\ faults \in 0..MaxFaults

\* The socket was let into the room under a membership that ended with
\* removal r or before it.
IsInsideSince(s, r) == room[s] \in 0..(r - 1)

\* Once a realtime process has handled the event of a removal and its own
\* evictions are done, none of its sockets is established in the room under a
\* membership that this removal ended: not one that was joining when the
\* event came, not one that asked again afterwards, and not when the events of
\* two removals arrive twice or in the wrong order.
HandledMeansOutside ==
    \A s \in Socket : \A r \in handled[Home[s]] :
        IsInsideSince(s, r) => evicting[s] \/ (join[s] = "entered" /\ fenced[s])

\* A row under a claim leaves it, or passes to another attempt, only by the
\* publisher that holds the claim or when the claim timed out: a publisher
\* that comes back after its claim was taken over changes nothing.
ClaimIsRespected ==
    [][\A r \in Row :
          status[r] = "publishing" /\ ~stale[r] /\ claim'[r] # claim[r]
          => \E p \in Publisher :
                /\ target[p] = r /\ token[p] = claim[r]
                /\ step[p] \in {"deliver", "fail"} /\ step'[p] = "idle"]_vars

\* The outbox is a reliable one: what is put aside as delivered was published
\* before and stays delivered, and every committed removal is published and
\* put aside in the end, whatever crashes and failures come between.
Outbox == INSTANCE ReliableOutbox WITH
    Message <- Row,
    owed <- {r \in Row : status[r] # "none"},
    sent <- published,
    settled <- {r \in Row : status[r] = "delivered"}
ImplementsOutbox == Outbox!Spec

\* Whoever is in the room under a membership that has ended is taken out of it.
RemovedMemberLeaves ==
    \A s \in Socket : \A r \in Row :
        (r <= removals /\ IsInsideSince(s, r)) ~> ~IsInsideSince(s, r)
=============================================================================
