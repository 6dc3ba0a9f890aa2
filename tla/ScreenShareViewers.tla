-------------------------- MODULE ScreenShareViewers --------------------------
(***************************************************************************)
(* The viewers of a live screen sharing session, and how the viewers among *)
(* removed members are taken out of it.  A viewer token is registered in   *)
(* Redis before it is signed, under a lock of the membership row; when the *)
(* membership ends, every App Server hears of it and puts one task into    *)
(* Redis, which runs of processViewerRevocationTasks claim under a lease   *)
(* until the registry of the user is empty.                                *)
(***************************************************************************)
EXTENDS Naturals, FiniteSets

CONSTANTS
    User,               \* members that watch
    Token,              \* calls of createViewerToken; each makes one identity
    Holders,            \* which users may make the calls
    Server,             \* App Servers that hear of the revocation
    Run,                \* runs of processViewerRevocationTasks under way
    MaxRemovals,        \* bound: members that are removed
    MaxFaults           \* bound: crashes, lost events, calls that fail for good

ASSUME UserAssumption == User # {}        \* whoever shares is a member
ASSUME HoldersAssumption == Holders \subseteq [Token -> User]
ASSUME BoundsAssumption == MaxRemovals \in Nat /\ MaxFaults \in Nat

VARIABLES
    member,             \* users with a row in workspace_members
    live,               \* the session is the active one
    registry,           \* identities in the set of viewers of the session
    task,               \* the sorted set of revocations: due, leased or none
    call,               \* where each createViewerToken stands
    viewer,             \* what LiveKit knows of each identity
    inbox,              \* revocation events on their way to the App Servers
    step,               \* where each run stands
    target,             \* the user of its task
    todo,               \* identities it still has to revoke
    gone,               \* identities it has revoked and will unregister
    \* observed only
    holder,             \* the user of each token
    handled,            \* users whose revocation some App Server took in
    faults

observed == <<holder, handled>>
calls == <<member, call>>
runs == <<step, target, todo, gone>>
vars == <<calls, live, registry, task, viewer, inbox, runs, observed, faults>>

Of(u) == {v \in Token : holder[v] = u}

Init ==
    /\ member = User
    /\ live = TRUE
    /\ registry = {}
    /\ task = [u \in User |-> "none"]
    /\ call = [v \in Token |-> "none"]
    /\ viewer = [v \in Token |-> "unknown"]
    /\ inbox = {}
    /\ step = [r \in Run |-> "idle"]
    /\ target = [r \in Run |-> CHOOSE u \in User : TRUE]
    /\ todo = [r \in Run |-> {}]
    /\ gone = [r \in Run |-> {}]
    /\ holder \in Holders
    /\ handled = {}
    /\ faults = 0

Fault == faults < MaxFaults /\ faults' = faults + 1

Calls(v, next) == call' = [call EXCEPT ![v] = next]
Views(v, next) == viewer' = [viewer EXCEPT ![v] = next]
-----------------------------------------------------------------------------
\* createViewerToken, in a transaction that holds the membership row

LockMembership(v) ==
    /\ call[v] = "none"
    /\ holder[v] \in member
    /\ live
    /\ Calls(v, "locked")
    /\ UNCHANGED <<member, live, registry, task, viewer, inbox, runs, observed, faults>>

\* The identity is registered before the token is signed.
Register(v) ==
    /\ call[v] = "locked"
    /\ IF live
       THEN registry' = registry \cup {v} /\ Calls(v, "registered")
       ELSE UNCHANGED registry /\ Calls(v, "done")
    /\ UNCHANGED <<member, live, task, viewer, inbox, runs, observed, faults>>

Sign(v) ==
    /\ call[v] = "registered"
    /\ Views(v, "invited")
    /\ Calls(v, "done")
    /\ UNCHANGED <<member, live, registry, task, inbox, runs, observed, faults>>

\* No token: the identity is unregistered again.
SignFails(v) ==
    /\ call[v] = "registered"
    /\ Fault
    /\ registry' = IF live THEN registry \ {v} ELSE registry
    /\ Calls(v, "done")
    /\ UNCHANGED <<member, live, task, viewer, inbox, runs, observed>>

\* The process stops in the transaction, and the database ends it.
CallStops(v) ==
    /\ call[v] \in {"locked", "registered"}
    /\ Fault
    /\ Calls(v, "done")
    /\ UNCHANGED <<member, live, registry, task, viewer, inbox, runs, observed>>

\* The membership row can only be deleted while no call holds it.  The outbox
\* publishes the event to every App Server.
RowIsFreeMutant(u) == TRUE                                    \* no FOR KEY SHARE
RowIsFree(u) == \A v \in Of(u) : call[v] \notin {"locked", "registered"}

RemoveMember(u) ==
    /\ u \in member
    /\ Cardinality(User \ member) < MaxRemovals
    /\ RowIsFree(u)
    /\ member' = member \ {u}
    /\ inbox' = inbox \cup {[server |-> n, user |-> u] : n \in Server}
    /\ UNCHANGED <<live, registry, task, call, viewer, runs, observed, faults>>
-----------------------------------------------------------------------------
\* LiveKit and time

\* A token that is still good, whether or not somebody is in the room with it.
IsUsable(v) == viewer[v] \in {"invited", "joined"}
IsInside(v) == viewer[v] \in {"joined", "watching"}

Watch(v) ==
    /\ viewer[v] = "invited"
    /\ Views(v, "joined")
    /\ UNCHANGED <<calls, live, registry, task, inbox, runs, observed, faults>>

\* Who leaves may come back with a token that is still good.
OutOfRoom(v) ==
    IF viewer[v] = "joined" THEN "invited"
    ELSE IF viewer[v] = "watching" THEN "left" ELSE viewer[v]

StopWatching(v) ==
    /\ IsInside(v)
    /\ Views(v, OutOfRoom(v))
    /\ UNCHANGED <<calls, live, registry, task, inbox, runs, observed, faults>>

\* 45 seconds: nobody can join with the token any more; who has joined stays.
TokenLapses(v) ==
    /\ IsUsable(v)
    /\ Views(v, IF viewer[v] = "joined" THEN "watching" ELSE "lapsed")
    /\ UNCHANGED <<calls, live, registry, task, inbox, runs, observed, faults>>

\* 60 seconds after the last registration of the user: its tokens have lapsed
\* by then, though their viewers may be there still.
RegistryMayExpire(u) ==
    \A v \in Of(u) : call[v] # "registered" /\ ~IsUsable(v)

RegistryExpires(u) ==
    /\ registry \cap Of(u) # {}
    /\ RegistryMayExpire(u)
    /\ registry' = registry \ Of(u)
    /\ UNCHANGED <<calls, live, task, viewer, inbox, runs, observed, faults>>

\* terminateIfCurrent deletes the registry; deleteRoom puts everybody out.
SessionEnds ==
    /\ live
    /\ live' = FALSE
    /\ registry' = {}
    /\ viewer' = [v \in Token |-> OutOfRoom(v)]
    /\ UNCHANGED <<calls, task, inbox, runs, observed, faults>>

\* The lease of a task, or the delay of a retry, is over.
TaskComesDue(u) ==
    /\ task[u] = "leased"
    /\ task' = [task EXCEPT ![u] = "due"]
    /\ UNCHANGED <<calls, live, registry, viewer, inbox, runs, observed, faults>>
-----------------------------------------------------------------------------
\* The revocation

\* handleMembershipRevocation: ZADD NX keeps a task that is there already.
HandleRevocation(e) ==
    /\ e \in inbox
    /\ inbox' = inbox \ {e}
    /\ task' = IF live /\ task[e.user] = "none" THEN [task EXCEPT ![e.user] = "due"]
               ELSE task
    /\ handled' = handled \cup {e.user}
    /\ UNCHANGED <<holder, calls, live, registry, viewer, runs, faults>>

\* The App Server is down, or Redis fails it.
LoseRevocation(e) ==
    /\ e \in inbox
    /\ Fault
    /\ inbox' = inbox \ {e}
    /\ UNCHANGED <<calls, live, registry, task, viewer, runs, observed>>

ClaimedTaskMutant == "none"                                   \* taken out
ClaimedTask == "leased"

Claim(r, u) ==
    /\ step[r] = "idle"
    /\ task[u] = "due"
    /\ task' = [task EXCEPT ![u] = ClaimedTask]
    /\ target' = [target EXCEPT ![r] = u]
    /\ step' = [step EXCEPT ![r] = "list"]
    /\ UNCHANGED <<calls, live, registry, viewer, inbox, todo, gone, observed, faults>>

ListedMutant(u) == registry                                   \* of everybody
Listed(u) == registry \cap Of(u)

List(r) ==
    /\ step[r] = "list"
    /\ todo' = [todo EXCEPT ![r] = Listed(target[r])]
    /\ step' = [step EXCEPT ![r] = "revoke"]
    /\ UNCHANGED <<calls, live, registry, task, viewer, inbox, target, gone, observed, faults>>

\* revokeViewerIdentityWithRetry: LiveKit first, the registry afterwards.
RevokeIdentity(r, v) ==
    /\ v \in todo[r]
    /\ Views(v, "removed")
    /\ todo' = [todo EXCEPT ![r] = @ \ {v}]
    /\ gone' = [gone EXCEPT ![r] = @ \cup {v}]
    /\ UNCHANGED <<calls, live, registry, task, inbox, step, target, observed, faults>>

\* All its retries fail.
RevokeFails(r, v) ==
    /\ v \in todo[r]
    /\ Fault
    /\ todo' = [todo EXCEPT ![r] = @ \ {v}]
    /\ UNCHANGED <<calls, live, registry, task, viewer, inbox, step, target, gone, observed>>

Unregister(r, v) ==
    /\ v \in gone[r]
    /\ registry' = registry \ {v}
    /\ gone' = [gone EXCEPT ![r] = @ \ {v}]
    /\ UNCHANGED <<calls, live, task, viewer, inbox, step, target, todo, observed, faults>>

\* completeViewerRevocation: the task ends when the registry is empty.
IsDone(u) == registry \cap Of(u) = {}

Complete(r) ==
    /\ step[r] = "revoke"
    /\ todo[r] = {} /\ gone[r] = {}
    /\ task' = [task EXCEPT ![target[r]] = IF IsDone(target[r]) THEN "none" ELSE "leased"]
    /\ step' = [step EXCEPT ![r] = "idle"]
    /\ UNCHANGED <<calls, live, registry, viewer, inbox, target, todo, gone, observed, faults>>

\* The process stops, or Redis fails it.
Abandon(r) ==
    /\ step[r] # "idle"
    /\ Fault
    /\ step' = [step EXCEPT ![r] = "idle"]
    /\ todo' = [todo EXCEPT ![r] = {}]
    /\ gone' = [gone EXCEPT ![r] = {}]
    /\ UNCHANGED <<calls, live, registry, task, viewer, inbox, target, observed>>
-----------------------------------------------------------------------------
RunStep(r) ==
    \/ List(r) \/ Complete(r)
    \/ \E v \in Token : RevokeIdentity(r, v) \/ Unregister(r, v)

Next ==
    \/ \E v \in Token :
        \/ LockMembership(v) \/ Register(v) \/ Sign(v) \/ SignFails(v) \/ CallStops(v)
        \/ Watch(v) \/ StopWatching(v) \/ TokenLapses(v)
    \/ \E u \in User :
        \/ RemoveMember(u) \/ RegistryExpires(u) \/ TaskComesDue(u)
        \/ \E r \in Run : Claim(r, u)
    \/ \E e \in inbox : HandleRevocation(e) \/ LoseRevocation(e)
    \/ \E r \in Run :
        \/ RunStep(r) \/ Abandon(r)
        \/ \E v \in Token : RevokeFails(r, v)
    \/ SessionEnds

Spec == Init /\ [][Next]_vars

\* Published events arrive, calls return, leases pass and the sweep of every
\* App Server comes to each due task.  Viewers, sharers and the expiry of the
\* registry owe nothing.
FairSpec ==
    /\ Spec
    /\ WF_vars(\E e \in inbox : HandleRevocation(e))
    /\ \A r \in Run : WF_vars(RunStep(r))
    /\ \A u \in User :
        /\ WF_vars(TaskComesDue(u))
        /\ SF_vars(\E r \in Run : Claim(r, u))
-----------------------------------------------------------------------------
\* Every variable keeps to its type.
TypeOK ==
    /\ member \subseteq User /\ live \in BOOLEAN /\ registry \subseteq Token
    /\ task \in [User -> {"none", "due", "leased"}]
    /\ call \in [Token -> {"none", "locked", "registered", "done"}]
    /\ viewer \in [Token -> {"unknown", "invited", "joined", "lapsed", "watching",
                            "left", "removed"}]
    /\ inbox \subseteq [server : Server, user : User]
    /\ step \in [Run -> {"idle", "list", "revoke"}]
    /\ target \in [Run -> User] /\ DOMAIN todo = Run /\ DOMAIN gone = Run
    /\ \A r \in Run : todo[r] \cup gone[r] \subseteq Of(target[r])
    /\ holder \in [Token -> User] /\ handled \subseteq User /\ faults \in 0..MaxFaults

\* Once an App Server has taken in the revocation of a member and no task is
\* left of it, no token of the member can be used to join the session: not
\* one that was being signed when the membership ended, and not one whose
\* removal failed or was cut short by a crash.
NoTokenIsForgotten ==
    \A u \in handled : live /\ task[u] = "none"
                       => \A v \in Of(u) : ~IsUsable(v)

\* A task that was put down is worked on until the registry of its user is
\* empty, whatever crashes come between.
RevocationEnds ==
    \A u \in User : (task[u] # "none") ~> (registry \cap Of(u) = {})

\* A member that was removed while it watched is taken out of the live session.
RemovedViewerLeaves ==
    \A v \in Token :
        (live /\ holder[v] \in handled /\ IsInside(v)) ~> (~live \/ ~IsInside(v))
=============================================================================
