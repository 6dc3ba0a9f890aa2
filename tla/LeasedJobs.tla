----------------------------- MODULE LeasedJobs -----------------------------
(***************************************************************************)
(* What leases promise.  Several workers may be at work on one job, since  *)
(* a lease runs out while its worker goes on.  But a job that is leased    *)
(* changes hands only after its lease has run out, its outcome is decided  *)
(* once every time it is begun, and by nobody but the worker that took it  *)
(* last, who thereby leaves it.                                            *)
(***************************************************************************)
CONSTANTS
    Job,
    Worker,
    Nobody              \* no worker

VARIABLES
    status,             \* of every job: none, queued, running, success, failed
    owner,              \* who was given it last
    live,               \* the owner's lease has not run out
    atWork              \* who works on it, rightly or not

vars == <<status, owner, live, atWork>>

Init ==
    /\ status = [j \in Job |-> "none"]
    /\ owner = [j \in Job |-> Nobody]
    /\ live = [j \in Job |-> FALSE]
    /\ atWork = [j \in Job |-> {}]

Becomes(j, s, w, l) ==
    /\ status' = [status EXCEPT ![j] = s]
    /\ owner' = [owner EXCEPT ![j] = w]
    /\ live' = [live EXCEPT ![j] = l]

Same == UNCHANGED atWork

Forget(j) == status[j] \in {"success", "failed"} /\ Becomes(j, "none", Nobody, FALSE) /\ Same

\* A job is put into the queue, for the first time or again.
Offer(j, w) ==
    /\ status[j] \in {"none", "queued", "running"}
    /\ ~live[j]
    /\ Becomes(j, "queued", w, FALSE)
    /\ Same

Take(j, w) ==
    /\ status[j] \in {"queued", "running"}
    /\ ~live[j]
    /\ Becomes(j, "running", w, TRUE)
    /\ atWork' = [atWork EXCEPT ![j] = @ \cup {w}]

Renew(j) == status[j] = "running" /\ Becomes(j, "running", owner[j], TRUE) /\ Same
Expire(j) == Becomes(j, status[j], owner[j], FALSE) /\ Same

Leave(j, w) ==
    /\ atWork' = [atWork EXCEPT ![j] = @ \ {w}]
    /\ UNCHANGED <<status, owner, live>>

\* The outcome, which the worker that was given the job last decides.
Decide(j, s) ==
    /\ status[j] = "running"
    /\ owner[j] \in atWork[j]
    /\ atWork' = [atWork EXCEPT ![j] = @ \ {owner[j]}]
    /\ Becomes(j, s, Nobody, FALSE)

\* A job that nobody has begun is given up.
Drop(j) == status[j] = "queued" /\ Becomes(j, "failed", Nobody, FALSE) /\ Same

Next ==
    \E j \in Job :
        \/ Forget(j) \/ Renew(j) \/ Expire(j)
        \/ Decide(j, "success") \/ Decide(j, "failed") \/ Drop(j)
        \/ \E w \in Worker : Offer(j, w) \/ Take(j, w) \/ Leave(j, w)

Spec == Init /\ [][Next]_vars
=============================================================================
