------------------------- MODULE DocumentCheckpoint -------------------------
(***************************************************************************)
(* Durable checkpoints of one collaborative Drive document.                *)
(*                                                                         *)
(* Every Realtime Server (Node) keeps the document as a Yjs value in       *)
(* memory and saves it to the App Server as a versioned snapshot.  The     *)
(* snapshot API is a compare-and-swap on documents.current_version; a      *)
(* server that loses the race merges the winning snapshot and tries once   *)
(* more.  With DOCUMENT_REDIS_SYNC_ENABLED the servers also exchange       *)
(* updates through Redis and take a renewable lease around each store,     *)
(* which then re-reads the latest snapshot before it saves.                *)
(*                                                                         *)
(* A Yjs document is the set of edits it contains: applying an update is   *)
(* union, and "has changes beyond" is set difference.  A store is a Work   *)
(* slot of its node; a node may have several stores in flight, because     *)
(* nothing in document-checkpoint.service.ts forbids it.                   *)
(***************************************************************************)
EXTENDS Integers

CONSTANTS
    Node,           \* Realtime Server processes
    Edit,           \* editor changes, each made once by some client
    Work,           \* store slots
    Owner,          \* the node a store slot belongs to
    NoWork,         \* "no store": a free lease, a request nobody waits for
    Abandoned,      \* a lease whose holder is gone: it only ends by its TTL
    Distributed,    \* DOCUMENT_REDIS_SYNC_ENABLED
    MaxFaults       \* bound: timeouts, Redis errors, lost leases, crashes

ASSUME ConstantsAssumption ==
    /\ Owner \in [Work -> Node]
    /\ NoWork \notin Work
    /\ Abandoned \notin Work
    /\ NoWork # Abandoned
    /\ Distributed \in BOOLEAN
    /\ MaxFaults \in Nat

VARIABLES
    dbVersion,      \* App Server: documents.current_version
    snapshots,      \* App Server: document_snapshots, by version
    requests,       \* PUT /snapshot requests the App Server has not run yet
    phase,          \* each node's life: process and document
    doc,            \* each node's Yjs document
    own,            \* the edits clients handed to this node's document
    dirty,          \* Hocuspocus owes a debounced onStoreDocument
    curVersion,     \* currentVersionByRoom
    failed,         \* failedStoreByRoom: none, the latest input, an older one
    latestWorks,    \* the stores whose input is latestStoreByRoom's
    loadGot,        \* version inside a bootstrap response being delivered
    pc,             \* how far a store is
    got,            \* version inside a response a store is about to handle
    retried,        \* the store has spent its one conflict retry
    lost,           \* runExclusive's ownershipLost
    lease,          \* the Redis key pilo:documents:checkpoint:<room>
    accepted,       \* every edit some node ever took (history)
    faults          \* faults so far

serverVars == <<dbVersion, snapshots, requests>>
nodeVars   == <<phase, doc, own, dirty, curVersion, failed, loadGot>>
workVars   == <<latestWorks, pc, got, retried, lost>>
vars == <<serverVars, nodeVars, workVars, lease, accepted, faults>>

NoVersion == -1
Phase == {"unloaded", "loading", "open", "draining", "stopped"}

\* A response is on its way in "refreshed", "saved", "conflicted" and "merged".
Remote  == {"refreshing", "refreshed", "saving", "saved",
            "conflicted", "merging", "merged"}
Holding == Remote \cup {"done", "erred"}
PC == {"idle", "acquire", "succeeded", "rejected"} \cup Holding

WorksOf(n) == {w \in Work : Owner[w] = n}
Settled(n) == \A w \in WorksOf(n) : pc[w] = "idle"
Loaded(n)  == phase[n] \in {"open", "draining"}
Saved      == snapshots[dbVersion]

Request == [from : Work \cup {NoWork}, expected : Nat, content : SUBSET Edit]

TypeOK ==
    /\ dbVersion \in Nat
    /\ snapshots \in [0 .. dbVersion -> SUBSET Edit]
    /\ requests \in SUBSET Request
    /\ phase \in [Node -> Phase]
    /\ doc \in [Node -> SUBSET Edit]
    /\ own \in [Node -> SUBSET Edit]
    /\ dirty \in [Node -> BOOLEAN]
    /\ curVersion \in [Node -> Nat \cup {NoVersion}]
    /\ failed \in [Node -> {"none", "latest", "superseded"}]
    /\ loadGot \in [Node -> Nat]
    /\ latestWorks \in SUBSET Work
    /\ pc \in [Work -> PC]
    /\ got \in [Work -> Nat]
    /\ retried \in [Work -> BOOLEAN]
    /\ lost \in [Work -> BOOLEAN]
    /\ lease \in Work \cup {NoWork, Abandoned}
    /\ accepted \in SUBSET Edit
    /\ faults \in 0 .. MaxFaults

\* A new document is stored with version 0 and an empty snapshot.
Init ==
    /\ dbVersion = 0
    /\ snapshots = [v \in 0 .. 0 |-> {}]
    /\ requests = {}
    /\ phase = [n \in Node |-> "unloaded"]
    /\ doc = [n \in Node |-> {}]
    /\ own = [n \in Node |-> {}]
    /\ dirty = [n \in Node |-> FALSE]
    /\ curVersion = [n \in Node |-> NoVersion]
    /\ failed = [n \in Node |-> "none"]
    /\ loadGot = [n \in Node |-> 0]
    /\ latestWorks = {}
    /\ pc = [w \in Work |-> "idle"]
    /\ got = [w \in Work |-> 0]
    /\ retried = [w \in Work |-> FALSE]
    /\ lost = [w \in Work |-> FALSE]
    /\ lease = NoWork
    /\ accepted = {}
    /\ faults = 0

Fault == faults < MaxFaults /\ faults' = faults + 1

-----------------------------------------------------------------------------
(* Loading, editing and fanning out *)

\* The App Server answers GET /documents/{id}.
LoadRead(n) ==
    /\ phase[n] = "unloaded"
    /\ phase' = [phase EXCEPT ![n] = "loading"]
    /\ loadGot' = [loadGot EXCEPT ![n] = dbVersion]
    /\ UNCHANGED <<serverVars, doc, own, dirty, curVersion, failed,
                   workVars, lease, accepted, faults>>

\* loadDocument takes the version from the response that holds the snapshot.
LoadedVersion(n) == loadGot[n]

\* loadDocument records the version and Hocuspocus opens the document.
LoadApply(n) ==
    /\ phase[n] = "loading"
    /\ phase' = [phase EXCEPT ![n] = "open"]
    /\ curVersion' = [curVersion EXCEPT ![n] = LoadedVersion(n)]
    /\ doc' = [doc EXCEPT ![n] = snapshots[loadGot[n]]]
    /\ own' = [own EXCEPT ![n] = {}]
    /\ UNCHANGED <<serverVars, dirty, failed, loadGot,
                   workVars, lease, accepted, faults>>

LoadFails(n) ==
    /\ Fault
    /\ phase[n] = "loading"
    /\ phase' = [phase EXCEPT ![n] = "unloaded"]
    /\ UNCHANGED <<serverVars, doc, own, dirty, curVersion, failed, loadGot,
                   workVars, lease, accepted>>

\* A client sends an edit, for the first time or again after it reconnected.
ReceiveEdit(n, e) ==
    /\ phase[n] = "open"
    /\ e \notin doc[n]
    /\ doc' = [doc EXCEPT ![n] = @ \cup {e}]
    /\ own' = [own EXCEPT ![n] = @ \cup {e}]
    /\ dirty' = [dirty EXCEPT ![n] = TRUE]
    /\ accepted' = accepted \cup {e}
    /\ UNCHANGED <<serverVars, phase, curVersion, failed, loadGot,
                   workVars, lease, faults>>

\* The Redis extension applies a peer's updates; they owe no store here.
Sync(n, m) ==
    /\ Distributed
    /\ Loaded(n) /\ Loaded(m)
    /\ ~ doc[n] \subseteq doc[m]
    /\ doc' = [doc EXCEPT ![m] = @ \cup doc[n]]
    /\ UNCHANGED <<serverVars, phase, own, dirty, curVersion, failed, loadGot,
                   workVars, lease, accepted, faults>>

-----------------------------------------------------------------------------
(* One store *)

\* save(): the document is encoded when the request is sent.
SendSave(w, expected, content) ==
    requests' = requests \cup
        {[from |-> w, expected |-> expected, content |-> content]}

\* startStore: under the lease, or at once with the version known so far.
StartStore(w) ==
    /\ retried' = [retried EXCEPT ![w] = FALSE]
    /\ lost' = [lost EXCEPT ![w] = FALSE]
    /\ IF Distributed
         THEN /\ pc' = [pc EXCEPT ![w] = "acquire"]
              /\ UNCHANGED requests
         ELSE /\ pc' = [pc EXCEPT ![w] = "saving"]
              /\ SendSave(w, curVersion[Owner[w]], doc[Owner[w]])
    /\ UNCHANGED got

\* The debounced (or flushed) onStoreDocument: its input is now the latest.
StoreDocument(n, w) ==
    /\ Loaded(n)
    /\ dirty[n]
    /\ w \in WorksOf(n)
    /\ pc[w] = "idle"
    /\ dirty' = [dirty EXCEPT ![n] = FALSE]
    /\ latestWorks' = (latestWorks \ WorksOf(n)) \cup {w}
    /\ failed' = [failed EXCEPT ![n] = IF @ = "latest" THEN "superseded" ELSE @]
    /\ StartStore(w)
    /\ UNCHANGED <<dbVersion, snapshots, phase, doc, own, curVersion, loadGot,
                   lease, accepted, faults>>

\* SET NX PX: exactly one store holds the key.
SetLeaseMutant(w) == lease' = w         \* SET without NX
SetLease(w) == lease = NoWork /\ lease' = w

AcquireLease(w) ==
    /\ pc[w] = "acquire"
    /\ SetLease(w)
    /\ pc' = [pc EXCEPT ![w] = "refreshing"]
    /\ UNCHANGED <<serverVars, nodeVars, latestWorks, got, retried, lost,
                   accepted, faults>>

\* The wait for the key exceeds maxLockWaitMs, or Redis does not answer.  The
\* SET may have been done all the same, and nobody releases its key.
AcquireFails(w) ==
    /\ Fault
    /\ pc[w] = "acquire"
    /\ pc' = [pc EXCEPT ![w] = "rejected"]
    /\ lease' \in {lease} \cup (IF lease = NoWork THEN {Abandoned} ELSE {})
    /\ UNCHANGED <<serverVars, nodeVars, latestWorks, got, retried, lost,
                   accepted>>

\* The App Server answers the GET of refreshBeforeStore or of a conflict.
ServerRead(w) ==
    /\ pc[w] \in {"refreshing", "merging"}
    /\ pc' = [pc EXCEPT ![w] =
                 IF @ = "refreshing" THEN "refreshed" ELSE "merged"]
    /\ got' = [got EXCEPT ![w] = dbVersion]
    /\ UNCHANGED <<serverVars, nodeVars, latestWorks, retried, lost,
                   lease, accepted, faults>>

\* Merge the snapshot just read and remember its version.
ApplyLatestMutant(w) ==                 \* adopts the version, not the content
    /\ UNCHANGED doc
    /\ curVersion' = [curVersion EXCEPT ![Owner[w]] = got[w]]
ApplyLatest(w) ==
    /\ doc' = [doc EXCEPT ![Owner[w]] = @ \cup snapshots[got[w]]]
    /\ curVersion' = [curVersion EXCEPT ![Owner[w]] = got[w]]

\* hasChangesBeyondUpdate, against the snapshot just read.
HasUnpersistedMutant(w) == got[w] # curVersion[Owner[w]]  \* trusts the version
HasUnpersisted(w) == ~ doc[Owner[w]] \subseteq snapshots[got[w]]

\* refreshBeforeStore: save what the snapshot lacks, or skip the save.
RefreshApply(w) ==
    /\ pc[w] = "refreshed"
    /\ ApplyLatest(w)
    /\ IF HasUnpersisted(w)
         THEN /\ pc' = [pc EXCEPT ![w] = "saving"]
              /\ SendSave(w, got[w], doc'[Owner[w]])
         ELSE /\ pc' = [pc EXCEPT ![w] = "done"]
              /\ UNCHANGED requests
    /\ UNCHANGED <<dbVersion, snapshots, phase, own, dirty, failed, loadGot,
                   latestWorks, got, retried, lost, lease, accepted, faults>>

\* The version guard, and the rows after a commit.
IsCurrent(r) == r.expected = dbVersion

RowsWithMutant(r) == snapshots          \* bumps the version, inserts no row
RowsWith(r) == [v \in 0 .. dbVersion + 1 |->
                  IF v <= dbVersion THEN snapshots[v] ELSE r.content]

\* saveDocumentSnapshot, under FOR UPDATE: commit the next version or 409.
ServerSave(r) ==
    /\ r \in requests
    /\ requests' = requests \ {r}
    /\ IF IsCurrent(r)
         THEN /\ dbVersion' = dbVersion + 1
              /\ snapshots' = RowsWith(r)
              /\ IF r.from = NoWork
                   THEN UNCHANGED <<pc, got>>
                   ELSE /\ pc' = [pc EXCEPT ![r.from] = "saved"]
                        /\ got' = [got EXCEPT ![r.from] = dbVersion + 1]
         ELSE /\ pc' = IF r.from = NoWork THEN pc
                       ELSE [pc EXCEPT ![r.from] = "conflicted"]
              /\ UNCHANGED <<dbVersion, snapshots, got>>
    /\ UNCHANGED <<nodeVars, latestWorks, retried, lost,
                   lease, accepted, faults>>

\* A successful save records the version it created.
SaveApply(w) ==
    /\ pc[w] = "saved"
    /\ curVersion' = [curVersion EXCEPT ![Owner[w]] = got[w]]
    /\ pc' = [pc EXCEPT ![w] = "done"]
    /\ UNCHANGED <<serverVars, phase, doc, own, dirty, failed, loadGot,
                   latestWorks, got, retried, lost, lease, accepted, faults>>

\* A first 409 fetches the latest snapshot, a second one fails the store.
Conflict(w) ==
    /\ pc[w] = "conflicted"
    /\ pc' = [pc EXCEPT ![w] = IF retried[w] THEN "erred" ELSE "merging"]
    /\ UNCHANGED <<serverVars, nodeVars, latestWorks, got, retried, lost,
                   lease, accepted, faults>>

\* The merge after a conflict, and the one retry of the save.
MergeApply(w) ==
    /\ pc[w] = "merged"
    /\ ApplyLatest(w)
    /\ retried' = [retried EXCEPT ![w] = TRUE]
    /\ pc' = [pc EXCEPT ![w] = "saving"]
    /\ SendSave(w, got[w], doc'[Owner[w]])
    /\ UNCHANGED <<dbVersion, snapshots, phase, own, dirty, failed, loadGot,
                   latestWorks, got, lost, lease, accepted, faults>>

\* The requests of these stores lose the client that waits for them.
Orphan(works) ==
    requests' = {IF r.from \in works THEN [r EXCEPT !.from = NoWork] ELSE r :
                    r \in requests}

\* requestTimeoutMs passes or the connection breaks.  A PUT that was sent may
\* still be committed; a response that was on its way is never handled.
RequestFails(w) ==
    /\ Fault
    /\ pc[w] \in Remote
    /\ pc' = [pc EXCEPT ![w] = "erred"]
    /\ Orphan({w})
    /\ UNCHANGED <<dbVersion, snapshots, nodeVars, latestWorks, got, retried,
                   lost, lease, accepted>>

\* What the work promise settles to.
OutcomeMutant(w) == "succeeded"         \* a return in the finally block
Outcome(w) == IF pc[w] = "done" /\ ~lost[w] THEN "succeeded" ELSE "rejected"

\* runExclusive ends: a lost lease turns success into failure, and the key is
\* deleted when it still holds this store's token.
ReleaseLease(w) ==
    /\ pc[w] \in {"done", "erred"}
    /\ pc' = [pc EXCEPT ![w] = Outcome(w)]
    /\ lease' = IF lease = w THEN NoWork ELSE lease
    /\ UNCHANGED <<serverVars, nodeVars, latestWorks, got, retried, lost,
                   accepted, faults>>

\* Redis does not answer the release: the result stands, the key waits.
ReleaseFails(w) ==
    /\ Fault
    /\ Distributed
    /\ pc[w] \in {"done", "erred"}
    /\ pc' = [pc EXCEPT ![w] = Outcome(w)]
    /\ lease' = IF lease = w THEN Abandoned ELSE lease
    /\ UNCHANGED <<serverVars, nodeVars, latestWorks, got, retried, lost,
                   accepted>>

\* Only the latest input of the room changes failedStoreByRoom.
IsLatest(w) == w \in latestWorks

FailedAfterMutant(w) ==                 \* success leaves the entry behind
    IF pc[w] = "succeeded" THEN failed[Owner[w]] ELSE "latest"
FailedAfter(w) == IF pc[w] = "succeeded" THEN "none" ELSE "latest"

\* The work promise settles.  Success also deletes latestStoreByRoom's entry.
SettleStore(w) ==
    LET n == Owner[w] IN
    /\ pc[w] \in {"succeeded", "rejected"}
    /\ pc' = [pc EXCEPT ![w] = "idle"]
    /\ IF IsLatest(w)
         THEN /\ failed' = [failed EXCEPT ![n] = FailedAfter(w)]
              /\ latestWorks' = latestWorks \
                     IF pc[w] = "succeeded" THEN WorksOf(n) ELSE {w}
         ELSE UNCHANGED <<failed, latestWorks>>
    /\ UNCHANGED <<serverVars, phase, doc, own, dirty, curVersion, loadGot,
                   got, retried, lost, lease, accepted, faults>>

-----------------------------------------------------------------------------
(* The lease *)

\* A renewal finds another token, or Redis does not answer it.
RenewalLost(w) ==
    /\ Distributed
    /\ pc[w] \in Holding
    /\ ~lost[w]
    /\ \/ lease # w /\ UNCHANGED faults
       \/ lease = w /\ Fault
    /\ lost' = [lost EXCEPT ![w] = TRUE]
    /\ UNCHANGED <<serverVars, nodeVars, latestWorks, pc, got, retried,
                   lease, accepted>>

\* The TTL ends the key: of a holder that is gone, or (a fault) of one whose
\* renewals come too late.
LeaseExpires ==
    /\ \/ lease = Abandoned /\ UNCHANGED faults
       \/ lease \in Work /\ Fault
    /\ lease' = NoWork
    /\ UNCHANGED <<serverVars, nodeVars, workVars, accepted>>

-----------------------------------------------------------------------------
(* Unloading, shutting down and crashing *)

\* No debounce, no pendingStores, no failedStoreByRoom entry.
NothingOwedMutant(n) == ~dirty[n] /\ Settled(n)             \* forgets failures
NothingOwed(n) == ~dirty[n] /\ Settled(n) /\ failed[n] = "none"

\* Hocuspocus keeps a document that owes a store, stores now or failed to.
Unload(n) ==
    /\ phase[n] = "open"
    /\ NothingOwed(n)
    /\ phase' = [phase EXCEPT ![n] = "unloaded"]
    /\ doc' = [doc EXCEPT ![n] = {}]
    /\ own' = [own EXCEPT ![n] = {}]
    /\ UNCHANGED <<serverVars, dirty, curVersion, failed, loadGot,
                   workVars, lease, accepted, faults>>

\* shutdown(): connections close, so no client edits any more.  A process
\* without the document has nothing to drain, and its exit changes nothing here.
Shutdown(n) ==
    /\ phase[n] = "open"
    /\ phase' = [phase EXCEPT ![n] = "draining"]
    /\ UNCHANGED <<serverVars, doc, own, dirty, curVersion, failed, loadGot,
                   workVars, lease, accepted, faults>>

\* drain(): with nothing pending, the failed input is stored again.
RetryFailed(n, w) ==
    /\ phase[n] = "draining"
    /\ Settled(n)
    /\ failed[n] # "none"
    /\ w \in WorksOf(n)
    /\ latestWorks' = IF failed[n] = "latest" THEN latestWorks \cup {w}
                                              ELSE latestWorks
    /\ StartStore(w)
    /\ UNCHANGED <<dbVersion, snapshots, nodeVars, lease, accepted, faults>>

\* Nothing owed, pending or failed: the document is unloaded, the process exits.
DrainDone(n) ==
    /\ phase[n] = "draining"
    /\ NothingOwed(n)
    /\ phase' = [phase EXCEPT ![n] = "stopped"]
    /\ doc' = [doc EXCEPT ![n] = {}]
    /\ curVersion' = [curVersion EXCEPT ![n] = NoVersion]
    /\ UNCHANGED <<serverVars, own, dirty, failed, loadGot,
                   workVars, lease, accepted, faults>>

\* A new process takes the place of the one that stopped.
Start(n) ==
    /\ phase[n] = "stopped"
    /\ phase' = [phase EXCEPT ![n] = "unloaded"]
    /\ own' = [own EXCEPT ![n] = {}]
    /\ UNCHANGED <<serverVars, doc, dirty, curVersion, failed, loadGot,
                   workVars, lease, accepted, faults>>

\* The process dies, or gives up draining at its deadline and exits with 1.
Crash(n) ==
    /\ Fault
    /\ phase[n] \in {"loading", "open", "draining"}
    /\ phase' = [phase EXCEPT ![n] = "unloaded"]
    /\ doc' = [doc EXCEPT ![n] = {}]
    /\ own' = [own EXCEPT ![n] = {}]
    /\ dirty' = [dirty EXCEPT ![n] = FALSE]
    /\ curVersion' = [curVersion EXCEPT ![n] = NoVersion]
    /\ failed' = [failed EXCEPT ![n] = "none"]
    /\ latestWorks' = latestWorks \ WorksOf(n)
    /\ pc' = [w \in Work |-> IF Owner[w] = n THEN "idle" ELSE pc[w]]
    /\ Orphan(WorksOf(n))
    /\ lease' = IF lease \in WorksOf(n) THEN Abandoned ELSE lease
    /\ UNCHANGED <<dbVersion, snapshots, loadGot, got, retried, lost, accepted>>

-----------------------------------------------------------------------------
NodeNext(n) ==
    \/ LoadRead(n) \/ LoadApply(n) \/ LoadFails(n)
    \/ \E e \in Edit : ReceiveEdit(n, e)
    \/ \E m \in Node : Sync(n, m)
    \/ \E w \in Work : StoreDocument(n, w)
    \/ \E w \in Work : RetryFailed(n, w)
    \/ Unload(n) \/ Shutdown(n) \/ DrainDone(n) \/ Start(n) \/ Crash(n)

WorkNext(w) ==
    \/ AcquireLease(w) \/ AcquireFails(w)
    \/ ServerRead(w) \/ RefreshApply(w) \/ SaveApply(w)
    \/ Conflict(w) \/ MergeApply(w) \/ RequestFails(w)
    \/ ReleaseLease(w) \/ ReleaseFails(w) \/ SettleStore(w)
    \/ RenewalLost(w)

Next ==
    \/ \E n \in Node : NodeNext(n)
    \/ \E w \in Work : WorkNext(w)
    \/ \E r \in requests : ServerSave(r)
    \/ LeaseExpires

Spec == Init /\ [][Next]_vars

\* What a store does next when nothing fails; each pc has one such step.
StoreStep(w) ==
    \/ AcquireLease(w) \/ ServerRead(w) \/ RefreshApply(w) \/ SaveApply(w)
    \/ Conflict(w) \/ MergeApply(w) \/ ReleaseLease(w) \/ SettleStore(w)

\* Timers fire and promises settle: debounce, drain loop, requests, TTL.
\* Nobody owes an edit, a fan-out, an unload, a shutdown or a fault.
Fairness ==
    /\ \A n \in Node :
         /\ WF_vars(\E w \in Work : StoreDocument(n, w))
         /\ WF_vars(\E w \in Work : RetryFailed(n, w))
         /\ WF_vars(DrainDone(n))
    /\ \A w \in Work : WF_vars(StoreStep(w))
    /\ WF_vars(\E r \in requests : ServerSave(r))
    /\ WF_vars(lease = Abandoned /\ LeaseExpires)

FairSpec == Spec /\ Fairness

-----------------------------------------------------------------------------
(* Properties *)

\* No save ever drops what an earlier one stored: the snapshot a version
\* holds is contained in the snapshot of every later version, whichever
\* servers raced, timed out or crashed in between.
SavedEditsStay ==
    \A v \in 0 .. dbVersion : \A u \in 0 .. v : snapshots[u] \subseteq snapshots[v]

\* The version a server is about to present as its expected version names a
\* snapshot its document already contains; the compare-and-swap is only worth
\* something because of that.
KnownVersionIsMerged ==
    \A n \in Node : Loaded(n) =>
        /\ curVersion[n] \in 0 .. dbVersion
        /\ snapshots[curVersion[n]] \subseteq doc[n]

\* An edit a client handed to this server and that is not durable yet is owed
\* by somebody: a debounce, failedStoreByRoom's latest input, or a latest store
\* that has not been told its save went through.
UnsavedEditsAreOwed ==
    \A n \in Node : Loaded(n) /\ ~ own[n] \subseteq Saved =>
        \/ dirty[n]
        \/ failed[n] = "latest"
        \/ \E w \in latestWorks \cap WorksOf(n) :
              pc[w] \notin {"idle", "saved", "done", "succeeded"}

\* A server that shut down gracefully left every edit it took durable.
StoppedIsSaved ==
    \A n \in Node : phase[n] = "stopped" => own[n] \subseteq Saved

\* Normal path of the two-node deployment: while no timeout, lease loss or
\* crash has happened, the lease and the refresh leave no room for a 409.
NoConflictWithoutFaults ==
    Distributed /\ faults = 0 => \A w \in Work : pc[w] # "conflicted"

\* Whoever looks at the App Server only sees a document that grows.
Durable == INSTANCE DurableDocument WITH
    version <- dbVersion, content <- Saved, accepted <- accepted
ImplementsDurable == Durable!Spec

\* Without faults every accepted edit becomes durable.
EditsBecomeDurable ==
    \A e \in Edit : e \in accepted ~> e \in Saved

\* With App Server and Redis failing only finitely often, draining ends.
DrainEnds ==
    \A n \in Node : phase[n] = "draining" ~> phase[n] # "draining"
=============================================================================
