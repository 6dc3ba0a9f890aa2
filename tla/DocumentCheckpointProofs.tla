---------------------- MODULE DocumentCheckpointProofs ----------------------
(***************************************************************************)
(* Proofs about DocumentCheckpoint for every set of nodes, edits and store *)
(* slots, with and without Redis, and for every number of faults.          *)
(***************************************************************************)
EXTENDS DocumentCheckpoint, TLAPS

-----------------------------------------------------------------------------
(* The inductive invariants *)

\* Every version somebody remembers is one the App Server has created.
VersionsExist ==
    /\ \A n \in Node : loadGot[n] <= dbVersion
    /\ \A n \in Node : Loaded(n) => curVersion[n] \in 0 .. dbVersion
    /\ \A w \in Work : got[w] <= dbVersion
    /\ \A r \in requests : r.expected <= dbVersion

\* A store runs only while its node has the document.
StoresAreLoaded ==
    \A w \in Work : pc[w] # "idle" => Loaded(Owner[w])

\* A request somebody waits for belongs to a store in "saving", which waits
\* for that request alone.
RequestsAreAwaited ==
    /\ \A r \in requests : r.from \in Work => pc[r.from] = "saving"
    /\ \A r, q \in requests : r.from \in Work /\ r.from = q.from => r = q

\* What is sent contains the snapshot it claims to extend, and is contained
\* in the document it was encoded from, as is what a save has just stored.
ContentIsMerged ==
    /\ \A r \in requests : snapshots[r.expected] \subseteq r.content
    /\ \A r \in requests : r.from \in Work => r.content \subseteq doc[Owner[r.from]]
    /\ \A w \in Work : pc[w] = "saved" => snapshots[got[w]] \subseteq doc[Owner[w]]

\* Nothing is ever stored, sent or held that no client handed in.
ContentIsAccepted ==
    /\ \A v \in 0 .. dbVersion : snapshots[v] \subseteq accepted
    /\ \A r \in requests : r.content \subseteq accepted
    /\ \A n \in Node : doc[n] \subseteq accepted

Coverage ==
    /\ VersionsExist
    /\ StoresAreLoaded
    /\ RequestsAreAwaited
    /\ ContentIsMerged
    /\ ContentIsAccepted
    /\ SavedEditsStay
    /\ KnownVersionIsMerged

\* What node n still owes its clients.  While no new edit arrives, the latest
\* store carries everything the node was handed: in its request, and in the
\* snapshot once it has succeeded.
Paid == {"saved", "done", "succeeded"}

NodeDebts(n) ==
    /\ Loaded(n) => own[n] \subseteq doc[n]
    /\ \A w \in latestWorks : Owner[w] = n /\ ~dirty[n] =>
          /\ \A r \in requests : r.from = w => own[n] \subseteq r.content
          /\ pc[w] \in Paid => own[n] \subseteq Saved
    /\ Loaded(n) /\ ~ own[n] \subseteq Saved =>
          \/ dirty[n]
          \/ failed[n] = "latest"
          \/ \E w \in latestWorks : Owner[w] = n /\ pc[w] \notin {"idle"} \cup Paid
    /\ phase[n] = "stopped" => own[n] \subseteq Saved

Debts == \A n \in Node : NodeDebts(n)

-----------------------------------------------------------------------------
(* Types *)

Typed == TypeOK /\ VersionsExist

\* A request that is sent is a request, and its version exists.
LEMMA SendSaveTyped ==
  ASSUME Typed, NEW w \in Work, NEW v \in Nat, v <= dbVersion,
         NEW c \in SUBSET Edit, SendSave(w, v, c)
  PROVE  /\ requests' \in SUBSET Request
         /\ \A r \in requests' : r.expected <= dbVersion
  BY DEF Typed, TypeOK, VersionsExist, SendSave, Request

\* Starting a store leaves requests and store state well typed.
LEMMA StartStoreTyped ==
  ASSUME Typed, NEW w \in Work, Loaded(Owner[w]), StartStore(w)
  PROVE  /\ requests' \in SUBSET Request
         /\ \A r \in requests' : r.expected <= dbVersion
         /\ pc' \in [Work -> PC]
         /\ \A v \in Work : pc'[v] # "idle" => v = w \/ pc[v] # "idle"
         /\ retried' \in [Work -> BOOLEAN] /\ lost' \in [Work -> BOOLEAN]
<1>1. /\ Owner[w] \in Node
      /\ curVersion[Owner[w]] \in Nat /\ curVersion[Owner[w]] <= dbVersion
      /\ doc[Owner[w]] \in SUBSET Edit
  BY ConstantsAssumption DEF Typed, TypeOK, VersionsExist
<1>2. /\ requests' \in SUBSET Request
      /\ \A r \in requests' : r.expected <= dbVersion
  <2>1. CASE Distributed
    BY <2>1 DEF StartStore, Typed, TypeOK, VersionsExist
  <2>2. CASE ~Distributed
    BY <1>1, <2>2, SendSaveTyped DEF StartStore
  <2> QED
    BY <2>1, <2>2
<1> QED
  BY <1>2 DEF StartStore, Typed, TypeOK, PC, Holding, Remote

\* Losing the client that waits changes neither version nor content.
LEMMA OrphanTyped ==
  ASSUME Typed, NEW works \in SUBSET Work, Orphan(works)
  PROVE  /\ requests' \in SUBSET Request
         /\ \A r \in requests' : r.expected <= dbVersion
<1>1. ASSUME NEW r \in requests
      PROVE  LET q == IF r.from \in works THEN [r EXCEPT !.from = NoWork] ELSE r
             IN  q \in Request /\ q.expected <= dbVersion
  BY DEF Typed, TypeOK, VersionsExist, Request
<1> QED
  BY <1>1 DEF Orphan

LEMMA TypedInit == Init => Typed
  BY ConstantsAssumption
     DEF Init, Typed, TypeOK, VersionsExist, Phase, PC, Loaded, NoVersion

LEMMA TypedStep == Typed /\ [Next]_vars => Typed'
<1> SUFFICES ASSUME Typed, [Next]_vars PROVE Typed'
  OBVIOUS
<1> USE ConstantsAssumption DEF Typed, TypeOK, VersionsExist, Phase, Loaded,
        NoVersion, serverVars, nodeVars, workVars
<1>1. ASSUME NEW n \in Node, LoadRead(n) PROVE Typed'
  BY <1>1 DEF LoadRead
<1>2. ASSUME NEW n \in Node, LoadApply(n) PROVE Typed'
  BY <1>2 DEF LoadApply, LoadedVersion
<1>3. ASSUME NEW n \in Node, LoadFails(n) PROVE Typed'
  BY <1>3 DEF LoadFails, Fault
<1>4. ASSUME NEW n \in Node, NEW e \in Edit, ReceiveEdit(n, e) PROVE Typed'
  BY <1>4 DEF ReceiveEdit
<1>5. ASSUME NEW n \in Node, NEW m \in Node, Sync(n, m) PROVE Typed'
  BY <1>5 DEF Sync
<1>6. ASSUME NEW n \in Node, NEW w \in Work, StoreDocument(n, w) PROVE Typed'
  <2>1. Loaded(Owner[w])
    BY <1>6 DEF StoreDocument, WorksOf
  <2>2. StartStore(w)
    BY <1>6 DEF StoreDocument
  <2> QED
    BY <1>6, <2>1, <2>2, StartStoreTyped DEF StoreDocument, StartStore
<1>7. ASSUME NEW n \in Node, NEW w \in Work, RetryFailed(n, w) PROVE Typed'
  <2>1. Loaded(Owner[w])
    BY <1>7 DEF RetryFailed, WorksOf
  <2>2. StartStore(w)
    BY <1>7 DEF RetryFailed
  <2> QED
    BY <1>7, <2>1, <2>2, StartStoreTyped DEF RetryFailed, StartStore
<1>8. ASSUME NEW n \in Node, Unload(n) PROVE Typed'
  BY <1>8 DEF Unload
<1>9. ASSUME NEW n \in Node, Shutdown(n) PROVE Typed'
  BY <1>9 DEF Shutdown
<1>10. ASSUME NEW n \in Node, DrainDone(n) PROVE Typed'
  BY <1>10 DEF DrainDone
<1>11. ASSUME NEW n \in Node, Start(n) PROVE Typed'
  BY <1>11 DEF Start
<1>12. ASSUME NEW n \in Node, Crash(n) PROVE Typed'
  <2>1. /\ requests' \in SUBSET Request
        /\ \A r \in requests' : r.expected <= dbVersion
    BY <1>12, OrphanTyped DEF Crash, WorksOf
  <2> QED
    BY <1>12, <2>1 DEF Crash, Fault, WorksOf, PC
<1>13. ASSUME NEW w \in Work, AcquireLease(w) PROVE Typed'
  BY <1>13 DEF AcquireLease, SetLease, PC, Holding, Remote
<1>14. ASSUME NEW w \in Work, AcquireFails(w) PROVE Typed'
  BY <1>14 DEF AcquireFails, Fault, PC, Holding, Remote
<1>15. ASSUME NEW w \in Work, ServerRead(w) PROVE Typed'
  BY <1>15 DEF ServerRead, PC, Holding, Remote
<1>16. ASSUME NEW w \in Work, RefreshApply(w) PROVE Typed'
  <2>1. /\ doc' \in [Node -> SUBSET Edit]
        /\ curVersion' \in [Node -> Nat \cup {NoVersion}]
        /\ curVersion'[Owner[w]] = got[w]
    BY <1>16 DEF RefreshApply, ApplyLatest
  <2>2. /\ requests' \in SUBSET Request
        /\ \A r \in requests' : r.expected <= dbVersion
    BY <1>16, <2>1, SendSaveTyped DEF RefreshApply
  <2>3. pc' \in [Work -> PC] /\ UNCHANGED <<phase, dbVersion>>
    BY <1>16 DEF RefreshApply, PC, Holding, Remote
  <2> QED
    BY <1>16, <2>1, <2>2, <2>3 DEF RefreshApply, ApplyLatest
<1>17. ASSUME NEW w \in Work, SaveApply(w) PROVE Typed'
  BY <1>17 DEF SaveApply, PC, Holding, Remote
<1>18. ASSUME NEW w \in Work, Conflict(w) PROVE Typed'
  BY <1>18 DEF Conflict, PC, Holding, Remote
<1>19. ASSUME NEW w \in Work, MergeApply(w) PROVE Typed'
  <2>1. /\ doc' \in [Node -> SUBSET Edit]
        /\ curVersion' \in [Node -> Nat \cup {NoVersion}]
        /\ curVersion'[Owner[w]] = got[w]
    BY <1>19 DEF MergeApply, ApplyLatest
  <2>2. /\ requests' \in SUBSET Request
        /\ \A r \in requests' : r.expected <= dbVersion
    BY <1>19, <2>1, SendSaveTyped DEF MergeApply
  <2> QED
    BY <1>19, <2>1, <2>2 DEF MergeApply, ApplyLatest, PC, Holding, Remote
<1>20. ASSUME NEW w \in Work, RequestFails(w) PROVE Typed'
  <2>1. /\ requests' \in SUBSET Request
        /\ \A r \in requests' : r.expected <= dbVersion
    BY <1>20, OrphanTyped DEF RequestFails
  <2> QED
    BY <1>20, <2>1 DEF RequestFails, Fault, PC, Holding, Remote
<1>21. ASSUME NEW w \in Work, ReleaseLease(w) PROVE Typed'
  BY <1>21 DEF ReleaseLease, Outcome, PC, Holding, Remote
<1>22. ASSUME NEW w \in Work, ReleaseFails(w) PROVE Typed'
  BY <1>22 DEF ReleaseFails, Fault, Outcome, PC, Holding, Remote
<1>23. ASSUME NEW w \in Work, SettleStore(w) PROVE Typed'
  BY <1>23 DEF SettleStore, IsLatest, FailedAfter, WorksOf, PC, Holding, Remote
<1>24. ASSUME NEW w \in Work, RenewalLost(w) PROVE Typed'
  BY <1>24 DEF RenewalLost, Fault, PC, Holding, Remote
<1>25. ASSUME NEW r \in requests, ServerSave(r) PROVE Typed'
  <2>1. r.from \in Work \cup {NoWork} /\ r.content \in SUBSET Edit
    BY DEF Request
  <2>2. dbVersion' \in Nat /\ dbVersion <= dbVersion'
    BY <1>25 DEF ServerSave
  <2>3. snapshots' \in [0 .. dbVersion' -> SUBSET Edit]
    BY <1>25, <2>1 DEF ServerSave, RowsWith
  <2>4. pc' \in [Work -> PC]
    <3>1. pc' = pc \/ (r.from \in Work /\ \E p \in {"saved", "conflicted"} :
                        pc' = [pc EXCEPT ![r.from] = p])
      BY <1>25, <2>1 DEF ServerSave
    <3> QED
      BY <3>1 DEF PC, Holding, Remote
  <2>5. /\ got' \in [Work -> Nat]
        /\ \A w \in Work : got'[w] <= dbVersion'
    <3>1. got' = got \/ (r.from \in Work /\ dbVersion' = dbVersion + 1 /\
                        got' = [got EXCEPT ![r.from] = dbVersion + 1])
      BY <1>25, <2>1 DEF ServerSave
    <3>2. dbVersion \in Nat /\ got \in [Work -> Nat] /\ \A w \in Work : got[w] <= dbVersion
      OBVIOUS
    <3>3. CASE got' = got
      BY <2>2, <3>2, <3>3
    <3>4. CASE got' # got
      <4> HIDE DEF Typed, TypeOK, VersionsExist
      <4>1. PICK v \in Work : got' = [got EXCEPT ![v] = dbVersion']
        BY <3>1, <3>4
      <4> QED
        BY <2>2, <3>2, <4>1
    <3> QED
      BY <3>3, <3>4
  <2>6. requests' \in SUBSET requests /\ UNCHANGED <<nodeVars, latestWorks,
            retried, lost, lease, accepted, faults>>
    BY <1>25 DEF ServerSave
  <2>7. TypeOK'
    BY <2>2, <2>3, <2>4, <2>5, <2>6
  <2>8. VersionsExist'
    <3>1. /\ dbVersion \in Nat /\ requests \in SUBSET Request
          /\ loadGot \in [Node -> Nat] /\ VersionsExist
      OBVIOUS
    <3>2. \A q \in requests' : q.expected \in Nat /\ q.expected <= dbVersion'
      BY <2>2, <2>6, <3>1 DEF Request
    <3>3. \A m \in Node : loadGot'[m] <= dbVersion'
      BY <2>2, <2>6, <3>1
    <3>4. \A m \in Node : Loaded(m)' => curVersion'[m] \in 0 .. dbVersion'
      BY <2>2, <2>6, <3>1
    <3> QED
      BY <2>5, <3>2, <3>3, <3>4
  <2> QED
    BY <2>7, <2>8
<1>26. CASE LeaseExpires
  BY <1>26 DEF LeaseExpires, Fault
<1>27. CASE UNCHANGED vars
  BY <1>27 DEF vars, Request
<1> QED
  BY <1>1, <1>2, <1>3, <1>4, <1>5, <1>6, <1>7, <1>8, <1>9, <1>10, <1>11, <1>12, <1>13, <1>14, <1>15, <1>16, <1>17, <1>18, <1>19, <1>20, <1>21, <1>22, <1>23, <1>24, <1>25, <1>26, <1>27 DEF Next, NodeNext, WorkNext

\* Every variable keeps its type, and no remembered version is ahead of the
\* App Server.
THEOREM TypeCorrect == Spec => []TypeOK
<1>1. Typed => TypeOK
  BY DEF Typed
<1> QED
  BY TypedInit, TypedStep, <1>1, PTL DEF Spec

-----------------------------------------------------------------------------
(* Saved edits stay *)

LEMMA CoverageInit == Init => Coverage
  BY ConstantsAssumption
     DEF Init, Coverage, VersionsExist, StoresAreLoaded, RequestsAreAwaited,
         ContentIsMerged, ContentIsAccepted, SavedEditsStay,
         KnownVersionIsMerged, Loaded, NoVersion

\* A request that extends a snapshot it contains, sent by a store that waits
\* for nothing yet.
LEMMA SendSaveCovers ==
  ASSUME Typed, Coverage,
         NEW w \in Work, NEW v \in 0 .. dbVersion, NEW c \in SUBSET Edit,
         SendSave(w, v, c), snapshots[v] \subseteq c, c \subseteq accepted,
         c \subseteq doc'[Owner[w]], \A n \in Node : doc[n] \subseteq doc'[n],
         pc[w] # "saving", pc' = [pc EXCEPT ![w] = "saving"],
         UNCHANGED <<dbVersion, snapshots, accepted, got>>
  PROVE  /\ RequestsAreAwaited' /\ ContentIsMerged'
         /\ \A r \in requests' : r.content \subseteq accepted'
<1> DEFINE new == [from |-> w, expected |-> v, content |-> c]
<1>1. /\ requests' = requests \cup {new}
      /\ new.from = w /\ new.expected = v /\ new.content = c
  BY DEF SendSave
<1>2. \A r \in requests : r.from # w
  BY DEF Coverage, RequestsAreAwaited
<1> HIDE DEF new
<1>3. RequestsAreAwaited'
  BY <1>1, <1>2 DEF Coverage, RequestsAreAwaited, Typed, TypeOK
<1>4. \A r \in requests' : r.from \in Work => r.content \subseteq doc'[Owner[r.from]]
  <2>1. \A r \in requests : r.from \in Work => Owner[r.from] \in Node
    BY ConstantsAssumption
  <2> QED
    BY <1>1, <2>1 DEF Coverage, ContentIsMerged
<1>5. \A u \in Work : pc'[u] = "saved" => snapshots'[got'[u]] \subseteq doc'[Owner[u]]
  BY ConstantsAssumption DEF Coverage, ContentIsMerged, Typed, TypeOK
<1> QED
  BY <1>1, <1>3, <1>4, <1>5 DEF Coverage, ContentIsMerged, ContentIsAccepted

\* Starting a store keeps the coverage: without the lease it sends the document
\* at once, against the version its node knows.
LEMMA StartStoreCovers ==
  ASSUME Typed, Typed', Coverage, NEW w \in Work, Loaded(Owner[w]),
         pc[w] = "idle", StartStore(w),
         UNCHANGED <<dbVersion, snapshots, phase, doc, curVersion, accepted>>
  PROVE  Coverage'
<1>1. StoresAreLoaded' /\ got' = got
  BY DEF StartStore, Coverage, StoresAreLoaded, Loaded, Typed, TypeOK
<1>2. /\ RequestsAreAwaited' /\ ContentIsMerged'
      /\ \A r \in requests' : r.content \subseteq accepted'
  <2>1. CASE Distributed
    <3>1. /\ requests' = requests
          /\ \A u \in Work : pc'[u] = IF u = w THEN "acquire" ELSE pc[u]
      BY <2>1 DEF StartStore, Typed, TypeOK
    <3>2. RequestsAreAwaited'
      BY <3>1 DEF Coverage, RequestsAreAwaited
    <3>3. ContentIsMerged'
      BY <1>1, <3>1 DEF Coverage, ContentIsMerged
    <3> QED
      BY <3>1, <3>2, <3>3 DEF Coverage, ContentIsAccepted
  <2>2. CASE ~Distributed
    <3>1. /\ curVersion[Owner[w]] \in 0 .. dbVersion
          /\ doc[Owner[w]] \in SUBSET Edit
          /\ snapshots[curVersion[Owner[w]]] \subseteq doc[Owner[w]]
          /\ doc[Owner[w]] \subseteq accepted
      BY ConstantsAssumption DEF Coverage, KnownVersionIsMerged,
                ContentIsAccepted, Typed, TypeOK
    <3> QED
      BY <2>2, <3>1, SendSaveCovers DEF StartStore
  <2> QED
    BY <2>1, <2>2
<1>3. SavedEditsStay' /\ KnownVersionIsMerged'
  BY DEF Coverage, SavedEditsStay, KnownVersionIsMerged, Loaded
<1> QED
  BY <1>1, <1>2, <1>3 DEF Coverage, ContentIsAccepted, Typed

\* Orphaned requests keep what they carry, the others stay as they are.
LEMMA OrphanCovers ==
  ASSUME Typed, NEW works \in SUBSET Work, Orphan(works)
  PROVE  \A q \in requests' : \E r \in requests :
            /\ q.expected = r.expected /\ q.content = r.content
            /\ q.from \in Work => q = r /\ r.from \notin works
<1>1. ASSUME NEW r \in requests
      PROVE  LET q == [r EXCEPT !.from = NoWork]
             IN  q.from = NoWork /\ q.expected = r.expected /\ q.content = r.content
  BY DEF Typed, TypeOK, Request
<1> QED
  BY <1>1, ConstantsAssumption DEF Orphan

\* Stores that stop waiting, with or without their node, break no coverage.
LEMMA AbortCovers ==
  ASSUME Typed, Coverage, NEW works \in SUBSET Work, Orphan(works),
         \A w \in works : pc'[w] \in {"idle", "erred"},
         \A w \in Work \ works : pc'[w] = pc[w] /\ doc'[Owner[w]] = doc[Owner[w]],
         UNCHANGED <<dbVersion, snapshots, accepted, got>>
  PROVE  /\ RequestsAreAwaited' /\ ContentIsMerged'
         /\ \A r \in requests' : r.content \subseteq accepted'
<1>1. \A q \in requests' : \E r \in requests :
          /\ q.expected = r.expected /\ q.content = r.content
          /\ q.from \in Work => q = r /\ r.from \notin works
  BY OrphanCovers
<1>2. \A q \in requests' : q.from \in Work => q \in requests /\ q.from \in Work \ works
  BY <1>1
<1>3. RequestsAreAwaited'
  BY <1>2 DEF Coverage, RequestsAreAwaited
<1>4. \A r \in requests' : /\ snapshots'[r.expected] \subseteq r.content
                          /\ r.content \subseteq accepted'
  BY <1>1 DEF Coverage, ContentIsMerged, ContentIsAccepted
<1>5. \A r \in requests' : r.from \in Work => r.content \subseteq doc'[Owner[r.from]]
  BY <1>2 DEF Coverage, ContentIsMerged
<1>6. \A w \in Work : pc'[w] = "saved" => snapshots'[got'[w]] \subseteq doc'[Owner[w]]
  <2> SUFFICES ASSUME NEW w \in Work, pc'[w] = "saved"
               PROVE  snapshots'[got'[w]] \subseteq doc'[Owner[w]]
    OBVIOUS
  <2>1. w \notin works
    OBVIOUS
  <2> QED
    BY <2>1 DEF Coverage, ContentIsMerged
<1> QED
  BY <1>3, <1>4, <1>5, <1>6 DEF ContentIsMerged

LEMMA CoverageStep == Typed /\ Typed' /\ Coverage /\ [Next]_vars => Coverage'
<1> SUFFICES ASSUME Typed, Typed', Coverage, [Next]_vars PROVE Coverage'
  OBVIOUS
<1> USE ConstantsAssumption DEF Coverage, StoresAreLoaded, RequestsAreAwaited,
        ContentIsMerged, ContentIsAccepted, SavedEditsStay, KnownVersionIsMerged,
        Typed, TypeOK, VersionsExist, Loaded, serverVars, nodeVars, workVars
<1>1. ASSUME NEW n \in Node, LoadRead(n) PROVE Coverage'
  BY <1>1 DEF LoadRead
<1>2. ASSUME NEW n \in Node, LoadApply(n) PROVE Coverage'
  <2>1. /\ UNCHANGED <<serverVars, pc, got, accepted>>
        /\ \A m \in Node : m # n => /\ phase'[m] = phase[m]
                                   /\ curVersion'[m] = curVersion[m]
                                   /\ doc'[m] = doc[m]
        /\ ~Loaded(n) /\ Loaded(n)'
        /\ loadGot[n] \in 0 .. dbVersion
        /\ curVersion'[n] = loadGot[n] /\ doc'[n] = snapshots[loadGot[n]]
    BY <1>2 DEF LoadApply, LoadedVersion
  <2>2. \A w \in Work : pc[w] # "idle" => Owner[w] # n
    BY <2>1
  <2>3. \A r \in requests : r.from \in Work => Owner[r.from] # n
    BY <2>2
  <2>4. StoresAreLoaded' /\ RequestsAreAwaited' /\ SavedEditsStay'
    BY <2>1
  <2>5. ContentIsMerged'
    <3>1. ContentIsMerged /\ \A w \in Work : Owner[w] \in Node
      OBVIOUS
    <3> HIDE DEF Coverage, Typed, TypeOK, VersionsExist, StoresAreLoaded,
             RequestsAreAwaited, SavedEditsStay, KnownVersionIsMerged, ContentIsAccepted
    <3> QED
      BY <2>1, <2>2, <2>3, <3>1
  <2>6. ContentIsAccepted'
    <3>1. ContentIsAccepted
      OBVIOUS
    <3> HIDE DEF Coverage, Typed, TypeOK, VersionsExist, StoresAreLoaded,
             RequestsAreAwaited, SavedEditsStay, KnownVersionIsMerged, ContentIsMerged
    <3> QED
      BY <2>1, <3>1
  <2>7. KnownVersionIsMerged'
    BY <2>1
  <2> QED
    BY <2>4, <2>5, <2>6, <2>7
<1>3. ASSUME NEW n \in Node, LoadFails(n) PROVE Coverage'
  BY <1>3 DEF LoadFails, Fault
<1>4. ASSUME NEW n \in Node, NEW e \in Edit, ReceiveEdit(n, e) PROVE Coverage'
  BY <1>4 DEF ReceiveEdit
<1>5. ASSUME NEW n \in Node, NEW m \in Node, Sync(n, m) PROVE Coverage'
  BY <1>5 DEF Sync
<1>6. ASSUME NEW n \in Node, NEW w \in Work, StoreDocument(n, w) PROVE Coverage'
  <2>1. /\ Owner[w] = n /\ Loaded(n) /\ pc[w] = "idle"
        /\ StartStore(w)
        /\ UNCHANGED <<dbVersion, snapshots, phase, doc, curVersion, accepted>>
    BY <1>6 DEF StoreDocument, WorksOf, Settled
  <2> QED
    BY <2>1, StartStoreCovers
<1>7. ASSUME NEW n \in Node, NEW w \in Work, RetryFailed(n, w) PROVE Coverage'
  <2>1. /\ Owner[w] = n /\ Loaded(n) /\ pc[w] = "idle"
        /\ StartStore(w)
        /\ UNCHANGED <<dbVersion, snapshots, phase, doc, curVersion, accepted>>
    BY <1>7 DEF RetryFailed, WorksOf, Settled
  <2> QED
    BY <2>1, StartStoreCovers
<1>8. ASSUME NEW n \in Node, Unload(n) PROVE Coverage'
  BY <1>8 DEF Unload, NothingOwed, Settled, WorksOf
<1>9. ASSUME NEW n \in Node, Shutdown(n) PROVE Coverage'
  BY <1>9 DEF Shutdown
<1>10. ASSUME NEW n \in Node, DrainDone(n) PROVE Coverage'
  BY <1>10 DEF DrainDone, NothingOwed, Settled, WorksOf
<1>11. ASSUME NEW n \in Node, Start(n) PROVE Coverage'
  BY <1>11 DEF Start
<1>12. ASSUME NEW n \in Node, Crash(n) PROVE Coverage'
  <2>1. /\ WorksOf(n) \in SUBSET Work /\ Orphan(WorksOf(n))
        /\ \A w \in WorksOf(n) : pc'[w] \in {"idle", "erred"}
        /\ \A w \in Work \ WorksOf(n) :
              pc'[w] = pc[w] /\ doc'[Owner[w]] = doc[Owner[w]]
        /\ UNCHANGED <<dbVersion, snapshots, accepted, got>>
    BY <1>12 DEF Crash, WorksOf
  <2>2. /\ RequestsAreAwaited' /\ ContentIsMerged'
        /\ \A r \in requests' : r.content \subseteq accepted'
    BY <2>1, AbortCovers
  <2>3. StoresAreLoaded' /\ KnownVersionIsMerged' /\ SavedEditsStay'
    BY <1>12 DEF Crash
  <2>4. \A m \in Node : doc'[m] \subseteq accepted'
    BY <1>12 DEF Crash
  <2> QED
    BY <2>1, <2>2, <2>3, <2>4
<1>13. ASSUME NEW w \in Work, AcquireLease(w) PROVE Coverage'
  BY <1>13 DEF AcquireLease, SetLease
<1>14. ASSUME NEW w \in Work, AcquireFails(w) PROVE Coverage'
  BY <1>14 DEF AcquireFails, Fault
<1>15. ASSUME NEW w \in Work, ServerRead(w) PROVE Coverage'
  BY <1>15 DEF ServerRead
<1>16. ASSUME NEW w \in Work, RefreshApply(w) PROVE Coverage'
  <2>1. /\ Owner[w] \in Node /\ Loaded(Owner[w])
        /\ got[w] \in 0 .. dbVersion
        /\ doc'[Owner[w]] = doc[Owner[w]] \cup snapshots[got[w]]
        /\ curVersion' = [curVersion EXCEPT ![Owner[w]] = got[w]]
        /\ \A n \in Node : doc[n] \subseteq doc'[n] /\ doc'[n] \subseteq accepted
        /\ doc'[Owner[w]] \in SUBSET Edit
    BY <1>16 DEF RefreshApply, ApplyLatest
  <2>2. KnownVersionIsMerged'
    BY <1>16, <2>1 DEF RefreshApply
  <2>3. StoresAreLoaded' /\ SavedEditsStay'
    BY <1>16, <2>1 DEF RefreshApply
  <2>4. CASE HasUnpersisted(w)
    <3>1. /\ SendSave(w, got[w], doc'[Owner[w]]) /\ pc[w] # "saving"
          /\ pc' = [pc EXCEPT ![w] = "saving"]
          /\ UNCHANGED <<dbVersion, snapshots, accepted, got>>
      BY <1>16, <2>4 DEF RefreshApply
    <3>2. RequestsAreAwaited' /\ ContentIsMerged'
          /\ \A r \in requests' : r.content \subseteq accepted'
      <4>1. Typed /\ Coverage
        OBVIOUS
      <4> HIDE DEF Coverage, StoresAreLoaded, RequestsAreAwaited, ContentIsMerged,
               ContentIsAccepted, Typed, TypeOK, VersionsExist
      <4> QED
        BY <2>1, <3>1, <4>1, SendSaveCovers
    <3> QED
      BY <2>1, <2>2, <2>3, <3>1, <3>2
  <2>5. CASE ~HasUnpersisted(w)
    <3>1. /\ pc' = [pc EXCEPT ![w] = "done"]
          /\ UNCHANGED <<dbVersion, snapshots, requests, accepted, got>>
      BY <1>16, <2>5 DEF RefreshApply
    <3>2. RequestsAreAwaited'
      BY <1>16, <3>1 DEF RefreshApply
    <3>3. ContentIsMerged'
      BY <1>16, <2>1, <3>1 DEF RefreshApply
    <3> QED
      BY <2>1, <2>2, <2>3, <3>1, <3>2, <3>3
  <2> QED
    BY <2>4, <2>5
<1>17. ASSUME NEW w \in Work, SaveApply(w) PROVE Coverage'
  BY <1>17 DEF SaveApply
<1>18. ASSUME NEW w \in Work, Conflict(w) PROVE Coverage'
  BY <1>18 DEF Conflict
<1>19. ASSUME NEW w \in Work, MergeApply(w) PROVE Coverage'
  <2>1. /\ Owner[w] \in Node /\ Loaded(Owner[w])
        /\ got[w] \in 0 .. dbVersion
        /\ doc'[Owner[w]] = doc[Owner[w]] \cup snapshots[got[w]]
        /\ curVersion' = [curVersion EXCEPT ![Owner[w]] = got[w]]
        /\ \A n \in Node : doc[n] \subseteq doc'[n] /\ doc'[n] \subseteq accepted
        /\ doc'[Owner[w]] \in SUBSET Edit
    BY <1>19 DEF MergeApply, ApplyLatest
  <2>2. KnownVersionIsMerged'
    BY <1>19, <2>1 DEF MergeApply
  <2>3. StoresAreLoaded' /\ SavedEditsStay'
    BY <1>19, <2>1 DEF MergeApply
  <2>4. /\ SendSave(w, got[w], doc'[Owner[w]]) /\ pc[w] # "saving"
        /\ pc' = [pc EXCEPT ![w] = "saving"]
        /\ UNCHANGED <<dbVersion, snapshots, accepted, got>>
    BY <1>19 DEF MergeApply
  <2>5. RequestsAreAwaited' /\ ContentIsMerged'
        /\ \A r \in requests' : r.content \subseteq accepted'
    <3>1. Typed /\ Coverage
      OBVIOUS
    <3> HIDE DEF Coverage, StoresAreLoaded, RequestsAreAwaited, ContentIsMerged,
             ContentIsAccepted, Typed, TypeOK, VersionsExist
    <3> QED
      BY <2>1, <2>4, <3>1, SendSaveCovers
  <2> QED
    BY <2>1, <2>2, <2>3, <2>4, <2>5
<1>20. ASSUME NEW w \in Work, RequestFails(w) PROVE Coverage'
  <2>1. /\ {w} \in SUBSET Work /\ Orphan({w})
        /\ \A v \in {w} : pc'[v] \in {"idle", "erred"}
        /\ \A v \in Work \ {w} : pc'[v] = pc[v] /\ doc'[Owner[v]] = doc[Owner[v]]
        /\ UNCHANGED <<dbVersion, snapshots, accepted, got>>
    BY <1>20 DEF RequestFails
  <2>2. /\ RequestsAreAwaited' /\ ContentIsMerged'
        /\ \A r \in requests' : r.content \subseteq accepted'
    BY <2>1, AbortCovers
  <2>3. StoresAreLoaded' /\ KnownVersionIsMerged' /\ SavedEditsStay'
    BY <1>20 DEF RequestFails, Remote
  <2> QED
    BY <1>20, <2>1, <2>2, <2>3 DEF RequestFails
<1>21. ASSUME NEW w \in Work, ReleaseLease(w) PROVE Coverage'
  BY <1>21 DEF ReleaseLease, Outcome
<1>22. ASSUME NEW w \in Work, ReleaseFails(w) PROVE Coverage'
  BY <1>22 DEF ReleaseFails, Fault, Outcome
<1>23. ASSUME NEW w \in Work, SettleStore(w) PROVE Coverage'
  BY <1>23 DEF SettleStore, IsLatest, FailedAfter, WorksOf
<1>24. ASSUME NEW w \in Work, RenewalLost(w) PROVE Coverage'
  BY <1>24 DEF RenewalLost, Fault
<1>25. ASSUME NEW r \in requests, ServerSave(r) PROVE Coverage'
  <2>1. /\ r.from \in Work \cup {NoWork} /\ r.content \in SUBSET Edit
        /\ r.expected \in 0 .. dbVersion /\ r.content \subseteq accepted
        /\ snapshots[r.expected] \subseteq r.content
        /\ requests' = requests \ {r}
        /\ UNCHANGED <<phase, doc, curVersion, accepted>>
    BY <1>25 DEF Request, ServerSave
  <2>2. \A q \in requests : q.expected \in 0 .. dbVersion
    BY DEF Request
  <2>3. pc' = pc \/ (r.from \in Work /\ \E p \in {"saved", "conflicted"} :
                        pc' = [pc EXCEPT ![r.from] = p])
    BY <1>25, <2>1 DEF ServerSave
  <2>4. StoresAreLoaded' /\ RequestsAreAwaited'
    <3>1. StoresAreLoaded'
      <4>1. \A w \in Work : pc'[w] # "idle" => pc[w] # "idle"
        BY <2>1, <2>3
      <4> QED
        BY <2>1, <4>1 DEF StoresAreLoaded
    <3>2. \A q \in requests' : q.from \in Work => pc'[q.from] = pc[q.from]
      <4>1. \A q \in requests' : q.from \in Work => q.from # r.from
        BY <2>1
      <4>2. pc \in [Work -> PC]
        OBVIOUS
      <4> HIDE DEF Coverage, Typed, TypeOK, VersionsExist, StoresAreLoaded,
             RequestsAreAwaited, SavedEditsStay, KnownVersionIsMerged
      <4> QED
        BY <2>3, <4>1, <4>2
    <3> QED
      BY <2>1, <3>1, <3>2
  <2>5. CASE r.expected # dbVersion
    <3>1. /\ UNCHANGED <<dbVersion, snapshots, got>>
          /\ \A w \in Work : pc'[w] = "saved" => pc[w] = "saved"
      BY <1>25, <2>1, <2>5 DEF ServerSave, IsCurrent
    <3> QED
      BY <2>1, <2>4, <3>1
  <2>6. CASE r.expected = dbVersion
    <3>1. /\ dbVersion' = dbVersion + 1
          /\ \A v \in 0 .. dbVersion : snapshots'[v] = snapshots[v]
          /\ snapshots'[dbVersion'] = r.content
          /\ snapshots[dbVersion] \subseteq r.content
      BY <1>25, <2>1, <2>6 DEF ServerSave, IsCurrent, RowsWith
    <3>2. \A w \in Work : \/ pc'[w] = pc[w] /\ got'[w] = got[w]
                          \/ w = r.from /\ pc'[w] = "saved" /\ got'[w] = dbVersion'
      <4>1. CASE r.from = NoWork
        <5>1. pc' = pc /\ got' = got
          BY <1>25, <2>6, <4>1 DEF ServerSave, IsCurrent
        <5> QED
          BY <5>1
      <4>2. CASE r.from # NoWork
        <5>1. PICK v \in Work : /\ v = r.from
                               /\ pc' = [pc EXCEPT ![v] = "saved"]
                               /\ got' = [got EXCEPT ![v] = dbVersion']
          BY <1>25, <2>1, <2>6, <3>1, <4>2 DEF ServerSave, IsCurrent
        <5>2. pc \in [Work -> PC] /\ got \in [Work -> Nat]
          OBVIOUS
        <5> HIDE DEF Coverage, Typed, TypeOK
        <5>3. /\ pc'[v] = "saved" /\ got'[v] = dbVersion'
              /\ \A w \in Work \ {v} : pc'[w] = pc[w] /\ got'[w] = got[w]
          BY <5>1, <5>2
        <5> QED
          BY <5>1, <5>3
      <4> QED
        BY <4>1, <4>2
    <3>3. SavedEditsStay'
      <4> SUFFICES ASSUME NEW v \in 0 .. dbVersion', NEW u \in 0 .. v
                   PROVE  snapshots'[u] \subseteq snapshots'[v]
        BY DEF SavedEditsStay
      <4>1. CASE v = dbVersion' /\ u # dbVersion'
        <5>1. u \in 0 .. dbVersion /\ dbVersion \in 0 .. dbVersion
          BY <3>1, <4>1
        <5>2. snapshots[u] \subseteq snapshots[dbVersion]
          BY <5>1
        <5> QED
          BY <3>1, <4>1, <5>1, <5>2
      <4>2. CASE v # dbVersion'
        <5>1. v \in 0 .. dbVersion /\ u \in 0 .. dbVersion
          BY <3>1, <4>2
        <5>2. snapshots[u] \subseteq snapshots[v]
          BY <5>1
        <5> QED
          BY <3>1, <5>1, <5>2
      <4> QED
        BY <4>1, <4>2
    <3>4. KnownVersionIsMerged'
      BY <2>1, <3>1
    <3>5. ContentIsAccepted'
      <4>1. ContentIsAccepted /\ dbVersion \in Nat
        OBVIOUS
      <4>2. \A v \in 0 .. dbVersion' : v \in 0 .. dbVersion \/ v = dbVersion'
        BY <3>1, <4>1
      <4> HIDE DEF Coverage, Typed, TypeOK, VersionsExist, StoresAreLoaded,
             RequestsAreAwaited, SavedEditsStay, KnownVersionIsMerged
      <4> QED
        BY <2>1, <3>1, <4>1, <4>2
    <3>6. ContentIsMerged'
      <4>1. \A q \in requests' : snapshots'[q.expected] \subseteq q.content
        BY <2>1, <2>2, <3>1
      <4>3. \A q \in requests' :
                q.from \in Work => q.content \subseteq doc'[Owner[q.from]]
        BY <2>1
      <4>2. \A w \in Work : pc'[w] = "saved" =>
                snapshots'[got'[w]] \subseteq doc'[Owner[w]]
        <5> SUFFICES ASSUME NEW w \in Work, pc'[w] = "saved"
                     PROVE  snapshots'[got'[w]] \subseteq doc'[Owner[w]]
          OBVIOUS
        <5>1. CASE pc[w] = "saved" /\ got'[w] = got[w]
          BY <2>1, <3>1, <5>1
        <5>2. CASE w = r.from /\ got'[w] = dbVersion'
          BY <2>1, <3>1, <5>2
        <5> QED
          BY <3>2, <5>1, <5>2
      <4> HIDE DEF Coverage, Typed, TypeOK
      <4> QED
        BY <4>1, <4>2, <4>3 DEF ContentIsMerged
    <3> QED
      BY <2>4, <3>3, <3>4, <3>5, <3>6
  <2> QED
    BY <2>5, <2>6
<1>26. CASE LeaseExpires
  BY <1>26 DEF LeaseExpires, Fault
<1>27. CASE UNCHANGED vars
  BY <1>27 DEF vars
<1> QED
  BY <1>1, <1>2, <1>3, <1>4, <1>5, <1>6, <1>7, <1>8, <1>9, <1>10, <1>11, <1>12, <1>13, <1>14, <1>15, <1>16, <1>17, <1>18, <1>19, <1>20, <1>21, <1>22, <1>23, <1>24, <1>25, <1>26, <1>27 DEF Next, NodeNext, WorkNext

LEMMA TypedAlways == Spec => []Typed
  BY TypedInit, TypedStep, PTL DEF Spec

LEMMA CoverageAlways == Spec => []Coverage
  BY TypedInit, TypedStep, CoverageInit, CoverageStep, PTL DEF Spec

\* Whatever the servers, Redis and the network do, a saved edit stays in every
\* later snapshot.
THEOREM SavedEditsNeverLost == Spec => []SavedEditsStay
<1>1. Coverage => SavedEditsStay
  BY DEF Coverage
<1> QED
  BY CoverageAlways, <1>1, PTL

\* A server never presents a version whose snapshot it has not merged.
THEOREM ExpectedVersionIsMerged == Spec => []KnownVersionIsMerged
<1>1. Coverage => KnownVersionIsMerged
  BY DEF Coverage
<1> QED
  BY CoverageAlways, <1>1, PTL

-----------------------------------------------------------------------------
(* The App Server's view refines DurableDocument *)

LEMMA DurableInit == Init => Durable!Init
  BY DEF Init, Durable!Init, Saved

LEMMA DurableStep ==
  Typed /\ Coverage /\ [Next]_vars => [Durable!Next]_Durable!vars
<1> SUFFICES ASSUME Typed, Coverage, [Next]_vars
             PROVE  [Durable!Next]_Durable!vars
  OBVIOUS
<1> USE DEF Durable!vars, Saved, serverVars, nodeVars, workVars
<1>1. ASSUME NEW n \in Node, NodeNext(n) PROVE [Durable!Next]_Durable!vars
  <2>1. ASSUME NEW e \in Edit, ReceiveEdit(n, e) PROVE Durable!Next
    BY <2>1 DEF ReceiveEdit, Durable!Next, Durable!Accept
  <2>2. ASSUME NEW w \in Work, StoreDocument(n, w) \/ RetryFailed(n, w)
        PROVE  UNCHANGED Durable!vars
    BY <2>2 DEF StoreDocument, RetryFailed
  <2>3. CASE \/ LoadRead(n) \/ LoadApply(n) \/ LoadFails(n)
             \/ Unload(n) \/ Shutdown(n) \/ DrainDone(n) \/ Start(n) \/ Crash(n)
             \/ \E m \in Node : Sync(n, m)
    BY <2>3 DEF LoadRead, LoadApply, LoadFails, Unload, Shutdown, DrainDone,
                Start, Crash, Sync
  <2> QED
    BY <1>1, <2>1, <2>2, <2>3 DEF NodeNext
<1>2. ASSUME NEW w \in Work, WorkNext(w) PROVE UNCHANGED Durable!vars
  BY <1>2 DEF WorkNext, AcquireLease, AcquireFails, ServerRead, RefreshApply,
              SaveApply, Conflict, MergeApply, RequestFails, ReleaseLease,
              ReleaseFails, SettleStore, RenewalLost
<1>3. ASSUME NEW r \in requests, ServerSave(r)
      PROVE  [Durable!Next]_Durable!vars
  <2>1. /\ r.content \subseteq accepted /\ r.content \in SUBSET accepted
        /\ snapshots[r.expected] \subseteq r.content
        /\ dbVersion \in Nat
    BY DEF Coverage, ContentIsAccepted, ContentIsMerged, Typed, TypeOK
  <2>2. CASE IsCurrent(r)
    <3>1. /\ dbVersion' = dbVersion + 1 /\ snapshots' = RowsWith(r)
          /\ UNCHANGED accepted
      BY <1>3, <2>2 DEF ServerSave
    <3>2. snapshots'[dbVersion'] = r.content
      BY <2>1, <3>1 DEF RowsWith
    <3> QED
      BY <2>1, <2>2, <3>1, <3>2 DEF IsCurrent, Durable!Next, Durable!Commit
  <2>3. CASE ~IsCurrent(r)
    BY <1>3, <2>3 DEF ServerSave
  <2> QED
    BY <2>2, <2>3
<1>4. CASE LeaseExpires
  BY <1>4 DEF LeaseExpires
<1>5. CASE UNCHANGED vars
  BY <1>5 DEF vars
<1> QED
  BY <1>1, <1>2, <1>3, <1>4, <1>5 DEF Next

\* Every behaviour of the checkpoints is one of a document that only grows.
THEOREM CheckpointsAreDurable == Spec => ImplementsDurable
<1> QED
  BY DurableInit, DurableStep, TypedAlways, CoverageAlways, PTL
     DEF Spec, ImplementsDurable, Durable!Spec

-----------------------------------------------------------------------------
(* No edit is forgotten by the server that took it *)

LEMMA DebtsInit == Init => Debts
  BY ConstantsAssumption DEF Init, Debts, NodeDebts, Loaded

\* A node keeps its debts through a step that leaves its own state alone,
\* as long as its latest stores become paid, idle or sent only with cause.
LEMMA DebtsKept ==
  ASSUME Typed, NEW n \in Node, NodeDebts(n), Saved \subseteq Saved',
         doc[n] \subseteq doc'[n],
         phase'[n] = phase[n], own'[n] = own[n], dirty'[n] = dirty[n],
         failed'[n] = failed[n],
         \A w \in WorksOf(n) : w \in latestWorks' <=> w \in latestWorks,
         \A w \in WorksOf(n) : pc'[w] = "idle" => pc[w] = "idle",
         \A w \in WorksOf(n) : w \in latestWorks /\ ~dirty[n] /\ pc'[w] \in Paid
              => pc[w] \in Paid \/ own[n] \subseteq Saved',
         \A q \in requests' : q.from \in WorksOf(n)
              => q \in requests \/ own[n] \subseteq q.content,
         latestWorks' \in SUBSET Work
  PROVE  NodeDebts(n)'
<1>1. latestWorks \in SUBSET Work
  BY DEF Typed, TypeOK
<1>2. Loaded(n)' <=> Loaded(n)
  BY DEF Loaded
<1>3. \A w \in latestWorks' : Owner[w] = n /\ ~dirty'[n] =>
          /\ \A r \in requests' : r.from = w => own'[n] \subseteq r.content
          /\ pc'[w] \in Paid => own'[n] \subseteq Saved'
  BY DEF NodeDebts, WorksOf
<1>4. Loaded(n) /\ ~ own[n] \subseteq Saved' /\ ~dirty[n] /\ failed[n] # "latest"
         => \E w \in latestWorks' : Owner[w] = n /\ pc'[w] \notin {"idle"} \cup Paid
  BY <1>1 DEF NodeDebts, WorksOf
<1> QED
  BY <1>2, <1>3, <1>4 DEF NodeDebts

\* A step that leaves stores' inputs and each node's own state alone.
LEMMA WorkDebts ==
  ASSUME Typed, Typed', Coverage, Coverage', Debts, NEW n \in Node, NEW w \in Work,
         WorkNext(w), ~SettleStore(w)
  PROVE  NodeDebts(n)'
<1> USE ConstantsAssumption DEF serverVars, nodeVars, workVars
<1>1. /\ NodeDebts(n) /\ latestWorks \in SUBSET Work
      /\ pc \in [Work -> PC] /\ doc \in [Node -> SUBSET Edit]
      /\ pc[w] # "idle" => Loaded(Owner[w])
  BY DEF Debts, Typed, TypeOK, Coverage, StoresAreLoaded
<1>2. /\ UNCHANGED <<phase, own, dirty, failed, latestWorks, snapshots, dbVersion>>
      /\ Saved' = Saved
      /\ pc[w] # "idle" /\ pc'[w] # "idle"
      /\ \A v \in Work \ {w} : pc'[v] = pc[v]
  BY <1>1 DEF WorkNext, AcquireLease, AcquireFails, ServerRead, RefreshApply,
       ApplyLatest, SaveApply, Conflict, MergeApply, RequestFails, ReleaseLease,
       ReleaseFails, Outcome, RenewalLost, Saved, Remote, Holding
<1>3. doc[n] \subseteq doc'[n] /\ doc'[n] = (IF n = Owner[w] THEN doc'[Owner[w]] ELSE doc[n])
  BY <1>1 DEF WorkNext, AcquireLease, AcquireFails, ServerRead, RefreshApply,
       ApplyLatest, SaveApply, Conflict, MergeApply, RequestFails, ReleaseLease,
       ReleaseFails, RenewalLost
<1>4. Owner[w] = n /\ pc'[w] \in Paid => pc[w] \in Paid \/ own[n] \subseteq Saved
  <2> SUFFICES ASSUME Owner[w] = n, pc'[w] \in Paid, pc[w] \notin Paid
               PROVE  own[n] \subseteq Saved
    OBVIOUS
  <2>1. RefreshApply(w) /\ ~HasUnpersisted(w)
    BY <1>1 DEF WorkNext, AcquireLease, AcquireFails, ServerRead, RefreshApply,
         SaveApply, Conflict, MergeApply, RequestFails, ReleaseLease,
         ReleaseFails, Outcome, RenewalLost, Paid
  <2>2. own[n] \subseteq doc[n] /\ doc[n] \subseteq snapshots[got[w]]
    BY <1>1, <2>1 DEF NodeDebts, RefreshApply, HasUnpersisted
  <2>3. got[w] \in 0 .. dbVersion /\ dbVersion \in 0 .. dbVersion
    BY DEF Typed, TypeOK, VersionsExist
  <2>4. snapshots[got[w]] \subseteq Saved
    BY <2>3 DEF Coverage, SavedEditsStay, Saved
  <2> QED
    BY <2>2, <2>4
<1>5. \A q \in requests' : q.from \in WorksOf(n) => q \in requests \/ own[n] \subseteq q.content
  <2>1. ASSUME NEW v \in Nat, SendSave(w, v, doc'[Owner[w]])
        PROVE  \A q \in requests' :
                  q \in requests \/ (q.from = w /\ q.content = doc'[Owner[w]])
    BY <2>1 DEF SendSave
  <2>2. CASE RefreshApply(w) \/ MergeApply(w)
    <3>1. Loaded(Owner[w]) /\ got[w] \in Nat
      BY <1>1, <1>2 DEF Typed, TypeOK
    <3>2. requests' = requests \/ SendSave(w, got[w], doc'[Owner[w]])
      BY <2>2 DEF RefreshApply, MergeApply
    <3>3. n = Owner[w] => own[n] \subseteq doc'[Owner[w]]
      BY <1>1, <1>3, <3>1 DEF NodeDebts
    <3> QED
      BY <2>1, <3>1, <3>2, <3>3 DEF WorksOf
  <2>3. CASE RequestFails(w)
    <3>1. Orphan({w})
      BY <2>3 DEF RequestFails
    <3>2. \A q \in requests' : q.from \in Work => q \in requests
      BY <3>1, OrphanCovers
    <3> QED
      BY <3>2 DEF WorksOf
  <2>4. CASE ~ (RefreshApply(w) \/ MergeApply(w) \/ RequestFails(w))
    <3>1. requests' = requests
      BY <2>4 DEF WorkNext, AcquireLease, AcquireFails, ServerRead, SaveApply,
           Conflict, ReleaseLease, ReleaseFails, RenewalLost
    <3> QED
      BY <3>1
  <2> QED
    BY <2>2, <2>3, <2>4
<1> QED
  BY <1>1, <1>2, <1>3, <1>4, <1>5, DebtsKept DEF WorksOf

\* Committing a request makes the latest store's edits durable.
LEMMA SaveDebts ==
  ASSUME Typed, Typed', Coverage, Coverage', Debts, NEW n \in Node,
         NEW r \in requests, ServerSave(r)
  PROVE  NodeDebts(n)'
<1>1. /\ NodeDebts(n) /\ latestWorks \in SUBSET Work /\ r \in Request
      /\ pc \in [Work -> PC] /\ dbVersion \in Nat
      /\ r.from \in Work \cup {NoWork}
  BY DEF Debts, Typed, TypeOK, Request
<1>2. /\ UNCHANGED <<phase, own, doc, dirty, failed, latestWorks>>
      /\ requests' \subseteq requests
  BY DEF ServerSave, nodeVars
<1>3. Saved \subseteq Saved'
  <2>1. CASE IsCurrent(r)
    <3>1. dbVersion' = dbVersion + 1 /\ snapshots' = RowsWith(r)
      BY <2>1 DEF ServerSave
    <3>2. snapshots'[dbVersion'] = r.content
      BY <1>1, <3>1 DEF RowsWith
    <3>3. snapshots[dbVersion] \subseteq r.content
      BY <2>1 DEF IsCurrent, Coverage, ContentIsMerged
    <3> QED
      BY <3>2, <3>3 DEF Saved
  <2>2. CASE ~IsCurrent(r)
    BY <2>2 DEF ServerSave, Saved
  <2> QED
    BY <2>1, <2>2
<1>4. \A w \in WorksOf(n) : pc'[w] = "idle" => pc[w] = "idle"
  BY <1>1 DEF ServerSave, WorksOf
<1>5. \A w \in WorksOf(n) : w \in latestWorks /\ ~dirty[n] /\ pc'[w] \in Paid
              => pc[w] \in Paid \/ own[n] \subseteq Saved'
  <2> SUFFICES ASSUME NEW w \in WorksOf(n), w \in latestWorks, ~dirty[n],
                      pc'[w] \in Paid, pc[w] \notin Paid
               PROVE  own[n] \subseteq Saved'
    OBVIOUS
  <2>1. w \in Work /\ Owner[w] = n
    BY DEF WorksOf
  <2>2. r.from = w /\ IsCurrent(r)
    BY <1>1, <2>1 DEF ServerSave, Paid
  <2>3. dbVersion' = dbVersion + 1 /\ snapshots' = RowsWith(r)
    BY <2>2 DEF ServerSave
  <2>4. snapshots'[dbVersion'] = r.content
    BY <1>1, <2>3 DEF RowsWith
  <2>5. own[n] \subseteq r.content
    BY <1>1, <2>1, <2>2 DEF NodeDebts
  <2> QED
    BY <2>4, <2>5 DEF Saved
<1> QED
  BY <1>1, <1>2, <1>3, <1>4, <1>5, DebtsKept

\* A store that settles clears the failure only when nothing is left to save.
LEMMA SettleDebts ==
  ASSUME Typed, Typed', Debts, NEW n \in Node, NEW w \in Work, SettleStore(w)
  PROVE  NodeDebts(n)'
<1>1. /\ NodeDebts(n) /\ latestWorks \in SUBSET Work /\ pc \in [Work -> PC]
      /\ failed \in [Node -> {"none", "latest", "superseded"}]
      /\ Owner[w] \in Node
  BY ConstantsAssumption DEF Debts, Typed, TypeOK
<1>2. /\ UNCHANGED <<phase, own, doc, dirty, requests, snapshots, dbVersion>>
      /\ Saved' = Saved
      /\ pc' = [pc EXCEPT ![w] = "idle"] /\ pc[w] \in {"succeeded", "rejected"}
  BY DEF SettleStore, serverVars, Saved
<1>3. CASE w \notin latestWorks
  <2>1. UNCHANGED <<latestWorks, failed>>
    BY <1>3 DEF SettleStore, IsLatest
  <2> QED
    BY <1>1, <1>2, <1>3, <2>1 DEF NodeDebts, Loaded, Paid
<1>4. CASE w \in latestWorks /\ n = Owner[w] /\ pc[w] = "succeeded"
  <2>1. /\ failed'[n] = "none" /\ latestWorks' = latestWorks \ WorksOf(n)
    BY <1>1, <1>4 DEF SettleStore, IsLatest, FailedAfter
  <2>2. dirty[n] \/ own[n] \subseteq Saved
    BY <1>1, <1>4 DEF NodeDebts, Paid
  <2> QED
    BY <1>1, <1>2, <2>1, <2>2 DEF NodeDebts, Loaded, WorksOf
<1>5. CASE w \in latestWorks /\ n = Owner[w] /\ pc[w] = "rejected"
  <2>1. /\ failed'[n] = "latest" /\ latestWorks' = latestWorks \ {w}
    BY <1>1, <1>5 DEF SettleStore, IsLatest, FailedAfter
  <2> QED
    BY <1>1, <1>2, <2>1 DEF NodeDebts, Loaded, Paid
<1>6. CASE w \in latestWorks /\ n # Owner[w]
  <2>1. /\ failed'[n] = failed[n]
        /\ \A v \in WorksOf(n) : /\ v \in latestWorks' <=> v \in latestWorks
                                /\ pc'[v] = pc[v]
        /\ latestWorks' \in SUBSET Work
    BY <1>1, <1>2, <1>6 DEF SettleStore, IsLatest, FailedAfter, WorksOf
  <2> QED
    BY <1>1, <1>2, <2>1, DebtsKept
<1> QED
  BY <1>2, <1>3, <1>4, <1>5, <1>6

\* What another node does leaves a node's debts as they are.
LEMMA OtherDebts ==
  ASSUME Typed, Typed', Debts, NEW n \in Node, NEW k \in Node, n # k, NodeNext(k)
  PROVE  NodeDebts(n)'
<1> USE ConstantsAssumption DEF serverVars, nodeVars, workVars
<1>1. /\ NodeDebts(n) /\ latestWorks \in SUBSET Work /\ latestWorks' \in SUBSET Work
      /\ pc \in [Work -> PC] /\ phase \in [Node -> Phase]
      /\ doc \in [Node -> SUBSET Edit] /\ own \in [Node -> SUBSET Edit]
      /\ dirty \in [Node -> BOOLEAN]
      /\ failed \in [Node -> {"none", "latest", "superseded"}]
  BY DEF Debts, Typed, TypeOK
<1>2. /\ UNCHANGED <<snapshots, dbVersion>> /\ Saved' = Saved
      /\ doc[n] \subseteq doc'[n]
      /\ phase'[n] = phase[n] /\ own'[n] = own[n] /\ dirty'[n] = dirty[n]
      /\ failed'[n] = failed[n]
  BY <1>1 DEF NodeNext, LoadRead, LoadApply, LoadFails, ReceiveEdit, Sync,
       StoreDocument, RetryFailed, Unload, Shutdown, DrainDone, Start, Crash, Saved
<1>3. \A w \in WorksOf(n) : /\ w \in latestWorks' <=> w \in latestWorks
                          /\ pc'[w] = pc[w]
  BY <1>1 DEF NodeNext, LoadRead, LoadApply, LoadFails, ReceiveEdit, Sync,
       StoreDocument, RetryFailed, Unload, Shutdown, DrainDone, Start, Crash,
       StartStore, WorksOf
<1>4. \A q \in requests' : q.from \in WorksOf(n) => q \in requests
  <2>1. CASE Crash(k)
    BY <2>1, OrphanCovers DEF Crash, WorksOf
  <2>2. ASSUME NEW w \in Work, Owner[w] = k, StartStore(w)
        PROVE  \A q \in requests' : q \in requests \/ q.from = w
    BY <2>2 DEF StartStore, SendSave
  <2>3. CASE \E w \in Work : StoreDocument(k, w) \/ RetryFailed(k, w)
    BY <2>2, <2>3 DEF StoreDocument, RetryFailed, WorksOf
  <2>4. CASE ~Crash(k) /\ ~ \E w \in Work : StoreDocument(k, w) \/ RetryFailed(k, w)
    BY <2>4 DEF NodeNext, LoadRead, LoadApply, LoadFails, ReceiveEdit, Sync,
         Unload, Shutdown, DrainDone, Start
  <2> QED
    BY <2>1, <2>3, <2>4
<1> QED
  BY <1>1, <1>2, <1>3, <1>4, DebtsKept

\* What a node's own steps do to its debts.
LEMMA OwnDebts ==
  ASSUME Typed, Typed', Coverage, Debts, NEW n \in Node, NodeNext(n)
  PROVE  NodeDebts(n)'
<1> USE ConstantsAssumption DEF serverVars, nodeVars, workVars
<1>1. /\ NodeDebts(n) /\ latestWorks \in SUBSET Work /\ latestWorks' \in SUBSET Work
      /\ pc \in [Work -> PC] /\ phase \in [Node -> Phase]
      /\ doc \in [Node -> SUBSET Edit] /\ own \in [Node -> SUBSET Edit]
      /\ dirty \in [Node -> BOOLEAN] /\ curVersion \in [Node -> Nat \cup {NoVersion}]
      /\ failed \in [Node -> {"none", "latest", "superseded"}]
      /\ lost \in [Work -> BOOLEAN] /\ retried \in [Work -> BOOLEAN]
      /\ \A w \in Work : pc[w] # "idle" => Loaded(Owner[w])
      /\ \A q \in requests : q.from \in Work => pc[q.from] = "saving"
  BY DEF Debts, Typed, TypeOK, Coverage, StoresAreLoaded, RequestsAreAwaited
<1>2. UNCHANGED <<snapshots, dbVersion>> /\ Saved' = Saved
  BY DEF NodeNext, LoadRead, LoadApply, LoadFails, ReceiveEdit, Sync,
       StoreDocument, RetryFailed, Unload, Shutdown, DrainDone, Start, Crash, Saved
<1>3. CASE LoadRead(n) \/ LoadFails(n) \/ Shutdown(n)
  BY <1>1, <1>2, <1>3 DEF LoadRead, LoadFails, Shutdown, NodeDebts, Loaded
<1>4. CASE LoadApply(n) \/ Unload(n) \/ Start(n)
  <2>1. own'[n] = {} /\ UNCHANGED <<latestWorks, pc, requests, dirty>>
    BY <1>1, <1>4 DEF LoadApply, Unload, Start
  <2> QED
    BY <1>1, <1>2, <2>1 DEF NodeDebts
<1>5. ASSUME NEW e \in Edit, ReceiveEdit(n, e) PROVE NodeDebts(n)'
  BY <1>1, <1>2, <1>5 DEF ReceiveEdit, NodeDebts, Loaded
<1>6. ASSUME NEW m \in Node, Sync(n, m) PROVE NodeDebts(n)'
  BY <1>1, <1>2, <1>6 DEF Sync, NodeDebts, Loaded
<1>7. ASSUME NEW w \in Work, Owner[w] = n, Loaded(n), pc[w] = "idle", StartStore(w),
             UNCHANGED <<phase, doc, own>>
      PROVE  /\ pc'[w] \in {"acquire", "saving"}
             /\ \A v \in Work \ {w} : pc'[v] = pc[v]
             /\ \A q \in requests' : q \in requests \/
                   (q.from = w /\ own[n] \subseteq q.content)
  BY <1>1, <1>7 DEF StartStore, SendSave, NodeDebts
<1>8. ASSUME NEW w \in Work, StoreDocument(n, w) PROVE NodeDebts(n)'
  <2>1. /\ Owner[w] = n /\ Loaded(n) /\ pc[w] = "idle" /\ StartStore(w)
        /\ UNCHANGED <<phase, doc, own>>
        /\ latestWorks' = (latestWorks \ WorksOf(n)) \cup {w}
    BY <1>8 DEF StoreDocument, WorksOf
  <2>2. \A v \in latestWorks' : Owner[v] = n => v = w
    BY <1>1, <2>1 DEF WorksOf
  <2>3. \A q \in requests' : q.from = w => own[n] \subseteq q.content
    BY <1>1, <1>7, <2>1
  <2> QED
    BY <1>1, <1>2, <1>7, <2>1, <2>2, <2>3 DEF NodeDebts, Loaded, Paid
<1>9. ASSUME NEW w \in Work, RetryFailed(n, w) PROVE NodeDebts(n)'
  <2>1. /\ Owner[w] = n /\ Loaded(n) /\ pc[w] = "idle" /\ StartStore(w)
        /\ UNCHANGED <<phase, doc, own, dirty, failed>>
        /\ latestWorks \subseteq latestWorks' /\ latestWorks' \subseteq latestWorks \cup {w}
    BY <1>9 DEF RetryFailed, WorksOf, Settled, Loaded
  <2>2. \A q \in requests' : q \in requests \/ own[n] \subseteq q.content
    BY <1>7, <2>1
  <2>3. \A q \in requests' : q.from = w => own[n] \subseteq q.content
    BY <1>1, <1>7, <2>1
  <2>4. \A v \in latestWorks' : Owner[v] = n /\ ~dirty[n] =>
            /\ \A q \in requests' : q.from = v => own[n] \subseteq q.content
            /\ pc'[v] \in Paid => own[n] \subseteq Saved
    BY <1>1, <1>7, <2>1, <2>2, <2>3 DEF NodeDebts, Paid
  <2>5. Loaded(n) /\ ~ own[n] \subseteq Saved =>
          \/ dirty[n]
          \/ failed[n] = "latest"
          \/ \E v \in latestWorks' : Owner[v] = n /\ pc'[v] \notin {"idle"} \cup Paid
    <3>1. \A v \in Work : pc[v] # "idle" => pc'[v] = pc[v]
      BY <1>7, <2>1
    <3> QED
      BY <1>1, <2>1, <3>1 DEF NodeDebts
  <2> QED
    BY <1>1, <1>2, <2>1, <2>4, <2>5 DEF NodeDebts, Loaded
<1>10. CASE DrainDone(n)
  <2>1. /\ ~dirty[n] /\ Settled(n) /\ failed[n] = "none" /\ Loaded(n)
        /\ phase'[n] = "stopped"
        /\ UNCHANGED <<own, dirty, latestWorks, pc, requests>>
    BY <1>1, <1>10 DEF DrainDone, NothingOwed, Loaded
  <2>2. \A w \in latestWorks : Owner[w] = n => pc[w] = "idle"
    BY <1>1, <2>1 DEF Settled, WorksOf
  <2>3. own[n] \subseteq Saved
    BY <1>1, <2>1, <2>2 DEF NodeDebts
  <2> QED
    BY <1>1, <1>2, <2>1, <2>3 DEF NodeDebts, Loaded
<1>11. CASE Crash(n)
  BY <1>1, <1>2, <1>11 DEF Crash, NodeDebts, WorksOf, Loaded
<1> QED
  BY <1>3, <1>4, <1>5, <1>6, <1>8, <1>9, <1>10, <1>11 DEF NodeNext

LEMMA DebtsStep ==
  Typed /\ Typed' /\ Coverage /\ Coverage' /\ Debts /\ [Next]_vars => Debts'
<1> SUFFICES ASSUME Typed, Typed', Coverage, Coverage', Debts, [Next]_vars,
                    NEW n \in Node
             PROVE  NodeDebts(n)'
  BY DEF Debts
<1>1. ASSUME NEW k \in Node, NodeNext(k) PROVE NodeDebts(n)'
  BY <1>1, OwnDebts, OtherDebts
<1>2. ASSUME NEW w \in Work, WorkNext(w) PROVE NodeDebts(n)'
  BY <1>2, WorkDebts, SettleDebts
<1>3. ASSUME NEW r \in requests, ServerSave(r) PROVE NodeDebts(n)'
  BY <1>3, SaveDebts
<1>4. CASE LeaseExpires \/ UNCHANGED vars
  <2>1. UNCHANGED <<dbVersion, snapshots, requests, phase, doc, own, dirty, failed,
                    latestWorks, pc>>
    BY <1>4 DEF LeaseExpires, vars, serverVars, nodeVars, workVars
  <2>2. NodeDebts(n)
    BY DEF Debts
  <2> QED
    BY <2>1, <2>2 DEF NodeDebts, Loaded, Saved
<1> QED
  BY <1>1, <1>2, <1>3, <1>4 DEF Next

LEMMA DebtsAlways == Spec => []Debts
  BY TypedInit, TypedStep, CoverageInit, CoverageStep, DebtsInit, DebtsStep,
     PTL DEF Spec

\* An edit that is not durable yet is always owed by its server: by a debounce,
\* by failedStoreByRoom, or by a latest store still to succeed.
THEOREM UnsavedEditsAlwaysOwed == Spec => []UnsavedEditsAreOwed
<1>1. Typed /\ Debts => UnsavedEditsAreOwed
  BY DEF Debts, NodeDebts, UnsavedEditsAreOwed, Paid, WorksOf, Typed, TypeOK
<1> QED
  BY TypedAlways, DebtsAlways, <1>1, PTL

\* A graceful shutdown leaves every edit the server took in the App Server.
THEOREM GracefulShutdownSaves == Spec => []StoppedIsSaved
<1>1. Debts => StoppedIsSaved
  BY DEF Debts, NodeDebts, StoppedIsSaved
<1> QED
  BY DebtsAlways, <1>1, PTL

-----------------------------------------------------------------------------
(* The normal path *)

\* While nothing has failed the stores take turns: whoever is past the lease
\* holds it, what it read or sends extends the latest version, and no store is
\* on the way of a 409.
Turns ==
    Distributed /\ faults = 0 =>
        /\ \A w \in Work : pc[w] \in Holding => lease = w
        /\ \A w \in Work : pc[w] = "refreshed" => got[w] = dbVersion
        /\ \A r \in requests : r.from \in Work /\ r.expected = dbVersion
        /\ \A w \in Work : pc[w] \notin {"conflicted", "merging", "merged"}

LEMMA TurnsInit == Init => Turns
  BY DEF Init, Turns, Holding, Remote

\* A fault is counted: after one, faults is not zero.
LEMMA FaultIsCounted ==
  ASSUME Typed, Fault
  PROVE  faults' # 0
<1>1. faults \in Nat
  BY ConstantsAssumption DEF Typed, TypeOK
<1> QED
  BY <1>1 DEF Fault

\* A step that touches neither the lease nor a store keeps the turns.
LEMMA TurnsKept ==
  ASSUME Turns, UNCHANGED <<pc, got, requests, dbVersion, lease, faults>>
  PROVE  Turns'
  BY DEF Turns

\* With Redis, starting a store only makes it wait for the lease.
LEMMA StartStoreTurns ==
  ASSUME Typed, Turns, Distributed, NEW w \in Work, pc[w] = "idle",
         StartStore(w), UNCHANGED <<dbVersion, lease, faults>>
  PROVE  Turns'
<1>1. /\ requests' = requests /\ got' = got
      /\ \A u \in Work : pc'[u] = IF u = w THEN "acquire" ELSE pc[u]
  BY DEF StartStore, Typed, TypeOK
<1> QED
  BY <1>1 DEF Turns, Holding, Remote

LEMMA TurnsStep == Typed /\ Coverage /\ Turns /\ [Next]_vars => Turns'
<1> SUFFICES ASSUME Typed, Coverage, Turns, [Next]_vars,
                    Distributed, faults' = 0
             PROVE  Turns'
  BY DEF Turns
<1>0. /\ ~Fault
      /\ pc \in [Work -> PC] /\ got \in [Work -> Nat]
      /\ requests \in SUBSET Request /\ dbVersion \in Nat
      /\ lease \in Work \cup {NoWork, Abandoned} /\ NoWork \notin Work
  BY FaultIsCounted, ConstantsAssumption DEF Typed, TypeOK
<1>a. ASSUME faults = 0
      PROVE  /\ \A w \in Work : pc[w] \in Holding => lease = w
             /\ \A w \in Work : pc[w] = "refreshed" => got[w] = dbVersion
             /\ \A r \in requests : r.from \in Work /\ r.expected = dbVersion
             /\ \A w \in Work : pc[w] \notin {"conflicted", "merging", "merged"}
  BY <1>a DEF Turns
<1>b. \A r \in requests : r.from \in Work => pc[r.from] = "saving"
  BY DEF Coverage, RequestsAreAwaited
<1>c. \A r, q \in requests : r.from \in Work /\ r.from = q.from => r = q
  BY DEF Coverage, RequestsAreAwaited
<1>1. ASSUME NEW n \in Node, LoadRead(n) PROVE  Turns'
  BY <1>1, TurnsKept DEF LoadRead, serverVars, workVars
<1>2. ASSUME NEW n \in Node, LoadApply(n) PROVE  Turns'
  BY <1>2, TurnsKept DEF LoadApply, serverVars, workVars
<1>3. ASSUME NEW n \in Node, LoadFails(n) PROVE  Turns'
  BY <1>0, <1>3 DEF LoadFails
<1>4. ASSUME NEW n \in Node, NEW e \in Edit, ReceiveEdit(n, e) PROVE  Turns'
  BY <1>4, TurnsKept DEF ReceiveEdit, serverVars, workVars
<1>5. ASSUME NEW n \in Node, NEW m \in Node, Sync(n, m) PROVE  Turns'
  BY <1>5, TurnsKept DEF Sync, serverVars, workVars
<1>6. ASSUME NEW n \in Node, NEW w \in Work, StoreDocument(n, w) PROVE  Turns'
  BY <1>6, StartStoreTurns DEF StoreDocument
<1>7. ASSUME NEW n \in Node, NEW w \in Work, RetryFailed(n, w) PROVE  Turns'
  BY <1>7, StartStoreTurns DEF RetryFailed, Settled
<1>8. ASSUME NEW n \in Node, Unload(n) PROVE  Turns'
  BY <1>8, TurnsKept DEF Unload, serverVars, workVars
<1>9. ASSUME NEW n \in Node, Shutdown(n) PROVE  Turns'
  BY <1>9, TurnsKept DEF Shutdown, serverVars, workVars
<1>10. ASSUME NEW n \in Node, DrainDone(n) PROVE  Turns'
  BY <1>10, TurnsKept DEF DrainDone, serverVars, workVars
<1>11. ASSUME NEW n \in Node, Start(n) PROVE  Turns'
  BY <1>11, TurnsKept DEF Start, serverVars, workVars
<1>12. ASSUME NEW n \in Node, Crash(n) PROVE  Turns'
  BY <1>0, <1>12 DEF Crash
<1>13. ASSUME NEW w \in Work, AcquireLease(w) PROVE  Turns'
  <2>1. /\ lease = NoWork /\ lease' = w
        /\ \A u \in Work : pc'[u] = IF u = w THEN "refreshing" ELSE pc[u]
        /\ UNCHANGED <<got, requests, dbVersion, faults>>
    BY <1>0, <1>13 DEF AcquireLease, SetLease, serverVars
  <2>2. \A u \in Work : pc[u] \notin Holding
    BY <1>0, <1>a, <2>1
  <2> QED
    BY <1>a, <2>1, <2>2 DEF Turns, Holding, Remote
<1>14. ASSUME NEW w \in Work, AcquireFails(w) PROVE  Turns'
  BY <1>0, <1>14 DEF AcquireFails
<1>15. ASSUME NEW w \in Work, ServerRead(w) PROVE  Turns'
  <2>1. UNCHANGED <<requests, dbVersion, lease, faults>>
    BY <1>15 DEF ServerRead, serverVars
  <2>2. /\ pc[w] = "refreshing"
        /\ \A u \in Work : pc'[u] = IF u = w THEN "refreshed" ELSE pc[u]
        /\ \A u \in Work : got'[u] = IF u = w THEN dbVersion ELSE got[u]
    BY <1>0, <1>a, <2>1, <1>15 DEF ServerRead
  <2> QED
    BY <1>a, <2>1, <2>2 DEF Turns, Holding, Remote
<1>16. ASSUME NEW w \in Work, RefreshApply(w) PROVE  Turns'
  <2>1. /\ pc[w] = "refreshed"
        /\ UNCHANGED <<got, dbVersion, lease, faults>>
        /\ \E p \in {"saving", "done"} :
              \A u \in Work : pc'[u] = IF u = w THEN p ELSE pc[u]
    BY <1>0, <1>16 DEF RefreshApply
  <2>2. \A r \in requests' : r \in requests \/ (r.from = w /\ r.expected = got[w])
    BY <1>16 DEF RefreshApply, SendSave
  <2> QED
    BY <1>a, <2>1, <2>2 DEF Turns, Holding, Remote
<1>17. ASSUME NEW w \in Work, SaveApply(w) PROVE  Turns'
  <2>1. /\ pc[w] = "saved"
        /\ UNCHANGED <<got, requests, dbVersion, lease, faults>>
        /\ \A u \in Work : pc'[u] = IF u = w THEN "done" ELSE pc[u]
    BY <1>0, <1>17 DEF SaveApply, serverVars
  <2> QED
    BY <1>a, <2>1 DEF Turns, Holding, Remote
<1>18. ASSUME NEW w \in Work, Conflict(w) PROVE  Turns'
  BY <1>a, <1>18 DEF Conflict
<1>19. ASSUME NEW w \in Work, MergeApply(w) PROVE  Turns'
  BY <1>a, <1>19 DEF MergeApply
<1>20. ASSUME NEW w \in Work, RequestFails(w) PROVE  Turns'
  BY <1>0, <1>20 DEF RequestFails
<1>21. ASSUME NEW w \in Work, ReleaseLease(w) PROVE  Turns'
  <2>1. /\ pc[w] \in Holding
        /\ UNCHANGED <<got, requests, dbVersion, faults>>
        /\ \E p \in {"succeeded", "rejected"} :
              \A u \in Work : pc'[u] = IF u = w THEN p ELSE pc[u]
    BY <1>0, <1>21 DEF ReleaseLease, Outcome, serverVars, Holding
  <2>2. \A u \in Work : u # w => pc[u] \notin Holding
    BY <1>a, <2>1
  <2> QED
    BY <1>a, <2>1, <2>2 DEF Turns, Holding, Remote
<1>22. ASSUME NEW w \in Work, ReleaseFails(w) PROVE  Turns'
  BY <1>0, <1>22 DEF ReleaseFails
<1>23. ASSUME NEW w \in Work, SettleStore(w) PROVE  Turns'
  <2>1. /\ UNCHANGED <<got, requests, dbVersion, lease, faults>>
        /\ \A u \in Work : pc'[u] = IF u = w THEN "idle" ELSE pc[u]
    BY <1>0, <1>23 DEF SettleStore, serverVars
  <2> QED
    BY <1>a, <2>1 DEF Turns, Holding, Remote
<1>24. ASSUME NEW w \in Work, RenewalLost(w) PROVE  Turns'
  <2>1. UNCHANGED <<pc, got, requests, dbVersion, lease, faults>>
    BY <1>0, <1>24 DEF RenewalLost, serverVars, Holding
  <2> QED
    BY <2>1, TurnsKept
<1>25. ASSUME NEW r \in requests, ServerSave(r) PROVE  Turns'
  <2>1. UNCHANGED <<lease, faults>> /\ requests' = requests \ {r}
    BY <1>25 DEF ServerSave
  <2>2. /\ r.from \in Work /\ r.expected = dbVersion
        /\ pc[r.from] = "saving" /\ lease = r.from
    BY <1>a, <1>b, <2>1 DEF Holding, Remote
  <2>3. r.from # NoWork /\ IsCurrent(r)
    BY <1>0, <2>2 DEF IsCurrent
  <2>4. /\ \A u \in Work : pc'[u] = IF u = r.from THEN "saved" ELSE pc[u]
        /\ \A u \in Work : got'[u] = IF u = r.from THEN dbVersion + 1 ELSE got[u]
    BY <1>0, <2>2, <2>3, <1>25 DEF ServerSave
  <2>5. \A u \in Work : u # r.from => pc[u] \notin Holding
    BY <1>a, <2>1, <2>2
  <2>6. requests' = {}
    BY <1>a, <1>b, <1>c, <2>1, <2>2, <2>5 DEF Holding, Remote
  <2> QED
    BY <2>1, <2>2, <2>4, <2>5, <2>6, <1>a DEF Turns, Holding, Remote
<1>26. CASE LeaseExpires
  <2>1. UNCHANGED <<pc, got, requests, dbVersion, faults>>
    BY <1>0, <1>26 DEF LeaseExpires, serverVars, workVars
  <2>2. lease \notin Work /\ lease' = NoWork
    BY <1>0, <1>26, ConstantsAssumption DEF LeaseExpires
  <2>3. \A u \in Work : pc[u] \notin Holding
    BY <1>a, <2>1, <2>2
  <2> QED
    BY <1>a, <2>1, <2>3 DEF Turns
<1>27. CASE UNCHANGED vars
  BY <1>27, TurnsKept DEF vars, serverVars, workVars
<1> QED
  BY <1>1, <1>2, <1>3, <1>4, <1>5, <1>6, <1>7, <1>8, <1>9, <1>10, <1>11,
     <1>12, <1>13, <1>14, <1>15, <1>16, <1>17, <1>18, <1>19, <1>20, <1>21,
     <1>22, <1>23, <1>24, <1>25, <1>26, <1>27
     DEF Next, NodeNext, WorkNext

\* On the normal path of the deployment with Redis no store ever meets a 409.
THEOREM NormalPathHasNoConflict == Spec => []NoConflictWithoutFaults
<1>1. Turns => NoConflictWithoutFaults
  BY DEF Turns, NoConflictWithoutFaults
<1> QED
  BY TypedInit, TypedStep, CoverageInit, CoverageStep, TurnsInit, TurnsStep,
     <1>1, PTL DEF Spec
=============================================================================
