----------------------------- MODULE CanvasRoom -----------------------------
(***************************************************************************)
(* The in-memory state of one classic Canvas room and its checkpoints.     *)
(*                                                                         *)
(* Clients send shape patches and undo/redo to the Realtime Server, which  *)
(* answers from memory and marks what it changed dirty.  A checkpoint      *)
(* cycle turns the dirty shapes into create/update/delete operations and   *)
(* posts them to the App Server, which applies a batch in one transaction  *)
(* or refuses it.  The room keeps changing while a batch is in flight, so  *)
(* an operation id, dropped at every change, tells whether the answer is   *)
(* still about the latest state.                                           *)
(*                                                                         *)
(* A revision is only known or unknown here: baseRevision is always null,  *)
(* so its value decides nothing but "create" or "update".  When a cycle    *)
(* starts is module CanvasCheckpointQueue's subject; here one may always   *)
(* start while a shape is dirty.                                           *)
(***************************************************************************)
EXTENDS Integers, Sequences, FiniteSets

CONSTANTS
    Shape,          \* shape ids of the room's canvas
    Content,        \* what a shape may look like
    User,           \* whose token a cycle may use: the batch's actor
    Absent,         \* no record
    MaxBatch,       \* CANVAS_CHECKPOINT_MAX_OPERATIONS
    MaxCached,      \* MAX_ROOM_CACHED_SHAPES
    MaxHistory,     \* MAX_ROOM_HISTORY_ITEMS
    Recreate,       \* clients bring deleted shape ids back themselves
    MaxChanges,     \* bound: shape patches
    MaxUndos,       \* bound: undo and redo requests
    MaxFaults       \* bound: requests whose answer is an error or is lost

ASSUME ConstantsAssumption ==
    /\ IsFiniteSet(Shape)
    /\ {MaxBatch, MaxCached, MaxHistory} \subseteq Nat \ {0}
    /\ {MaxChanges, MaxUndos, MaxFaults} \subseteq Nat
    /\ Recreate \in BOOLEAN
ASSUME RecordsAssumption == Absent \notin Content \cup [content : Content, revised : BOOLEAN]

VARIABLES
    rows,           \* App Server: canvas_freeform_shapes
    log,            \* App Server: canvas_shape_operations, the idempotency keys
    cache,          \* shapesByRoom
    tombstones,     \* deletedTombstonesByRoom, and whether persistedAt is set
    dirty,          \* dirtyShapeIdsByRoom
    opIds,          \* checkpointOperationIdsByRoom, by type and shape
    lastOpId,       \* checkpointOperationSequence
    history,        \* historyByRoom
    redo,           \* redoHistoryByRoom
    responses,      \* viewport responses on their way, read from rows earlier
    running,        \* a checkpoint cycle runs
    actor,          \* whose token it uses
    todo,           \* the batches it still has to send
    sending,        \* the batch in flight
    answer,         \* what the App Server answered to it
    saved,          \* the operations the cycle saved
    changes,        \* shape patches so far
    undos,          \* undo and redo requests so far
    faults          \* failed requests so far

serverVars  == <<rows, log>>
roomVars    == <<cache, tombstones, dirty, opIds>>
historyVars == <<history, redo>>
cycleVars   == <<running, actor, todo, sending, answer, saved>>
bounds      == <<changes, undos, faults>>
vars == <<serverVars, roomVars, lastOpId, historyVars, responses, cycleVars, bounds>>

OpType == {"create", "update", "delete"}
ShapeRecord == [content : Content, revised : BOOLEAN]
Row    == {"none", "deleted"} \cup Content
Op     == [type : OpType, shape : Shape, id : Nat, content : Content \cup {Absent}]

Active(s) == rows[s] \notin {"none", "deleted"}

TypeOK ==
    /\ rows \in [Shape -> Row]
    /\ log \subseteq [actor : User, type : OpType, shape : Shape, id : Nat]
    /\ cache \in [Shape -> ShapeRecord \cup {Absent}]
    /\ tombstones \in [Shape -> {"none", "unsaved", "saved"}]
    /\ dirty \subseteq Shape
    /\ opIds \in [OpType \X Shape -> Nat]
    /\ lastOpId \in Nat
    /\ history \in Seq([shape : Shape, before : ShapeRecord \cup {Absent},
                        after : ShapeRecord \cup {Absent}])
    /\ redo \in Seq([shape : Shape, before : ShapeRecord \cup {Absent},
                     after : ShapeRecord \cup {Absent}])
    /\ responses \subseteq [shape : Shape, content : Content]
    /\ running \in BOOLEAN
    /\ actor \in User
    /\ \A batch \in todo \cup {sending, saved} : batch \subseteq Op
    /\ answer \in {"none", "ok", "refused"}
    /\ changes \in 0 .. MaxChanges
    /\ undos \in 0 .. MaxUndos
    /\ faults \in 0 .. MaxFaults

\* The canvas already has some saved shapes; the room starts empty.
Init ==
    /\ rows \in [Shape -> {"none"} \cup Content]
    /\ log = {}
    /\ cache = [s \in Shape |-> Absent]
    /\ tombstones = [s \in Shape |-> "none"]
    /\ dirty = {}
    /\ opIds = [key \in OpType \X Shape |-> 0]
    /\ lastOpId = 0
    /\ history = <<>> /\ redo = <<>>
    /\ responses = {}
    /\ running = FALSE
    /\ actor \in User
    /\ todo = {} /\ sending = {} /\ answer = "none" /\ saved = {}
    /\ changes = 0 /\ undos = 0 /\ faults = 0

-----------------------------------------------------------------------------
(* Changing the room *)

Cached(c) == {s \in Shape : c[s] # Absent}

\* evictStaleCleanRoomShapes: the caches it may leave of c when d is dirty.
EvictableMutant(c, d) == {s \in Cached(c) : tombstones[s] = "none"}  \* dirty or not
Evictable(c, d) == {s \in Cached(c) : s \notin d /\ tombstones[s] = "none"}
Evictions(c, d) ==
    LET excess == Cardinality(Cached(c)) - MaxCached
        gone   == {e \in SUBSET Evictable(c, d) :
                      IF excess <= 0 THEN e = {} ELSE
                      \/ Cardinality(e) = excess
                      \/ Cardinality(e) < excess /\ e = Evictable(c, d)}
    IN {[s \in Shape |-> IF s \in e THEN Absent ELSE c[s]] : e \in gone}

\* invalidateCheckpointOperationIds
InvalidatedMutant(s) == opIds           \* an answer in flight stays current
Invalidated(s) == [key \in OpType \X Shape |-> IF key[2] = s THEN 0 ELSE opIds[key]]

\* upsertRoomShapes with markDirty: a revision the record lacks is inherited.
Upsert(s, record) ==
    LET next == [record EXCEPT !.revised =
                    @ \/ (cache[s] # Absent /\ cache[s].revised)]
    IN /\ dirty' = dirty \cup {s}
       /\ cache' \in Evictions([cache EXCEPT ![s] = next], dirty')
       /\ tombstones' = [tombstones EXCEPT ![s] = "none"]
       /\ opIds' = Invalidated(s)

\* The delete half of applyShapePatch and applyHistoryPatch.
Delete(s) ==
    /\ cache' = [cache EXCEPT ![s] = Absent]
    /\ tombstones' = [tombstones EXCEPT ![s] = "unsaved"]
    /\ dirty' = dirty \cup {s}
    /\ opIds' = Invalidated(s)

Put(s, record) == IF record = Absent THEN Delete(s) ELSE Upsert(s, record)

Recent(items) == IF Len(items) > MaxHistory THEN Tail(items) ELSE items

\* recordRoomHistoryChange: a change that changes nothing is not recorded.
RecordHistory(s, before, after) ==
    IF before = after
      THEN UNCHANGED historyVars
      ELSE /\ history' = Recent(Append(history,
                 [shape |-> s, before |-> before, after |-> after]))
           /\ redo' = <<>>

\* The revisions a client may attach to a shape it upserts: the one it saw
\* when it loaded the shape or when the shape's save was broadcast.
ClientKnows(s) ==
    IF rows[s] = "none" THEN {FALSE}
    ELSE IF cache[s] = Absent /\ tombstones[s] = "none" /\ Active(s) THEN {TRUE}
    ELSE BOOLEAN

\* A client edits a shape it sees, or adds a new one (or, with Recreate, one
\* whose id was used before).
MayUpsert(s) ==
    \/ Recreate
    \/ cache[s] # Absent
    \/ tombstones[s] = "none" /\ rows[s] # "deleted"

\* canvas:room:shape:patch
ApplyShapePatch(s) ==
    /\ changes < MaxChanges
    /\ changes' = changes + 1
    /\ \/ /\ MayUpsert(s)
          /\ \E c \in Content, known \in ClientKnows(s) :
                LET record == [content |-> c, revised |-> known] IN
                /\ RecordHistory(s, cache[s], record)
                /\ Upsert(s, record)
       \/ /\ RecordHistory(s, cache[s], Absent)
          /\ Delete(s)
    /\ UNCHANGED <<serverVars, lastOpId, responses, cycleVars, undos, faults>>

\* canvas:room:history:undo
Undo ==
    /\ undos < MaxUndos
    /\ history # <<>>
    /\ LET item == history[Len(history)] IN
       /\ history' = SubSeq(history, 1, Len(history) - 1)
       /\ redo' = Recent(Append(redo, item))
       /\ Put(item.shape, item.before)
    /\ undos' = undos + 1
    /\ UNCHANGED <<serverVars, lastOpId, responses, cycleVars, changes, faults>>

\* canvas:room:history:redo
Redo ==
    /\ undos < MaxUndos
    /\ redo # <<>>
    /\ LET item == redo[Len(redo)] IN
       /\ redo' = SubSeq(redo, 1, Len(redo) - 1)
       /\ history' = Recent(Append(history, item))
       /\ Put(item.shape, item.after)
    /\ undos' = undos + 1
    /\ UNCHANGED <<serverVars, lastOpId, responses, cycleVars, changes, faults>>

-----------------------------------------------------------------------------
(* Loading from the App Server *)

\* A client, or the server for a joining client, reads a viewport.
ReadViewport(s) ==
    /\ Active(s)
    /\ responses' = responses \cup {[shape |-> s, content |-> rows[s]]}
    /\ responses' # responses
    /\ UNCHANGED <<serverVars, roomVars, lastOpId, historyVars, cycleVars, bounds>>

\* Only a shape the room has neither cached nor deleted is filled in.
MayFillMutant(s) == cache[s] = Absent
MayFill(s) == cache[s] = Absent /\ tombstones[s] = "none"

\* recordLoadedViewport
RecordLoadedViewport(r) ==
    /\ responses' = responses \ {r}
    /\ IF MayFill(r.shape)
         THEN cache' \in Evictions([cache EXCEPT ![r.shape] =
                            [content |-> r.content, revised |-> TRUE]], dirty)
         ELSE UNCHANGED cache
    /\ UNCHANGED <<serverVars, tombstones, dirty, opIds, lastOpId, historyVars,
                   cycleVars, bounds>>

\* purgeExpiredTombstones.  No response is five minutes old.
PurgeTombstone(s) ==
    /\ tombstones[s] = "saved"
    /\ \A r \in responses : r.shape # s
    /\ tombstones' = [tombstones EXCEPT ![s] = "none"]
    /\ UNCHANGED <<serverVars, cache, dirty, opIds, lastOpId, historyVars,
                   responses, cycleVars, bounds>>

-----------------------------------------------------------------------------
(* A checkpoint cycle *)

\* The operation that saves dirty shape s; shapes with neither a tombstone nor
\* a record are skipped.
TypeFor(s) ==
    IF tombstones[s] # "none" THEN "delete"
    ELSE IF cache[s].revised THEN "update" ELSE "create"
Savable == {s \in dirty : tombstones[s] # "none" \/ cache[s] # Absent}

\* The ways to cut the operations into consecutive batches.
Slices(ops) ==
    LET count == (Cardinality(ops) + MaxBatch - 1) \div MaxBatch IN
    {p \in SUBSET (SUBSET ops \ {{}}) :
        /\ UNION p = ops
        /\ Cardinality(p) = count
        /\ \A a \in p : Cardinality(a) <= MaxBatch
        /\ \A a, b \in p : a # b => a \cap b = {}}

\* getCheckpointSnapshot: ids that are still there are used again.  One number
\* serves a whole snapshot: an id also names its type and shape.
StartCycle ==
    /\ ~running
    /\ Savable # {}
    /\ running' = TRUE
    /\ actor' \in User
    /\ LET key(s) == <<TypeFor(s), s>>
           fresh  == {s \in Savable : opIds[key(s)] = 0}
           id(s)  == IF s \in fresh THEN lastOpId + 1 ELSE opIds[key(s)]
           ops    == {[type |-> TypeFor(s), shape |-> s, id |-> id(s),
                       content |-> IF tombstones[s] # "none" THEN Absent
                                   ELSE cache[s].content] : s \in Savable}
       IN /\ todo' \in Slices(ops)
          /\ opIds' = [k \in OpType \X Shape |->
                          IF k[2] \in fresh /\ k = key(k[2]) THEN id(k[2])
                                                           ELSE opIds[k]]
          /\ lastOpId' = IF fresh = {} THEN lastOpId ELSE lastOpId + 1
    /\ UNCHANGED <<serverVars, cache, tombstones, dirty, historyVars, responses,
                   sending, answer, saved, bounds>>

SendBatch ==
    /\ sending = {}
    /\ \E batch \in todo : sending' = batch /\ todo' = todo \ {batch}
    /\ UNCHANGED <<serverVars, roomVars, lastOpId, historyVars, responses,
                   running, actor, answer, saved, bounds>>

\* writeShapeOperation finds the operation in its log by actor and id.
Key(op)  == [actor |-> actor, type |-> op.type, shape |-> op.shape, id |-> op.id]
Seen(op) == Key(op) \in log

\* A create inserts or revives; an update or a delete needs an active shape.
Applicable(op) == IF op.type = "create" THEN ~Active(op.shape) ELSE Active(op.shape)

RowAfterMutant(op) == op.content        \* a delete is written like an update
RowAfter(op) == IF op.type = "delete" THEN "deleted" ELSE op.content

\* syncShapesBatch: one transaction, so one refused operation undoes them all.
SyncShapesBatch ==
    /\ sending # {} /\ answer = "none"
    /\ IF \A op \in sending : Seen(op) \/ Applicable(op)
         THEN /\ answer' = "ok"
              /\ rows' = [s \in Shape |->
                     IF \E op \in sending : op.shape = s /\ ~Seen(op)
                       THEN RowAfter(CHOOSE op \in sending : op.shape = s)
                       ELSE rows[s]]
              /\ log' = log \cup {Key(op) : op \in sending}
         ELSE /\ answer' = "refused"
              /\ UNCHANGED serverVars
    /\ UNCHANGED <<roomVars, lastOpId, historyVars, responses, running, actor,
                   todo, sending, saved, bounds>>

\* isAlreadyDeletedCheckpointFailure
AlreadyDeleted == \E op \in sending : sending = {op} /\ op.type = "delete"

\* The ways to cut a refused batch in two.
HalvesMutant(batch) == {{}}             \* a refused batch is given up
Halves(batch) ==
    {{left, batch \ left} :
        left \in {l \in SUBSET batch : Cardinality(l) = (Cardinality(batch) + 1) \div 2}}

\* persistOperations handles the answer: a refused batch is cut in two halves
\* until the operation at fault is alone.
HandleAnswer ==
    /\ answer # "none"
    /\ answer' = "none" /\ sending' = {}
    /\ \/ /\ answer = "ok" \/ AlreadyDeleted
          /\ saved' = saved \cup sending
          /\ UNCHANGED todo
       \/ /\ answer = "refused" /\ Cardinality(sending) > 1
          /\ \E halves \in Halves(sending) : todo' = todo \cup halves
          /\ UNCHANGED saved
       \/ /\ answer = "refused" /\ Cardinality(sending) = 1 /\ ~AlreadyDeleted
          /\ UNCHANGED <<todo, saved>>
    /\ UNCHANGED <<serverVars, roomVars, lastOpId, historyVars, responses,
                   running, actor, bounds>>

\* The request is answered with a 401, 429 or 5xx, or breaks before or after
\* the App Server committed it.  The operations stay dirty.
RequestFails ==
    /\ faults < MaxFaults
    /\ faults' = faults + 1
    /\ sending # {}
    /\ sending' = {} /\ answer' = "none"
    /\ UNCHANGED <<serverVars, roomVars, lastOpId, historyVars, responses,
                   running, actor, todo, saved, changes, undos>>

\* isCurrentCheckpointOperation
IsCurrent(op) == opIds[<<op.type, op.shape>>] = op.id

SavedOn(s)   == \E op \in saved : op.shape = s /\ op.type # "delete"
CurrentOn(s) == \E op \in saved : op.shape = s /\ IsCurrent(op)

\* The tombstone of a saved delete protects against older viewport responses.
TombstoneAfter(s) == "saved"

\* markCheckpointSucceeded for every saved operation of the cycle.
FinishCycle ==
    /\ running /\ todo = {} /\ sending = {}
    /\ running' = FALSE
    /\ dirty' = {s \in dirty : ~CurrentOn(s)}
    /\ opIds' = [key \in OpType \X Shape |->
                    IF CurrentOn(key[2]) THEN 0 ELSE opIds[key]]
    /\ tombstones' = [s \in Shape |->
           IF tombstones[s] # "none" /\ CurrentOn(s) THEN TombstoneAfter(s)
           ELSE tombstones[s]]
    /\ cache' = [s \in Shape |->
           IF cache[s] # Absent /\ SavedOn(s)
             THEN [cache[s] EXCEPT !.revised = TRUE] ELSE cache[s]]
    /\ saved' = {}
    /\ UNCHANGED <<serverVars, lastOpId, historyVars, responses, actor, todo,
                   sending, answer, bounds>>

\* clearRoomState, once the room is empty, clean and idle.
ClearRoomState ==
    /\ dirty = {} /\ ~running /\ responses = {}
    /\ cache' = [s \in Shape |-> Absent]
    /\ tombstones' = [s \in Shape |-> "none"]
    /\ opIds' = [key \in OpType \X Shape |-> 0]
    /\ history' = <<>> /\ redo' = <<>>
    /\ UNCHANGED <<serverVars, dirty, lastOpId, responses, cycleVars, bounds>>

-----------------------------------------------------------------------------
Next ==
    \/ \E s \in Shape : ApplyShapePatch(s) \/ ReadViewport(s) \/ PurgeTombstone(s)
    \/ Undo \/ Redo
    \/ \E r \in responses : RecordLoadedViewport(r)
    \/ StartCycle \/ SendBatch \/ SyncShapesBatch \/ HandleAnswer
    \/ RequestFails \/ FinishCycle \/ ClearRoomState

Spec == Init /\ [][Next]_vars

\* A dirty room has an idle, max-age or retry timer, and requests are answered.
Fairness ==
    /\ WF_vars(StartCycle) /\ WF_vars(SendBatch)
    /\ WF_vars(SyncShapesBatch) /\ WF_vars(HandleAnswer) /\ WF_vars(FinishCycle)

FairSpec == Spec /\ Fairness

-----------------------------------------------------------------------------
(* Properties *)

\* What the room believes to be saved is saved: a shape that is not dirty is in
\* the database as the room shows it, and a deleted one is not active there,
\* whatever was edited, undone, answered late or lost meanwhile.
CleanIsSaved ==
    \A s \in Shape \ dirty :
        /\ cache[s] # Absent => rows[s] = cache[s].content
        /\ tombstones[s] # "none" => ~Active(s)

\* The room never shows a shape it also remembers as deleted.
DeletedIsHidden ==
    \A s \in Shape : tombstones[s] # "none" => cache[s] = Absent

\* Every dirty shape still has the state its checkpoint needs, or it would be
\* skipped by every cycle and dropped with the room.
DirtyIsSavable == dirty \subseteq Savable

\* The App Server refuses the operation that would save s now: it would update
\* a row that is deleted (its delete was saved and then undone), or create one
\* that exists and whose first create came under another id.
Refused(s) ==
    /\ s \in Savable
    /\ \/ TypeFor(s) = "update" /\ ~Active(s)
       \/ TypeFor(s) = "create" /\ Active(s)
    /\ \A entry \in log : entry.id = opIds[<<TypeFor(s), s>>] => entry.shape # s

\* "A 4xx failure that can be separated is split, and the normal shapes are
\* saved" (checkpoint/README.md): whatever is undone, evicted, lost or refused
\* together with it, a shape is saved in the end unless the App Server refuses
\* that very shape for ever.
NormalShapesGetSaved ==
    \A s \in Shape : []<>(s \notin dirty) \/ <>[]Refused(s)
=============================================================================
