--------------------------- MODULE CanvasRoomProofs ---------------------------
(***************************************************************************)
(* What CanvasRoom keeps for any shapes, contents and users, and for every *)
(* bound: its types, that a deleted shape is hidden, that every dirty      *)
(* shape can be saved, and that what is clean is saved.                    *)
(***************************************************************************)
EXTENDS CanvasRoom, FiniteSetTheorems, SequenceTheorems, TLAPS

\* Types, in three parts.
MaybeRecord == ShapeRecord \cup {Absent}
Item == [shape : Shape, before : MaybeRecord, after : MaybeRecord]
Tombstone == {"none", "unsaved", "saved"}
LogEntry == [actor : User, type : OpType, shape : Shape, id : Nat]
InFlight == (UNION todo) \cup sending \cup saved

RoomTyped ==
    /\ cache \in [Shape -> MaybeRecord]
    /\ tombstones \in [Shape -> Tombstone]
    /\ dirty \subseteq Shape
    /\ opIds \in [OpType \X Shape -> Nat]
    /\ lastOpId \in Nat
    /\ responses \subseteq [shape : Shape, content : Content]

HistoryTyped ==
    /\ history \in Seq(Item) /\ redo \in Seq(Item)
    /\ changes \in 0 .. MaxChanges /\ undos \in 0 .. MaxUndos

\* Only a delete has no content.
CycleTyped ==
    /\ rows \in [Shape -> Row]
    /\ log \subseteq LogEntry
    /\ running \in BOOLEAN /\ actor \in User
    /\ answer \in {"none", "ok", "refused"}
    /\ InFlight \subseteq Op
    /\ \A op \in InFlight : op.type # "delete" => op.content \in Content
    /\ faults \in 0 .. MaxFaults

Typed == RoomTyped /\ HistoryTyped /\ CycleTyped

\* The tombstone of a dirty shape is not saved yet, and only of a dirty one.
RoomIsKept ==
    /\ DeletedIsHidden
    /\ DirtyIsSavable
    /\ \A s \in Shape : tombstones[s] # "none" => (tombstones[s] = "unsaved" <=> s \in dirty)

\* An operation id is that of the operation which would save a dirty shape now.
NoIds(s) == \A t \in OpType : opIds[<<t, s>>] = 0
IdsAreCurrent ==
    \A t \in OpType, s \in Shape :
        opIds[<<t, s>>] # 0 => /\ s \in dirty /\ t = TypeFor(s)
                               /\ opIds[<<t, s>>] <= lastOpId

\* A cycle has one operation of a shape, whose shape stays dirty while it runs:
\* either it is current and writes what the room shows, or its shape was
\* changed since and has no id.
Shows(op) ==
    op.content = IF tombstones[op.shape] # "none" THEN Absent ELSE cache[op.shape].content
CycleIsKept ==
    /\ ~running => InFlight = {} /\ todo = {}
    /\ sending = {} => answer = "none"
    /\ \A op \in InFlight :
          /\ op.shape \in dirty /\ op.id \in 1 .. lastOpId
          /\ (IsCurrent(op) /\ Shows(op)) \/ NoIds(op.shape)
    /\ \A op1, op2 \in InFlight : op1.shape = op2.shape => op1 = op2

\* Where an operation that is still current was applied, the database has what
\* the room shows.
RowFits(s) == IF tombstones[s] # "none" THEN ~Active(s) ELSE rows[s] = cache[s].content
AppliedFits ==
    /\ \A k \in log : /\ k.id \in 1 .. lastOpId
                      /\ opIds[<<k.type, k.shape>>] = k.id => RowFits(k.shape)
    /\ \A op \in saved : IsCurrent(op) => RowFits(op.shape)
    /\ \A op \in sending : answer = "ok" /\ IsCurrent(op) => RowFits(op.shape)
    /\ answer = "refused" /\ AlreadyDeleted => \A op \in sending : ~Active(op.shape)

\* A viewport response that may still be filled in is not out of date.
ResponsesFit == \A r \in responses : MayFill(r.shape) => rows[r.shape] = r.content

\* A shape is not evicted while a viewport response with it is on its way.
KeepsAwaited == \A r \in responses : MayFill(r.shape)' => MayFill(r.shape)

USE RecordsAssumption
-----------------------------------------------------------------------------
\* What the operations leave

\* A record and what is left of one.
LEMMA RecordTyped ==
  ASSUME NEW c \in Content, NEW known \in BOOLEAN
  PROVE  /\ [content |-> c, revised |-> known] \in ShapeRecord
         /\ [content |-> c, revised |-> known] \in MaybeRecord
         /\ [content |-> c, revised |-> known] # Absent
<1>1. [content |-> c, revised |-> known] \in ShapeRecord
  BY DEF ShapeRecord
<1> QED BY <1>1 DEF MaybeRecord, ShapeRecord

LEMMA MaybeRecordFacts ==
  ASSUME NEW record \in MaybeRecord, record # Absent
  PROVE  record \in ShapeRecord /\ record.content \in Content /\ record.revised \in BOOLEAN
  BY DEF MaybeRecord, ShapeRecord

LEMMA RevisedTyped ==
  ASSUME NEW record \in ShapeRecord, NEW known \in BOOLEAN
  PROVE  LET new == [record EXCEPT !.revised = known] IN
         /\ new \in ShapeRecord /\ new \in MaybeRecord /\ new # Absent
         /\ new.content = record.content /\ new.revised = known
<1> DEFINE new == [record EXCEPT !.revised = known]
<1>1. new \in ShapeRecord /\ new.content = record.content /\ new.revised = known
  BY DEF ShapeRecord
<1>2. \A x \in ShapeRecord : x # Absent
  BY DEF ShapeRecord
<1> QED BY <1>1, <1>2 DEF MaybeRecord

\* An eviction takes clean shapes without a tombstone.
LEMMA EvictionsKeep ==
  ASSUME NEW c \in [Shape -> MaybeRecord], NEW d, NEW c2 \in Evictions(c, d)
  PROVE  /\ c2 \in [Shape -> MaybeRecord]
         /\ \A x \in Shape :
              \/ c2[x] = c[x]
              \/ c2[x] = Absent /\ x \notin d /\ tombstones[x] = "none"
<1>1. PICK e \in SUBSET Evictable(c, d) : c2 = [s \in Shape |-> IF s \in e THEN Absent ELSE c[s]]
  BY DEF Evictions
<1> QED BY <1>1 DEF Evictable, Cached, MaybeRecord

\* The change of shape s, as every operation of a client leaves it.
Changed(s) ==
    /\ dirty' = dirty \cup {s} /\ opIds' = Invalidated(s)
    /\ cache' \in [Shape -> MaybeRecord] /\ tombstones' \in [Shape -> Tombstone]
    /\ \/ cache'[s] = Absent /\ tombstones'[s] = "unsaved"
       \/ cache'[s] # Absent /\ tombstones'[s] = "none"
    /\ \A x \in Shape \ {s} :
          /\ tombstones'[x] = tombstones[x]
          /\ \/ cache'[x] = cache[x]
             \/ cache'[x] = Absent /\ x \notin dirty /\ tombstones[x] = "none"

LEMMA UpsertChanges ==
  ASSUME RoomTyped, NEW s \in Shape, NEW record \in ShapeRecord, Upsert(s, record)
  PROVE  Changed(s)
<1> DEFINE known == record.revised \/ (cache[s] # Absent /\ cache[s].revised)
           next == [record EXCEPT !.revised = known]
           c == [cache EXCEPT ![s] = next]
<1>1. known \in BOOLEAN
  OBVIOUS
<1>2. next \in MaybeRecord /\ next # Absent
  BY <1>1, RevisedTyped
<1>3. c \in [Shape -> MaybeRecord] /\ c[s] # Absent /\ \A x \in Shape \ {s} : c[x] = cache[x]
  BY <1>2 DEF RoomTyped
<1>4. /\ dirty' = dirty \cup {s} /\ cache' \in Evictions(c, dirty')
      /\ tombstones' = [tombstones EXCEPT ![s] = "none"] /\ opIds' = Invalidated(s)
  BY DEF Upsert
<1> HIDE DEF c
<1>5. /\ cache' \in [Shape -> MaybeRecord]
      /\ \A x \in Shape : \/ cache'[x] = c[x]
                          \/ cache'[x] = Absent /\ x \notin dirty' /\ tombstones[x] = "none"
  BY <1>3, <1>4, EvictionsKeep
<1>6. /\ tombstones' \in [Shape -> Tombstone] /\ tombstones'[s] = "none"
      /\ \A x \in Shape \ {s} : tombstones'[x] = tombstones[x]
  BY <1>4 DEF RoomTyped, Tombstone
<1>7. cache'[s] # Absent
  BY <1>3, <1>4, <1>5
<1>8. \A x \in Shape \ {s} : \/ cache'[x] = cache[x]
                             \/ cache'[x] = Absent /\ x \notin dirty /\ tombstones[x] = "none"
  BY <1>3, <1>4, <1>5
<1> QED BY <1>4, <1>5, <1>6, <1>7, <1>8 DEF Changed

LEMMA DeleteChanges ==
  ASSUME RoomTyped, NEW s \in Shape, Delete(s)
  PROVE  Changed(s)
  BY DEF RoomTyped, Delete, Changed, MaybeRecord, Tombstone

LEMMA PutChanges ==
  ASSUME RoomTyped, NEW s \in Shape, NEW record \in MaybeRecord, Put(s, record)
  PROVE  Changed(s)
  BY UpsertChanges, DeleteChanges, MaybeRecordFacts DEF Put

\* The last change of a history, and the histories an undo and a redo leave.
LEMMA LastTyped ==
  ASSUME NEW items \in Seq(Item), items # <<>>
  PROVE  LET item == items[Len(items)] IN
         /\ item \in Item /\ item.shape \in Shape
         /\ item.before \in MaybeRecord /\ item.after \in MaybeRecord
         /\ SubSeq(items, 1, Len(items) - 1) \in Seq(Item)
<1>1. Len(items) \in Nat \ {0}
  BY EmptySeq
<1>2. \A i \in 1 .. Len(items) : items[i] \in Item
  BY ElementOfSeq
<1>3. Len(items) \in 1 .. Len(items) /\ 1 \in Int /\ Len(items) - 1 \in Int
  BY <1>1
<1>4. \A i \in 1 .. (Len(items) - 1) : items[i] \in Item
  BY <1>1, <1>2
<1>5. SubSeq(items, 1, Len(items) - 1) \in Seq(Item)
  BY <1>3, <1>4, SubSeqProperties
<1>6. items[Len(items)] \in Item
  BY <1>2, <1>3
<1> QED BY <1>5, <1>6 DEF Item

LEMMA RecentTyped ==
  ASSUME NEW items \in Seq(Item), NEW item \in Item
  PROVE  Recent(Append(items, item)) \in Seq(Item)
<1>1. Append(items, item) \in Seq(Item) /\ Append(items, item) # <<>>
  BY AppendProperties
<1>2. Tail(Append(items, item)) \in Seq(Item)
  BY <1>1, HeadTailProperties
<1> QED BY <1>1, <1>2 DEF Recent

LEMMA RecordHistoryTyped ==
  ASSUME HistoryTyped, NEW s \in Shape, NEW before \in MaybeRecord, NEW after \in MaybeRecord,
         RecordHistory(s, before, after)
  PROVE  history' \in Seq(Item) /\ redo' \in Seq(Item)
<1>1. [shape |-> s, before |-> before, after |-> after] \in Item
  BY DEF Item
<1>2. CASE before = after
  BY <1>2 DEF RecordHistory, HistoryTyped, historyVars
<1>3. CASE before # after
  BY <1>1, <1>3, RecentTyped, EmptySeq DEF RecordHistory, HistoryTyped
<1> QED BY <1>2, <1>3

\* A patch, an undo and a redo each change one shape of the room.
LEMMA PatchChanges ==
  ASSUME RoomTyped, HistoryTyped, NEW s \in Shape, ApplyShapePatch(s)
  PROVE  Changed(s) /\ history' \in Seq(Item) /\ redo' \in Seq(Item)
<1>1. cache[s] \in MaybeRecord /\ Absent \in MaybeRecord
  BY DEF RoomTyped, MaybeRecord
<1>2. CASE RecordHistory(s, cache[s], Absent) /\ Delete(s)
  BY <1>1, <1>2, DeleteChanges, RecordHistoryTyped
<1>3. ASSUME NEW c \in Content, NEW known \in ClientKnows(s),
             RecordHistory(s, cache[s], [content |-> c, revised |-> known]),
             Upsert(s, [content |-> c, revised |-> known])
      PROVE  Changed(s) /\ history' \in Seq(Item) /\ redo' \in Seq(Item)
  <2>1. known \in BOOLEAN
    BY DEF ClientKnows
  <2> DEFINE record == [content |-> c, revised |-> known]
  <2>2. record \in ShapeRecord /\ record \in MaybeRecord
    BY <2>1, RecordTyped
  <2>3. RecordHistory(s, cache[s], record) /\ Upsert(s, record)
    BY <1>3
  <2> HIDE DEF record
  <2> QED BY <1>1, <2>2, <2>3, UpsertChanges, RecordHistoryTyped
<1> QED BY <1>2, <1>3 DEF ApplyShapePatch

LEMMA UndoChanges ==
  ASSUME RoomTyped, HistoryTyped, Undo
  PROVE  (\E s \in Shape : Changed(s)) /\ history' \in Seq(Item) /\ redo' \in Seq(Item)
<1> DEFINE item == history[Len(history)]
<1>1. /\ item \in Item /\ item.shape \in Shape /\ item.before \in MaybeRecord
      /\ SubSeq(history, 1, Len(history) - 1) \in Seq(Item)
  BY LastTyped DEF Undo, HistoryTyped
<1>2. /\ history' = SubSeq(history, 1, Len(history) - 1)
      /\ redo' = Recent(Append(redo, item)) /\ Put(item.shape, item.before)
  BY DEF Undo
<1> HIDE DEF item
<1> QED BY <1>1, <1>2, PutChanges, RecentTyped DEF HistoryTyped

LEMMA RedoChanges ==
  ASSUME RoomTyped, HistoryTyped, Redo
  PROVE  (\E s \in Shape : Changed(s)) /\ history' \in Seq(Item) /\ redo' \in Seq(Item)
<1> DEFINE item == redo[Len(redo)]
<1>1. /\ item \in Item /\ item.shape \in Shape /\ item.after \in MaybeRecord
      /\ SubSeq(redo, 1, Len(redo) - 1) \in Seq(Item)
  BY LastTyped DEF Redo, HistoryTyped
<1>2. /\ redo' = SubSeq(redo, 1, Len(redo) - 1)
      /\ history' = Recent(Append(history, item)) /\ Put(item.shape, item.after)
  BY DEF Redo
<1> HIDE DEF item
<1> QED BY <1>1, <1>2, PutChanges, RecentTyped DEF HistoryTyped

\* What a cycle starts with: one operation of every shape that can be saved,
\* with the id it had or a new one.
Fresh == {s \in Savable : opIds[<<TypeFor(s), s>>] = 0}
NewId(s) == IF s \in Fresh THEN lastOpId + 1 ELSE opIds[<<TypeFor(s), s>>]
NewOp(s) == [type |-> TypeFor(s), shape |-> s, id |-> NewId(s),
             content |-> IF tombstones[s] # "none" THEN Absent ELSE cache[s].content]

LEMMA TypeForTyped == \A s \in Shape : TypeFor(s) \in OpType
  BY DEF TypeFor, OpType

LEMMA NewOpTyped ==
  ASSUME RoomTyped, NEW s \in Savable
  PROVE  /\ s \in Shape /\ NewId(s) \in Nat /\ NewOp(s) \in Op
         /\ NewOp(s).type = TypeFor(s) /\ NewOp(s).shape = s /\ NewOp(s).id = NewId(s)
         /\ NewOp(s).content = IF tombstones[s] # "none" THEN Absent ELSE cache[s].content
         /\ TypeFor(s) # "delete" => NewOp(s).content \in Content
<1>1. s \in Shape /\ (tombstones[s] # "none" \/ cache[s] # Absent) /\ cache[s] \in MaybeRecord
  BY DEF Savable, RoomTyped
<1>2. NewId(s) \in Nat
  BY <1>1, TypeForTyped DEF NewId, RoomTyped
<1> DEFINE content == IF tombstones[s] # "none" THEN Absent ELSE cache[s].content
<1>3. content \in Content \cup {Absent} /\ (tombstones[s] = "none" => content \in Content)
  BY <1>1, MaybeRecordFacts
<1>4. NewOp(s) = [type |-> TypeFor(s), shape |-> s, id |-> NewId(s), content |-> content]
  BY DEF NewOp
<1>5. TypeFor(s) # "delete" => tombstones[s] = "none"
  BY DEF TypeFor
<1> HIDE DEF content
<1>6. /\ NewOp(s) \in Op /\ NewOp(s).type = TypeFor(s) /\ NewOp(s).shape = s
      /\ NewOp(s).id = NewId(s) /\ NewOp(s).content = content
  BY <1>1, <1>2, <1>3, <1>4, TypeForTyped DEF Op
<1> QED BY <1>1, <1>2, <1>3, <1>5, <1>6 DEF content

LEMMA StartEffect ==
  ASSUME RoomTyped, StartCycle
  PROVE  /\ UNION todo' = {NewOp(s) : s \in Savable}
         /\ opIds' \in [OpType \X Shape -> Nat]
         /\ \A t \in OpType, s \in Shape :
              opIds'[<<t, s>>] = IF s \in Savable /\ t = TypeFor(s) THEN NewId(s)
                                 ELSE opIds[<<t, s>>]
         /\ lastOpId' = IF Fresh = {} THEN lastOpId ELSE lastOpId + 1
<1> DEFINE ops == {[type |-> TypeFor(s), shape |-> s,
                    id |-> IF s \in Fresh THEN lastOpId + 1 ELSE opIds[<<TypeFor(s), s>>],
                    content |-> IF tombstones[s] # "none" THEN Absent
                                ELSE cache[s].content] : s \in Savable}
<1>1. ops = {NewOp(s) : s \in Savable}
  BY DEF NewOp, NewId
<1>2. /\ todo' \in Slices(ops)
      /\ opIds' = [k \in OpType \X Shape |->
                     IF k[2] \in Fresh /\ k = <<TypeFor(k[2]), k[2]>>
                     THEN (IF k[2] \in Fresh THEN lastOpId + 1 ELSE opIds[<<TypeFor(k[2]), k[2]>>])
                     ELSE opIds[k]]
      /\ lastOpId' = IF Fresh = {} THEN lastOpId ELSE lastOpId + 1
  BY DEF StartCycle, Fresh
<1> HIDE DEF ops
<1>3. UNION todo' = ops
  BY <1>2 DEF Slices
<1>4. opIds' \in [OpType \X Shape -> Nat]
  BY <1>2 DEF RoomTyped
<1>5. ASSUME NEW t \in OpType, NEW s \in Shape
      PROVE  opIds'[<<t, s>>] = IF s \in Savable /\ t = TypeFor(s) THEN NewId(s)
                                ELSE opIds[<<t, s>>]
  <2>1. opIds'[<<t, s>>] = IF s \in Fresh /\ t = TypeFor(s) THEN lastOpId + 1
                           ELSE opIds[<<t, s>>]
    BY <1>2
  <2> QED BY <2>1 DEF NewId, Fresh
<1> QED BY <1>1, <1>2, <1>3, <1>4, <1>5

-----------------------------------------------------------------------------
\* Types

LEMMA TypedInit == Init => Typed
<1> SUFFICES ASSUME Init PROVE Typed
  OBVIOUS
<1>1. RoomTyped
  BY DEF Init, RoomTyped, MaybeRecord, Tombstone
<1>2. HistoryTyped
  BY ConstantsAssumption, EmptySeq DEF Init, HistoryTyped
<1>3. CycleTyped
  <2>1. InFlight = {}
    BY DEF Init, InFlight
  <2>2. rows \in [Shape -> Row]
    BY DEF Init, Row
  <2>3. faults = 0 /\ 0 \in 0 .. MaxFaults
    BY ConstantsAssumption DEF Init
  <2> QED BY <2>1, <2>2, <2>3 DEF Init, CycleTyped
<1> QED BY <1>1, <1>2, <1>3 DEF Typed

\* A change leaves the types, and nothing else of a cycle.
LEMMA ChangedTyped ==
  ASSUME RoomTyped, NEW s \in Shape, Changed(s), responses' = responses, lastOpId' = lastOpId
  PROVE  RoomTyped'
<1>1. Invalidated(s) \in [OpType \X Shape -> Nat]
  BY DEF Invalidated, RoomTyped
<1> QED BY <1>1 DEF RoomTyped, Changed

LEMMA FaultTyped ==
  CycleTyped /\ faults < MaxFaults /\ faults' = faults + 1 => faults' \in 0 .. MaxFaults
  BY ConstantsAssumption DEF CycleTyped

\* What a cycle has in flight, and what a row becomes.
LEMMA OpFields ==
  ASSUME CycleTyped, NEW op \in InFlight
  PROVE  /\ op \in Op /\ op.type \in OpType /\ op.shape \in Shape /\ op.id \in Nat
         /\ op.type # "delete" => op.content \in Content
         /\ RowAfter(op) \in Row
  BY DEF CycleTyped, Op, RowAfter, Row

LEMMA SendingInFlight == \A op \in sending : op \in InFlight
  BY DEF InFlight

\* A batch that is applied.
Applies == \A op \in sending : Seen(op) \/ Applicable(op)
LEMMA SyncEffect ==
  ASSUME CycleTyped, SyncShapesBatch
  PROVE  /\ answer = "none" /\ sending # {}
         /\ ~Applies => answer' = "refused" /\ rows' = rows /\ log' = log
         /\ Applies => /\ answer' = "ok" /\ log' = log \cup {Key(op) : op \in sending}
                       /\ \A s \in Shape :
                            \/ rows'[s] = rows[s] /\ \A op \in sending : op.shape = s => Seen(op)
                            \/ \E op \in sending : op.shape = s /\ rows'[s] = RowAfter(op)
         /\ rows' \in [Shape -> Row]
<1>1. CASE ~Applies
  BY <1>1 DEF SyncShapesBatch, Applies, serverVars, CycleTyped
<1>2. CASE Applies
  <2>1. /\ answer' = "ok" /\ log' = log \cup {Key(op) : op \in sending}
        /\ rows' = [s \in Shape |->
             IF \E op \in sending : op.shape = s /\ ~Seen(op)
               THEN RowAfter(CHOOSE op \in sending : op.shape = s)
               ELSE rows[s]]
    BY <1>2 DEF SyncShapesBatch, Applies
  <2>2. ASSUME NEW s \in Shape
        PROVE  \/ rows'[s] = rows[s] /\ \A op \in sending : op.shape = s => Seen(op)
               \/ \E op \in sending : op.shape = s /\ rows'[s] = RowAfter(op)
    <3>1. CASE \E op \in sending : op.shape = s /\ ~Seen(op)
      <4> DEFINE chosen == CHOOSE op \in sending : op.shape = s
      <4>1. chosen \in sending /\ chosen.shape = s
        BY <3>1
      <4>2. rows'[s] = RowAfter(chosen)
        BY <2>1, <3>1
      <4> HIDE DEF chosen
      <4> QED BY <4>1, <4>2
    <3>2. CASE ~ \E op \in sending : op.shape = s /\ ~Seen(op)
      BY <2>1, <3>2
    <3> QED BY <3>1, <3>2
  <2>3. \A s \in Shape : rows'[s] \in Row
    BY <2>2, OpFields, SendingInFlight DEF CycleTyped
  <2>4. rows' \in [Shape -> Row]
    BY <2>1, <2>3
  <2> QED BY <1>2, <2>1, <2>2, <2>4 DEF SyncShapesBatch
<1> QED BY <1>1, <1>2 DEF SyncShapesBatch

\* A finished cycle: everything is answered.
LEMMA FinishEffect ==
  ASSUME RoomTyped, FinishCycle
  PROVE  /\ InFlight' = {} /\ todo' = {} /\ InFlight = saved
         /\ \A s \in Shape :
              /\ cache'[s] \in MaybeRecord
              /\ cache'[s] = Absent <=> cache[s] = Absent
              /\ cache[s] # Absent => cache'[s].content = cache[s].content
              /\ cache[s] # Absent /\ ~SavedOn(s) => cache'[s] = cache[s]
         /\ cache' \in [Shape -> MaybeRecord]
<1>1. ASSUME NEW s \in Shape
      PROVE  /\ cache'[s] \in MaybeRecord
             /\ cache'[s] = Absent <=> cache[s] = Absent
             /\ cache[s] # Absent => cache'[s].content = cache[s].content
             /\ cache[s] # Absent /\ ~SavedOn(s) => cache'[s] = cache[s]
  <2>1. cache'[s] = IF cache[s] # Absent /\ SavedOn(s)
                    THEN [cache[s] EXCEPT !.revised = TRUE] ELSE cache[s]
    BY DEF FinishCycle
  <2>2. cache[s] \in MaybeRecord
    BY DEF RoomTyped
  <2>3. CASE cache[s] # Absent /\ SavedOn(s)
    <3> DEFINE new == [cache[s] EXCEPT !.revised = TRUE]
    <3>1. new \in MaybeRecord /\ new # Absent /\ new.content = cache[s].content
      BY <2>2, <2>3, MaybeRecordFacts, RevisedTyped
    <3>2. cache'[s] = new
      BY <2>1, <2>3
    <3> HIDE DEF new
    <3> QED BY <2>3, <3>1, <3>2
  <2>4. CASE ~(cache[s] # Absent /\ SavedOn(s))
    BY <2>1, <2>2, <2>4
  <2> QED BY <2>3, <2>4
<1>2. cache' \in [Shape -> MaybeRecord]
  BY <1>1 DEF FinishCycle
<1>3. InFlight' = {} /\ todo' = {} /\ InFlight = saved
  BY DEF FinishCycle, InFlight
<1> QED BY <1>1, <1>2, <1>3

\* What is in flight after an answer was handled was in flight before.
LEMMA AnswerEffect ==
  ASSUME HandleAnswer
  PROVE  /\ InFlight' \subseteq InFlight
         /\ saved' \subseteq saved \cup sending
         /\ saved' # saved => answer = "ok" \/ AlreadyDeleted
<1>1. UNION todo' \subseteq (UNION todo) \cup sending
  BY DEF HandleAnswer, Halves
<1> QED BY <1>1 DEF HandleAnswer, InFlight

LEMMA TypedStep == Typed /\ [Next]_vars => Typed'
<1> SUFFICES ASSUME Typed, [Next]_vars PROVE Typed'
  OBVIOUS
<1> USE DEF Typed
<1>1. ASSUME NEW s \in Shape, ApplyShapePatch(s) PROVE Typed'
  <2>1. RoomTyped'
    BY <1>1, PatchChanges, ChangedTyped DEF ApplyShapePatch
  <2>2. HistoryTyped'
    <3>1. history' \in Seq(Item) /\ redo' \in Seq(Item)
      BY <1>1, PatchChanges
    <3>2. changes' \in 0 .. MaxChanges /\ undos' = undos
      BY <1>1, ConstantsAssumption DEF ApplyShapePatch, HistoryTyped
    <3> QED BY <3>1, <3>2 DEF HistoryTyped
  <2>3. CycleTyped'
    BY <1>1 DEF ApplyShapePatch, CycleTyped, InFlight, serverVars, cycleVars, bounds
  <2> QED BY <2>1, <2>2, <2>3 DEF Typed
<1>2. ASSUME NEW s \in Shape, ReadViewport(s) PROVE Typed'
  <2>1. RoomTyped'
    <3>1. rows[s] \in Content
      BY <1>2 DEF ReadViewport, Active, CycleTyped, Row
    <3> QED BY <1>2, <3>1 DEF ReadViewport, RoomTyped, roomVars
  <2>2. HistoryTyped'
    BY <1>2 DEF ReadViewport, HistoryTyped, historyVars, bounds
  <2>3. CycleTyped'
    BY <1>2 DEF ReadViewport, CycleTyped, InFlight, serverVars, cycleVars, bounds
  <2> QED BY <2>1, <2>2, <2>3 DEF Typed
<1>3. ASSUME NEW s \in Shape, PurgeTombstone(s) PROVE Typed'
  <2>1. RoomTyped'
    BY <1>3 DEF PurgeTombstone, RoomTyped, Tombstone
  <2>2. HistoryTyped'
    BY <1>3 DEF PurgeTombstone, HistoryTyped, historyVars, bounds
  <2>3. CycleTyped'
    BY <1>3 DEF PurgeTombstone, CycleTyped, InFlight, serverVars, cycleVars, bounds
  <2> QED BY <2>1, <2>2, <2>3 DEF Typed
<1>4. CASE Undo
  <2>1. RoomTyped'
    BY <1>4, UndoChanges, ChangedTyped DEF Undo
  <2>2. HistoryTyped'
    BY <1>4, UndoChanges, ConstantsAssumption DEF Undo, HistoryTyped
  <2>3. CycleTyped'
    BY <1>4 DEF Undo, CycleTyped, InFlight, serverVars, cycleVars, bounds
  <2> QED BY <2>1, <2>2, <2>3 DEF Typed
<1>5. CASE Redo
  <2>1. RoomTyped'
    BY <1>5, RedoChanges, ChangedTyped DEF Redo
  <2>2. HistoryTyped'
    BY <1>5, RedoChanges, ConstantsAssumption DEF Redo, HistoryTyped
  <2>3. CycleTyped'
    BY <1>5 DEF Redo, CycleTyped, InFlight, serverVars, cycleVars, bounds
  <2> QED BY <2>1, <2>2, <2>3 DEF Typed
<1>6. ASSUME NEW r \in responses, RecordLoadedViewport(r) PROVE Typed'
  <2>1. RoomTyped'
    <3>1. r.shape \in Shape /\ r.content \in Content
      BY DEF RoomTyped
    <3>2. [content |-> r.content, revised |-> TRUE] \in MaybeRecord
      BY <3>1, RecordTyped
    <3> DEFINE c == [cache EXCEPT ![r.shape] = [content |-> r.content, revised |-> TRUE]]
    <3>3. c \in [Shape -> MaybeRecord]
      BY <3>1, <3>2 DEF RoomTyped
    <3>4. cache' = cache \/ cache' \in Evictions(c, dirty)
      BY <1>6 DEF RecordLoadedViewport
    <3> HIDE DEF c
    <3>5. cache' \in [Shape -> MaybeRecord]
      BY <3>3, <3>4, EvictionsKeep DEF RoomTyped
    <3> QED BY <1>6, <3>5 DEF RecordLoadedViewport, RoomTyped
  <2>2. HistoryTyped'
    BY <1>6 DEF RecordLoadedViewport, HistoryTyped, historyVars, bounds
  <2>3. CycleTyped'
    BY <1>6 DEF RecordLoadedViewport, CycleTyped, InFlight, serverVars, cycleVars, bounds
  <2> QED BY <2>1, <2>2, <2>3 DEF Typed
<1>7. CASE StartCycle
  <2>1. RoomTyped'
    BY <1>7, StartEffect DEF StartCycle, RoomTyped
  <2>2. HistoryTyped'
    BY <1>7 DEF StartCycle, HistoryTyped, historyVars, bounds
  <2>3. CycleTyped'
    <3>1. \A s \in Savable : NewOp(s) \in Op /\ (NewOp(s).type # "delete" => NewOp(s).content \in Content)
      BY NewOpTyped
    <3>2. \A op \in InFlight' : op \in InFlight \/ \E s \in Savable : op = NewOp(s)
      BY <1>7, StartEffect DEF StartCycle, InFlight
    <3>3. \A op \in InFlight' : op \in Op /\ (op.type # "delete" => op.content \in Content)
      BY <3>1, <3>2 DEF CycleTyped
    <3>4. UNCHANGED <<rows, log, answer, faults>> /\ running' \in BOOLEAN /\ actor' \in User
      BY <1>7 DEF StartCycle, serverVars, bounds
    <3> QED BY <3>3, <3>4 DEF CycleTyped
  <2> QED BY <2>1, <2>2, <2>3 DEF Typed
<1>8. CASE SendBatch
  <2>1. RoomTyped'
    BY <1>8 DEF SendBatch, RoomTyped, roomVars
  <2>2. HistoryTyped'
    BY <1>8 DEF SendBatch, HistoryTyped, historyVars, bounds
  <2>3. CycleTyped'
    <3>1. InFlight' \subseteq InFlight
      BY <1>8 DEF SendBatch, InFlight
    <3> QED BY <1>8, <3>1 DEF SendBatch, CycleTyped, serverVars, bounds
  <2> QED BY <2>1, <2>2, <2>3 DEF Typed
<1>9. CASE SyncShapesBatch
  <2>1. RoomTyped'
    BY <1>9 DEF SyncShapesBatch, RoomTyped, roomVars
  <2>2. HistoryTyped'
    BY <1>9 DEF SyncShapesBatch, HistoryTyped, historyVars, bounds
  <2>3. CycleTyped'
    <3>1. log' \subseteq LogEntry
      <4>1. \A op \in sending : Key(op) \in LogEntry
        BY OpFields, SendingInFlight DEF Key, LogEntry, CycleTyped
      <4> QED BY <1>9, <4>1, SyncEffect DEF CycleTyped
    <3>2. rows' \in [Shape -> Row] /\ answer' \in {"none", "ok", "refused"}
      BY <1>9, SyncEffect
    <3> QED BY <1>9, <3>1, <3>2 DEF SyncShapesBatch, CycleTyped, InFlight, bounds
  <2> QED BY <2>1, <2>2, <2>3 DEF Typed
<1>10. CASE HandleAnswer
  <2>1. RoomTyped'
    BY <1>10 DEF HandleAnswer, RoomTyped, roomVars
  <2>2. HistoryTyped'
    BY <1>10 DEF HandleAnswer, HistoryTyped, historyVars, bounds
  <2>3. CycleTyped'
    BY <1>10, AnswerEffect DEF HandleAnswer, CycleTyped, serverVars, bounds
  <2> QED BY <2>1, <2>2, <2>3 DEF Typed
<1>11. CASE RequestFails
  <2>1. RoomTyped'
    BY <1>11 DEF RequestFails, RoomTyped, roomVars
  <2>2. HistoryTyped'
    BY <1>11 DEF RequestFails, HistoryTyped, historyVars
  <2>3. CycleTyped'
    <3>1. InFlight' \subseteq InFlight
      BY <1>11 DEF RequestFails, InFlight
    <3> QED BY <1>11, <3>1, FaultTyped DEF RequestFails, CycleTyped, serverVars
  <2> QED BY <2>1, <2>2, <2>3 DEF Typed
<1>12. CASE FinishCycle
  <2>1. RoomTyped'
    <3>1. cache' \in [Shape -> MaybeRecord]
      BY <1>12, FinishEffect
    <3>2. tombstones' \in [Shape -> Tombstone]
      BY <1>12 DEF FinishCycle, RoomTyped, TombstoneAfter, Tombstone
    <3>3. opIds' \in [OpType \X Shape -> Nat] /\ dirty' \subseteq Shape
      BY <1>12 DEF FinishCycle, RoomTyped
    <3> QED BY <1>12, <3>1, <3>2, <3>3 DEF FinishCycle, RoomTyped
  <2>2. HistoryTyped'
    BY <1>12 DEF FinishCycle, HistoryTyped, historyVars, bounds
  <2>3. CycleTyped'
    BY <1>12, FinishEffect DEF FinishCycle, CycleTyped, serverVars, bounds
  <2> QED BY <2>1, <2>2, <2>3 DEF Typed
<1>13. CASE ClearRoomState
  <2>1. RoomTyped'
    BY <1>13 DEF ClearRoomState, RoomTyped, MaybeRecord, Tombstone
  <2>2. HistoryTyped'
    BY <1>13, EmptySeq DEF ClearRoomState, HistoryTyped, bounds
  <2>3. CycleTyped'
    BY <1>13 DEF ClearRoomState, CycleTyped, InFlight, serverVars, cycleVars, bounds
  <2> QED BY <2>1, <2>2, <2>3 DEF Typed
<1>14. CASE UNCHANGED vars
  BY <1>14 DEF vars, serverVars, roomVars, historyVars, cycleVars, bounds, RoomTyped,
       HistoryTyped, CycleTyped, InFlight
<1> QED
  BY <1>1, <1>2, <1>3, <1>4, <1>5, <1>6, <1>7, <1>8, <1>9, <1>10, <1>11, <1>12, <1>13,
     <1>14 DEF Next

LEMMA TypedAlways == Spec => []Typed
  BY TypedInit, TypedStep, PTL DEF Spec

\* Every variable keeps to its type.
THEOREM CanvasRoomTypeCorrect == Spec => []TypeOK
<1>1. Typed => TypeOK
  <2> SUFFICES ASSUME Typed PROVE TypeOK
    OBVIOUS
  <2>1. \A batch \in todo \cup {sending, saved} : batch \subseteq Op
    BY DEF Typed, CycleTyped, InFlight
  <2> QED
    BY <2>1 DEF Typed, RoomTyped, HistoryTyped, CycleTyped, TypeOK, MaybeRecord, Item,
                Tombstone, LogEntry
<1> QED BY TypedAlways, <1>1, PTL
-----------------------------------------------------------------------------
\* What is dirty

\* A viewport response fills one shape, and may evict clean ones.
LEMMA FillEffect ==
  ASSUME RoomTyped, RoomIsKept, NEW r \in responses, RecordLoadedViewport(r)
  PROVE  /\ r.shape \in Shape
         /\ \A x \in Shape :
              \/ cache'[x] = cache[x]
              \/ cache'[x] = Absent /\ x \notin dirty /\ tombstones[x] = "none"
              \/ /\ x = r.shape /\ MayFill(x) /\ x \notin dirty /\ tombstones[x] = "none"
                 /\ cache'[x].content = r.content
<1> DEFINE new == [content |-> r.content, revised |-> TRUE]
           c == [cache EXCEPT ![r.shape] = new]
<1>1. r.shape \in Shape /\ r.content \in Content
  BY DEF RoomTyped
<1>2. new \in MaybeRecord /\ new.content = r.content
  BY <1>1, RecordTyped
<1>3. c \in [Shape -> MaybeRecord] /\ c[r.shape] = new /\ \A x \in Shape \ {r.shape} : c[x] = cache[x]
  BY <1>1, <1>2 DEF RoomTyped
<1>4. CASE ~MayFill(r.shape)
  BY <1>1, <1>4 DEF RecordLoadedViewport
<1>5. CASE MayFill(r.shape)
  <2>1. cache' \in Evictions(c, dirty)
    BY <1>5 DEF RecordLoadedViewport
  <2>2. r.shape \notin dirty /\ tombstones[r.shape] = "none"
    BY <1>5 DEF MayFill, RoomIsKept, DirtyIsSavable, Savable
  <2> HIDE DEF c
  <2>3. \A x \in Shape : \/ cache'[x] = c[x]
                         \/ cache'[x] = Absent /\ x \notin dirty /\ tombstones[x] = "none"
    BY <1>3, <2>1, EvictionsKeep
  <2> QED BY <1>1, <1>2, <1>3, <1>5, <2>2, <2>3
<1> QED BY <1>4, <1>5

\* The room, shape by shape.
LEMMA RoomFacts ==
  ASSUME RoomIsKept, NEW s \in Shape
  PROVE  /\ tombstones[s] # "none" => cache[s] = Absent /\ (tombstones[s] = "unsaved" <=> s \in dirty)
         /\ s \in dirty => tombstones[s] # "none" \/ cache[s] # Absent
  BY DEF RoomIsKept, DeletedIsHidden, DirtyIsSavable, Savable

LEMMA RoomFromFacts ==
  ASSUME dirty \subseteq Shape,
         \A s \in Shape :
           /\ tombstones[s] # "none" => cache[s] = Absent /\ (tombstones[s] = "unsaved" <=> s \in dirty)
           /\ s \in dirty => tombstones[s] # "none" \/ cache[s] # Absent
  PROVE  RoomIsKept
  BY DEF RoomIsKept, DeletedIsHidden, DirtyIsSavable, Savable

LEMMA ChangedRoom ==
  ASSUME RoomTyped, RoomIsKept, NEW s \in Shape, Changed(s)
  PROVE  RoomIsKept'
<1>1. ASSUME NEW x \in Shape
      PROVE  /\ tombstones'[x] # "none" => cache'[x] = Absent /\ (tombstones'[x] = "unsaved" <=> x \in dirty')
             /\ x \in dirty' => tombstones'[x] # "none" \/ cache'[x] # Absent
  <2>1. CASE x = s
    BY <2>1 DEF Changed
  <2>2. CASE x # s
    BY <2>2, RoomFacts DEF Changed
  <2> QED BY <2>1, <2>2
<1>2. dirty' \subseteq Shape
  BY DEF Changed, RoomTyped
<1> QED BY <1>1, <1>2, RoomFromFacts DEF RoomIsKept, DeletedIsHidden, DirtyIsSavable, Savable

LEMMA RoomInit == Init => RoomIsKept
  BY DEF Init, RoomIsKept, DeletedIsHidden, DirtyIsSavable, Savable

LEMMA RoomStep == Typed /\ RoomIsKept /\ [Next]_vars => RoomIsKept'
<1> SUFFICES ASSUME RoomTyped, HistoryTyped, RoomIsKept, [Next]_vars PROVE RoomIsKept'
  BY DEF Typed
<1>1. ASSUME NEW s \in Shape, ApplyShapePatch(s) PROVE RoomIsKept'
  BY <1>1, PatchChanges, ChangedRoom
<1>2. ASSUME NEW s \in Shape, ReadViewport(s) PROVE RoomIsKept'
  BY <1>2 DEF ReadViewport, roomVars, RoomIsKept, DeletedIsHidden, DirtyIsSavable, Savable
<1>3. ASSUME NEW s \in Shape, PurgeTombstone(s) PROVE RoomIsKept'
  <2>1. ASSUME NEW x \in Shape
        PROVE  /\ tombstones'[x] # "none" => cache'[x] = Absent /\ (tombstones'[x] = "unsaved" <=> x \in dirty')
               /\ x \in dirty' => tombstones'[x] # "none" \/ cache'[x] # Absent
    BY <1>3, RoomFacts DEF PurgeTombstone, RoomTyped
  <2>2. dirty' \subseteq Shape
    BY <1>3 DEF PurgeTombstone, RoomTyped
  <2> QED BY <2>1, <2>2 DEF RoomIsKept, DeletedIsHidden, DirtyIsSavable, Savable
<1>4. CASE Undo
  BY <1>4, UndoChanges, ChangedRoom
<1>5. CASE Redo
  BY <1>5, RedoChanges, ChangedRoom
<1>6. ASSUME NEW r \in responses, RecordLoadedViewport(r) PROVE RoomIsKept'
  <2>1. ASSUME NEW x \in Shape
        PROVE  /\ tombstones'[x] # "none" => cache'[x] = Absent /\ (tombstones'[x] = "unsaved" <=> x \in dirty')
               /\ x \in dirty' => tombstones'[x] # "none" \/ cache'[x] # Absent
    BY <1>6, RoomFacts, FillEffect DEF RecordLoadedViewport
  <2>2. dirty' \subseteq Shape
    BY <1>6 DEF RecordLoadedViewport, RoomTyped
  <2> QED BY <2>1, <2>2 DEF RoomIsKept, DeletedIsHidden, DirtyIsSavable, Savable
<1>7. CASE StartCycle
  BY <1>7 DEF StartCycle, roomVars, RoomIsKept, DeletedIsHidden, DirtyIsSavable, Savable
<1>8. CASE SendBatch
  BY <1>8 DEF SendBatch, roomVars, RoomIsKept, DeletedIsHidden, DirtyIsSavable, Savable
<1>9. CASE SyncShapesBatch
  BY <1>9 DEF SyncShapesBatch, roomVars, RoomIsKept, DeletedIsHidden, DirtyIsSavable, Savable
<1>10. CASE HandleAnswer
  BY <1>10 DEF HandleAnswer, roomVars, RoomIsKept, DeletedIsHidden, DirtyIsSavable, Savable
<1>11. CASE RequestFails
  BY <1>11 DEF RequestFails, roomVars, RoomIsKept, DeletedIsHidden, DirtyIsSavable, Savable
<1>12. CASE FinishCycle
  <2>1. ASSUME NEW x \in Shape
        PROVE  /\ tombstones'[x] # "none" => cache'[x] = Absent /\ (tombstones'[x] = "unsaved" <=> x \in dirty')
               /\ x \in dirty' => tombstones'[x] # "none" \/ cache'[x] # Absent
    BY <1>12, RoomFacts, FinishEffect DEF FinishCycle, RoomTyped, TombstoneAfter
  <2>2. dirty' \subseteq Shape
    BY <1>12 DEF FinishCycle, RoomTyped
  <2> QED BY <2>1, <2>2 DEF RoomIsKept, DeletedIsHidden, DirtyIsSavable, Savable
<1>13. CASE ClearRoomState
  <2>1. ASSUME NEW x \in Shape
        PROVE  /\ tombstones'[x] # "none" => cache'[x] = Absent /\ (tombstones'[x] = "unsaved" <=> x \in dirty')
               /\ x \in dirty' => tombstones'[x] # "none" \/ cache'[x] # Absent
    BY <1>13, RoomFacts DEF ClearRoomState
  <2>2. dirty' \subseteq Shape
    BY <1>13 DEF ClearRoomState, RoomTyped
  <2> QED BY <2>1, <2>2 DEF RoomIsKept, DeletedIsHidden, DirtyIsSavable, Savable
<1>14. CASE UNCHANGED vars
  BY <1>14 DEF vars, roomVars, RoomIsKept, DeletedIsHidden, DirtyIsSavable, Savable
<1> QED
  BY <1>1, <1>2, <1>3, <1>4, <1>5, <1>6, <1>7, <1>8, <1>9, <1>10, <1>11, <1>12, <1>13,
     <1>14 DEF Next

LEMMA RoomAlways == Spec => []RoomIsKept
  BY RoomInit, RoomStep, TypedAlways, PTL DEF Spec

\* The room never shows a shape it also remembers as deleted.
THEOREM DeletedStaysHidden == Spec => []DeletedIsHidden
<1>1. RoomIsKept => DeletedIsHidden
  BY DEF RoomIsKept
<1> QED BY RoomAlways, <1>1, PTL

\* No eviction, late response, undo or purge takes from a dirty shape what its
\* checkpoint needs.
THEOREM DirtyStaysSavable == Spec => []DirtyIsSavable
<1>1. RoomIsKept => DirtyIsSavable
  BY DEF RoomIsKept
<1> QED BY RoomAlways, <1>1, PTL
-----------------------------------------------------------------------------
\* Operation ids and the operations of a cycle

Tracked == IdsAreCurrent /\ CycleIsKept

LEMMA IdFacts ==
  ASSUME IdsAreCurrent, NEW t \in OpType, NEW s \in Shape, opIds[<<t, s>>] # 0
  PROVE  s \in dirty /\ t = TypeFor(s) /\ opIds[<<t, s>>] <= lastOpId
  BY DEF IdsAreCurrent

LEMMA OpFacts ==
  ASSUME CycleTyped, CycleIsKept, NEW op \in InFlight
  PROVE  /\ op.shape \in Shape /\ op.type \in OpType /\ op.shape \in dirty
         /\ op.id \in 1 .. lastOpId
         /\ (IsCurrent(op) /\ Shows(op)) \/ NoIds(op.shape)
         /\ \A op2 \in InFlight : op2.shape = op.shape => op2 = op
  BY OpFields DEF CycleIsKept

\* Where a shape is dirty and its state stays, its ids may stay too.
LEMMA SameType ==
  ASSUME NEW s \in Shape, tombstones'[s] = tombstones[s], cache'[s] = cache[s]
  PROVE  TypeFor(s)' = TypeFor(s)
  BY DEF TypeFor

LEMMA InvalidatedIds ==
  ASSUME RoomTyped, NEW s \in Shape, opIds' = Invalidated(s)
  PROVE  \A t \in OpType, x \in Shape :
           opIds'[<<t, x>>] = IF x = s THEN 0 ELSE opIds[<<t, x>>]
  BY DEF Invalidated, RoomTyped

\* Ids and operations in flight after a step that leaves every dirty shape, or
\* takes its ids.
LEMMA TrackedStays ==
  ASSUME RoomTyped, CycleTyped, IdsAreCurrent, CycleIsKept, InFlight' \subseteq InFlight,
         lastOpId' = lastOpId, dirty \subseteq dirty',
         ~running' => InFlight' = {} /\ todo' = {}, sending' = {} => answer' = "none",
         \A t \in OpType, x \in Shape :
           opIds'[<<t, x>>] \in {0, opIds[<<t, x>>]},
         \A x \in dirty : \/ tombstones'[x] = tombstones[x] /\ cache'[x] = cache[x]
                             /\ \A t \in OpType : opIds'[<<t, x>>] = opIds[<<t, x>>]
                          \/ \A t \in OpType : opIds'[<<t, x>>] = 0
  PROVE  IdsAreCurrent' /\ CycleIsKept'
<1>1. IdsAreCurrent'
  <2>1. SUFFICES ASSUME NEW t \in OpType, NEW s \in Shape, opIds'[<<t, s>>] # 0
                 PROVE  s \in dirty' /\ t = TypeFor(s)' /\ opIds'[<<t, s>>] <= lastOpId'
    BY DEF IdsAreCurrent
  <2>2. opIds'[<<t, s>>] = opIds[<<t, s>>] /\ opIds[<<t, s>>] # 0
    BY <2>1
  <2>3. s \in dirty /\ t = TypeFor(s) /\ opIds[<<t, s>>] <= lastOpId
    BY <2>2, IdFacts
  <2>4. tombstones'[s] = tombstones[s] /\ cache'[s] = cache[s]
    BY <2>1, <2>3
  <2> QED BY <2>2, <2>3, <2>4, SameType
<1>2. CycleIsKept'
  <2>1. ASSUME NEW op \in InFlight'
        PROVE  /\ op.shape \in dirty' /\ op.id \in 1 .. lastOpId'
               /\ (IsCurrent(op)' /\ Shows(op)') \/ NoIds(op.shape)'
    <3>1. op \in InFlight
      OBVIOUS
    <3>2. /\ op.shape \in Shape /\ op.type \in OpType /\ op.shape \in dirty /\ op.id \in 1 .. lastOpId
          /\ (IsCurrent(op) /\ Shows(op)) \/ NoIds(op.shape)
      BY <3>1, OpFacts
    <3>3. CASE \A t \in OpType : opIds'[<<t, op.shape>>] = 0
      BY <3>2, <3>3 DEF NoIds
    <3>4. CASE /\ tombstones'[op.shape] = tombstones[op.shape] /\ cache'[op.shape] = cache[op.shape]
               /\ \A t \in OpType : opIds'[<<t, op.shape>>] = opIds[<<t, op.shape>>]
      BY <3>2, <3>4 DEF NoIds, IsCurrent, Shows
    <3> QED BY <3>2, <3>3, <3>4
  <2>2. \A op1, op2 \in InFlight' : op1.shape = op2.shape => op1 = op2
    BY DEF CycleIsKept
  <2> QED BY <2>1, <2>2 DEF CycleIsKept
<1> QED BY <1>1, <1>2

LEMMA ChangedTracked ==
  ASSUME RoomTyped, CycleTyped, RoomIsKept, Tracked, NEW s \in Shape, Changed(s),
         UNCHANGED <<lastOpId, cycleVars>>
  PROVE  Tracked'
<1>1. \A t \in OpType, x \in Shape : opIds'[<<t, x>>] = IF x = s THEN 0 ELSE opIds[<<t, x>>]
  BY InvalidatedIds DEF Changed
<1>2. \A x \in dirty : \/ tombstones'[x] = tombstones[x] /\ cache'[x] = cache[x]
                          /\ \A t \in OpType : opIds'[<<t, x>>] = opIds[<<t, x>>]
                       \/ \A t \in OpType : opIds'[<<t, x>>] = 0
  <2> TAKE x \in dirty
  <2>1. x \in Shape
    BY DEF RoomTyped
  <2>2. CASE x = s
    BY <1>1, <2>1, <2>2
  <2>3. CASE x # s
    BY <1>1, <2>1, <2>3 DEF Changed
  <2> QED BY <2>2, <2>3
<1>3. InFlight' = InFlight /\ running' = running /\ todo' = todo /\ sending' = sending /\ answer' = answer
  BY DEF cycleVars, InFlight
<1>4. dirty \subseteq dirty'
  BY DEF Changed
<1> QED BY <1>1, <1>2, <1>3, <1>4, TrackedStays DEF Tracked, CycleIsKept

LEMMA TrackedInit == Init => Tracked
<1> SUFFICES ASSUME Init PROVE Tracked
  OBVIOUS
<1>1. InFlight = {} /\ todo = {} /\ answer = "none"
  BY DEF Init, InFlight
<1>2. \A t \in OpType, s \in Shape : opIds[<<t, s>>] = 0
  BY DEF Init
<1> QED BY <1>1, <1>2 DEF Tracked, IdsAreCurrent, CycleIsKept

LEMMA StartTracked ==
  ASSUME RoomTyped, CycleTyped, RoomIsKept, Tracked, StartCycle
  PROVE  Tracked'
<1>1. InFlight = {} /\ todo = {} /\ sending = {} /\ saved = {} /\ answer = "none"
  BY DEF StartCycle, Tracked, CycleIsKept, InFlight
<1>2. /\ UNION todo' = {NewOp(s) : s \in Savable}
      /\ \A t \in OpType, s \in Shape :
           opIds'[<<t, s>>] = IF s \in Savable /\ t = TypeFor(s) THEN NewId(s)
                              ELSE opIds[<<t, s>>]
      /\ lastOpId' = IF Fresh = {} THEN lastOpId ELSE lastOpId + 1
  BY StartEffect
<1>3. UNCHANGED <<cache, tombstones, dirty, sending, saved, answer>> /\ running'
  BY DEF StartCycle
<1>4. InFlight' = {NewOp(s) : s \in Savable}
  BY <1>1, <1>2, <1>3 DEF InFlight
<1>5. lastOpId \in Nat /\ lastOpId' \in Nat /\ lastOpId <= lastOpId'
  BY <1>2 DEF RoomTyped
<1>6. \A s \in Savable : /\ s \in Shape /\ s \in dirty /\ NewId(s) \in 1 .. lastOpId'
                         /\ TypeFor(s) \in OpType
  <2> TAKE s \in Savable
  <2>1. s \in Shape /\ s \in dirty /\ TypeFor(s) \in OpType
    BY TypeForTyped DEF Savable, RoomTyped
  <2>2. CASE s \in Fresh
    <3>1. lastOpId' = lastOpId + 1 /\ NewId(s) = lastOpId + 1
      BY <1>2, <2>2 DEF NewId
    <3>2. NewId(s) \in 1 .. lastOpId'
      BY <1>5, <3>1
    <3> QED BY <2>1, <3>2
  <2>3. CASE s \notin Fresh
    <3>1. opIds[<<TypeFor(s), s>>] # 0 /\ NewId(s) = opIds[<<TypeFor(s), s>>]
      BY <2>3 DEF Fresh, NewId
    <3>2. NewId(s) <= lastOpId /\ NewId(s) \in Nat
      BY <2>1, <3>1, IdFacts, NewOpTyped DEF Tracked
    <3> QED BY <1>5, <3>1, <3>2, <2>1
  <2> QED BY <2>1, <2>2, <2>3
<1>7. IdsAreCurrent'
  <2>1. SUFFICES ASSUME NEW t \in OpType, NEW s \in Shape, opIds'[<<t, s>>] # 0
                 PROVE  s \in dirty' /\ t = TypeFor(s)' /\ opIds'[<<t, s>>] <= lastOpId'
    BY DEF IdsAreCurrent
  <2>2. TypeFor(s)' = TypeFor(s) /\ dirty' = dirty
    BY <1>3 DEF TypeFor
  <2>3. CASE s \in Savable /\ t = TypeFor(s)
    BY <1>2, <1>6, <2>2, <2>3
  <2>4. CASE ~(s \in Savable /\ t = TypeFor(s))
    <3>1. opIds'[<<t, s>>] = opIds[<<t, s>>] /\ opIds[<<t, s>>] \in Nat
      BY <1>2, <2>4 DEF RoomTyped
    <3>2. s \in dirty /\ t = TypeFor(s) /\ opIds[<<t, s>>] <= lastOpId
      BY <2>1, <3>1, IdFacts DEF Tracked
    <3> QED BY <1>5, <2>2, <3>1, <3>2
  <2> QED BY <2>3, <2>4
<1>8. CycleIsKept'
  <2>1. ASSUME NEW op \in InFlight'
        PROVE  op.shape \in dirty' /\ op.id \in 1 .. lastOpId' /\ IsCurrent(op)' /\ Shows(op)'
    <3>1. PICK s \in Savable : op = NewOp(s)
      BY <1>4
    <3>2. /\ op.shape = s /\ op.type = TypeFor(s) /\ op.id = NewId(s)
          /\ op.content = IF tombstones[s] # "none" THEN Absent ELSE cache[s].content
      BY <3>1, NewOpTyped
    <3>3. IsCurrent(op)'
      BY <1>2, <1>6, <3>2 DEF IsCurrent
    <3>4. Shows(op)'
      BY <1>3, <3>2 DEF Shows
    <3> QED BY <1>3, <1>6, <3>2, <3>3, <3>4
  <2>2. \A op1, op2 \in InFlight' : op1.shape = op2.shape => op1 = op2
    BY <1>4, NewOpTyped
  <2>3. answer' = "none" /\ running'
    BY <1>1, <1>3
  <2> QED BY <2>1, <2>2, <2>3 DEF CycleIsKept
<1> QED BY <1>7, <1>8 DEF Tracked

\* An operation of a shape that a finished cycle saved without being current
\* leaves no id of the shape.
LEMMA FinishTracked ==
  ASSUME RoomTyped, CycleTyped, RoomIsKept, Tracked, FinishCycle
  PROVE  Tracked'
<1>1. /\ InFlight' = {} /\ todo' = {} /\ InFlight = saved
      /\ \A s \in Shape : cache[s] # Absent /\ ~SavedOn(s) => cache'[s] = cache[s]
      /\ \A s \in Shape : cache'[s] = Absent <=> cache[s] = Absent
  BY FinishEffect
<1>2. \A t \in OpType, s \in Shape :
        opIds'[<<t, s>>] = IF CurrentOn(s) THEN 0 ELSE opIds[<<t, s>>]
  BY DEF FinishCycle, RoomTyped
<1>3. IdsAreCurrent'
  <2>1. SUFFICES ASSUME NEW t \in OpType, NEW s \in Shape, opIds'[<<t, s>>] # 0
                 PROVE  s \in dirty' /\ t = TypeFor(s)' /\ opIds'[<<t, s>>] <= lastOpId'
    BY DEF IdsAreCurrent
  <2>2. ~CurrentOn(s) /\ opIds'[<<t, s>>] = opIds[<<t, s>>] /\ opIds[<<t, s>>] # 0
    BY <1>2, <2>1
  <2>3. s \in dirty /\ t = TypeFor(s) /\ opIds[<<t, s>>] <= lastOpId
    BY <2>2, IdFacts DEF Tracked
  <2>4. ~SavedOn(s)
    <3>1. SUFFICES ASSUME NEW op \in saved, op.shape = s PROVE FALSE
      BY DEF SavedOn
    <3>2. IsCurrent(op) \/ NoIds(s)
      BY <1>1, <3>1, OpFacts DEF Tracked
    <3> QED BY <2>2, <3>1, <3>2 DEF CurrentOn, NoIds
  <2>5. cache'[s] = cache[s]
    BY <1>1, <2>4
  <2>6. s \in dirty' /\ tombstones'[s] = tombstones[s] /\ lastOpId' = lastOpId
    BY <2>2, <2>3 DEF FinishCycle
  <2> QED BY <2>2, <2>3, <2>5, <2>6, SameType
<1>4. CycleIsKept'
  BY <1>1 DEF FinishCycle, Tracked, CycleIsKept
<1> QED BY <1>3, <1>4 DEF Tracked

LEMMA TrackedStep == Typed /\ RoomIsKept /\ Tracked /\ [Next]_vars => Tracked'
<1> SUFFICES ASSUME RoomTyped, HistoryTyped, CycleTyped, RoomIsKept, Tracked, [Next]_vars
             PROVE  Tracked'
  BY DEF Typed
<1>1. ASSUME NEW s \in Shape, ApplyShapePatch(s) PROVE Tracked'
  BY <1>1, PatchChanges, ChangedTracked DEF ApplyShapePatch
<1>2. ASSUME NEW s \in Shape, ReadViewport(s) PROVE Tracked'
  <2>1. /\ InFlight' \subseteq InFlight
        /\ ~running' => InFlight' = {} /\ todo' = {}
        /\ sending' = {} => answer' = "none"
    BY <1>2 DEF ReadViewport, cycleVars, Tracked, CycleIsKept, InFlight
  <2>2. lastOpId' = lastOpId /\ dirty' = dirty /\ opIds' = opIds /\ tombstones' = tombstones /\ cache' = cache
    BY <1>2 DEF ReadViewport, roomVars
  <2> QED BY <2>1, <2>2, TrackedStays DEF Tracked
<1>3. ASSUME NEW s \in Shape, PurgeTombstone(s) PROVE Tracked'
  <2>1. \A x \in dirty : tombstones'[x] = tombstones[x] /\ x \in Shape
    BY <1>3, RoomFacts DEF PurgeTombstone, RoomTyped
  <2>2. InFlight' = InFlight /\ UNCHANGED <<lastOpId, dirty, opIds, cache, running, todo, sending, answer>>
    BY <1>3 DEF PurgeTombstone, InFlight, cycleVars
  <2> QED BY <2>1, <2>2, TrackedStays DEF Tracked, CycleIsKept
<1>4. CASE Undo
  BY <1>4, UndoChanges, ChangedTracked DEF Undo
<1>5. CASE Redo
  BY <1>5, RedoChanges, ChangedTracked DEF Redo
<1>6. ASSUME NEW r \in responses, RecordLoadedViewport(r) PROVE Tracked'
  <2>1. \A x \in dirty : cache'[x] = cache[x] /\ x \in Shape
    BY <1>6, FillEffect DEF RoomTyped
  <2>2. InFlight' = InFlight /\ UNCHANGED <<lastOpId, dirty, opIds, tombstones, running, todo, sending, answer>>
    BY <1>6 DEF RecordLoadedViewport, InFlight, cycleVars
  <2> QED BY <2>1, <2>2, TrackedStays DEF Tracked, CycleIsKept
<1>7. CASE StartCycle
  BY <1>7, StartTracked
<1>8. CASE SendBatch
  <2>1. /\ InFlight' \subseteq InFlight
        /\ ~running' => InFlight' = {} /\ todo' = {}
        /\ sending' = {} => answer' = "none"
    BY <1>8 DEF SendBatch, cycleVars, Tracked, CycleIsKept, InFlight
  <2>2. lastOpId' = lastOpId /\ dirty' = dirty /\ opIds' = opIds /\ tombstones' = tombstones /\ cache' = cache
    BY <1>8 DEF SendBatch, roomVars
  <2> QED BY <2>1, <2>2, TrackedStays DEF Tracked
<1>9. CASE SyncShapesBatch
  <2>1. /\ InFlight' \subseteq InFlight
        /\ ~running' => InFlight' = {} /\ todo' = {}
        /\ sending' = {} => answer' = "none"
    BY <1>9 DEF SyncShapesBatch, cycleVars, Tracked, CycleIsKept, InFlight
  <2>2. lastOpId' = lastOpId /\ dirty' = dirty /\ opIds' = opIds /\ tombstones' = tombstones /\ cache' = cache
    BY <1>9 DEF SyncShapesBatch, roomVars
  <2> QED BY <2>1, <2>2, TrackedStays DEF Tracked
<1>10. CASE HandleAnswer
  <2>1. InFlight' \subseteq InFlight
    BY <1>10, AnswerEffect
  <2>2. running' = running /\ answer' = "none" /\ lastOpId' = lastOpId /\ dirty' = dirty
        /\ opIds' = opIds /\ tombstones' = tombstones /\ cache' = cache
    BY <1>10 DEF HandleAnswer, roomVars
  <2>3. running
    BY <1>10 DEF HandleAnswer, Tracked, CycleIsKept, InFlight
  <2> QED BY <2>1, <2>2, <2>3, TrackedStays DEF Tracked
<1>11. CASE RequestFails
  <2>1. /\ InFlight' \subseteq InFlight
        /\ ~running' => InFlight' = {} /\ todo' = {}
        /\ sending' = {} => answer' = "none"
    BY <1>11 DEF RequestFails, cycleVars, Tracked, CycleIsKept, InFlight
  <2>2. lastOpId' = lastOpId /\ dirty' = dirty /\ opIds' = opIds /\ tombstones' = tombstones /\ cache' = cache
    BY <1>11 DEF RequestFails, roomVars
  <2> QED BY <2>1, <2>2, TrackedStays DEF Tracked
<1>12. CASE FinishCycle
  BY <1>12, FinishTracked
<1>13. CASE ClearRoomState
  <2>1. InFlight' = InFlight /\ UNCHANGED <<lastOpId, dirty, running, todo, sending, answer>> /\ dirty = {}
    BY <1>13 DEF ClearRoomState, InFlight, cycleVars
  <2>2. \A t \in OpType, x \in Shape : opIds'[<<t, x>>] = 0
    BY <1>13 DEF ClearRoomState
  <2> QED BY <2>1, <2>2, TrackedStays DEF Tracked, CycleIsKept
<1>14. CASE UNCHANGED vars
  <2>1. /\ InFlight' = InFlight /\ UNCHANGED <<running, todo, sending, answer>>
      /\ lastOpId' = lastOpId /\ dirty' = dirty /\ opIds' = opIds /\ tombstones' = tombstones /\ cache' = cache
    BY <1>14 DEF vars, roomVars, cycleVars, InFlight
  <2> QED BY <2>1, TrackedStays DEF Tracked, CycleIsKept
<1> QED
  BY <1>1, <1>2, <1>3, <1>4, <1>5, <1>6, <1>7, <1>8, <1>9, <1>10, <1>11, <1>12, <1>13,
     <1>14 DEF Next

LEMMA TrackedAlways == Spec => []Tracked
  BY TrackedInit, TrackedStep, TypedAlways, RoomAlways, PTL DEF Spec
-----------------------------------------------------------------------------
\* What was applied

LEMMA RowFitsStays ==
  ASSUME NEW s \in Shape, tombstones'[s] # "none" <=> tombstones[s] # "none",
         tombstones[s] = "none" => cache'[s].content = cache[s].content,
         rows'[s] = rows[s]
  PROVE  RowFits(s)' = RowFits(s)
  BY DEF RowFits, Active

\* The facts about an entry of the log.
LEMMA LogFacts ==
  ASSUME CycleTyped, AppliedFits, NEW k \in log
  PROVE  /\ k.type \in OpType /\ k.shape \in Shape /\ k.id \in 1 .. lastOpId /\ k.id # 0
         /\ opIds[<<k.type, k.shape>>] = k.id => RowFits(k.shape)
<1>1. k.type \in OpType /\ k.shape \in Shape
  BY DEF CycleTyped, LogEntry
<1>2. /\ k.id \in 1 .. lastOpId
      /\ opIds[<<k.type, k.shape>>] = k.id => RowFits(k.shape)
  BY DEF AppliedFits
<1> QED BY <1>1, <1>2

\* A step that neither applies nor answers anything and keeps what is dirty, or
\* takes its ids.
LEMMA AppliedStays ==
  ASSUME RoomTyped, CycleTyped, Tracked, AppliedFits,
         rows' = rows, log' = log, lastOpId' = lastOpId, saved' \subseteq saved,
         \/ sending' = sending /\ answer' = answer
         \/ answer' = "none",
         \A x \in dirty :
           \/ /\ tombstones'[x] # "none" <=> tombstones[x] # "none"
              /\ tombstones[x] = "none" => cache'[x].content = cache[x].content
              /\ \A t \in OpType : opIds'[<<t, x>>] \in {0, opIds[<<t, x>>]}
           \/ \A t \in OpType : opIds'[<<t, x>>] = 0,
         \A x \in Shape \ dirty : \A t \in OpType : opIds'[<<t, x>>] = 0
  PROVE  AppliedFits'
<1>1. ASSUME NEW x \in Shape, NEW t \in OpType, opIds'[<<t, x>>] # 0
      PROVE  opIds'[<<t, x>>] = opIds[<<t, x>>] /\ RowFits(x)' = RowFits(x)
  <2>1. x \in dirty
    BY <1>1
  <2>2. /\ tombstones'[x] # "none" <=> tombstones[x] # "none"
        /\ tombstones[x] = "none" => cache'[x].content = cache[x].content
        /\ opIds'[<<t, x>>] \in {0, opIds[<<t, x>>]}
    BY <1>1, <2>1
  <2> QED BY <1>1, <2>2, RowFitsStays
<1>2. \A k \in log' : /\ k.id \in 1 .. lastOpId'
                      /\ opIds'[<<k.type, k.shape>>] = k.id => RowFits(k.shape)'
  BY <1>1, LogFacts
<1>3. \A op \in sending \cup saved : op.shape \in Shape /\ op.type \in OpType /\ op.id # 0
  BY OpFacts DEF Tracked, InFlight
<1>4. \A op \in saved' : IsCurrent(op)' => RowFits(op.shape)'
  BY <1>1, <1>3 DEF AppliedFits, IsCurrent
<1>5. \A op \in sending' : answer' = "ok" /\ IsCurrent(op)' => RowFits(op.shape)'
  BY <1>1, <1>3 DEF AppliedFits, IsCurrent
<1>6. answer' = "refused" /\ AlreadyDeleted' => \A op \in sending' : ~Active(op.shape)'
  BY DEF AppliedFits, AlreadyDeleted, Active
<1> QED BY <1>2, <1>4, <1>5, <1>6 DEF AppliedFits

\* Only dirty shapes have ids.
LEMMA CleanHasNoId ==
  ASSUME IdsAreCurrent, NEW x \in Shape \ dirty
  PROVE  \A t \in OpType : opIds[<<t, x>>] = 0
  BY IdFacts

LEMMA ChangedApplied ==
  ASSUME RoomTyped, CycleTyped, Tracked, AppliedFits, NEW s \in Shape, Changed(s),
         UNCHANGED <<serverVars, lastOpId, cycleVars>>
  PROVE  AppliedFits'
<1>1. \A t \in OpType, x \in Shape : opIds'[<<t, x>>] = IF x = s THEN 0 ELSE opIds[<<t, x>>]
  BY InvalidatedIds DEF Changed
<1>2. \A x \in dirty :
        \/ /\ tombstones'[x] # "none" <=> tombstones[x] # "none"
           /\ tombstones[x] = "none" => cache'[x].content = cache[x].content
           /\ \A t \in OpType : opIds'[<<t, x>>] \in {0, opIds[<<t, x>>]}
        \/ \A t \in OpType : opIds'[<<t, x>>] = 0
  <2> TAKE x \in dirty
  <2>1. x \in Shape
    BY DEF RoomTyped
  <2>2. CASE x = s
    BY <1>1, <2>1, <2>2
  <2>3. CASE x # s
    <3>1. tombstones'[x] = tombstones[x] /\ cache'[x] = cache[x]
      BY <2>1, <2>3 DEF Changed
    <3> QED BY <1>1, <2>1, <2>3, <3>1
  <2> QED BY <2>2, <2>3
<1>3. \A x \in Shape \ dirty : \A t \in OpType : opIds'[<<t, x>>] = 0
  BY <1>1, CleanHasNoId DEF Tracked
<1>4. UNCHANGED <<rows, log, lastOpId, saved, sending, answer>>
  BY DEF serverVars, cycleVars
<1> QED BY <1>2, <1>3, <1>4, AppliedStays

\* An operation that is applied, or was before, and is still current leaves
\* the row of its shape as the room shows it.
LEMMA AppliesFits ==
  ASSUME RoomTyped, CycleTyped, Tracked, AppliedFits, SyncShapesBatch, Applies,
         NEW s \in Shape, NEW t \in OpType, opIds[<<t, s>>] # 0,
         RowFits(s) \/ \E op \in sending : op.shape = s
  PROVE  RowFits(s)'
<1>1. tombstones' = tombstones /\ cache' = cache
  BY DEF SyncShapesBatch, roomVars
<1>2. ASSUME NEW op \in sending, op.shape = s
      PROVE  /\ IsCurrent(op) /\ Shows(op) /\ op.type = TypeFor(s) /\ Key(op).type = op.type
             /\ Key(op).shape = s /\ Key(op).id = op.id
  <2>1. op \in InFlight /\ op.type \in OpType /\ op.id # 0
    BY SendingInFlight, OpFacts DEF Tracked
  <2>2. IsCurrent(op) /\ Shows(op)
    BY <1>2, <2>1, OpFacts DEF Tracked, NoIds
  <2>3. op.type = TypeFor(s)
    BY <1>2, <2>1, <2>2, IdFacts DEF Tracked, IsCurrent
  <2> QED BY <1>2, <2>2, <2>3 DEF Key
<1>3. CASE rows'[s] = rows[s] /\ \A op \in sending : op.shape = s => Seen(op)
  <2>1. RowFits(s)
    <3>1. CASE \E op \in sending : op.shape = s
      <4>1. PICK op \in sending : op.shape = s
        BY <3>1
      <4>2. Key(op) \in log
        BY <1>3, <4>1 DEF Seen
      <4> QED BY <1>2, <4>1, <4>2, LogFacts DEF IsCurrent
    <3> QED BY <3>1
  <2> QED BY <1>1, <1>3, <2>1, RowFitsStays
<1>4. ASSUME NEW op \in sending, op.shape = s, rows'[s] = RowAfter(op)
      PROVE  RowFits(s)'
  <2>1. op.type = TypeFor(s) /\ op.content = IF tombstones[s] # "none" THEN Absent ELSE cache[s].content
    BY <1>2, <1>4 DEF Shows
  <2> QED BY <1>1, <1>4, <2>1 DEF RowAfter, RowFits, Active, TypeFor
<1> QED BY <1>3, <1>4, SyncEffect

LEMMA SyncApplied ==
  ASSUME RoomTyped, CycleTyped, Tracked, AppliedFits, SyncShapesBatch
  PROVE  AppliedFits'
<1>1. UNCHANGED <<opIds, lastOpId, saved, sending, tombstones, cache>>
  BY DEF SyncShapesBatch, roomVars
<1>2. CASE ~Applies
  <2>1. rows' = rows /\ log' = log /\ answer' = "refused"
    BY <1>2, SyncEffect
  <2>2. AlreadyDeleted => \A op \in sending : ~Active(op.shape)
    BY <1>2 DEF AlreadyDeleted, Applies, Applicable
  <2> QED BY <1>1, <2>1, <2>2 DEF AppliedFits, AlreadyDeleted, Active, RowFits, IsCurrent
<1>3. CASE Applies
  <2>1. log' = log \cup {Key(op) : op \in sending} /\ answer' = "ok"
    BY <1>3, SyncEffect
  <2>2. \A op \in sending : /\ op.shape \in Shape /\ op.type \in OpType
                            /\ op.id \in 1 .. lastOpId /\ op.id # 0
    BY SendingInFlight, OpFacts DEF Tracked
  <2>3. \A op \in sending : IsCurrent(op) => RowFits(op.shape)'
    BY <1>3, <2>2, AppliesFits DEF IsCurrent
  <2>4. \A k \in log' : /\ k.id \in 1 .. lastOpId'
                        /\ opIds'[<<k.type, k.shape>>] = k.id => RowFits(k.shape)'
    <3> TAKE k \in log'
    <3>1. CASE k \in log
      BY <1>1, <1>3, <3>1, LogFacts, AppliesFits
    <3>2. CASE \E op \in sending : k = Key(op)
      BY <1>1, <2>2, <2>3, <3>2 DEF Key, IsCurrent
    <3> QED BY <2>1, <3>1, <3>2
  <2>5. \A op \in saved' : IsCurrent(op)' => RowFits(op.shape)'
    <3> SUFFICES ASSUME NEW op \in saved, IsCurrent(op) PROVE RowFits(op.shape)'
      BY <1>1 DEF IsCurrent
    <3>1. op.shape \in Shape /\ op.type \in OpType /\ op.id # 0
      BY OpFacts DEF Tracked, InFlight
    <3>2. RowFits(op.shape)
      BY DEF AppliedFits
    <3> QED BY <1>3, <3>1, <3>2, AppliesFits DEF IsCurrent
  <2>6. \A op \in sending' : IsCurrent(op)' => RowFits(op.shape)'
    BY <1>1, <2>3 DEF IsCurrent
  <2> QED BY <2>1, <2>4, <2>5, <2>6 DEF AppliedFits
<1> QED BY <1>2, <1>3

\* A batch that was answered is saved, a deletion of what is gone too.
LEMMA AnswerApplied ==
  ASSUME RoomTyped, CycleTyped, Tracked, AppliedFits, HandleAnswer
  PROVE  AppliedFits'
<1>1. /\ UNCHANGED <<rows, log, opIds, lastOpId, tombstones, cache>>
      /\ answer' = "none" /\ answer # "none" /\ answer \in {"ok", "refused"}
  BY DEF HandleAnswer, roomVars, serverVars, CycleTyped
<1>2. ASSUME NEW op \in saved', IsCurrent(op)
      PROVE  RowFits(op.shape)
  <2>1. CASE op \in saved
    BY <1>2, <2>1 DEF AppliedFits
  <2>2. CASE op \in sending /\ answer = "ok"
    BY <1>2, <2>2 DEF AppliedFits
  <2>3. CASE op \in sending /\ answer = "refused" /\ AlreadyDeleted
    <3>1. ~Active(op.shape) /\ op.type = "delete"
      BY <2>3 DEF AppliedFits, AlreadyDeleted
    <3>2. op.shape \in Shape /\ op.type \in OpType /\ op.id # 0
      BY <2>3, SendingInFlight, OpFacts DEF Tracked
    <3>3. TypeFor(op.shape) = "delete"
      BY <1>2, <3>1, <3>2, IdFacts DEF Tracked, IsCurrent
    <3> QED BY <3>1, <3>3 DEF RowFits, TypeFor
  <2> QED BY <1>1, <2>1, <2>2, <2>3, AnswerEffect
<1> QED BY <1>1, <1>2 DEF AppliedFits, IsCurrent, RowFits, Active

\* New ids are in no log yet.
LEMMA StartApplied ==
  ASSUME RoomTyped, CycleTyped, Tracked, AppliedFits, StartCycle
  PROVE  AppliedFits'
<1>1. sending = {} /\ saved = {} /\ answer = "none"
  BY DEF StartCycle, Tracked, CycleIsKept, InFlight
<1>2. UNCHANGED <<rows, log, cache, tombstones, sending, saved, answer>>
  BY DEF StartCycle, serverVars
<1>3. lastOpId \in Nat /\ lastOpId' \in Nat /\ lastOpId <= lastOpId'
  BY StartEffect DEF RoomTyped
<1>4. ASSUME NEW k \in log
      PROVE  /\ k.id \in 1 .. lastOpId'
             /\ opIds'[<<k.type, k.shape>>] = k.id => RowFits(k.shape)'
  <2>1. /\ k.type \in OpType /\ k.shape \in Shape /\ k.id \in 1 .. lastOpId /\ k.id # 0
        /\ opIds[<<k.type, k.shape>>] = k.id => RowFits(k.shape)
    BY LogFacts
  <2>2. k.id \in 1 .. lastOpId'
    BY <1>3, <2>1
  <2>3. opIds'[<<k.type, k.shape>>] = k.id => opIds[<<k.type, k.shape>>] = k.id
    <3>1. opIds'[<<k.type, k.shape>>] \in {lastOpId + 1, opIds[<<k.type, k.shape>>]}
      BY <2>1, StartEffect DEF NewId
    <3>2. k.id # lastOpId + 1
      BY <1>3, <2>1
    <3> QED BY <3>1, <3>2
  <2>4. RowFits(k.shape)' = RowFits(k.shape)
    BY <1>2 DEF RowFits, Active
  <2> QED BY <2>1, <2>2, <2>3, <2>4
<1> QED BY <1>1, <1>2, <1>4 DEF AppliedFits

LEMMA FinishApplied ==
  ASSUME RoomTyped, CycleTyped, Tracked, AppliedFits, FinishCycle
  PROVE  AppliedFits'
<1>1. /\ \A s \in Shape : cache'[s] = Absent <=> cache[s] = Absent
      /\ \A s \in Shape : cache[s] # Absent => cache'[s].content = cache[s].content
      /\ \A s \in Shape : cache[s] = Absent => cache'[s] = cache[s]
  BY FinishEffect
<1>2. \A t \in OpType, x \in Shape : opIds'[<<t, x>>] \in {0, opIds[<<t, x>>]}
  BY DEF FinishCycle, RoomTyped
<1>3. \A x \in Shape : tombstones'[x] # "none" <=> tombstones[x] # "none"
  BY DEF FinishCycle, TombstoneAfter
<1>4. \A x \in Shape : cache'[x].content = cache[x].content
  BY <1>1
<1>5. \A x \in Shape \ dirty : \A t \in OpType : opIds'[<<t, x>>] = 0
  BY <1>2, CleanHasNoId DEF Tracked
<1>6. rows' = rows /\ log' = log /\ lastOpId' = lastOpId /\ saved' \subseteq saved
      /\ sending' = sending /\ answer' = answer
  BY DEF FinishCycle, serverVars
<1>7. \A x \in dirty : x \in Shape
  BY DEF RoomTyped
<1> QED BY <1>2, <1>3, <1>4, <1>5, <1>6, <1>7, AppliedStays

LEMMA AppliedInit == Init => AppliedFits
  BY DEF Init, AppliedFits

LEMMA AppliedStep == Typed /\ RoomIsKept /\ Tracked /\ AppliedFits /\ [Next]_vars => AppliedFits'
<1> SUFFICES ASSUME RoomTyped, HistoryTyped, CycleTyped, RoomIsKept, Tracked, AppliedFits, [Next]_vars
             PROVE  AppliedFits'
  BY DEF Typed
<1>1. ASSUME NEW s \in Shape, ApplyShapePatch(s) PROVE AppliedFits'
  BY <1>1, PatchChanges, ChangedApplied DEF ApplyShapePatch
<1>2. ASSUME NEW s \in Shape, ReadViewport(s) PROVE AppliedFits'
  <2>1. /\ rows' = rows /\ log' = log /\ lastOpId' = lastOpId /\ saved' \subseteq saved
        /\ (sending' = sending /\ answer' = answer) \/ answer' = "none"
        /\ UNCHANGED <<cache, tombstones, opIds>>
    BY <1>2 DEF ReadViewport, serverVars, roomVars, cycleVars, Tracked, CycleIsKept
  <2>2. \A x \in Shape \ dirty : \A t \in OpType : opIds'[<<t, x>>] = 0
    BY <2>1, CleanHasNoId DEF Tracked
  <2> QED BY <2>1, <2>2, AppliedStays
<1>3. ASSUME NEW s \in Shape, PurgeTombstone(s) PROVE AppliedFits'
  <2>1. \A x \in dirty : tombstones'[x] = tombstones[x]
    BY <1>3, RoomFacts DEF PurgeTombstone, RoomTyped
  <2>2. UNCHANGED <<rows, log, lastOpId, saved, sending, answer, cache, opIds>>
    BY <1>3 DEF PurgeTombstone, serverVars, cycleVars
  <2>3. \A x \in Shape \ dirty : \A t \in OpType : opIds'[<<t, x>>] = 0
    BY <2>2, CleanHasNoId DEF Tracked
  <2> QED BY <2>1, <2>2, <2>3, AppliedStays
<1>4. CASE Undo
  BY <1>4, UndoChanges, ChangedApplied DEF Undo
<1>5. CASE Redo
  BY <1>5, RedoChanges, ChangedApplied DEF Redo
<1>6. ASSUME NEW r \in responses, RecordLoadedViewport(r) PROVE AppliedFits'
  <2>1. \A x \in dirty : cache'[x] = cache[x]
    BY <1>6, FillEffect DEF RoomTyped
  <2>2. UNCHANGED <<rows, log, lastOpId, saved, sending, answer, tombstones, opIds>>
    BY <1>6 DEF RecordLoadedViewport, serverVars, cycleVars
  <2>3. \A x \in Shape \ dirty : \A t \in OpType : opIds'[<<t, x>>] = 0
    BY <2>2, CleanHasNoId DEF Tracked
  <2> QED BY <2>1, <2>2, <2>3, AppliedStays
<1>7. CASE StartCycle
  BY <1>7, StartApplied
<1>8. CASE SendBatch
  <2>1. /\ rows' = rows /\ log' = log /\ lastOpId' = lastOpId /\ saved' \subseteq saved
        /\ (sending' = sending /\ answer' = answer) \/ answer' = "none"
        /\ UNCHANGED <<cache, tombstones, opIds>>
    BY <1>8 DEF SendBatch, serverVars, roomVars, cycleVars, Tracked, CycleIsKept
  <2>2. \A x \in Shape \ dirty : \A t \in OpType : opIds'[<<t, x>>] = 0
    BY <2>1, CleanHasNoId DEF Tracked
  <2> QED BY <2>1, <2>2, AppliedStays
<1>9. CASE SyncShapesBatch
  BY <1>9, SyncApplied
<1>10. CASE HandleAnswer
  BY <1>10, AnswerApplied
<1>11. CASE RequestFails
  <2>1. /\ rows' = rows /\ log' = log /\ lastOpId' = lastOpId /\ saved' \subseteq saved
        /\ (sending' = sending /\ answer' = answer) \/ answer' = "none"
        /\ UNCHANGED <<cache, tombstones, opIds>>
    BY <1>11 DEF RequestFails, serverVars, roomVars, cycleVars, Tracked, CycleIsKept
  <2>2. \A x \in Shape \ dirty : \A t \in OpType : opIds'[<<t, x>>] = 0
    BY <2>1, CleanHasNoId DEF Tracked
  <2> QED BY <2>1, <2>2, AppliedStays
<1>12. CASE FinishCycle
  BY <1>12, FinishApplied
<1>13. CASE ClearRoomState
  <2>1. UNCHANGED <<rows, log, lastOpId, saved, sending, answer>> /\ dirty = {}
    BY <1>13 DEF ClearRoomState, serverVars, cycleVars
  <2>2. \A t \in OpType, x \in Shape : opIds'[<<t, x>>] = 0
    BY <1>13 DEF ClearRoomState
  <2> QED BY <2>1, <2>2, AppliedStays
<1>14. CASE UNCHANGED vars
  <2>1. /\ rows' = rows /\ log' = log /\ lastOpId' = lastOpId /\ saved' = saved
        /\ sending' = sending /\ answer' = answer
        /\ UNCHANGED <<cache, tombstones, opIds>>
    BY <1>14 DEF vars, serverVars, roomVars, cycleVars
  <2>2. \A x \in Shape \ dirty : \A t \in OpType : opIds'[<<t, x>>] = 0
    BY <2>1, CleanHasNoId DEF Tracked
  <2> QED BY <2>1, <2>2, AppliedStays
<1> QED
  BY <1>1, <1>2, <1>3, <1>4, <1>5, <1>6, <1>7, <1>8, <1>9, <1>10, <1>11, <1>12, <1>13,
     <1>14 DEF Next

LEMMA AppliedAlways == Spec => []AppliedFits
  BY AppliedInit, AppliedStep, TypedAlways, RoomAlways, TrackedAlways, PTL DEF Spec
-----------------------------------------------------------------------------
\* What is clean

SavedFits == CleanIsSaved /\ ResponsesFit

LEMMA CleanFacts ==
  ASSUME SavedFits, NEW s \in Shape \ dirty
  PROVE  /\ cache[s] # Absent => rows[s] = cache[s].content
         /\ tombstones[s] # "none" => ~Active(s)
  BY DEF SavedFits, CleanIsSaved

\* A response that may be filled in after a step that evicts nothing which is
\* awaited, and applies nothing to what is clean.
LEMMA ResponsesStay ==
  ASSUME RoomTyped, RoomIsKept, ResponsesFit, KeepsAwaited, responses' \subseteq responses,
         \A s \in Shape \ dirty : rows'[s] = rows[s]
  PROVE  ResponsesFit'
<1> SUFFICES ASSUME NEW r \in responses, MayFill(r.shape)' PROVE rows'[r.shape] = r.content
  BY DEF ResponsesFit
<1>1. MayFill(r.shape) /\ r.shape \in Shape
  BY DEF KeepsAwaited, RoomTyped
<1>2. r.shape \notin dirty
  BY <1>1, RoomFacts DEF MayFill
<1> QED BY <1>1, <1>2 DEF ResponsesFit

\* Clean shapes after a step that only makes shapes dirty, evicts or forgets.
LEMMA CleanStays ==
  ASSUME SavedFits,
         \A s \in Shape \ dirty' :
           /\ s \notin dirty /\ rows'[s] = rows[s]
           /\ cache'[s] = cache[s] \/ cache'[s] = Absent
           /\ tombstones'[s] = tombstones[s] \/ tombstones'[s] = "none"
  PROVE  CleanIsSaved'
<1> SUFFICES ASSUME NEW s \in Shape \ dirty'
             PROVE  /\ cache'[s] # Absent => rows'[s] = cache'[s].content
                    /\ tombstones'[s] # "none" => ~Active(s)'
  BY DEF CleanIsSaved
<1> QED BY CleanFacts DEF Active

LEMMA ChangedSaved ==
  ASSUME RoomTyped, RoomIsKept, SavedFits, KeepsAwaited, NEW s \in Shape, Changed(s),
         UNCHANGED <<serverVars, responses>>
  PROVE  SavedFits'
<1>1. rows' = rows /\ responses' = responses
  BY DEF serverVars
<1>2. \A x \in Shape \ dirty' :
        /\ x \notin dirty /\ x # s
        /\ cache'[x] = cache[x] \/ cache'[x] = Absent
        /\ tombstones'[x] = tombstones[x]
  BY DEF Changed
<1> QED BY <1>1, <1>2, CleanStays, ResponsesStay DEF SavedFits

\* A row changes only while its shape is dirty.
LEMMA SyncSaved ==
  ASSUME RoomTyped, CycleTyped, RoomIsKept, Tracked, SavedFits, KeepsAwaited, SyncShapesBatch
  PROVE  SavedFits'
<1>1. UNCHANGED <<cache, tombstones, dirty, responses>>
  BY DEF SyncShapesBatch, roomVars
<1>2. \A s \in Shape \ dirty : rows'[s] = rows[s]
  BY SyncEffect, SendingInFlight, OpFacts DEF Tracked
<1> QED BY <1>1, <1>2, CleanStays, ResponsesStay DEF SavedFits

\* What becomes clean was saved by an operation that is still current.
LEMMA FinishSaved ==
  ASSUME RoomTyped, CycleTyped, RoomIsKept, Tracked, AppliedFits, SavedFits, KeepsAwaited,
         FinishCycle
  PROVE  SavedFits'
<1>1. rows' = rows /\ responses' = responses
  BY DEF FinishCycle, serverVars
<1>2. ResponsesFit'
  BY <1>1, ResponsesStay DEF SavedFits
<1>3. ASSUME NEW s \in Shape \ dirty'
      PROVE  /\ cache'[s] # Absent => rows'[s] = cache'[s].content
             /\ tombstones'[s] # "none" => ~Active(s)'
  <2>1. /\ cache'[s] = Absent <=> cache[s] = Absent
        /\ cache[s] # Absent => cache'[s].content = cache[s].content
    BY FinishEffect
  <2>2. tombstones'[s] # "none" <=> tombstones[s] # "none"
    BY DEF FinishCycle, TombstoneAfter
  <2>3. CASE s \notin dirty
    BY <1>1, <2>1, <2>2, <2>3, CleanFacts DEF Active
  <2>4. CASE s \in dirty
    <3>1. CurrentOn(s)
      BY <2>4 DEF FinishCycle
    <3>2. RowFits(s)
      BY <3>1 DEF CurrentOn, AppliedFits
    <3>3. tombstones[s] # "none" => cache[s] = Absent
      BY RoomFacts
    <3> QED BY <1>1, <2>1, <2>2, <3>2, <3>3 DEF RowFits, Active
  <2> QED BY <2>3, <2>4
<1> QED BY <1>2, <1>3 DEF SavedFits, CleanIsSaved

\* A response fills in what the database has.
LEMMA FillSaved ==
  ASSUME RoomTyped, RoomIsKept, SavedFits, KeepsAwaited, NEW r \in responses,
         RecordLoadedViewport(r)
  PROVE  SavedFits'
<1>1. UNCHANGED <<rows, tombstones, dirty>> /\ responses' \subseteq responses
  BY DEF RecordLoadedViewport, serverVars
<1>2. ResponsesFit'
  BY <1>1, ResponsesStay DEF SavedFits
<1>3. ASSUME NEW s \in Shape \ dirty'
      PROVE  /\ cache'[s] # Absent => rows'[s] = cache'[s].content
             /\ tombstones'[s] # "none" => ~Active(s)'
  <2>1. tombstones'[s] # "none" => ~Active(s)'
    BY <1>1, CleanFacts DEF Active
  <2>2. CASE cache'[s] = cache[s]
    BY <1>1, <2>1, <2>2, CleanFacts
  <2>3. CASE cache'[s] = Absent
    BY <2>1, <2>3
  <2>4. CASE s = r.shape /\ MayFill(s) /\ cache'[s].content = r.content
    BY <1>1, <2>1, <2>4 DEF SavedFits, ResponsesFit
  <2> QED BY <2>2, <2>3, <2>4, FillEffect
<1> QED BY <1>2, <1>3 DEF SavedFits, CleanIsSaved

LEMMA ReadSaved ==
  ASSUME SavedFits, NEW s \in Shape, ReadViewport(s)
  PROVE  SavedFits'
<1>1. UNCHANGED <<rows, cache, tombstones, dirty>>
      /\ responses' = responses \cup {[shape |-> s, content |-> rows[s]]}
  BY DEF ReadViewport, serverVars, roomVars
<1>2. CleanIsSaved'
  BY <1>1 DEF SavedFits, CleanIsSaved, Active
<1>3. ResponsesFit'
  BY <1>1 DEF SavedFits, ResponsesFit, MayFill
<1> QED BY <1>2, <1>3 DEF SavedFits

LEMMA SavedInit == Init => SavedFits
  BY DEF Init, SavedFits, CleanIsSaved, ResponsesFit

LEMMA SavedStep ==
  Typed /\ RoomIsKept /\ Tracked /\ AppliedFits /\ SavedFits /\ [Next /\ KeepsAwaited]_vars
  => SavedFits'
<1> SUFFICES ASSUME RoomTyped, HistoryTyped, CycleTyped, RoomIsKept, Tracked, AppliedFits,
                    SavedFits, [Next /\ KeepsAwaited]_vars
             PROVE  SavedFits'
  BY DEF Typed
<1>1. CASE UNCHANGED vars
  BY <1>1 DEF vars, serverVars, roomVars, SavedFits, CleanIsSaved, ResponsesFit, MayFill, Active
<1>2. ASSUME Next, KeepsAwaited PROVE SavedFits'
  <2>1. ASSUME NEW s \in Shape, ApplyShapePatch(s) PROVE SavedFits'
    BY <2>1, <1>2, PatchChanges, ChangedSaved DEF ApplyShapePatch
  <2>2. ASSUME NEW s \in Shape, ReadViewport(s) PROVE SavedFits'
    BY <2>2, ReadSaved
  <2>3. ASSUME NEW s \in Shape, PurgeTombstone(s) PROVE SavedFits'
    <3>1. /\ UNCHANGED <<rows, cache, dirty, responses>>
          /\ \A x \in Shape : tombstones'[x] = tombstones[x] \/ tombstones'[x] = "none"
      BY <2>3 DEF PurgeTombstone, serverVars, RoomTyped
    <3> QED BY <1>2, <3>1, CleanStays, ResponsesStay DEF SavedFits
  <2>4. CASE Undo
    BY <2>4, <1>2, UndoChanges, ChangedSaved DEF Undo
  <2>5. CASE Redo
    BY <2>5, <1>2, RedoChanges, ChangedSaved DEF Redo
  <2>6. ASSUME NEW r \in responses, RecordLoadedViewport(r) PROVE SavedFits'
    BY <2>6, <1>2, FillSaved
  <2>7. CASE StartCycle
    <3>1. UNCHANGED <<rows, cache, tombstones, dirty, responses>>
      BY <2>7 DEF StartCycle, serverVars, roomVars
    <3> QED BY <1>2, <3>1, CleanStays, ResponsesStay DEF SavedFits
  <2>8. CASE SendBatch
    <3>1. UNCHANGED <<rows, cache, tombstones, dirty, responses>>
      BY <2>8 DEF SendBatch, serverVars, roomVars
    <3> QED BY <1>2, <3>1, CleanStays, ResponsesStay DEF SavedFits
  <2>9. CASE SyncShapesBatch
    BY <2>9, <1>2, SyncSaved
  <2>10. CASE HandleAnswer
    <3>1. UNCHANGED <<rows, cache, tombstones, dirty, responses>>
      BY <2>10 DEF HandleAnswer, serverVars, roomVars
    <3> QED BY <1>2, <3>1, CleanStays, ResponsesStay DEF SavedFits
  <2>11. CASE RequestFails
    <3>1. UNCHANGED <<rows, cache, tombstones, dirty, responses>>
      BY <2>11 DEF RequestFails, serverVars, roomVars
    <3> QED BY <1>2, <3>1, CleanStays, ResponsesStay DEF SavedFits
  <2>12. CASE FinishCycle
    BY <2>12, <1>2, FinishSaved
  <2>13. CASE ClearRoomState
    <3>1. /\ UNCHANGED <<rows, dirty, responses>>
          /\ \A x \in Shape : cache'[x] = Absent /\ tombstones'[x] = "none"
      BY <2>13 DEF ClearRoomState, serverVars
    <3> QED BY <1>2, <3>1, CleanStays, ResponsesStay DEF SavedFits
  <2> QED
    BY <1>2, <2>1, <2>2, <2>3, <2>4, <2>5, <2>6, <2>7, <2>8, <2>9, <2>10, <2>11, <2>12, <2>13 DEF Next
<1> QED BY <1>1, <1>2

\* As long as no shape is evicted from the cache while a viewport response with
\* it is on its way, a clean shape is in the database as the room shows it, and
\* a deleted one is not active there.
THEOREM CleanStaysSaved == Spec /\ [][KeepsAwaited]_vars => []CleanIsSaved
<1>1. SavedFits => CleanIsSaved
  BY DEF SavedFits
<1>2. [Next]_vars /\ [KeepsAwaited]_vars => [Next /\ KeepsAwaited]_vars
  OBVIOUS
<1> QED
  BY SavedInit, SavedStep, TypedAlways, RoomAlways, TrackedAlways, AppliedAlways, <1>1, <1>2,
     PTL DEF Spec

\* Nothing is evicted while the canvas fits into the cache.
LEMMA FittingCacheStays ==
  ASSUME Cardinality(Shape) <= MaxCached, NEW c, NEW d, NEW c2 \in Evictions(c, d)
  PROVE  c2 = [s \in Shape |-> c[s]]
<1>1. Cached(c) \in SUBSET Shape
  BY DEF Cached
<1>2. Cardinality(Cached(c)) <= Cardinality(Shape) /\ Cardinality(Cached(c)) \in Nat
      /\ Cardinality(Shape) \in Nat
  BY <1>1, FS_Subset, FS_CardinalityType, ConstantsAssumption
<1>3. Cardinality(Cached(c)) - MaxCached <= 0
  BY <1>2, ConstantsAssumption
<1>4. PICK e \in SUBSET Evictable(c, d) :
        e = {} /\ c2 = [s \in Shape |-> IF s \in e THEN Absent ELSE c[s]]
  BY <1>3 DEF Evictions
<1> QED BY <1>4

\* Then no step evicts what a response may still fill in.
LEMMA FittingKeepsAwaited ==
  ASSUME Cardinality(Shape) <= MaxCached, RoomTyped, HistoryTyped, RoomIsKept, [Next]_vars
  PROVE  [KeepsAwaited]_vars
<1> SUFFICES ASSUME Next, NEW r \in responses, MayFill(r.shape)' PROVE MayFill(r.shape)
  BY DEF KeepsAwaited
<1> DEFINE s == r.shape
<1>1. s \in Shape
  BY DEF RoomTyped
<1>2. ASSUME NEW x \in Shape, NEW record \in MaybeRecord, Put(x, record)
      PROVE  MayFill(s)
  <2>1. Changed(x)
    BY <1>2, PutChanges
  <2>2. s # x /\ tombstones'[s] = tombstones[s]
    BY <1>1, <2>1 DEF Changed, MayFill
  <2>3. cache'[s] = cache[s]
    <3>1. CASE record = Absent
      BY <1>1, <1>2, <2>2, <3>1 DEF Put, Delete, RoomTyped
    <3>2. CASE record # Absent
      <4>1. PICK new : cache' \in Evictions([cache EXCEPT ![x] = new], dirty')
        BY <1>2, <3>2 DEF Put, Upsert
      <4>2. cache' = [y \in Shape |-> [cache EXCEPT ![x] = new][y]]
        BY <4>1, FittingCacheStays
      <4> QED BY <1>1, <2>2, <4>2 DEF RoomTyped
    <3> QED BY <3>1, <3>2
  <2> QED BY <2>2, <2>3 DEF MayFill
<1>3. ASSUME NEW x \in Shape, ApplyShapePatch(x) PROVE MayFill(s)
  <2>1. CASE Delete(x)
    <3>1. Put(x, Absent) /\ Absent \in MaybeRecord
      BY <2>1 DEF Put, MaybeRecord
    <3> QED BY <1>2, <3>1
  <2>2. ASSUME NEW c \in Content, NEW known \in ClientKnows(x),
               Upsert(x, [content |-> c, revised |-> known])
        PROVE  MayFill(s)
    <3>1. known \in BOOLEAN
      BY DEF ClientKnows
    <3> DEFINE record == [content |-> c, revised |-> known]
    <3>2. record \in MaybeRecord /\ record # Absent
      BY <3>1, RecordTyped
    <3>3. Upsert(x, record)
      BY <2>2
    <3> HIDE DEF record
    <3> QED BY <1>2, <3>2, <3>3 DEF Put
  <2> QED BY <1>3, <2>1, <2>2 DEF ApplyShapePatch
<1>4. CASE Undo
  <2> DEFINE item == history[Len(history)]
  <2>1. item.shape \in Shape /\ item.before \in MaybeRecord
    BY <1>4, LastTyped DEF Undo, HistoryTyped
  <2>2. Put(item.shape, item.before)
    BY <1>4 DEF Undo
  <2> HIDE DEF item
  <2> QED BY <1>2, <2>1, <2>2
<1>5. CASE Redo
  <2> DEFINE item == redo[Len(redo)]
  <2>1. item.shape \in Shape /\ item.after \in MaybeRecord
    BY <1>5, LastTyped DEF Redo, HistoryTyped
  <2>2. Put(item.shape, item.after)
    BY <1>5 DEF Redo
  <2> HIDE DEF item
  <2> QED BY <1>2, <2>1, <2>2
<1>6. ASSUME NEW r2 \in responses, RecordLoadedViewport(r2) PROVE MayFill(s)
  <2>1. tombstones' = tombstones
    BY <1>6 DEF RecordLoadedViewport
  <2>2. CASE MayFill(r2.shape)
    <3> DEFINE new == [content |-> r2.content, revised |-> TRUE]
    <3>1. cache' \in Evictions([cache EXCEPT ![r2.shape] = new], dirty)
      BY <1>6, <2>2 DEF RecordLoadedViewport
    <3>2. cache' = [y \in Shape |-> [cache EXCEPT ![r2.shape] = new][y]]
      BY <3>1, FittingCacheStays
    <3>3. s = r2.shape \/ cache'[s] = cache[s]
      BY <1>1, <3>2 DEF RoomTyped
    <3> QED BY <2>1, <2>2, <3>3 DEF MayFill
  <2>3. CASE ~MayFill(r2.shape)
    BY <1>6, <2>1, <2>3 DEF RecordLoadedViewport, MayFill
  <2> QED BY <2>2, <2>3
<1>7. ASSUME NEW x \in Shape, PurgeTombstone(x) PROVE MayFill(s)
  BY <1>1, <1>7 DEF PurgeTombstone, MayFill, RoomTyped
<1>8. CASE FinishCycle
  BY <1>1, <1>8, FinishEffect DEF FinishCycle, MayFill, TombstoneAfter
<1>9. CASE ClearRoomState
  BY <1>9 DEF ClearRoomState
<1>10. CASE UNCHANGED <<cache, tombstones>>
  BY <1>10 DEF MayFill
<1> QED
  BY <1>3, <1>4, <1>5, <1>6, <1>7, <1>8, <1>9, <1>10
  DEF Next, ReadViewport, StartCycle, SendBatch, SyncShapesBatch, HandleAnswer, RequestFails,
      roomVars

\* A canvas that fits into the cache is always saved where it is clean.
THEOREM FittingCanvasIsSaved ==
  ASSUME Cardinality(Shape) <= MaxCached
  PROVE  Spec => []CleanIsSaved
<1>1. Typed /\ RoomIsKept /\ [Next]_vars => [KeepsAwaited]_vars
  BY FittingKeepsAwaited DEF Typed
<1> QED
  BY <1>1, CleanStaysSaved, TypedAlways, RoomAlways, PTL DEF Spec
=============================================================================
