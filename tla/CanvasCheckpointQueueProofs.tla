--------------------- MODULE CanvasCheckpointQueueProofs ---------------------
(***************************************************************************)
(* What CanvasCheckpointQueue keeps for any rooms, sockets and slots, and  *)
(* for every bound: its types, a queue that is served, dirty rooms that    *)
(* are scheduled, and rooms that are saved when they are forgotten or when *)
(* a shutdown is done with them.                                           *)
(***************************************************************************)
EXTENDS CanvasCheckpointQueue, FiniteSetTheorems, SequenceTheorems, TLAPS

\* What a pump starts from, for a queue q, requests req and cycles cyc: no room
\* waits twice, and a room with a request waits exactly while it does not run.
In(q) == {q[i] : i \in DOMAIN q}
Distinct(q) == \A i, j \in 1 .. Len(q) : q[i] = q[j] => i = j
Busy(cyc) == {r \in Room : cyc[r] # Idle}

Ready(q, req, cyc) ==
    /\ q \in Seq(Room) /\ Distinct(q)
    /\ req \in [Room -> Request \cup {NoRequest}]
    /\ cyc \in [Room -> Cycle \cup {Idle}]
    /\ Cardinality(Busy(cyc)) <= MaxConcurrent
    /\ \A r \in Room :
          /\ r \in In(q) => req[r] # NoRequest /\ cyc[r] = Idle
          /\ req[r] # NoRequest => r \in In(q) \/ cyc[r] # Idle

\* What it leaves.
Served ==
    /\ Ready(queue, request, cycle)
    /\ Cardinality(Busy(cycle)) < MaxConcurrent => queue = <<>>

\* The types of the other variables.
Typed ==
    /\ stage \in [Session ->
           {"new", "asked", "registered", "in", "leaving", "left", "stuck"}]
    /\ online \in [Session -> BOOLEAN]
    /\ revoked \subseteq Session
    /\ dirty \in [Room -> BOOLEAN]
    /\ known \in [Room -> BOOLEAN]
    /\ auth \in [Room -> SUBSET Session]
    /\ participants \in [Room -> SUBSET Session]
    /\ cleanup \in [Room -> BOOLEAN]
    /\ timers \in [Room -> SUBSET Timers]
    /\ closing \in BOOLEAN /\ closed \in BOOLEAN
    /\ awaited \subseteq Room
    /\ edits \in 0 .. MaxEdits /\ faults \in 0 .. MaxFaults

\* A cycle learns of the edits of its room.
ChangesAreDirty == \A r \in Room : cycle[r].changed => dirty[r]

\* A room that nobody was removed from keeps a token as long as it is known, and
\* it is known as long as it is dirty.
Spared(r) == \A s \in revoked : RoomOf[s] # r
TokensStay ==
    \A r \in Room : Spared(r) =>
        /\ known[r] => auth[r] # {}
        /\ dirty[r] /\ ~closing => known[r]

\* What close() waits for is a drain of a known room, which ends when the room
\* is saved.
DrainIsKept(r) ==
    /\ "close" \in request[r].waiters => known[r] /\ request[r].mode = "drain"
    /\ "close" \in cycle[r].waiters =>
          /\ known[r] /\ cycle[r].mode = "drain"
          /\ cycle[r].stage = "ending" /\ faults = 0 /\ Spared(r) => ~dirty[r]
DrainsAreKept ==
    /\ ~closing => awaited = {}
    /\ \A r \in Room : DrainIsKept(r)

USE ConstantsAssumption
-----------------------------------------------------------------------------
\* The pump

LEMMA BusyTyped ==
  ASSUME NEW cyc
  PROVE  /\ IsFiniteSet(Busy(cyc))
         /\ Cardinality(Busy(cyc)) \in Nat
<1>1. Busy(cyc) \in SUBSET Room
  BY DEF Busy
<1> QED
  BY <1>1, FS_Subset, FS_CardinalityType

\* The first n rooms of a queue without repetitions are n rooms.
LEMMA FirstRooms ==
  ASSUME NEW q \in Seq(Room), Distinct(q), NEW n \in 0 .. Len(q)
  PROVE  LET first == {q[i] : i \in 1 .. n} IN
         /\ IsFiniteSet(first)
         /\ Cardinality(first) = n
<1> DEFINE first == {q[i] : i \in 1 .. n}
           f == [i \in 1 .. n |-> q[i]]
<1>1. Len(q) \in Nat /\ n \in Nat
  BY LenProperties
<1>2. f \in [1 .. n -> first]
  OBVIOUS
<1>3. \A i, j \in 1 .. n : f[i] = f[j] => i = j
  BY <1>1 DEF Distinct
<1>4. \A r \in first : \E i \in 1 .. n : f[i] = r
  OBVIOUS
<1> HIDE DEF f, first
<1>5. f \in Bijection(1 .. n, first)
  BY <1>2, <1>3, <1>4 DEF Bijection, Injection, Surjection, IsInjective
<1>6. ExistsBijection(1 .. n, first)
  BY <1>5 DEF ExistsBijection
<1>7. IsFiniteSet(1 .. n) /\ Cardinality(1 .. n) = n
  BY <1>1, FS_Interval
<1>8. IsFiniteSet(first) /\ Cardinality(first) = n
  BY <1>6, <1>7, FS_Bijection
<1> QED
  BY <1>8 DEF first

\* The length of a queue without repetitions is the number of rooms in it.
LEMMA LengthIsCount ==
  ASSUME NEW q \in Seq(Room), Distinct(q)
  PROVE  Len(q) = Cardinality(In(q))
<1>1. Len(q) \in Nat /\ DOMAIN q = 1 .. Len(q)
  BY LenProperties
<1>2. Len(q) \in 0 .. Len(q)
  BY <1>1
<1> QED
  BY <1>1, <1>2, FirstRooms DEF In

\* A pump leaves a room alone, or it starts the cycle of a room that waits.  The
\* room had the request old, the cycle c and the timers t.
Pumped(r, old, c, t) ==
    \/ request'[r] = old /\ cycle'[r] = c /\ timers'[r] = t
    \/ /\ old \in Request /\ c = Idle /\ request'[r] = NoRequest
       /\ cycle'[r] = [mode |-> old.mode, waiters |-> old.waiters, changed |-> FALSE,
                       stage |-> IF known'[r] /\ auth'[r] # {} /\ dirty'[r]
                                   THEN "sending" ELSE "ending"]
       /\ timers'[r] = IF known'[r] /\ auth'[r] # {} /\ ~dirty'[r]
                         THEN t \ (DirtyTimers \cup {"retry"}) ELSE t

LEMMA PumpEffect ==
  ASSUME NEW q, NEW req, NEW cyc, NEW t, Ready(q, req, cyc), Pump(q, req, cyc, t),
         NEW r \in Room
  PROVE  Pumped(r, req[r], cyc[r], t[r])
<1> DEFINE free  == MaxConcurrent - Cardinality(Busy(cyc))
           count == IF free < Len(q) THEN free ELSE Len(q)
           begun == {q[i] : i \in 1 .. count}
<1>1. Len(q) \in Nat /\ DOMAIN q = 1 .. Len(q)
  BY LenProperties DEF Ready
<1>2. count \in 0 .. Len(q)
  BY <1>1, BusyTyped DEF Ready
<1>3. begun \subseteq In(q)
  BY <1>1, <1>2 DEF In
<1>4. CASE r \in begun
  <2>1. req[r] \in Request /\ cyc[r] = Idle
    BY <1>3, <1>4 DEF Ready
  <2> QED
    BY <1>4, <2>1 DEF Pump, Busy, Pumped
<1>5. CASE r \notin begun
  BY <1>5 DEF Pump, Busy, Pumped
<1> QED
  BY <1>4, <1>5

\* What a pump leaves is served.
LEMMA PumpServes ==
  ASSUME NEW q, NEW req, NEW cyc, NEW t, Ready(q, req, cyc), Pump(q, req, cyc, t)
  PROVE  Served'
<1> DEFINE free  == MaxConcurrent - Cardinality(Busy(cyc))
           count == IF free < Len(q) THEN free ELSE Len(q)
           begun == {q[i] : i \in 1 .. count}
           Begin(r) == [mode |-> req[r].mode, waiters |-> req[r].waiters, changed |-> FALSE,
                        stage |-> IF (known'[r] /\ auth'[r] # {}) /\ dirty'[r]
                                    THEN "sending" ELSE "ending"]
<1>1. /\ queue' = SubSeq(q, count + 1, Len(q))
      /\ request' = [r \in Room |-> IF r \in begun THEN NoRequest ELSE req[r]]
      /\ cycle' = [r \in Room |-> IF r \in begun THEN Begin(r) ELSE cyc[r]]
  BY DEF Pump, Busy
<1>2. /\ q \in Seq(Room) /\ Distinct(q)
      /\ Len(q) \in Nat /\ DOMAIN q = 1 .. Len(q) /\ q \in [1 .. Len(q) -> Room]
  BY LenProperties DEF Ready
<1>3. Cardinality(Busy(cyc)) \in Nat /\ IsFiniteSet(Busy(cyc))
  BY BusyTyped
<1>4. /\ count \in Nat /\ count <= Len(q) /\ count \in 0 .. Len(q) /\ count <= free
      /\ count < Len(q) => count = free
  BY <1>2, <1>3 DEF Ready
<1>0. queue' = SubSeq(q, count + 1, Len(q))
  BY <1>1
<1> HIDE DEF count, Begin
<1>5. IsFiniteSet(begun) /\ Cardinality(begun) = count
  BY <1>2, <1>4, FirstRooms
<1>6. begun \subseteq In(q) /\ begun \subseteq Room
  BY <1>2, <1>4 DEF In
<1>7. /\ queue' \in Seq(Room) /\ Len(queue') = Len(q) - count
      /\ \A i \in 1 .. Len(q) - count : queue'[i] = q[count + i]
  <2>1. \A i \in count + 1 .. Len(q) : q[i] \in Room
    BY <1>2, <1>4
  <2>2. count + 1 \in Int /\ Len(q) \in Int
    BY <1>2, <1>4
  <2>3. /\ SubSeq(q, count + 1, Len(q)) \in Seq(Room)
        /\ Len(SubSeq(q, count + 1, Len(q))) =
              IF count + 1 <= Len(q) THEN Len(q) - (count + 1) + 1 ELSE 0
        /\ \A i \in 1 .. Len(q) - (count + 1) + 1 :
              SubSeq(q, count + 1, Len(q))[i] = q[(count + 1) + i - 1]
    BY <2>1, <2>2, SubSeqProperties
  <2>4. count <= Len(q) /\ count \in Nat /\ Len(q) \in Nat
    BY <1>2, <1>4
  <2>5. /\ (IF count + 1 <= Len(q) THEN Len(q) - (count + 1) + 1 ELSE 0) = Len(q) - count
        /\ Len(q) - (count + 1) + 1 = Len(q) - count
        /\ \A i \in 1 .. Len(q) - count : (count + 1) + i - 1 = count + i
    BY <2>4
  <2> QED
    BY <1>0, <2>3, <2>5
<1>8. DOMAIN queue' = 1 .. Len(q) - count
  BY <1>7, LenProperties
<1>9. Distinct(queue')
  <2> SUFFICES ASSUME NEW i \in 1 .. Len(q) - count, NEW j \in 1 .. Len(q) - count,
                      queue'[i] = queue'[j]
               PROVE  i = j
    BY <1>7 DEF Distinct
  <2>1. q[count + i] = q[count + j] /\ count + i \in 1 .. Len(q) /\ count + j \in 1 .. Len(q)
    BY <1>2, <1>4, <1>7
  <2> QED
    BY <1>2, <1>4, <2>1 DEF Distinct
<1>10. In(queue') = In(q) \ begun
  <2>1. ASSUME NEW i \in 1 .. Len(q) - count
        PROVE  q[count + i] \in In(q) /\ q[count + i] \notin begun
    BY <1>2, <1>4, <2>1 DEF In, Distinct
  <2>2. ASSUME NEW i \in 1 .. Len(q), q[i] \notin begun
        PROVE  i - count \in 1 .. Len(q) - count /\ q[i] = queue'[i - count]
    <3>1. i \notin 1 .. count
      BY <2>2
    <3> QED
      BY <1>2, <1>4, <1>7, <3>1
  <2> HIDE DEF begun
  <2> QED
    BY <1>2, <1>7, <1>8, <2>1, <2>2 DEF In
<1> HIDE DEF begun
<1>11. ASSUME NEW r \in begun PROVE req[r] \in Request /\ Begin(r) \in Cycle /\ Begin(r) # Idle
  <2>1. req[r] \in Request
    BY <1>6, <1>11 DEF Ready
  <2> QED
    BY <2>1 DEF Request, Cycle, Idle, Begin
<1>12. /\ request' \in [Room -> Request \cup {NoRequest}]
       /\ cycle' \in [Room -> Cycle \cup {Idle}]
  BY <1>1, <1>11 DEF Ready
<1>13. Busy(cycle') = Busy(cyc) \cup begun /\ Busy(cyc) \cap begun = {}
  BY <1>1, <1>6, <1>11 DEF Busy, Ready
<1>14. Cardinality(Busy(cycle')) = Cardinality(Busy(cyc)) + count
  <2>1. Cardinality(Busy(cyc) \cup begun) =
           Cardinality(Busy(cyc)) + Cardinality(begun) - Cardinality(Busy(cyc) \cap begun)
    BY <1>3, <1>5, FS_Union
  <2>2. Cardinality(Busy(cyc) \cap begun) = 0
    BY <1>13, FS_EmptySet
  <2> QED
    BY <1>3, <1>4, <1>5, <1>13, <2>1, <2>2
<1>15. Cardinality(Busy(cycle')) <= MaxConcurrent
  BY <1>3, <1>4, <1>14
<1>16. Cardinality(Busy(cycle')) < MaxConcurrent => queue' = <<>>
  <2> SUFFICES ASSUME Cardinality(Busy(cycle')) < MaxConcurrent PROVE queue' = <<>>
    OBVIOUS
  <2>1. /\ count \in Nat /\ Len(q) \in Nat /\ count <= Len(q)
        /\ count < Len(q) => count = free
    BY <1>2, <1>4
  <2>2. count # free
    BY <1>3, <1>14, <2>1
  <2>3. count = Len(q)
    BY <2>1, <2>2
  <2> QED
    BY <1>2, <1>7, <2>3, EmptySeq
<1>17. ASSUME NEW r \in Room
       PROVE  /\ r \in In(queue') => request'[r] # NoRequest /\ cycle'[r] = Idle
              /\ request'[r] # NoRequest => r \in In(queue') \/ cycle'[r] # Idle
  BY <1>1, <1>10, <1>11 DEF Ready
<1> QED
  BY <1>7, <1>9, <1>12, <1>15, <1>16, <1>17 DEF Served, Ready
-----------------------------------------------------------------------------
\* The requests

\* The rooms of S, in any order, behind a queue without them.
LEMMA QueueGrows ==
  ASSUME NEW q \in Seq(Room), Distinct(q), NEW S \in SUBSET Room, S \cap In(q) = {},
         NEW new \in Orderings(S)
  PROVE  /\ q \o new \in Seq(Room) /\ Distinct(q \o new)
         /\ In(q \o new) = In(q) \cup S
<1> DEFINE n == Cardinality(S)
<1>1. n \in Nat /\ IsFiniteSet(S)
  BY FS_Subset, FS_CardinalityType
<1>2. new \in [1 .. n -> S] /\ \A r \in S : \E i \in 1 .. n : new[i] = r
  BY DEF Orderings
<1> HIDE DEF n
<1>3. \A i, j \in 1 .. n : new[i] = new[j] => i = j
  <2>1. new \in Surjection(1 .. n, S)
    BY <1>2 DEF Surjection
  <2>2. IsFiniteSet(1 .. n) /\ Cardinality(1 .. n) = Cardinality(S)
    BY <1>1, FS_Interval DEF n
  <2>3. new \in Injection(1 .. n, S)
    BY <2>1, <2>2, FS_SurjSameCardinalityImpliesInj
  <2> QED
    BY <2>3 DEF Injection, IsInjective
<1>4. new \in Seq(Room) /\ Len(new) = n
  <2>1. new \in Seq(S)
    BY <1>1, <1>2, SeqDef
  <2>2. DOMAIN new = 1 .. n /\ DOMAIN new = 1 .. Len(new) /\ Len(new) \in Nat
    BY <1>2, <2>1, LenProperties
  <2> QED
    BY <1>1, <2>1, <2>2, SeqMonotonic
<1>5. Len(q) \in Nat /\ DOMAIN q = 1 .. Len(q)
  BY LenProperties
<1>6. /\ q \o new \in Seq(Room) /\ Len(q \o new) = Len(q) + n
      /\ \A i \in 1 .. Len(q) + n :
            (q \o new)[i] = IF i <= Len(q) THEN q[i] ELSE new[i - Len(q)]
  BY <1>4, ConcatProperties
<1>7. DOMAIN (q \o new) = 1 .. Len(q) + n
  BY <1>6, LenProperties
<1>8. \A i \in 1 .. Len(q) : q[i] \in In(q) /\ q[i] = (q \o new)[i] /\ i \in 1 .. Len(q) + n
  BY <1>1, <1>5, <1>6 DEF In
<1>9. \A i \in 1 .. n : /\ new[i] \in S /\ new[i] \notin In(q)
                        /\ new[i] = (q \o new)[Len(q) + i]
                        /\ Len(q) + i \in 1 .. Len(q) + n
  BY <1>1, <1>2, <1>5, <1>6
<1>10. \A i \in 1 .. Len(q) + n :
          \/ i \in 1 .. Len(q)
          \/ i - Len(q) \in 1 .. n /\ i = Len(q) + (i - Len(q)) /\ i \notin 1 .. Len(q)
  BY <1>1, <1>5
<1>11. Distinct(q \o new)
  <2> SUFFICES ASSUME NEW i \in 1 .. Len(q) + n, NEW j \in 1 .. Len(q) + n,
                      (q \o new)[i] = (q \o new)[j]
               PROVE  i = j
    BY <1>6 DEF Distinct
  <2>1. CASE i \in 1 .. Len(q) /\ j \in 1 .. Len(q)
    BY <1>8, <2>1 DEF Distinct
  <2>2. CASE i \notin 1 .. Len(q) /\ j \notin 1 .. Len(q)
    <3>1. new[i - Len(q)] = new[j - Len(q)]
      BY <1>9, <1>10, <2>2
    <3>2. i - Len(q) = j - Len(q)
      BY <1>3, <1>10, <2>2, <3>1
    <3> QED
      BY <1>5, <3>2
  <2>3. CASE i \in 1 .. Len(q) /\ j \notin 1 .. Len(q)
    <3>1. (q \o new)[i] \in In(q) /\ (q \o new)[j] \notin In(q)
      BY <1>8, <1>9, <1>10, <2>3
    <3> QED
      BY <3>1
  <2>4. CASE i \notin 1 .. Len(q) /\ j \in 1 .. Len(q)
    <3>1. (q \o new)[i] \notin In(q) /\ (q \o new)[j] \in In(q)
      BY <1>8, <1>9, <1>10, <2>4
    <3> QED
      BY <3>1
  <2> QED
    BY <2>1, <2>2, <2>3, <2>4
<1>12. In(q \o new) \subseteq In(q) \cup S
  <2> SUFFICES ASSUME NEW i \in 1 .. Len(q) + n PROVE (q \o new)[i] \in In(q) \cup S
    BY <1>7 DEF In
  <2> QED
    BY <1>8, <1>9, <1>10
<1>13. In(q) \subseteq In(q \o new)
  BY <1>5, <1>7, <1>8 DEF In
<1>14. S \subseteq In(q \o new)
  BY <1>2, <1>7, <1>9 DEF In
<1> QED
  BY <1>6, <1>11, <1>12, <1>13, <1>14

\* What the rooms asked for a checkpoint request then.
Asked(asked, mode, waiters) ==
    [r \in Room |-> IF r \in asked THEN Merged(request[r], mode, waiters) ELSE request[r]]

LEMMA MergedTyped ==
  ASSUME NEW old \in Request \cup {NoRequest}, NEW mode \in {"snapshot", "drain"},
         NEW waiters \in SUBSET Waiter
  PROVE  Merged(old, mode, waiters) \in Request /\ Merged(old, mode, waiters) # NoRequest
  BY DEF Merged, Request, NoRequest

LEMMA RequestsDiffer == NoRequest \notin Request /\ Idle \notin Cycle
  BY DEF Request, NoRequest, Cycle, Idle

LEMMA EnqueueReady ==
  ASSUME Served, NEW asked \in SUBSET Room, NEW mode \in {"snapshot", "drain"},
         NEW waiters \in SUBSET Waiter, NEW cyc \in [Room -> Cycle \cup {Idle}],
         Busy(cyc) = Busy(cycle),
         NEW new \in Orderings({r \in asked : r \notin Queued /\ ~Running(r)})
  PROVE  Ready(queue \o new, Asked(asked, mode, waiters), cyc)
<1> DEFINE S == {r \in asked : r \notin Queued /\ ~Running(r)}
           req == Asked(asked, mode, waiters)
<1>1. Queued = In(queue) /\ Busy(cycle) = {r \in Room : Running(r)}
  BY DEF Queued, In, Busy, Running
<1>2. S \in SUBSET Room /\ S \cap In(queue) = {}
  BY <1>1
<1>3. /\ queue \o new \in Seq(Room) /\ Distinct(queue \o new)
      /\ In(queue \o new) = In(queue) \cup S
  BY <1>2, QueueGrows DEF Served, Ready
<1>4. ASSUME NEW r \in Room
      PROVE  /\ req[r] \in Request \cup {NoRequest}
             /\ r \in asked => req[r] # NoRequest
             /\ r \notin asked => req[r] = request[r]
  BY MergedTyped DEF Asked, Served, Ready
<1>5. req \in [Room -> Request \cup {NoRequest}]
  BY <1>4 DEF Asked
<1>6. \A r \in Room : cyc[r] = Idle <=> cycle[r] = Idle
  BY DEF Busy
<1> HIDE DEF req
<1>7. ASSUME NEW r \in Room
      PROVE  /\ r \in In(queue) \cup S => req[r] # NoRequest /\ cyc[r] = Idle
             /\ req[r] # NoRequest => r \in In(queue) \cup S \/ cyc[r] # Idle
  BY <1>1, <1>4, <1>6 DEF Served, Ready, Running
<1>8. Ready(queue \o new, req, cyc)
  BY <1>3, <1>5, <1>7 DEF Ready, Served
<1> QED
  BY <1>8 DEF req

\* After a request the queue is served, and every room that was asked has merged
\* the request into its own.
LEMMA EnqueueServes ==
  ASSUME Served, NEW asked \in SUBSET Room, NEW mode \in {"snapshot", "drain"},
         NEW waiters \in SUBSET Waiter, NEW cyc \in [Room -> Cycle \cup {Idle}],
         Busy(cyc) = Busy(cycle), NEW t, Enqueue(asked, mode, waiters, cyc, t)
  PROVE  /\ Served' /\ timers' = [r \in Room |-> timers'[r]]
         /\ \A r \in Room : Pumped(r, IF r \in asked THEN Merged(request[r], mode, waiters)
                                                     ELSE request[r], cyc[r], t[r])
<1>1. PICK new \in Orderings({r \in asked : r \notin Queued /\ ~Running(r)}) :
         Pump(queue \o new, Asked(asked, mode, waiters), cyc, t)
  BY DEF Enqueue, Asked
<1>2. Ready(queue \o new, Asked(asked, mode, waiters), cyc)
  BY EnqueueReady
<1>3. Served'
  BY <1>1, <1>2, PumpServes
<1>4. \A r \in Room : Pumped(r, Asked(asked, mode, waiters)[r], cyc[r], t[r])
  BY <1>1, <1>2, PumpEffect
<1>5. timers' = [r \in Room |-> timers'[r]]
  BY <1>1 DEF Pump
<1> QED
  BY <1>3, <1>4, <1>5 DEF Asked
-----------------------------------------------------------------------------
\* The cycles

\* An edit marks the cycle of its room.
LEMMA EditMarks ==
  ASSUME cycle \in [Room -> Cycle \cup {Idle}], NEW r \in Room
  PROVE  LET cyc == [cycle EXCEPT ![r].changed = Running(r)] IN
         /\ cyc \in [Room -> Cycle \cup {Idle}] /\ Busy(cyc) = Busy(cycle)
         /\ \A x \in Room : /\ cyc[x].stage = cycle[x].stage /\ cyc[x].mode = cycle[x].mode
                            /\ cyc[x].waiters = cycle[x].waiters
                            /\ x # r => cyc[x] = cycle[x]
<1> DEFINE cyc == [cycle EXCEPT ![r].changed = Running(r)]
<1>1. CASE cycle[r] = Idle
  <2> DEFINE OnlyIdle == [stage : {"idle"}, mode : {"none"}, waiters : {{}}, changed : {FALSE}]
  <2>4. Idle \in OnlyIdle /\ \A c \in OnlyIdle : c = Idle
    <3>1. Idle \in OnlyIdle
      BY DEF Idle
    <3>2. ASSUME NEW c \in OnlyIdle PROVE c = Idle
      <4>1. /\ DOMAIN c = {"stage", "mode", "waiters", "changed"}
            /\ DOMAIN Idle = {"stage", "mode", "waiters", "changed"}
        BY <3>1
      <4>2. \A x \in {"stage", "mode", "waiters", "changed"} : c[x] = Idle[x]
        BY <3>1
      <4> QED
        BY <3>1, <4>1, <4>2
    <3> QED
      BY <3>1, <3>2
  <2>5. \A c \in OnlyIdle : [c EXCEPT !.changed = FALSE] \in OnlyIdle
    OBVIOUS
  <2>1. [Idle EXCEPT !.changed = FALSE] = Idle
    BY <2>4, <2>5
  <2>2. cyc = [cycle EXCEPT ![r] = [Idle EXCEPT !.changed = FALSE]]
    BY <1>1 DEF Running
  <2>3. cyc = cycle
    BY <1>1, <2>1, <2>2
  <2> QED
    BY <2>3
<1>2. CASE cycle[r] \in Cycle
  <2>1. cyc[r] \in Cycle
    BY <1>2 DEF Cycle, Running
  <2>2. /\ cyc[r].stage = cycle[r].stage /\ cyc[r].mode = cycle[r].mode
        /\ cyc[r].waiters = cycle[r].waiters
    BY <1>2 DEF Cycle
  <2>3. DOMAIN cyc = Room /\ \A x \in Room : x # r => cyc[x] = cycle[x]
    OBVIOUS
  <2> HIDE DEF cyc
  <2>4. cyc \in [Room -> Cycle \cup {Idle}]
    <3>1. \A x \in Room : cyc[x] \in Cycle \cup {Idle}
      BY <2>1, <2>3
    <3>2. cyc = [x \in Room |-> cyc[x]]
      BY <2>3 DEF cyc
    <3> QED
      BY <3>1, <3>2
  <2>5. Busy(cyc) = Busy(cycle)
    BY <1>2, <2>1, <2>3, RequestsDiffer DEF Busy
  <2>6. QED
    BY <2>2, <2>3, <2>4, <2>5 DEF cyc
<1> QED
  BY <1>1, <1>2

\* A cycle that runs goes on to another stage.
LEMMA CycleMoves ==
  ASSUME cycle \in [Room -> Cycle \cup {Idle}], NEW r \in Room, Running(r),
         NEW c \in Cycle, cycle' = [cycle EXCEPT ![r] = c]
  PROVE  cycle' \in [Room -> Cycle \cup {Idle}] /\ Busy(cycle') = Busy(cycle)
  BY RequestsDiffer DEF Busy, Running

LEMMA StagesMove ==
  ASSUME cycle \in [Room -> Cycle \cup {Idle}], NEW r \in Room,
         cycle[r].stage \in {"sending", "yielding", "ending"}
  PROVE  /\ cycle[r] \in Cycle /\ Running(r)
         /\ \A new \in {"sending", "yielding", "ending"} :
               [cycle[r] EXCEPT !.stage = new] \in Cycle
         /\ [cycle[r] EXCEPT !.stage = "sending", !.changed = FALSE] \in Cycle
<1>1. cycle[r] \in Cycle
  BY DEF Idle
<1>2. Running(r)
  BY <1>1, RequestsDiffer DEF Running
<1> QED
  BY <1>1, <1>2 DEF Cycle

\* Without new requests the queue stays served while the same cycles run.
LEMMA CyclesGoOn ==
  ASSUME Served, UNCHANGED <<request, queue>>,
         cycle' \in [Room -> Cycle \cup {Idle}], Busy(cycle') = Busy(cycle)
  PROVE  Served'
<1>1. \A r \in Room : cycle'[r] = Idle <=> cycle[r] = Idle
  BY DEF Busy
<1> QED
  BY <1>1 DEF Served, Ready

\* Saves, Continues and Fails.
LEMMA StageServes ==
  ASSUME Served, UNCHANGED <<request, queue>>, NEW r \in Room,
         cycle[r].stage \in {"sending", "yielding", "ending"},
         \/ \E new \in {"sending", "yielding", "ending"} :
               cycle' = [cycle EXCEPT ![r].stage = new]
         \/ cycle' = [cycle EXCEPT ![r].stage = "sending", ![r].changed = FALSE]
  PROVE  Served'
<1>1. cycle \in [Room -> Cycle \cup {Idle}]
  BY DEF Served, Ready
<1>2. PICK c \in Cycle : cycle' = [cycle EXCEPT ![r] = c]
  <2>1. CASE \E new \in {"sending", "yielding", "ending"} :
                cycle' = [cycle EXCEPT ![r].stage = new]
    BY <1>1, <2>1, StagesMove
  <2>2. CASE cycle' = [cycle EXCEPT ![r].stage = "sending", ![r].changed = FALSE]
    <3>1. cycle' = [cycle EXCEPT ![r] =
                       [cycle[r] EXCEPT !.stage = "sending", !.changed = FALSE]]
      BY <1>1, <2>2
    <3> QED
      BY <1>1, <3>1, StagesMove
  <2> QED
    BY <2>1, <2>2
<1>3. Running(r)
  BY <1>1, StagesMove
<1> QED
  BY <1>1, <1>2, <1>3, CycleMoves, CyclesGoOn

\* The end of a cycle, when its room has the requests req.
LEMMA EndReady ==
  ASSUME Served, NEW r \in Room, Running(r),
         NEW req \in {request, [request EXCEPT ![r] = NoRequest]}
  PROVE  Ready(queue \o Requeued(r, req), req, [cycle EXCEPT ![r] = Idle])
<1> DEFINE cyc == [cycle EXCEPT ![r] = Idle]
           S == {x \in {r} : req[x] # NoRequest}
<1>1. /\ req \in [Room -> Request \cup {NoRequest}]
      /\ cyc \in [Room -> Cycle \cup {Idle}]
      /\ \A x \in Room \ {r} : req[x] = request[x] /\ cyc[x] = cycle[x]
      /\ cyc[r] = Idle
  BY DEF Served, Ready
<1>2. r \notin In(queue) /\ queue \in Seq(Room) /\ Distinct(queue)
  BY DEF Served, Ready, Running
<1>3. Requeued(r, req) \in Orderings(S)
  <2>1. CASE req[r] = NoRequest
    <3>1. S = {} /\ Cardinality({}) = 0
      BY <2>1, FS_EmptySet
    <3>2. Requeued(r, req) = <<>>
      BY <2>1 DEF Requeued
    <3>3. <<>> \in Seq({}) /\ Len(<<>>) = 0
      BY EmptySeq
    <3>4. <<>> \in [1 .. 0 -> {}]
      BY <3>3, LenProperties
    <3>5. <<>> \in Orderings({})
      BY <3>1, <3>4 DEF Orderings
    <3> QED
      BY <3>1, <3>2, <3>5
  <2>2. CASE req[r] # NoRequest
    <3>1. S = {r} /\ Cardinality({r}) = 1
      BY <2>2, FS_Singleton
    <3>2. Requeued(r, req) = <<r>>
      BY <2>2 DEF Requeued
    <3>3. <<r>> \in [1 .. 1 -> {r}] /\ DOMAIN <<r>> = 1 .. 1 /\ <<r>>[1] = r
      OBVIOUS
    <3>4. <<r>> \in Orderings({r})
      BY <3>1, <3>3 DEF Orderings
    <3> QED
      BY <3>1, <3>2, <3>4
  <2> QED
    BY <2>1, <2>2
<1>4. S \in SUBSET Room /\ S \cap In(queue) = {}
  BY <1>2
<1>5. r \in S <=> req[r] # NoRequest
  OBVIOUS
<1>6. \A x \in S : x = r
  OBVIOUS
<1> HIDE DEF S, cyc
<1>7. /\ queue \o Requeued(r, req) \in Seq(Room) /\ Distinct(queue \o Requeued(r, req))
      /\ In(queue \o Requeued(r, req)) = In(queue) \cup S
  BY <1>2, <1>3, <1>4, QueueGrows
<1>8. Cardinality(Busy(cyc)) <= MaxConcurrent
  <2>1. Busy(cyc) \in SUBSET Busy(cycle)
    BY <1>1 DEF Busy
  <2>2. Cardinality(Busy(cyc)) <= Cardinality(Busy(cycle))
    BY <2>1, BusyTyped, FS_Subset
  <2>3. Cardinality(Busy(cyc)) \in Nat /\ Cardinality(Busy(cycle)) \in Nat
    BY BusyTyped
  <2> QED
    BY <2>2, <2>3 DEF Served, Ready
<1>9. ASSUME NEW x \in Room
      PROVE  /\ x \in In(queue) \cup S => req[x] # NoRequest /\ cyc[x] = Idle
             /\ req[x] # NoRequest => x \in In(queue) \cup S \/ cyc[x] # Idle
  <2>1. CASE x = r
    BY <1>1, <1>2, <1>5, <2>1
  <2>2. CASE x # r
    BY <1>1, <1>6, <2>2 DEF Served, Ready
  <2> QED
    BY <2>1, <2>2
<1>10. Ready(queue \o Requeued(r, req), req, cyc)
  BY <1>1, <1>7, <1>8, <1>9 DEF Ready
<1> QED
  BY <1>10 DEF cyc
-----------------------------------------------------------------------------
\* The queue is served

LEMMA EmptyReady == Ready(<<>>, [r \in Room |-> NoRequest], [r \in Room |-> Idle])
<1> DEFINE cyc == [r \in Room |-> Idle]
<1>1. Busy(cyc) = {} /\ Cardinality({}) = 0
  BY FS_EmptySet DEF Busy
<1>2. <<>> \in Seq(Room) /\ Len(<<>>) = 0
  BY EmptySeq
<1>3. DOMAIN <<>> = {}
  BY <1>2, LenProperties
<1>4. Distinct(<<>>) /\ In(<<>>) = {}
  BY <1>2, <1>3 DEF Distinct, In
<1>5. Cardinality(Busy(cyc)) <= MaxConcurrent
  BY <1>1
<1> QED
  BY <1>2, <1>4, <1>5 DEF Ready

LEMMA InitServed == Init => Served
<1> SUFFICES ASSUME Init PROVE Served
  OBVIOUS
<1>1. /\ queue = <<>> /\ request = [r \in Room |-> NoRequest]
      /\ cycle = [r \in Room |-> Idle]
  BY DEF Init
<1> QED
  BY <1>1, EmptyReady DEF Served

LEMMA ServedStep == Served /\ [Next]_vars => Served'
<1> SUFFICES ASSUME Served, [Next]_vars PROVE Served'
  OBVIOUS
<1>1. ASSUME NEW s \in Session, Join(s) PROVE Served'
  <2>1. UNCHANGED <<request, queue, cycle>>
    BY <1>1 DEF Join, queueVars
  <2> QED
    BY <2>1, CyclesGoOn DEF Served, Ready
<1>2. ASSUME NEW s \in Session, JoinGranted(s) PROVE Served'
  <2>1. UNCHANGED <<request, queue, cycle>>
    BY <1>2 DEF JoinGranted, queueVars
  <2> QED
    BY <2>1, CyclesGoOn DEF Served, Ready
<1>3. ASSUME NEW s \in Session, JoinDenied(s) PROVE Served'
  <2>1. UNCHANGED <<request, queue, cycle>>
    BY <1>3 DEF JoinDenied, queueVars
  <2> QED
    BY <2>1, CyclesGoOn DEF Served, Ready
<1>4. ASSUME NEW s \in Session, Joined(s) PROVE Served'
  <2>1. UNCHANGED <<request, queue, cycle>>
    BY <1>4 DEF Joined, queueVars
  <2> QED
    BY <2>1, CyclesGoOn DEF Served, Ready
<1>5. ASSUME NEW s \in Session, JoinRejected(s) PROVE Served'
  <2>1. UNCHANGED <<request, queue, cycle>>
    BY <1>5 DEF JoinRejected, queueVars
  <2> QED
    BY <2>1, CyclesGoOn DEF Served, Ready
<1>6. ASSUME NEW s \in Session, JoinFails(s) PROVE Served'
  <2>1. UNCHANGED <<request, queue, cycle>>
    BY <1>6 DEF JoinFails, queueVars
  <2> QED
    BY <2>1, CyclesGoOn DEF Served, Ready
<1>7. ASSUME NEW s \in Session, Leave(s) PROVE Served'
  <2>1. UNCHANGED <<request, queue, cycle>>
    BY <1>7 DEF Leave, queueVars
  <2> QED
    BY <2>1, CyclesGoOn DEF Served, Ready
<1>8. ASSUME NEW s \in Session, Left(s) PROVE Served'
  <2>1. UNCHANGED <<request, queue, cycle>>
    BY <1>8 DEF Left, queueVars
  <2> QED
    BY <2>1, CyclesGoOn DEF Served, Ready
<1>8a. ASSUME NEW s \in Session, LeaveFails(s) PROVE Served'
  <2>1. UNCHANGED <<request, queue, cycle>>
    BY <1>8a DEF LeaveFails, queueVars
  <2> QED
    BY <2>1, CyclesGoOn DEF Served, Ready
<1>9. ASSUME NEW s \in Session, Drop(s) PROVE Served'
  <2>1. UNCHANGED <<request, queue, cycle>>
    BY <1>9 DEF Drop, queueVars
  <2> QED
    BY <2>1, CyclesGoOn DEF Served, Ready
<1>10. ASSUME NEW s \in Session, RevokeMembership(s) PROVE Served'
  <2>1. UNCHANGED <<request, queue, cycle>>
    BY <1>10 DEF RevokeMembership, queueVars
  <2> QED
    BY <2>1, CyclesGoOn DEF Served, Ready
<1>11. ASSUME NEW s \in Session, Edit(s) PROVE Served'
  <2> DEFINE r == RoomOf[s]
             cyc == [cycle EXCEPT ![r].changed = Running(r)]
             t == [timers EXCEPT ![r] = (@ \ {"retry"}) \cup DirtyTimers]
  <2>1. r \in Room
    BY <1>11
  <2>2. cyc \in [Room -> Cycle \cup {Idle}] /\ Busy(cyc) = Busy(cycle)
    BY <2>1, EditMarks DEF Served, Ready
  <2>3. \/ cycle' = cyc /\ UNCHANGED <<request, queue>>
        \/ Enqueue({r}, "snapshot", {}, cyc, t)
    BY <1>11 DEF Edit
  <2> HIDE DEF cyc, t, r
  <2>4. CASE cycle' = cyc /\ UNCHANGED <<request, queue>>
    BY <2>2, <2>4, CyclesGoOn
  <2>5. CASE Enqueue({r}, "snapshot", {}, cyc, t)
    <3>1. {r} \in SUBSET Room /\ {} \in SUBSET Waiter
      BY <2>1
    <3> QED
      BY <2>2, <2>5, <3>1, EnqueueServes
  <2> QED
    BY <2>3, <2>4, <2>5
<1>12. ASSUME NEW r \in Room, DirtyTimerFires(r) PROVE Served'
  <2>1. PICK timer \in timers[r] \ {"empty"} :
           Enqueue({r}, "snapshot", {}, cycle, [timers EXCEPT ![r] = @ \ {timer}])
    BY <1>12 DEF DirtyTimerFires
  <2>2. {r} \in SUBSET Room /\ {} \in SUBSET Waiter /\ cycle \in [Room -> Cycle \cup {Idle}]
    BY <1>12 DEF Served, Ready
  <2> QED
    BY <2>1, <2>2, EnqueueServes
<1>13. ASSUME NEW r \in Room, EmptyTimerFires(r) PROVE Served'
  <2> DEFINE t == [timers EXCEPT ![r] = @ \ {"empty"}]
  <2>1. \/ UNCHANGED <<request, queue, cycle>>
        \/ Enqueue({r}, "drain", {"cleanup"}, cycle, t)
    BY <1>13 DEF EmptyTimerFires
  <2> HIDE DEF t
  <2>2. /\ {r} \in SUBSET Room /\ {"cleanup"} \in SUBSET Waiter
        /\ cycle \in [Room -> Cycle \cup {Idle}]
    BY <1>13 DEF Served, Ready, Waiter
  <2>3. CASE UNCHANGED <<request, queue, cycle>>
    BY <2>2, <2>3, CyclesGoOn
  <2>4. CASE Enqueue({r}, "drain", {"cleanup"}, cycle, t)
    BY <2>2, <2>4, EnqueueServes
  <2> QED
    BY <2>1, <2>3, <2>4
<1>14. ASSUME NEW r \in Room, Saves(r) PROVE Served'
  <2>1. /\ UNCHANGED <<request, queue>> /\ cycle[r].stage = "sending"
        /\ \E new \in {"sending", "yielding", "ending"} : cycle' = [cycle EXCEPT ![r].stage = new]
    BY <1>14 DEF Saves
  <2> QED
    BY <1>14, <2>1, StageServes
<1>15. ASSUME NEW r \in Room, Continues(r) PROVE Served'
  <2>1. /\ UNCHANGED <<request, queue>> /\ cycle[r].stage = "yielding"
        /\ cycle' = [cycle EXCEPT ![r].stage = "sending", ![r].changed = FALSE]
    BY <1>15 DEF Continues
  <2> QED
    BY <1>15, <2>1, StageServes
<1>16. ASSUME NEW r \in Room, Fails(r) PROVE Served'
  <2>1. /\ UNCHANGED <<request, queue>> /\ cycle[r].stage = "sending"
        /\ \E new \in {"sending", "yielding", "ending"} : cycle' = [cycle EXCEPT ![r].stage = new]
    BY <1>16 DEF Fails
  <2> QED
    BY <1>16, <2>1, StageServes
<1>17. ASSUME NEW r \in Room, EndCycle(r) PROVE Served'
  <2>1. PICK req \in {request, [request EXCEPT ![r] = NoRequest]}, cleared \in BOOLEAN :
           Pump(queue \o Requeued(r, req), req, [cycle EXCEPT ![r] = Idle],
                IF cleared THEN [timers EXCEPT ![r] = {}] ELSE timers)
    BY <1>17 DEF EndCycle
  <2>2. Running(r)
    BY <1>17, StagesMove DEF EndCycle, Served, Ready
  <2>3. Ready(queue \o Requeued(r, req), req, [cycle EXCEPT ![r] = Idle])
    BY <1>17, <2>2, EndReady
  <2> QED
    BY <2>1, <2>3, PumpServes
<1>18. CASE Close
  <2> DEFINE rooms == {r \in Room : known[r]}
  <2>1. Enqueue(rooms, "drain", {"close"}, cycle, [r \in Room |-> {}])
    BY <1>18 DEF Close
  <2>2. /\ rooms \in SUBSET Room /\ {"close"} \in SUBSET Waiter
        /\ cycle \in [Room -> Cycle \cup {Idle}]
    BY DEF Served, Ready, Waiter
  <2> QED
    BY <2>1, <2>2, EnqueueServes
<1>19. CASE Closed
  <2>1. /\ queue' = <<>> /\ request' = [r \in Room |-> NoRequest]
        /\ cycle' = [r \in Room |-> Idle]
    BY <1>19 DEF Closed
  <2> QED
    BY <2>1, EmptyReady DEF Served
<1>20. CASE UNCHANGED vars
  <2>1. UNCHANGED <<request, queue, cycle>>
    BY <1>20 DEF vars, queueVars
  <2> QED
    BY <2>1, CyclesGoOn DEF Served, Ready
<1> QED
  BY <1>1, <1>2, <1>3, <1>4, <1>5, <1>6, <1>7, <1>8, <1>8a, <1>9, <1>10, <1>11, <1>12, <1>13,
     <1>14, <1>15, <1>16, <1>17, <1>18, <1>19, <1>20 DEF Next

LEMMA ServedAlways == Spec => []Served
  BY InitServed, ServedStep, PTL DEF Spec
-----------------------------------------------------------------------------
\* What the actions that pump leave in each room

LEMMA EditEffect ==
  ASSUME Served, NEW s \in Session, Edit(s)
  PROVE  LET r   == RoomOf[s]
             cyc == [cycle EXCEPT ![r].changed = Running(r)]
             t   == [timers EXCEPT ![r] = (@ \ {"retry"}) \cup DirtyTimers]
         IN
         \/ /\ cycle' = cyc /\ UNCHANGED request
            /\ timers' = IF closing THEN timers ELSE t
         \/ /\ ~closing /\ timers' = [x \in Room |-> timers'[x]]
            /\ \A x \in Room :
                  Pumped(x, IF x = r THEN Merged(request[x], "snapshot", {}) ELSE request[x],
                         cyc[x], t[x])
<1> DEFINE r   == RoomOf[s]
           cyc == [cycle EXCEPT ![r].changed = Running(r)]
           t   == [timers EXCEPT ![r] = (@ \ {"retry"}) \cup DirtyTimers]
<1>1. r \in Room /\ {r} \in SUBSET Room /\ {} \in SUBSET Waiter
  OBVIOUS
<1>2. cyc \in [Room -> Cycle \cup {Idle}] /\ Busy(cyc) = Busy(cycle)
  BY <1>1, EditMarks DEF Served, Ready
<1>3. \/ closing /\ cycle' = cyc /\ UNCHANGED <<timers, request>>
      \/ ~closing /\ cycle' = cyc /\ timers' = t /\ UNCHANGED request
      \/ ~closing /\ Enqueue({r}, "snapshot", {}, cyc, t)
  BY DEF Edit
<1> HIDE DEF r, cyc, t
<1>4. CASE ~closing /\ Enqueue({r}, "snapshot", {}, cyc, t)
  <2>1. /\ timers' = [x \in Room |-> timers'[x]]
        /\ \A x \in Room : Pumped(x, IF x \in {r} THEN Merged(request[x], "snapshot", {})
                                                ELSE request[x], cyc[x], t[x])
    BY <1>1, <1>2, <1>4, EnqueueServes
  <2> QED
    BY <1>4, <2>1 DEF r, cyc, t
<1> QED
  BY <1>3, <1>4 DEF r, cyc, t

LEMMA FireEffect ==
  ASSUME Served, NEW r \in Room, DirtyTimerFires(r)
  PROVE  \E timer \in timers[r] \ {"empty"} :
            /\ timers' = [x \in Room |-> timers'[x]]
            /\ \A x \in Room :
                  Pumped(x, IF x = r THEN Merged(request[x], "snapshot", {}) ELSE request[x],
                         cycle[x], [timers EXCEPT ![r] = @ \ {timer}][x])
<1>1. PICK timer \in timers[r] \ {"empty"} :
         Enqueue({r}, "snapshot", {}, cycle, [timers EXCEPT ![r] = @ \ {timer}])
  BY DEF DirtyTimerFires
<1>2. {r} \in SUBSET Room /\ {} \in SUBSET Waiter /\ cycle \in [Room -> Cycle \cup {Idle}]
  BY DEF Served, Ready
<1>3. /\ timers' = [x \in Room |-> timers'[x]]
      /\ \A x \in Room : Pumped(x, IF x \in {r} THEN Merged(request[x], "snapshot", {})
                                              ELSE request[x],
                                cycle[x], [timers EXCEPT ![r] = @ \ {timer}][x])
  BY <1>1, <1>2, EnqueueServes
<1> QED
  BY <1>3

LEMMA EmptyEffect ==
  ASSUME Served, NEW r \in Room, EmptyTimerFires(r)
  PROVE  LET t == [timers EXCEPT ![r] = @ \ {"empty"}] IN
         \/ timers' = t /\ UNCHANGED <<request, cycle>>
         \/ /\ timers' = [x \in Room |-> timers'[x]]
            /\ \A x \in Room :
                  Pumped(x, IF x = r THEN Merged(request[x], "drain", {"cleanup"})
                                     ELSE request[x], cycle[x], t[x])
<1> DEFINE t == [timers EXCEPT ![r] = @ \ {"empty"}]
<1>1. \/ timers' = t /\ UNCHANGED <<request, cycle>>
      \/ Enqueue({r}, "drain", {"cleanup"}, cycle, t)
  BY DEF EmptyTimerFires
<1> HIDE DEF t
<1>2. /\ {r} \in SUBSET Room /\ {"cleanup"} \in SUBSET Waiter
      /\ cycle \in [Room -> Cycle \cup {Idle}]
  BY DEF Served, Ready, Waiter
<1>3. CASE Enqueue({r}, "drain", {"cleanup"}, cycle, t)
  <2>1. /\ timers' = [x \in Room |-> timers'[x]]
        /\ \A x \in Room : Pumped(x, IF x \in {r} THEN Merged(request[x], "drain", {"cleanup"})
                                                ELSE request[x], cycle[x], t[x])
    BY <1>2, <1>3, EnqueueServes
  <2> QED
    BY <2>1 DEF t
<1> QED
  BY <1>1, <1>3 DEF t

LEMMA CloseEffect ==
  ASSUME Served, Close
  PROVE  /\ timers' = [x \in Room |-> timers'[x]]
         /\ \A x \in Room :
               Pumped(x, IF known[x] THEN Merged(request[x], "drain", {"close"}) ELSE request[x],
                      cycle[x], {})
<1> DEFINE rooms == {r \in Room : known[r]}
           t == [r \in Room |-> {}]
<1>1. Enqueue(rooms, "drain", {"close"}, cycle, t)
  BY DEF Close
<1>2. /\ rooms \in SUBSET Room /\ {"close"} \in SUBSET Waiter
      /\ cycle \in [Room -> Cycle \cup {Idle}]
  BY DEF Served, Ready, Waiter
<1>3. /\ timers' = [x \in Room |-> timers'[x]]
      /\ \A x \in Room : Pumped(x, IF x \in rooms THEN Merged(request[x], "drain", {"close"})
                                              ELSE request[x], cycle[x], t[x])
  BY <1>1, <1>2, EnqueueServes
<1> QED
  BY <1>3

\* EndCycle forgets the room or not.
Forgets(r) ==
    /\ IsClearable(r)
    /\ "cleanup" \in cycle[r].waiters \/ ClearsEmptyRoom(r)

LEMMA EndEffect ==
  ASSUME Served, NEW r \in Room, EndCycle(r)
  PROVE  LET req == IF Forgets(r) THEN [request EXCEPT ![r] = NoRequest] ELSE request
             cyc == [cycle EXCEPT ![r] = Idle]
             t   == IF Forgets(r) THEN [timers EXCEPT ![r] = {}] ELSE timers
         IN
         /\ Running(r) /\ timers' = [x \in Room |-> timers'[x]]
         /\ \A x \in Room : Pumped(x, req[x], cyc[x], t[x])
<1> DEFINE req == IF Forgets(r) THEN [request EXCEPT ![r] = NoRequest] ELSE request
           cyc == [cycle EXCEPT ![r] = Idle]
           t   == IF Forgets(r) THEN [timers EXCEPT ![r] = {}] ELSE timers
<1>1. Pump(queue \o Requeued(r, req), req, cyc, t)
  BY DEF EndCycle, Forgets
<1>2. Running(r)
  BY StagesMove DEF EndCycle, Served, Ready
<1>3. Ready(queue \o Requeued(r, req), req, cyc)
  BY <1>2, EndReady
<1>4. timers' = [x \in Room |-> timers'[x]]
  <2> HIDE DEF req, cyc, t
  <2> QED
    BY <1>1 DEF Pump
<1>5. \A x \in Room : Pumped(x, req[x], cyc[x], t[x])
  <2> HIDE DEF req, cyc, t
  <2> QED
    BY <1>1, <1>3, PumpEffect
<1> QED
  BY <1>2, <1>4, <1>5
-----------------------------------------------------------------------------
\* Types

LEMMA InitTyped == Init => Typed
<1> SUFFICES ASSUME Init PROVE Typed
  OBVIOUS
<1>1. 0 \in 0 .. MaxEdits /\ 0 \in 0 .. MaxFaults
  OBVIOUS
<1> QED
  BY <1>1 DEF Init, Typed

\* A pump leaves timers.
LEMMA TimersTyped ==
  ASSUME timers' = [x \in Room |-> timers'[x]],
         \A x \in Room : \E old, c, t : t \subseteq Timers /\ Pumped(x, old, c, t)
  PROVE  timers' \in [Room -> SUBSET Timers]
<1>1. \A x \in Room : timers'[x] \subseteq Timers
  BY DEF Pumped
<1> QED
  BY <1>1

LEMMA TypedStep == Typed /\ Served /\ [Next]_vars => Typed'
<1> SUFFICES ASSUME Typed, Served, [Next]_vars PROVE Typed'
  OBVIOUS
<1>1. ASSUME NEW s \in Session, Join(s) PROVE Typed'
  BY <1>1 DEF Join, Move, Typed, sessionVars, roomVars, queueVars, closeVars
<1>2. ASSUME NEW s \in Session, JoinGranted(s) PROVE Typed'
  <2> DEFINE r == RoomOf[s]
  <2>1. r \in Room
    OBVIOUS
  <2>2. /\ known' \in [Room -> BOOLEAN] /\ cleanup' \in [Room -> BOOLEAN]
        /\ auth' \in [Room -> SUBSET Session] /\ participants' \in [Room -> SUBSET Session]
        /\ timers' \in [Room -> SUBSET Timers]
    <3>1. CASE closing
      BY <1>2, <3>1 DEF JoinGranted, Register, Typed, roomVars
    <3>2. CASE ~closing
      <4>1. /\ known' = [known EXCEPT ![r] = TRUE]
            /\ auth' = [auth EXCEPT ![r] = @ \cup {s}]
            /\ participants' = [participants EXCEPT ![r] = @ \cup {s}]
            /\ cleanup' = [cleanup EXCEPT ![r] = FALSE]
            /\ timers' = [timers EXCEPT ![r] = @ \ {"empty"}]
        BY <1>2, <3>2 DEF JoinGranted, Register
      <4> QED
        BY <2>1, <4>1 DEF Typed
    <3> QED
      BY <3>1, <3>2
  <2> QED
    BY <1>2, <2>2 DEF JoinGranted, Move, Typed, closeVars
<1>3. ASSUME NEW s \in Session, JoinDenied(s) PROVE Typed'
  BY <1>3 DEF JoinDenied, Move, Typed, sessionVars, roomVars, queueVars, closeVars
<1>4. ASSUME NEW s \in Session, Joined(s) PROVE Typed'
  BY <1>4 DEF Joined, Move, Typed, sessionVars, roomVars, queueVars, closeVars
<1>5. ASSUME NEW s \in Session, JoinRejected(s) PROVE Typed'
  BY <1>5 DEF JoinRejected, Move, Typed, sessionVars, roomVars, queueVars, closeVars, Unregister, Timers
<1>6. ASSUME NEW s \in Session, JoinFails(s) PROVE Typed'
  BY <1>6 DEF JoinFails, Move, Typed, sessionVars, roomVars, queueVars, closeVars, Unregister, Fault, Timers
<1>7. ASSUME NEW s \in Session, Leave(s) PROVE Typed'
  BY <1>7 DEF Leave, Move, Typed, sessionVars, roomVars, queueVars, closeVars
<1>8. ASSUME NEW s \in Session, Left(s) PROVE Typed'
  BY <1>8 DEF Left, Move, Typed, sessionVars, roomVars, queueVars, closeVars, Unregister, Timers
<1>8a. ASSUME NEW s \in Session, LeaveFails(s) PROVE Typed'
  BY <1>8a DEF LeaveFails, Move, Typed, sessionVars, roomVars, queueVars, closeVars, Fault
<1>9. ASSUME NEW s \in Session, Drop(s) PROVE Typed'
  BY <1>9 DEF Drop, Move, Typed, sessionVars, roomVars, queueVars, closeVars
<1>10. ASSUME NEW s \in Session, RevokeMembership(s) PROVE Typed'
  BY <1>10 DEF RevokeMembership, Move, Typed, sessionVars, roomVars, queueVars, closeVars
<1>11. ASSUME NEW s \in Session, Edit(s) PROVE Typed'
  <2>1. timers' \in [Room -> SUBSET Timers]
    <3> DEFINE r == RoomOf[s]
               cyc == [cycle EXCEPT ![r].changed = Running(r)]
               t == [timers EXCEPT ![r] = (@ \ {"retry"}) \cup DirtyTimers]
    <3>1. r \in Room /\ t \in [Room -> SUBSET Timers]
      BY DEF Typed, DirtyTimers, Timers
    <3> HIDE DEF t
    <3>2. \/ timers' \in {timers, t}
          \/ /\ timers' = [x \in Room |-> timers'[x]]
             /\ \A x \in Room : \E old, c : Pumped(x, old, c, t[x])
      BY <1>11, EditEffect DEF t
    <3> QED
      BY <3>1, <3>2, TimersTyped DEF Typed
  <2>2. RoomOf[s] \in Room
    OBVIOUS
  <2>3. /\ dirty' \in [Room -> BOOLEAN] /\ known' \in [Room -> BOOLEAN]
        /\ auth' \in [Room -> SUBSET Session]
    <3>1. /\ dirty' = [dirty EXCEPT ![RoomOf[s]] = TRUE]
          /\ known' \in {known, [known EXCEPT ![RoomOf[s]] = TRUE]}
          /\ auth' \in {auth, [auth EXCEPT ![RoomOf[s]] = @ \cup {s}]}
      BY <1>11 DEF Edit
    <3>2. /\ dirty \in [Room -> BOOLEAN] /\ known \in [Room -> BOOLEAN]
          /\ auth \in [Room -> SUBSET Session]
      BY DEF Typed
    <3>3. dirty' \in [Room -> BOOLEAN]
      BY <2>2, <3>1, <3>2
    <3>4. known' \in [Room -> BOOLEAN]
      BY <2>2, <3>1, <3>2
    <3>5. auth' \in [Room -> SUBSET Session]
      BY <2>2, <3>1, <3>2
    <3> QED
      BY <3>3, <3>4, <3>5
  <2>4. edits' \in 0 .. MaxEdits
    BY <1>11 DEF Edit, Typed
  <2> QED
    BY <1>11, <2>1, <2>3, <2>4 DEF Edit, Typed, sessionVars, closeVars, Fault
<1>12. ASSUME NEW r \in Room, DirtyTimerFires(r) PROVE Typed'
  <2>1. timers' \in [Room -> SUBSET Timers]
    <3>1. PICK timer \in timers[r] :
             /\ timers' = [x \in Room |-> timers'[x]]
             /\ \A x \in Room : \E old, c :
                   Pumped(x, old, c, [timers EXCEPT ![r] = @ \ {timer}][x])
      BY <1>12, FireEffect
    <3>2. \A x \in Room : [timers EXCEPT ![r] = @ \ {timer}][x] \subseteq Timers
      BY DEF Typed
    <3> QED
      BY <3>1, <3>2, TimersTyped
  <2> QED
    BY <1>12, <2>1 DEF DirtyTimerFires, Typed, sessionVars, roomVars, closeVars, Fault
<1>13. ASSUME NEW r \in Room, EmptyTimerFires(r) PROVE Typed'
  <2>1. timers' \in [Room -> SUBSET Timers]
    <3> DEFINE t == [timers EXCEPT ![r] = @ \ {"empty"}]
    <3>1. t \in [Room -> SUBSET Timers]
      BY DEF Typed
    <3> HIDE DEF t
    <3>2. \/ timers' = t
          \/ /\ timers' = [x \in Room |-> timers'[x]]
             /\ \A x \in Room : \E old, c : Pumped(x, old, c, t[x])
      BY <1>13, EmptyEffect DEF t
    <3> QED
      BY <3>1, <3>2, TimersTyped
  <2> QED
    BY <1>13, <2>1 DEF EmptyTimerFires, Typed, sessionVars, closeVars, Fault
<1>14. ASSUME NEW r \in Room, Saves(r) PROVE Typed'
  <2>1. cycle[r].changed \in BOOLEAN
    <3>1. cycle[r] \in Cycle
      BY <1>14, StagesMove DEF Saves, Served, Ready
    <3> QED
      BY <3>1 DEF Cycle
  <2>2. timers' \in [Room -> SUBSET Timers]
    BY <1>14 DEF Saves, Typed, TimersAfterSuccess, DirtyTimers, Timers
  <2> QED
    BY <1>14, <2>1, <2>2 DEF Saves, Typed, sessionVars, roomVars, closeVars
<1>15. ASSUME NEW r \in Room, Continues(r) PROVE Typed'
  BY <1>15 DEF Continues, Move, Typed, sessionVars, roomVars, queueVars, closeVars
<1>16. ASSUME NEW r \in Room, Fails(r) PROVE Typed'
  <2>1. timers' \in [Room -> SUBSET Timers]
    BY <1>16 DEF Fails, Typed, TimersAfterFailure, DirtyTimers, Timers
  <2> QED
    BY <1>16, <2>1 DEF Fails, Typed, Fault, sessionVars, roomVars, closeVars
<1>17. ASSUME NEW r \in Room, EndCycle(r) PROVE Typed'
  <2>1. timers' \in [Room -> SUBSET Timers]
    <3> DEFINE t == IF Forgets(r) THEN [timers EXCEPT ![r] = {}] ELSE timers
    <3>1. t \in [Room -> SUBSET Timers]
      BY DEF Typed
    <3> HIDE DEF t
    <3>2. /\ timers' = [x \in Room |-> timers'[x]]
          /\ \A x \in Room : \E old, c : Pumped(x, old, c, t[x])
      BY <1>17, EndEffect DEF t
    <3> QED
      BY <3>1, <3>2, TimersTyped
  <2> QED
    BY <1>17, <2>1 DEF EndCycle, Typed, sessionVars, Fault
<1>18. CASE Close
  <2>1. timers' \in [Room -> SUBSET Timers]
    <3>1. /\ timers' = [x \in Room |-> timers'[x]]
          /\ \A x \in Room : \E old, c : Pumped(x, old, c, {})
      BY <1>18, CloseEffect
    <3> QED
      BY <3>1, TimersTyped
  <2> QED
    BY <1>18, <2>1 DEF Close, Typed, sessionVars, roomVars, Fault
<1>19. CASE Closed
  BY <1>19 DEF Closed, Move, Typed, sessionVars, roomVars, queueVars, closeVars
<1>20. CASE UNCHANGED vars
  BY <1>20 DEF vars, Typed, sessionVars, roomVars, queueVars, closeVars
<1> QED
  BY <1>1, <1>2, <1>3, <1>4, <1>5, <1>6, <1>7, <1>8, <1>8a, <1>9, <1>10, <1>11, <1>12, <1>13,
     <1>14, <1>15, <1>16, <1>17, <1>18, <1>19, <1>20 DEF Next

LEMMA TypedAlways == Spec => []Typed
  BY InitTyped, TypedStep, ServedAlways, PTL DEF Spec

\* The queue and the slots.
THEOREM CheckpointsAreServed == Spec => []QueueIsServed
<1>1. Served => QueueIsServed
  <2> SUFFICES ASSUME Served PROVE QueueIsServed
    OBVIOUS
  <2>1. Queued = In(queue) /\ {r \in Room : Running(r)} = Busy(cycle)
    BY DEF Queued, In, Running, Busy
  <2>2. Len(queue) = Cardinality(Queued)
    BY <2>1, LengthIsCount DEF Served, Ready
  <2>3. Queued \subseteq Room
    <3>1. \A i \in DOMAIN queue : queue[i] \in Room
      BY LenProperties DEF Served, Ready
    <3> QED
      BY <3>1 DEF Queued
  <2> QED
    BY <2>1, <2>2, <2>3 DEF QueueIsServed, Served, Ready, Running
<1> QED
  BY ServedAlways, <1>1, PTL

\* Every variable keeps to its type, whatever the constants are.
THEOREM CanvasQueueTypeCorrect == Spec => []TypeOK
<1>1. Typed /\ Served => TypeOK
  BY DEF Typed, Served, Ready, TypeOK
<1> QED
  BY TypedAlways, ServedAlways, <1>1, PTL
-----------------------------------------------------------------------------
\* What was changed while a cycle runs is dirty

LEMMA InitChanges == Init => ChangesAreDirty
  BY DEF Init, ChangesAreDirty, Idle

\* A pump starts cycles without changes.
LEMMA PumpChanges ==
  ASSUME NEW r \in Room, NEW old, NEW c, NEW t, Pumped(r, old, c, t),
         c.changed => dirty'[r]
  PROVE  cycle'[r].changed => dirty'[r]
  BY DEF Pumped

LEMMA ChangesStep == Typed /\ Served /\ ChangesAreDirty /\ [Next]_vars => ChangesAreDirty'
<1> SUFFICES ASSUME Typed, Served, ChangesAreDirty, [Next]_vars PROVE ChangesAreDirty'
  OBVIOUS
<1>1. ASSUME NEW s \in Session, Join(s) PROVE ChangesAreDirty'
  <2>1. UNCHANGED <<dirty, cycle>>
    BY <1>1 DEF Join, queueVars
  <2> QED
    BY <2>1 DEF ChangesAreDirty
<1>2. ASSUME NEW s \in Session, JoinGranted(s) PROVE ChangesAreDirty'
  <2>1. UNCHANGED <<dirty, cycle>>
    BY <1>2 DEF JoinGranted, queueVars
  <2> QED
    BY <2>1 DEF ChangesAreDirty
<1>3. ASSUME NEW s \in Session, JoinDenied(s) PROVE ChangesAreDirty'
  <2>1. UNCHANGED <<dirty, cycle>>
    BY <1>3 DEF JoinDenied, queueVars
  <2> QED
    BY <2>1 DEF ChangesAreDirty
<1>4. ASSUME NEW s \in Session, Joined(s) PROVE ChangesAreDirty'
  <2>1. UNCHANGED <<dirty, cycle>>
    BY <1>4 DEF Joined, queueVars
  <2> QED
    BY <2>1 DEF ChangesAreDirty
<1>5. ASSUME NEW s \in Session, JoinRejected(s) PROVE ChangesAreDirty'
  <2>1. UNCHANGED <<dirty, cycle>>
    BY <1>5 DEF JoinRejected, queueVars
  <2> QED
    BY <2>1 DEF ChangesAreDirty
<1>6. ASSUME NEW s \in Session, JoinFails(s) PROVE ChangesAreDirty'
  <2>1. UNCHANGED <<dirty, cycle>>
    BY <1>6 DEF JoinFails, queueVars
  <2> QED
    BY <2>1 DEF ChangesAreDirty
<1>7. ASSUME NEW s \in Session, Leave(s) PROVE ChangesAreDirty'
  <2>1. UNCHANGED <<dirty, cycle>>
    BY <1>7 DEF Leave, queueVars
  <2> QED
    BY <2>1 DEF ChangesAreDirty
<1>8. ASSUME NEW s \in Session, Left(s) PROVE ChangesAreDirty'
  <2>1. UNCHANGED <<dirty, cycle>>
    BY <1>8 DEF Left, queueVars
  <2> QED
    BY <2>1 DEF ChangesAreDirty
<1>8a. ASSUME NEW s \in Session, LeaveFails(s) PROVE ChangesAreDirty'
  <2>1. UNCHANGED <<dirty, cycle>>
    BY <1>8a DEF LeaveFails, queueVars
  <2> QED
    BY <2>1 DEF ChangesAreDirty
<1>9. ASSUME NEW s \in Session, Drop(s) PROVE ChangesAreDirty'
  <2>1. UNCHANGED <<dirty, cycle>>
    BY <1>9 DEF Drop, queueVars
  <2> QED
    BY <2>1 DEF ChangesAreDirty
<1>10. ASSUME NEW s \in Session, RevokeMembership(s) PROVE ChangesAreDirty'
  <2>1. UNCHANGED <<dirty, cycle>>
    BY <1>10 DEF RevokeMembership, queueVars
  <2> QED
    BY <2>1 DEF ChangesAreDirty
<1>11. ASSUME NEW s \in Session, Edit(s) PROVE ChangesAreDirty'
  <2> DEFINE r   == RoomOf[s]
             cyc == [cycle EXCEPT ![r].changed = Running(r)]
  <2>1. r \in Room /\ \A x \in Room : x # r => cyc[x] = cycle[x]
    BY EditMarks DEF Served, Ready
  <2>2. dirty'[r] /\ \A x \in Room : x # r => dirty'[x] = dirty[x]
    BY <1>11 DEF Edit, Typed
  <2>3. ASSUME NEW x \in Room PROVE cyc[x].changed => dirty'[x]
    BY <2>1, <2>2 DEF ChangesAreDirty
  <2>4. \/ cycle' = cyc
        \/ \A x \in Room : \E old, t : Pumped(x, old, cyc[x], t)
    BY <1>11, EditEffect
  <2> HIDE DEF r, cyc
  <2> QED
    BY <2>3, <2>4, PumpChanges DEF ChangesAreDirty
<1>12. ASSUME NEW r \in Room, DirtyTimerFires(r) PROVE ChangesAreDirty'
  <2>1. \A x \in Room : \E old, t : Pumped(x, old, cycle[x], t)
    BY <1>12, FireEffect
  <2>2. UNCHANGED dirty
    BY <1>12 DEF DirtyTimerFires
  <2> QED
    BY <2>1, <2>2, PumpChanges DEF ChangesAreDirty
<1>13. ASSUME NEW r \in Room, EmptyTimerFires(r) PROVE ChangesAreDirty'
  <2>1. \/ UNCHANGED cycle
        \/ \A x \in Room : \E old, t : Pumped(x, old, cycle[x], t)
    BY <1>13, EmptyEffect
  <2>2. UNCHANGED dirty
    BY <1>13 DEF EmptyTimerFires
  <2> QED
    BY <2>1, <2>2, PumpChanges DEF ChangesAreDirty
<1>14. ASSUME NEW r \in Room, Saves(r) PROVE ChangesAreDirty'
  <2>1. cycle[r] \in Cycle /\ cycle \in [Room -> Cycle \cup {Idle}]
    BY <1>14, StagesMove DEF Saves, Served, Ready
  <2>2. cycle'[r].changed => cycle[r].changed
    BY <1>14, <2>1 DEF Saves, Cycle
  <2>3. \A x \in Room : x # r => cycle'[x] = cycle[x] /\ dirty'[x] = dirty[x]
    BY <1>14, <2>1 DEF Saves, Typed
  <2>4. dirty'[r] = cycle[r].changed
    BY <1>14 DEF Saves, Typed
  <2> QED
    BY <2>2, <2>3, <2>4 DEF ChangesAreDirty
<1>15. ASSUME NEW r \in Room, Continues(r) PROVE ChangesAreDirty'
  <2>1. cycle[r] \in Cycle /\ cycle \in [Room -> Cycle \cup {Idle}]
    BY <1>15, StagesMove DEF Continues, Served, Ready
  <2>2. cycle'[r].changed => FALSE
    BY <1>15, <2>1 DEF Continues, Cycle
  <2>3. \A x \in Room : x # r => cycle'[x] = cycle[x] /\ dirty'[x] = dirty[x]
    BY <1>15, <2>1 DEF Continues, Typed
  <2>4. dirty'[r] = dirty[r]
    BY <1>15 DEF Continues, Typed
  <2> QED
    BY <2>2, <2>3, <2>4 DEF ChangesAreDirty
<1>16. ASSUME NEW r \in Room, Fails(r) PROVE ChangesAreDirty'
  <2>1. cycle[r] \in Cycle /\ cycle \in [Room -> Cycle \cup {Idle}]
    BY <1>16, StagesMove DEF Fails, Served, Ready
  <2>2. cycle'[r].changed => cycle[r].changed
    BY <1>16, <2>1 DEF Fails, Cycle
  <2>3. \A x \in Room : x # r => cycle'[x] = cycle[x] /\ dirty'[x] = dirty[x]
    BY <1>16, <2>1 DEF Fails, Typed
  <2>4. dirty'[r] = dirty[r]
    BY <1>16 DEF Fails, Typed
  <2> QED
    BY <2>2, <2>3, <2>4 DEF ChangesAreDirty
<1>17. ASSUME NEW r \in Room, EndCycle(r) PROVE ChangesAreDirty'
  <2> DEFINE cyc == [cycle EXCEPT ![r] = Idle]
  <2>1. \A x \in Room : \E old, t : Pumped(x, old, cyc[x], t)
    BY <1>17, EndEffect
  <2>2. \A x \in Room : x # r => cyc[x] = cycle[x] /\ dirty'[x] = dirty[x]
    BY <1>17 DEF EndCycle, Served, Ready, Typed
  <2>3. ~cyc[r].changed
    BY DEF Served, Ready, Idle
  <2>4. ASSUME NEW x \in Room PROVE cyc[x].changed => dirty'[x]
    BY <2>2, <2>3 DEF ChangesAreDirty
  <2> HIDE DEF cyc
  <2> QED
    BY <2>1, <2>4, PumpChanges DEF ChangesAreDirty
<1>18. CASE Close
  <2>1. \A x \in Room : \E old, t : Pumped(x, old, cycle[x], t)
    BY <1>18, CloseEffect
  <2>2. UNCHANGED dirty
    BY <1>18 DEF Close
  <2> QED
    BY <2>1, <2>2, PumpChanges DEF ChangesAreDirty
<1>19. CASE Closed
  BY <1>19 DEF Closed, ChangesAreDirty, Idle
<1>20. CASE UNCHANGED vars
  BY <1>20 DEF vars, ChangesAreDirty, queueVars
<1> QED
  BY <1>1, <1>2, <1>3, <1>4, <1>5, <1>6, <1>7, <1>8, <1>8a, <1>9, <1>10, <1>11, <1>12, <1>13,
     <1>14, <1>15, <1>16, <1>17, <1>18, <1>19, <1>20 DEF Next

LEMMA ChangesAlways == Spec => []ChangesAreDirty
  BY InitChanges, ChangesStep, TypedAlways, ServedAlways, PTL DEF Spec
-----------------------------------------------------------------------------
\* Dirty rooms

LEMMA InitTokens == Init => TokensStay
  BY DEF Init, TokensStay

LEMMA TokensStep == Typed /\ ChangesAreDirty /\ TokensStay /\ [Next]_vars => TokensStay'
<1> SUFFICES ASSUME Typed, ChangesAreDirty, TokensStay, [Next]_vars PROVE TokensStay'
  OBVIOUS
<1>1. ASSUME NEW s \in Session, Join(s) PROVE TokensStay'
  <2>1. UNCHANGED <<revoked, dirty, known, auth, closing>>
    BY <1>1 DEF Join, sessionVars, roomVars, closeVars
  <2> QED
    BY <2>1 DEF TokensStay, Spared
<1>2. ASSUME NEW s \in Session, JoinGranted(s) PROVE TokensStay'
  <2> DEFINE r == RoomOf[s]
  <2>1. UNCHANGED <<revoked, closing>> /\ r \in Room
    BY <1>2 DEF JoinGranted, sessionVars, closeVars
  <2>2. \/ closing /\ UNCHANGED <<known, auth>>
        \/ ~closing /\ known' = [known EXCEPT ![r] = TRUE] /\ auth' = [auth EXCEPT ![r] = @ \cup {s}]
    BY <1>2 DEF JoinGranted, Register, roomVars
  <2>3. \A x \in Room : x # r => dirty'[x] = dirty[x]
    BY <1>2 DEF JoinGranted, Typed
  <2>4. closing => \A x \in Room : known'[x] = known[x] /\ auth'[x] = auth[x]
    BY <2>2
  <2>5. ~closing => /\ known'[r] /\ auth'[r] # {}
                    /\ \A x \in Room : x # r => known'[x] = known[x] /\ auth'[x] = auth[x]
    BY <2>1, <2>2 DEF Typed
  <2> HIDE DEF r
  <2> QED
    BY <2>1, <2>3, <2>4, <2>5 DEF TokensStay, Spared
<1>3. ASSUME NEW s \in Session, JoinDenied(s) PROVE TokensStay'
  <2>1. UNCHANGED <<revoked, dirty, known, auth, closing>>
    BY <1>3 DEF JoinDenied, sessionVars, roomVars, closeVars
  <2> QED
    BY <2>1 DEF TokensStay, Spared
<1>4. ASSUME NEW s \in Session, Joined(s) PROVE TokensStay'
  <2>1. UNCHANGED <<revoked, dirty, known, auth, closing>>
    BY <1>4 DEF Joined, sessionVars, roomVars, closeVars
  <2> QED
    BY <2>1 DEF TokensStay, Spared
<1>5. ASSUME NEW s \in Session, JoinRejected(s) PROVE TokensStay'
  <2>1. s \in revoked /\ UNCHANGED <<revoked, dirty, known, closing>>
    BY <1>5 DEF JoinRejected, Unregister, closeVars
  <2>2. ASSUME NEW r \in Room, Spared(r)' PROVE Spared(r) /\ auth'[r] = auth[r]
    <3>1. RoomOf[s] # r /\ Spared(r)
      BY <2>1, <2>2 DEF Spared
    <3>2. auth' = [auth EXCEPT ![RoomOf[s]] = @ \ {s}]
      BY <1>5 DEF JoinRejected
    <3> QED
      BY <3>1, <3>2 DEF Typed
  <2> QED
    BY <2>1, <2>2 DEF TokensStay
<1>6. ASSUME NEW s \in Session, JoinFails(s) PROVE TokensStay'
  <2>1. UNCHANGED <<revoked, dirty, known, auth, closing>>
    BY <1>6 DEF JoinFails, sessionVars, roomVars, closeVars, Unregister
  <2> QED
    BY <2>1 DEF TokensStay, Spared
<1>7. ASSUME NEW s \in Session, Leave(s) PROVE TokensStay'
  <2>1. UNCHANGED <<revoked, dirty, known, auth, closing>>
    BY <1>7 DEF Leave, sessionVars, roomVars, closeVars
  <2> QED
    BY <2>1 DEF TokensStay, Spared
<1>8. ASSUME NEW s \in Session, Left(s) PROVE TokensStay'
  <2>1. UNCHANGED <<revoked, dirty, known, auth, closing>>
    BY <1>8 DEF Left, sessionVars, roomVars, closeVars, Unregister
  <2> QED
    BY <2>1 DEF TokensStay, Spared
<1>8a. ASSUME NEW s \in Session, LeaveFails(s) PROVE TokensStay'
  <2>1. UNCHANGED <<revoked, dirty, known, auth, closing>>
    BY <1>8a DEF LeaveFails, sessionVars, roomVars, closeVars
  <2> QED
    BY <2>1 DEF TokensStay, Spared
<1>9. ASSUME NEW s \in Session, Drop(s) PROVE TokensStay'
  <2>1. UNCHANGED <<revoked, dirty, known, auth, closing>>
    BY <1>9 DEF Drop, sessionVars, roomVars, closeVars
  <2> QED
    BY <2>1 DEF TokensStay, Spared
<1>10. ASSUME NEW s \in Session, RevokeMembership(s) PROVE TokensStay'
  <2>1. revoked' = revoked \cup {s} /\ UNCHANGED <<dirty, known, closing>>
    BY <1>10 DEF RevokeMembership, closeVars
  <2>2. ASSUME NEW r \in Room, Spared(r)' PROVE Spared(r) /\ auth'[r] = auth[r]
    <3>1. RoomOf[s] # r /\ Spared(r)
      BY <2>1, <2>2 DEF Spared
    <3>2. auth' \in {auth, [auth EXCEPT ![RoomOf[s]] = @ \ {s}]}
      BY <1>10 DEF RevokeMembership
    <3> QED
      BY <3>1, <3>2 DEF Typed
  <2> QED
    BY <2>1, <2>2 DEF TokensStay
<1>11. ASSUME NEW s \in Session, Edit(s) PROVE TokensStay'
  <2> DEFINE r == RoomOf[s]
  <2>1. UNCHANGED <<revoked, closing>> /\ r \in Room
    BY <1>11 DEF Edit, sessionVars, closeVars
  <2>2. \/ closing /\ UNCHANGED <<known, auth>>
        \/ ~closing /\ known' = [known EXCEPT ![r] = TRUE] /\ auth' = [auth EXCEPT ![r] = @ \cup {s}]
    BY <1>11 DEF Edit, roomVars
  <2>3. \A x \in Room : x # r => dirty'[x] = dirty[x]
    BY <1>11 DEF Edit, Typed
  <2>4. closing => \A x \in Room : known'[x] = known[x] /\ auth'[x] = auth[x]
    BY <2>2
  <2>5. ~closing => /\ known'[r] /\ auth'[r] # {}
                    /\ \A x \in Room : x # r => known'[x] = known[x] /\ auth'[x] = auth[x]
    BY <2>1, <2>2 DEF Typed
  <2> HIDE DEF r
  <2> QED
    BY <2>1, <2>3, <2>4, <2>5 DEF TokensStay, Spared
<1>12. ASSUME NEW r \in Room, DirtyTimerFires(r) PROVE TokensStay'
  <2>1. UNCHANGED <<revoked, dirty, known, auth, closing>>
    BY <1>12 DEF DirtyTimerFires, sessionVars, roomVars, closeVars
  <2> QED
    BY <2>1 DEF TokensStay, Spared
<1>13. ASSUME NEW r \in Room, EmptyTimerFires(r) PROVE TokensStay'
  <2>1. UNCHANGED <<revoked, dirty, known, auth, closing>>
    BY <1>13 DEF EmptyTimerFires, sessionVars, roomVars, closeVars
  <2> QED
    BY <2>1 DEF TokensStay, Spared
<1>14. ASSUME NEW r \in Room, Saves(r) PROVE TokensStay'
  <2>1. UNCHANGED <<revoked, known, auth, closing>>
    BY <1>14 DEF Saves, sessionVars, roomVars, closeVars
  <2>2. \A x \in Room : dirty'[x] => dirty[x]
    BY <1>14 DEF Saves, ChangesAreDirty, Typed
  <2> QED
    BY <2>1, <2>2 DEF TokensStay, Spared
<1>15. ASSUME NEW r \in Room, Continues(r) PROVE TokensStay'
  <2>1. UNCHANGED <<revoked, dirty, known, auth, closing>>
    BY <1>15 DEF Continues, sessionVars, roomVars, closeVars
  <2> QED
    BY <2>1 DEF TokensStay, Spared
<1>16. ASSUME NEW r \in Room, Fails(r) PROVE TokensStay'
  <2>1. UNCHANGED <<revoked, dirty, known, auth, closing>>
    BY <1>16 DEF Fails, sessionVars, roomVars, closeVars
  <2> QED
    BY <2>1 DEF TokensStay, Spared
<1>17. ASSUME NEW r \in Room, EndCycle(r) PROVE TokensStay'
  <2>1. UNCHANGED <<revoked, closing>>
    BY <1>17 DEF EndCycle, sessionVars
  <2>2. /\ known' = [known EXCEPT ![r] = @ /\ ~Forgets(r)]
        /\ dirty' = [dirty EXCEPT ![r] = @ /\ ~Forgets(r)]
        /\ auth' = IF Forgets(r) THEN [auth EXCEPT ![r] = {}] ELSE auth
    BY <1>17 DEF EndCycle, Forgets
  <2>3. ASSUME NEW x \in Room
        PROVE  /\ known'[x] => known[x] /\ auth'[x] = auth[x]
               /\ dirty'[x] => dirty[x] /\ known'[x] = known[x]
    BY <2>2 DEF Typed
  <2> QED
    BY <2>1, <2>3 DEF TokensStay, Spared
<1>18. CASE Close
  BY <1>18 DEF Close, TokensStay, Spared, sessionVars, roomVars
<1>19. CASE Closed
  BY <1>19 DEF Closed, TokensStay, Spared
<1>20. CASE UNCHANGED vars
  BY <1>20 DEF vars, TokensStay, Spared, sessionVars, roomVars, closeVars
<1> QED
  BY <1>1, <1>2, <1>3, <1>4, <1>5, <1>6, <1>7, <1>8, <1>8a, <1>9, <1>10, <1>11, <1>12, <1>13,
     <1>14, <1>15, <1>16, <1>17, <1>18, <1>19, <1>20 DEF Next

LEMMA TokensAlways == Spec => []TokensStay
  BY InitTokens, TokensStep, TypedAlways, ChangesAlways, PTL DEF Spec

\* A pump takes the schedule of a dirty room over into its cycle.
IsScheduled(req, c, t) ==
    \/ t \cap (DirtyTimers \cup {"retry"}) # {}
    \/ req # NoRequest
    \/ c.stage \in {"sending", "yielding"}

LEMMA PumpSchedules ==
  ASSUME NEW r \in Room, known'[r], auth'[r] # {}, dirty'[r],
         NEW old, NEW c, NEW t, Pumped(r, old, c, t), IsScheduled(old, c, t)
  PROVE  IsScheduled(request'[r], cycle'[r], timers'[r])
  BY DEF Pumped, IsScheduled

LEMMA ScheduledStep ==
  Typed /\ Served /\ TokensStay /\ TokensStay' /\ DirtyIsScheduled /\ [Next]_vars
  => DirtyIsScheduled'
<1> SUFFICES ASSUME Typed, Served, TokensStay, TokensStay', DirtyIsScheduled, [Next]_vars,
                    NEW x \in Room, dirty'[x], ~closing', Spared(x)'
             PROVE  IsScheduled(request'[x], cycle'[x], timers'[x])
  BY DEF DirtyIsScheduled, IsScheduled, Spared
<1>known. known'[x] /\ auth'[x] # {}
  BY DEF TokensStay
<1>before. dirty[x] /\ ~closing /\ Spared(x) => IsScheduled(request[x], cycle[x], timers[x])
  BY DEF DirtyIsScheduled, IsScheduled, Spared
<1>1. ASSUME NEW s \in Session, Join(s) PROVE IsScheduled(request'[x], cycle'[x], timers'[x])
  <2>1. UNCHANGED <<revoked, dirty, closing, request, cycle, timers>>
    BY <1>1 DEF Join, queueVars, closeVars
  <2> QED
    BY <2>1, <1>before DEF Spared
<1>2. ASSUME NEW s \in Session, JoinGranted(s) PROVE IsScheduled(request'[x], cycle'[x], timers'[x])
  <2>1. UNCHANGED <<revoked, dirty, closing, request, cycle>>
    BY <1>2 DEF JoinGranted, closeVars
  <2>2. timers'[x] \cap (DirtyTimers \cup {"retry"}) = timers[x] \cap (DirtyTimers \cup {"retry"})
    BY <1>2 DEF JoinGranted, Register, Typed, DirtyTimers
  <2> QED
    BY <2>1, <2>2, <1>before DEF IsScheduled, Spared
<1>3. ASSUME NEW s \in Session, JoinDenied(s) PROVE IsScheduled(request'[x], cycle'[x], timers'[x])
  <2>1. UNCHANGED <<revoked, dirty, closing, request, cycle, timers>>
    BY <1>3 DEF JoinDenied, queueVars, closeVars
  <2> QED
    BY <2>1, <1>before DEF Spared
<1>4. ASSUME NEW s \in Session, Joined(s) PROVE IsScheduled(request'[x], cycle'[x], timers'[x])
  <2>1. UNCHANGED <<revoked, dirty, closing, request, cycle, timers>>
    BY <1>4 DEF Joined, queueVars, closeVars
  <2> QED
    BY <2>1, <1>before DEF Spared
<1>5. ASSUME NEW s \in Session, JoinRejected(s) PROVE IsScheduled(request'[x], cycle'[x], timers'[x])
  <2>1. UNCHANGED <<revoked, dirty, closing, request, cycle>>
    BY <1>5 DEF JoinRejected, closeVars
  <2>2. timers'[x] \cap (DirtyTimers \cup {"retry"}) = timers[x] \cap (DirtyTimers \cup {"retry"})
    BY <1>5 DEF JoinRejected, Unregister, Typed, DirtyTimers
  <2> QED
    BY <2>1, <2>2, <1>before DEF IsScheduled, Spared
<1>6. ASSUME NEW s \in Session, JoinFails(s) PROVE IsScheduled(request'[x], cycle'[x], timers'[x])
  <2>1. UNCHANGED <<revoked, dirty, closing, request, cycle>>
    BY <1>6 DEF JoinFails, closeVars
  <2>2. timers'[x] \cap (DirtyTimers \cup {"retry"}) = timers[x] \cap (DirtyTimers \cup {"retry"})
    BY <1>6 DEF JoinFails, Unregister, Typed, DirtyTimers
  <2> QED
    BY <2>1, <2>2, <1>before DEF IsScheduled, Spared
<1>7. ASSUME NEW s \in Session, Leave(s) PROVE IsScheduled(request'[x], cycle'[x], timers'[x])
  <2>1. UNCHANGED <<revoked, dirty, closing, request, cycle, timers>>
    BY <1>7 DEF Leave, queueVars, closeVars
  <2> QED
    BY <2>1, <1>before DEF Spared
<1>8. ASSUME NEW s \in Session, Left(s) PROVE IsScheduled(request'[x], cycle'[x], timers'[x])
  <2>1. UNCHANGED <<revoked, dirty, closing, request, cycle>>
    BY <1>8 DEF Left, closeVars
  <2>2. timers'[x] \cap (DirtyTimers \cup {"retry"}) = timers[x] \cap (DirtyTimers \cup {"retry"})
    BY <1>8 DEF Left, Unregister, Typed, DirtyTimers
  <2> QED
    BY <2>1, <2>2, <1>before DEF IsScheduled, Spared
<1>8a. ASSUME NEW s \in Session, LeaveFails(s) PROVE IsScheduled(request'[x], cycle'[x], timers'[x])
  <2>1. UNCHANGED <<revoked, dirty, closing, request, cycle, timers>>
    BY <1>8a DEF LeaveFails, queueVars, closeVars
  <2> QED
    BY <2>1, <1>before DEF Spared
<1>9. ASSUME NEW s \in Session, Drop(s) PROVE IsScheduled(request'[x], cycle'[x], timers'[x])
  <2>1. UNCHANGED <<revoked, dirty, closing, request, cycle, timers>>
    BY <1>9 DEF Drop, queueVars, closeVars
  <2> QED
    BY <2>1, <1>before DEF Spared
<1>10. ASSUME NEW s \in Session, RevokeMembership(s) PROVE IsScheduled(request'[x], cycle'[x], timers'[x])
  <2>1. UNCHANGED <<dirty, closing, request, cycle, timers>> /\ revoked \subseteq revoked'
    BY <1>10 DEF RevokeMembership, queueVars, closeVars
  <2> QED
    BY <2>1, <1>before DEF Spared
<1>11. ASSUME NEW s \in Session, Edit(s) PROVE IsScheduled(request'[x], cycle'[x], timers'[x])
  <2> DEFINE r   == RoomOf[s]
             cyc == [cycle EXCEPT ![r].changed = Running(r)]
             t   == [timers EXCEPT ![r] = (@ \ {"retry"}) \cup DirtyTimers]
             old == IF x = r THEN Merged(request[x], "snapshot", {}) ELSE request[x]
  <2>1. UNCHANGED <<revoked, closing>> /\ r \in Room
    BY <1>11 DEF Edit, sessionVars, closeVars
  <2>2. x # r => dirty[x]
    BY <1>11, <2>1 DEF Edit, Typed
  <2>3. t[x] = IF x = r THEN (timers[x] \ {"retry"}) \cup DirtyTimers ELSE timers[x]
    BY DEF Typed
  <2>4. cyc[x].stage = cycle[x].stage
    BY <2>1, EditMarks DEF Served, Ready
  <2>5. x = r => IsScheduled(old, cyc[x], t[x]) /\ IsScheduled(request[x], cyc[x], t[x])
    BY <2>3 DEF IsScheduled, DirtyTimers
  <2>6. x # r => IsScheduled(old, cyc[x], t[x]) /\ IsScheduled(request[x], cyc[x], t[x])
    BY <2>1, <2>2, <2>3, <2>4, <1>before DEF IsScheduled, Spared
  <2>7. \/ cycle' = cyc /\ UNCHANGED request /\ timers' = t
        \/ Pumped(x, old, cyc[x], t[x])
    BY <1>11, <2>1, EditEffect
  <2> HIDE DEF r, cyc, t, old
  <2> QED
    BY <2>5, <2>6, <2>7, <1>known, PumpSchedules
<1>12. ASSUME NEW r \in Room, DirtyTimerFires(r) PROVE IsScheduled(request'[x], cycle'[x], timers'[x])
  <2>1. PICK timer \in timers[r] \ {"empty"} :
           Pumped(x, IF x = r THEN Merged(request[x], "snapshot", {}) ELSE request[x],
                  cycle[x], [timers EXCEPT ![r] = @ \ {timer}][x])
    BY <1>12, FireEffect
  <2>2. UNCHANGED <<revoked, dirty, closing>>
    BY <1>12 DEF DirtyTimerFires, sessionVars, closeVars
  <2>3. request[x] \in Request \cup {NoRequest}
    BY DEF Served, Ready
  <2>4. x = r => Merged(request[x], "snapshot", {}) # NoRequest
    BY <2>3, MergedTyped
  <2>5. IsScheduled(IF x = r THEN Merged(request[x], "snapshot", {}) ELSE request[x],
                    cycle[x], [timers EXCEPT ![r] = @ \ {timer}][x])
    BY <2>2, <2>4, <1>before DEF IsScheduled, Spared, Typed
  <2> QED
    BY <2>1, <2>5, <1>known, PumpSchedules
<1>13. ASSUME NEW r \in Room, EmptyTimerFires(r) PROVE IsScheduled(request'[x], cycle'[x], timers'[x])
  <2> DEFINE t == [timers EXCEPT ![r] = @ \ {"empty"}]
             old == IF x = r THEN Merged(request[x], "drain", {"cleanup"}) ELSE request[x]
  <2>1. \/ timers' = t /\ UNCHANGED <<request, cycle>>
        \/ Pumped(x, old, cycle[x], t[x])
    BY <1>13, EmptyEffect
  <2>2. UNCHANGED <<revoked, dirty, closing>>
    BY <1>13 DEF EmptyTimerFires, sessionVars, closeVars
  <2>3. request[x] \in Request \cup {NoRequest}
    BY DEF Served, Ready
  <2>4. x = r => old # NoRequest
    BY <2>3, MergedTyped DEF Waiter
  <2>5. t[x] \cap (DirtyTimers \cup {"retry"}) = timers[x] \cap (DirtyTimers \cup {"retry"})
    BY DEF Typed, DirtyTimers
  <2>6. IsScheduled(old, cycle[x], t[x]) /\ IsScheduled(request[x], cycle[x], t[x])
    BY <2>2, <2>4, <2>5, <1>before DEF IsScheduled, Spared
  <2> HIDE DEF t, old
  <2> QED
    BY <2>1, <2>6, <1>known, PumpSchedules
<1>14. ASSUME NEW r \in Room, Saves(r) PROVE IsScheduled(request'[x], cycle'[x], timers'[x])
  <2>1. UNCHANGED <<revoked, closing, request>> /\ r \in Room /\ cycle[r].stage = "sending"
    BY <1>14 DEF Saves, sessionVars, closeVars
  <2>2. CASE x = r
    <3>1. cycle[r].changed
      BY <1>14, <2>2 DEF Saves, Typed
    <3>2. CASE DrainsOn(r)
      <4>1. cycle' = [cycle EXCEPT ![r].stage = "yielding"]
        BY <1>14, <3>2 DEF Saves
      <4>2. cycle'[r].stage = "yielding"
        <5>1. cycle[r] \in Cycle /\ r \in DOMAIN cycle
          BY <2>1, StagesMove DEF Served, Ready
        <5> QED
          BY <4>1, <5>1 DEF Cycle
      <4> QED
        BY <2>2, <4>2 DEF IsScheduled
    <3>3. CASE ~DrainsOn(r)
      <4>1. timers'[r] = TimersAfterSuccess(r)
        BY <1>14, <3>3 DEF Saves, Typed
      <4>2. DirtyTimers \subseteq TimersAfterSuccess(r)
        BY <2>1, <3>1 DEF TimersAfterSuccess
      <4> QED
        BY <2>2, <4>1, <4>2 DEF IsScheduled, DirtyTimers
    <3> QED
      BY <3>2, <3>3
  <2>3. CASE x # r
    <3>1. dirty[x] /\ cycle'[x] = cycle[x] /\ timers'[x] = timers[x]
      BY <1>14, <2>3 DEF Saves, Typed, Served, Ready
    <3> QED
      BY <2>1, <3>1, <1>before DEF Spared
  <2> QED
    BY <2>2, <2>3
<1>15. ASSUME NEW r \in Room, Continues(r) PROVE IsScheduled(request'[x], cycle'[x], timers'[x])
  <2>1. UNCHANGED <<revoked, dirty, closing, request, timers>>
    BY <1>15 DEF Continues, sessionVars, closeVars
  <2>2. cycle'[x].stage = "sending" \/ cycle'[x] = cycle[x]
    BY <1>15 DEF Continues, Served, Ready
  <2> QED
    BY <2>1, <2>2, <1>before DEF IsScheduled, Spared
<1>16. ASSUME NEW r \in Room, Fails(r) PROVE IsScheduled(request'[x], cycle'[x], timers'[x])
  <2>1. UNCHANGED <<revoked, dirty, closing, request>>
    BY <1>16 DEF Fails, sessionVars, closeVars
  <2>2. CASE x = r
    <3>1. timers'[x] = (timers[x] \ DirtyTimers) \cup {"retry"}
      BY <1>16, <2>1, <2>2 DEF Fails, TimersAfterFailure, Typed
    <3> QED
      BY <3>1 DEF IsScheduled
  <2>3. CASE x # r
    <3>1. cycle'[x] = cycle[x] /\ timers'[x] = timers[x]
      BY <1>16, <2>3 DEF Fails, Typed, Served, Ready
    <3> QED
      BY <2>1, <3>1, <1>before DEF Spared
  <2> QED
    BY <2>2, <2>3
<1>17. ASSUME NEW r \in Room, EndCycle(r) PROVE IsScheduled(request'[x], cycle'[x], timers'[x])
  <2> DEFINE req == IF Forgets(r) THEN [request EXCEPT ![r] = NoRequest] ELSE request
             cyc == [cycle EXCEPT ![r] = Idle]
             t   == IF Forgets(r) THEN [timers EXCEPT ![r] = {}] ELSE timers
  <2>1. Pumped(x, req[x], cyc[x], t[x])
    BY <1>17, EndEffect
  <2>2. UNCHANGED <<revoked, closing>> /\ cycle[r].stage = "ending"
    BY <1>17 DEF EndCycle, sessionVars
  <2>3. dirty[x] /\ (x = r => ~Forgets(r))
    BY <1>17 DEF EndCycle, Forgets, Typed
  <2>4. req[x] = request[x] /\ t[x] = timers[x]
    BY <2>3 DEF Served, Ready, Typed
  <2>5. cyc[x] = cycle[x] \/ cycle[x].stage = "ending"
    BY <2>2 DEF Served, Ready
  <2> HIDE DEF req, cyc, t
  <2>6. IsScheduled(req[x], cyc[x], t[x])
    BY <2>2, <2>3, <2>4, <2>5, <1>before DEF IsScheduled, Spared
  <2> QED
    BY <2>1, <2>6, <1>known, PumpSchedules
<1>18. CASE Close
  BY <1>18 DEF Close
<1>19. CASE Closed
  BY <1>19 DEF Closed, closeVars
<1>20. CASE UNCHANGED vars
  <2>1. UNCHANGED <<revoked, dirty, closing, request, cycle, timers>>
    BY <1>20 DEF vars, sessionVars, queueVars, closeVars
  <2> QED
    BY <2>1, <1>before DEF Spared
<1> QED
  BY <1>1, <1>2, <1>3, <1>4, <1>5, <1>6, <1>7, <1>8, <1>8a, <1>9, <1>10, <1>11, <1>12, <1>13,
     <1>14, <1>15, <1>16, <1>17, <1>18, <1>19, <1>20 DEF Next

\* A dirty room always has a timer, a request or a cycle that will save it.
THEOREM DirtyStaysScheduled == Spec => []DirtyIsScheduled
<1>1. Init => DirtyIsScheduled
  BY DEF Init, DirtyIsScheduled
<1> QED
  BY <1>1, ScheduledStep, TypedAlways, ServedAlways, TokensAlways, PTL DEF Spec
-----------------------------------------------------------------------------
\* Drains

LEMMA InitDrains == Init => DrainsAreKept
  BY DEF Init, DrainsAreKept, DrainIsKept, NoRequest, Idle

\* A drain that is started has a token, and ends at once only when its room is
\* saved.
LEMMA PumpDrains ==
  ASSUME NEW r \in Room, TokensStay', dirty'[r] \in BOOLEAN,
         NEW old, NEW c, NEW t, Pumped(r, old, c, t),
         "close" \in old.waiters => known'[r] /\ old.mode = "drain",
         "close" \in c.waiters =>
            /\ known'[r] /\ c.mode = "drain"
            /\ c.stage = "ending" /\ faults' = 0 /\ Spared(r)' => ~dirty'[r]
  PROVE  DrainIsKept(r)'
<1>1. CASE request'[r] = old /\ cycle'[r] = c
  BY <1>1 DEF DrainIsKept
<1>2. CASE /\ request'[r] = NoRequest
           /\ cycle'[r] = [mode |-> old.mode, waiters |-> old.waiters, changed |-> FALSE,
                           stage |-> IF known'[r] /\ auth'[r] # {} /\ dirty'[r]
                                       THEN "sending" ELSE "ending"]
  <2>1. "close" \notin request'[r].waiters
    BY <1>2 DEF NoRequest
  <2>2. cycle'[r].waiters = old.waiters /\ cycle'[r].mode = old.mode
    BY <1>2
  <2>3. cycle'[r].stage = "ending" => ~(known'[r] /\ auth'[r] # {} /\ dirty'[r])
    BY <1>2
  <2>4. Spared(r)' /\ known'[r] => auth'[r] # {}
    BY DEF TokensStay
  <2> QED
    BY <2>1, <2>2, <2>3, <2>4 DEF DrainIsKept
<1> QED
  BY <1>1, <1>2 DEF Pumped

\* A request that joins a drain leaves it a drain.
LEMMA MergedDrains ==
  ASSUME NEW old, NEW mode, NEW waiters, NEW P,
         "close" \in old.waiters => P /\ old.mode = "drain",
         "close" \in waiters => P /\ mode = "drain"
  PROVE  "close" \in Merged(old, mode, waiters).waiters =>
            P /\ Merged(old, mode, waiters).mode = "drain"
  BY DEF Merged

LEMMA DrainsStep ==
  Typed /\ Typed' /\ Served /\ TokensStay' /\ DrainsAreKept /\ [Next]_vars => DrainsAreKept'
<1> SUFFICES ASSUME Typed, Typed', Served, TokensStay', DrainsAreKept, [Next]_vars
             PROVE  DrainsAreKept'
  OBVIOUS
<1>before. \A x \in Room : DrainIsKept(x)
  BY DEF DrainsAreKept
<1>dirty. \A x \in Room : dirty'[x] \in BOOLEAN
  BY DEF Typed
<1>1. ASSUME NEW s \in Session, Join(s) PROVE DrainsAreKept'
  <2>1. /\ UNCHANGED <<dirty, closing, awaited, request, cycle>> /\ revoked \subseteq revoked'
        /\ faults' = 0 => faults = 0
        /\ \A x \in Room : known[x] => known'[x]
    BY <1>1 DEF Join, Typed, sessionVars, roomVars, queueVars, closeVars
  <2> QED
    BY <2>1, <1>before DEF DrainsAreKept, DrainIsKept, Spared
<1>2. ASSUME NEW s \in Session, JoinGranted(s) PROVE DrainsAreKept'
  <2>1. /\ UNCHANGED <<dirty, closing, awaited, request, cycle>> /\ revoked \subseteq revoked'
        /\ faults' = 0 => faults = 0
        /\ \A x \in Room : known[x] => known'[x]
    BY <1>2 DEF JoinGranted, Typed, sessionVars, roomVars, queueVars, closeVars, Register
  <2> QED
    BY <2>1, <1>before DEF DrainsAreKept, DrainIsKept, Spared
<1>3. ASSUME NEW s \in Session, JoinDenied(s) PROVE DrainsAreKept'
  <2>1. /\ UNCHANGED <<dirty, closing, awaited, request, cycle>> /\ revoked \subseteq revoked'
        /\ faults' = 0 => faults = 0
        /\ \A x \in Room : known[x] => known'[x]
    BY <1>3 DEF JoinDenied, Typed, sessionVars, roomVars, queueVars, closeVars
  <2> QED
    BY <2>1, <1>before DEF DrainsAreKept, DrainIsKept, Spared
<1>4. ASSUME NEW s \in Session, Joined(s) PROVE DrainsAreKept'
  <2>1. /\ UNCHANGED <<dirty, closing, awaited, request, cycle>> /\ revoked \subseteq revoked'
        /\ faults' = 0 => faults = 0
        /\ \A x \in Room : known[x] => known'[x]
    BY <1>4 DEF Joined, Typed, sessionVars, roomVars, queueVars, closeVars
  <2> QED
    BY <2>1, <1>before DEF DrainsAreKept, DrainIsKept, Spared
<1>5. ASSUME NEW s \in Session, JoinRejected(s) PROVE DrainsAreKept'
  <2>1. /\ UNCHANGED <<dirty, closing, awaited, request, cycle>> /\ revoked \subseteq revoked'
        /\ faults' = 0 => faults = 0
        /\ \A x \in Room : known[x] => known'[x]
    BY <1>5 DEF JoinRejected, Typed, sessionVars, roomVars, queueVars, closeVars, Unregister
  <2> QED
    BY <2>1, <1>before DEF DrainsAreKept, DrainIsKept, Spared
<1>6. ASSUME NEW s \in Session, JoinFails(s) PROVE DrainsAreKept'
  <2>1. /\ UNCHANGED <<dirty, closing, awaited, request, cycle>> /\ revoked \subseteq revoked'
        /\ faults' = 0 => faults = 0
        /\ \A x \in Room : known[x] => known'[x]
    BY <1>6 DEF JoinFails, Typed, sessionVars, roomVars, queueVars, closeVars, Unregister, Fault
  <2> QED
    BY <2>1, <1>before DEF DrainsAreKept, DrainIsKept, Spared
<1>7. ASSUME NEW s \in Session, Leave(s) PROVE DrainsAreKept'
  <2>1. /\ UNCHANGED <<dirty, closing, awaited, request, cycle>> /\ revoked \subseteq revoked'
        /\ faults' = 0 => faults = 0
        /\ \A x \in Room : known[x] => known'[x]
    BY <1>7 DEF Leave, Typed, sessionVars, roomVars, queueVars, closeVars
  <2> QED
    BY <2>1, <1>before DEF DrainsAreKept, DrainIsKept, Spared
<1>8. ASSUME NEW s \in Session, Left(s) PROVE DrainsAreKept'
  <2>1. /\ UNCHANGED <<dirty, closing, awaited, request, cycle>> /\ revoked \subseteq revoked'
        /\ faults' = 0 => faults = 0
        /\ \A x \in Room : known[x] => known'[x]
    BY <1>8 DEF Left, Typed, sessionVars, roomVars, queueVars, closeVars, Unregister
  <2> QED
    BY <2>1, <1>before DEF DrainsAreKept, DrainIsKept, Spared
<1>8a. ASSUME NEW s \in Session, LeaveFails(s) PROVE DrainsAreKept'
  <2>1. /\ UNCHANGED <<dirty, closing, awaited, request, cycle>> /\ revoked \subseteq revoked'
        /\ faults' = 0 => faults = 0
        /\ \A x \in Room : known[x] => known'[x]
    BY <1>8a DEF LeaveFails, Typed, sessionVars, roomVars, queueVars, closeVars, Fault
  <2> QED
    BY <2>1, <1>before DEF DrainsAreKept, DrainIsKept, Spared
<1>9. ASSUME NEW s \in Session, Drop(s) PROVE DrainsAreKept'
  <2>1. /\ UNCHANGED <<dirty, closing, awaited, request, cycle>> /\ revoked \subseteq revoked'
        /\ faults' = 0 => faults = 0
        /\ \A x \in Room : known[x] => known'[x]
    BY <1>9 DEF Drop, Typed, sessionVars, roomVars, queueVars, closeVars
  <2> QED
    BY <2>1, <1>before DEF DrainsAreKept, DrainIsKept, Spared
<1>10. ASSUME NEW s \in Session, RevokeMembership(s) PROVE DrainsAreKept'
  <2>1. /\ UNCHANGED <<dirty, closing, awaited, request, cycle>> /\ revoked \subseteq revoked'
        /\ faults' = 0 => faults = 0
        /\ \A x \in Room : known[x] => known'[x]
    BY <1>10 DEF RevokeMembership, Typed, sessionVars, roomVars, queueVars, closeVars
  <2> QED
    BY <2>1, <1>before DEF DrainsAreKept, DrainIsKept, Spared
<1>11. ASSUME NEW s \in Session, Edit(s) PROVE DrainsAreKept'
  <2> DEFINE r   == RoomOf[s]
             cyc == [cycle EXCEPT ![r].changed = Running(r)]
             t   == [timers EXCEPT ![r] = (@ \ {"retry"}) \cup DirtyTimers]
             old(x) == IF x = r THEN Merged(request[x], "snapshot", {}) ELSE request[x]
  <2>1. r \in Room /\ \A x \in Room : /\ cyc[x].mode = cycle[x].mode
                                       /\ cyc[x].waiters = cycle[x].waiters
                                       /\ cyc[x].stage = cycle[x].stage
    BY EditMarks DEF Served, Ready
  <2>2. /\ UNCHANGED <<closing, awaited>> /\ \A x \in Room : cycle[x].stage # "ending"
        /\ \A x \in Room : known[x] => known'[x]
    BY <1>11 DEF Edit, closeVars, Quiet, Typed
  <2>3. \/ cycle' = cyc /\ UNCHANGED request
        \/ \A x \in Room : Pumped(x, old(x), cyc[x], t[x])
    BY <1>11, EditEffect
  <2>4. ASSUME NEW x \in Room
        PROVE  "close" \in old(x).waiters => known'[x] /\ old(x).mode = "drain"
    BY <2>2, <1>before, MergedDrains DEF DrainIsKept
  <2>5. ASSUME NEW x \in Room
        PROVE  "close" \in cyc[x].waiters =>
                  known'[x] /\ cyc[x].mode = "drain" /\ cyc[x].stage # "ending"
    BY <2>1, <2>2, <1>before DEF DrainIsKept
  <2> HIDE DEF r, cyc, t, old
  <2>6. ASSUME NEW x \in Room PROVE DrainIsKept(x)'
    <3>1. CASE cycle' = cyc /\ UNCHANGED request
      BY <2>2, <2>5, <3>1, <1>before DEF DrainIsKept
    <3>2. CASE Pumped(x, old(x), cyc[x], t[x])
      BY <2>4, <2>5, <3>2, <1>dirty, PumpDrains
    <3> QED
      BY <2>3, <3>1, <3>2
  <2> QED
    BY <2>2, <2>6 DEF DrainsAreKept
<1>12. ASSUME NEW r \in Room, DirtyTimerFires(r) PROVE DrainsAreKept'
  <2> DEFINE old(x) == IF x = r THEN Merged(request[x], "snapshot", {}) ELSE request[x]
  <2>1. \A x \in Room : \E t : Pumped(x, old(x), cycle[x], t)
    BY <1>12, FireEffect
  <2>2. /\ UNCHANGED <<revoked, faults, dirty, known, closing, awaited>>
        /\ \A x \in Room : cycle[x].stage # "ending"
    BY <1>12 DEF DirtyTimerFires, Quiet, sessionVars, roomVars, closeVars
  <2>3. ASSUME NEW x \in Room
        PROVE  "close" \in old(x).waiters => known'[x] /\ old(x).mode = "drain"
    BY <2>2, <1>before, MergedDrains DEF DrainIsKept
  <2> HIDE DEF old
  <2>4. ASSUME NEW x \in Room PROVE DrainIsKept(x)'
    <3>1. CASE UNCHANGED <<request, cycle>>
      BY <2>2, <3>1, <1>before DEF DrainIsKept, Spared
    <3>2. CASE \E t : Pumped(x, old(x), cycle[x], t)
      BY <2>2, <2>3, <3>2, <1>before, <1>dirty, PumpDrains DEF DrainIsKept
    <3> QED
      BY <2>1, <3>1, <3>2
  <2> QED
    BY <2>2, <2>4 DEF DrainsAreKept
<1>13. ASSUME NEW r \in Room, EmptyTimerFires(r) PROVE DrainsAreKept'
  <2> DEFINE old(x) == IF x = r THEN Merged(request[x], "drain", {"cleanup"}) ELSE request[x]
  <2>1. \/ UNCHANGED <<request, cycle>>
        \/ \A x \in Room : \E t : Pumped(x, old(x), cycle[x], t)
    BY <1>13, EmptyEffect
  <2>2. /\ UNCHANGED <<revoked, faults, dirty, known, closing, awaited>>
        /\ \A x \in Room : cycle[x].stage # "ending"
    BY <1>13 DEF EmptyTimerFires, Quiet, sessionVars, roomVars, closeVars
  <2>3. ASSUME NEW x \in Room
        PROVE  "close" \in old(x).waiters => known'[x] /\ old(x).mode = "drain"
    BY <2>2, <1>before, MergedDrains DEF DrainIsKept
  <2> HIDE DEF old
  <2>4. ASSUME NEW x \in Room PROVE DrainIsKept(x)'
    <3>1. CASE UNCHANGED <<request, cycle>>
      BY <2>2, <3>1, <1>before DEF DrainIsKept, Spared
    <3>2. CASE \E t : Pumped(x, old(x), cycle[x], t)
      BY <2>2, <2>3, <3>2, <1>before, <1>dirty, PumpDrains DEF DrainIsKept
    <3> QED
      BY <2>1, <3>1, <3>2
  <2> QED
    BY <2>2, <2>4 DEF DrainsAreKept
<1>14. ASSUME NEW r \in Room, Saves(r) PROVE DrainsAreKept'
  <2>1. /\ UNCHANGED <<revoked, known, closing, awaited, request>> /\ r \in Room
        /\ cycle[r].stage = "sending"
    BY <1>14 DEF Saves, sessionVars, roomVars, closeVars
  <2>2. cycle[r] \in Cycle /\ cycle \in [Room -> Cycle \cup {Idle}]
    BY <1>14, <2>1, StagesMove DEF Served, Ready
  <2>3. /\ cycle'[r].waiters = cycle[r].waiters /\ cycle'[r].mode = cycle[r].mode
        /\ cycle'[r].stage = "ending" /\ cycle[r].mode = "drain" => ~dirty'[r]
    <3>1. dirty'[r] = cycle[r].changed
      BY <1>14 DEF Saves, Typed
    <3>2. PICK new \in {"yielding", "ending"} :
             /\ cycle' = [cycle EXCEPT ![r].stage = new]
             /\ new = "ending" => ~DrainsOn(r)
      BY <1>14 DEF Saves
    <3>3. /\ cycle'[r].waiters = cycle[r].waiters /\ cycle'[r].mode = cycle[r].mode
          /\ cycle'[r].stage = new
      BY <2>2, <3>2 DEF Cycle
    <3> QED
      BY <3>1, <3>2, <3>3 DEF DrainsOn
  <2>4. \A x \in Room : x # r => cycle'[x] = cycle[x] /\ dirty'[x] = dirty[x]
    BY <1>14, <2>2 DEF Saves, Typed
  <2>5. faults' = 0 => faults = 0
    BY <1>14 DEF Saves, Typed, Fault
  <2>6. ASSUME NEW x \in Room PROVE DrainIsKept(x)'
    <3>1. CASE x = r
      BY <2>1, <2>3, <3>1, <1>before DEF DrainIsKept
    <3>2. CASE x # r
      BY <2>1, <2>4, <2>5, <3>2, <1>before DEF DrainIsKept, Spared
    <3> QED
      BY <3>1, <3>2
  <2> QED
    BY <2>1, <2>6 DEF DrainsAreKept
<1>15. ASSUME NEW r \in Room, Continues(r) PROVE DrainsAreKept'
  <2>1. /\ UNCHANGED <<revoked, known, closing, awaited, request>> /\ r \in Room
        /\ cycle[r].stage = "yielding"
    BY <1>15 DEF Continues, sessionVars, roomVars, closeVars
  <2>2. cycle[r] \in Cycle /\ cycle \in [Room -> Cycle \cup {Idle}]
    BY <1>15, <2>1, StagesMove DEF Served, Ready
  <2>3. /\ cycle'[r].waiters = cycle[r].waiters /\ cycle'[r].mode = cycle[r].mode
        /\ cycle'[r].stage # "ending"
    BY <1>15, <2>2 DEF Continues, Cycle, DrainsOn, Typed, Fault
  <2>4. \A x \in Room : x # r => cycle'[x] = cycle[x] /\ dirty'[x] = dirty[x]
    BY <1>15, <2>2 DEF Continues, Typed
  <2>5. faults' = 0 => faults = 0
    BY <1>15 DEF Continues, Typed, Fault
  <2>6. ASSUME NEW x \in Room PROVE DrainIsKept(x)'
    <3>1. CASE x = r
      BY <2>1, <2>3, <3>1, <1>before DEF DrainIsKept
    <3>2. CASE x # r
      BY <2>1, <2>4, <2>5, <3>2, <1>before DEF DrainIsKept, Spared
    <3> QED
      BY <3>1, <3>2
  <2> QED
    BY <2>1, <2>6 DEF DrainsAreKept
<1>16. ASSUME NEW r \in Room, Fails(r) PROVE DrainsAreKept'
  <2>1. /\ UNCHANGED <<revoked, known, closing, awaited, request>> /\ r \in Room
        /\ cycle[r].stage = "sending"
    BY <1>16 DEF Fails, sessionVars, roomVars, closeVars
  <2>2. cycle[r] \in Cycle /\ cycle \in [Room -> Cycle \cup {Idle}]
    BY <1>16, <2>1, StagesMove DEF Served, Ready
  <2>3. /\ cycle'[r].waiters = cycle[r].waiters /\ cycle'[r].mode = cycle[r].mode
        /\ faults' # 0
    BY <1>16, <2>2 DEF Fails, Cycle, DrainsOn, Typed, Fault
  <2>4. \A x \in Room : x # r => cycle'[x] = cycle[x] /\ dirty'[x] = dirty[x]
    BY <1>16, <2>2 DEF Fails, Typed
  <2>5. faults' = 0 => faults = 0
    BY <1>16 DEF Fails, Typed, Fault
  <2>6. ASSUME NEW x \in Room PROVE DrainIsKept(x)'
    <3>1. CASE x = r
      BY <2>1, <2>3, <3>1, <1>before DEF DrainIsKept
    <3>2. CASE x # r
      BY <2>1, <2>4, <2>5, <3>2, <1>before DEF DrainIsKept, Spared
    <3> QED
      BY <3>1, <3>2
  <2> QED
    BY <2>1, <2>6 DEF DrainsAreKept
<1>17. ASSUME NEW r \in Room, EndCycle(r) PROVE DrainsAreKept'
  <2> DEFINE req == IF Forgets(r) THEN [request EXCEPT ![r] = NoRequest] ELSE request
             cyc == [cycle EXCEPT ![r] = Idle]
             t   == IF Forgets(r) THEN [timers EXCEPT ![r] = {}] ELSE timers
  <2>1. \A x \in Room : Pumped(x, req[x], cyc[x], t[x])
    BY <1>17, EndEffect
  <2>2. /\ UNCHANGED <<revoked, faults, closing>> /\ awaited' \subseteq awaited
        /\ known' = [known EXCEPT ![r] = @ /\ ~Forgets(r)]
        /\ dirty' = [dirty EXCEPT ![r] = @ /\ ~Forgets(r)]
    BY <1>17 DEF EndCycle, Forgets, sessionVars
  <2>3. ASSUME NEW x \in Room
        PROVE  "close" \in req[x].waiters => known'[x] /\ req[x].mode = "drain"
    <3>1. CASE x = r /\ Forgets(r)
      <4>1. req[x] = NoRequest
        BY <3>1 DEF Served, Ready
      <4> QED
        BY <4>1 DEF NoRequest
    <3>2. CASE x # r \/ ~Forgets(r)
      <4>1. req[x] = request[x] /\ known'[x] = known[x]
        BY <2>2, <3>2 DEF Served, Ready, Typed
      <4> QED
        BY <4>1, <1>before DEF DrainIsKept
    <3> QED
      BY <3>1, <3>2
  <2>4. ASSUME NEW x \in Room
        PROVE  "close" \in cyc[x].waiters =>
                  /\ known'[x] /\ cyc[x].mode = "drain"
                  /\ cyc[x].stage = "ending" /\ faults' = 0 /\ Spared(x)' => ~dirty'[x]
    <3>1. CASE x = r
      <4>1. cyc[x] = Idle
        BY <3>1 DEF Served, Ready
      <4> QED
        BY <4>1 DEF Idle
    <3>2. CASE x # r
      <4>1. cyc[x] = cycle[x] /\ known'[x] = known[x] /\ dirty'[x] = dirty[x]
        BY <2>2, <3>2 DEF Served, Ready, Typed
      <4> QED
        BY <2>2, <4>1, <1>before DEF DrainIsKept, Spared
    <3> QED
      BY <3>1, <3>2
  <2> HIDE DEF req, cyc, t
  <2>5. ASSUME NEW x \in Room PROVE DrainIsKept(x)'
    BY <2>1, <2>3, <2>4, <1>dirty, PumpDrains
  <2> QED
    BY <2>2, <2>5 DEF DrainsAreKept
<1>18. CASE Close
  <2> DEFINE old(x) == IF known[x] THEN Merged(request[x], "drain", {"close"}) ELSE request[x]
  <2>1. \A x \in Room : \E t : Pumped(x, old(x), cycle[x], t)
    BY <1>18, CloseEffect
  <2>2. /\ UNCHANGED <<revoked, faults, dirty, known>>
        /\ closing' /\ \A x \in Room : cycle[x].stage # "ending"
    BY <1>18 DEF Close, Quiet, sessionVars, roomVars, closeVars
  <2>3. ASSUME NEW x \in Room
        PROVE  "close" \in old(x).waiters => known'[x] /\ old(x).mode = "drain"
    BY <2>2, <1>before, MergedDrains DEF DrainIsKept
  <2> HIDE DEF old
  <2>4. ASSUME NEW x \in Room PROVE DrainIsKept(x)'
    <3>1. CASE UNCHANGED <<request, cycle>>
      BY <2>2, <3>1, <1>before DEF DrainIsKept, Spared
    <3>2. CASE \E t : Pumped(x, old(x), cycle[x], t)
      BY <2>2, <2>3, <3>2, <1>before, <1>dirty, PumpDrains DEF DrainIsKept
    <3> QED
      BY <2>1, <3>1, <3>2
  <2> QED
    BY <2>2, <2>4 DEF DrainsAreKept
<1>19. CASE Closed
  BY <1>19 DEF Closed, DrainsAreKept, DrainIsKept, NoRequest, Idle
<1>20. CASE UNCHANGED vars
  BY <1>20, <1>before DEF DrainsAreKept, DrainIsKept, Spared, vars, sessionVars, roomVars, queueVars, closeVars
<1> QED
  BY <1>1, <1>2, <1>3, <1>4, <1>5, <1>6, <1>7, <1>8, <1>8a, <1>9, <1>10, <1>11, <1>12, <1>13,
     <1>14, <1>15, <1>16, <1>17, <1>18, <1>19, <1>20 DEF Next

LEMMA DrainsAlways == Spec => []DrainsAreKept
  BY InitDrains, DrainsStep, TypedAlways, ServedAlways, TokensAlways, PTL DEF Spec

-----------------------------------------------------------------------------
\* Rooms that are forgotten, and rooms a shutdown is done with

\* A running service only forgets rooms that are saved.
THEOREM ForgottenRoomsAreSaved == Spec => ForgottenIsSaved
<1> DEFINE Forgotten == \A r \in Room : known[r] /\ ~known'[r] /\ ~closing => ~dirty[r]
<1>1. Typed /\ [Next]_vars => [Forgotten]_vars
  <2> SUFFICES ASSUME Typed, Next, NEW x \in Room, known[x], ~known'[x], ~closing
               PROVE  ~dirty[x]
    OBVIOUS
  <2>1. ASSUME NEW r \in Room, EndCycle(r) PROVE ~dirty[x]
    <3>1. known' = [known EXCEPT ![r] = @ /\ ~Forgets(r)]
      BY <2>1 DEF EndCycle, Forgets
    <3>2. x = r /\ Forgets(r)
      BY <3>1 DEF Typed
    <3> QED
      BY <3>2 DEF Forgets, IsClearable
  <2>2. CASE Closed
    BY <2>2 DEF Closed
  <2>3. CASE Close
    BY <2>3 DEF Close, roomVars
  <2>4. ASSUME NEW r \in Room,
               \/ DirtyTimerFires(r) \/ EmptyTimerFires(r)
               \/ Saves(r) \/ Continues(r) \/ Fails(r)
        PROVE  known' = known
    BY <2>4 DEF DirtyTimerFires, EmptyTimerFires, Saves, Continues, Fails, roomVars
  <2>5. ASSUME NEW s \in Session, Edit(s) \/ JoinGranted(s) PROVE FALSE
    BY <2>5 DEF Edit, JoinGranted, Register, roomVars, Typed
  <2>6. ASSUME NEW s \in Session,
               \/ Join(s) \/ JoinDenied(s) \/ Joined(s) \/ JoinRejected(s) \/ JoinFails(s)
               \/ Leave(s) \/ Left(s) \/ LeaveFails(s) \/ Drop(s) \/ RevokeMembership(s)
        PROVE  known' = known
    BY <2>6 DEF Join, JoinDenied, Joined, JoinRejected, JoinFails, Leave, Left, LeaveFails, Drop,
                RevokeMembership, Unregister, roomVars
  <2> QED
    BY <2>1, <2>2, <2>3, <2>4, <2>5, <2>6 DEF Next
<1> QED
  BY <1>1, TypedAlways, PTL DEF Spec, ForgottenIsSaved

\* A shutdown waits for a room until the room is saved, unless a save failed or a
\* member of the room was revoked.
THEOREM DrainedRoomsAreSaved == Spec => DrainedIsSaved
<1> DEFINE Drained ==
      \A r \in awaited \ awaited' :
          faults = 0 /\ (\A s \in revoked : RoomOf[s] # r) => ~dirty[r]
<1>1. Typed /\ DrainsAreKept /\ [Next]_vars => [Drained]_vars
  <2> SUFFICES ASSUME Typed, DrainsAreKept, Next, NEW x \in awaited, x \notin awaited',
                      faults = 0, Spared(x)
               PROVE  ~dirty[x]
    BY DEF Spared
  <2>1. ASSUME NEW r \in Room, EndCycle(r) PROVE ~dirty[x]
    <3>1. /\ awaited' = IF "close" \in cycle[r].waiters THEN awaited \ {r} ELSE awaited
          /\ cycle[r].stage = "ending"
      BY <2>1 DEF EndCycle
    <3>2. x = r /\ "close" \in cycle[r].waiters
      BY <3>1
    <3> QED
      BY <3>1, <3>2 DEF DrainsAreKept, DrainIsKept
  <2>2. CASE Close
    BY <2>2 DEF Close, DrainsAreKept
  <2>3. CASE Closed
    BY <2>3 DEF Closed
  <2>4. ASSUME NEW r \in Room,
               \/ DirtyTimerFires(r) \/ EmptyTimerFires(r)
               \/ Saves(r) \/ Continues(r) \/ Fails(r)
        PROVE  awaited' = awaited
    BY <2>4 DEF DirtyTimerFires, EmptyTimerFires, Saves, Continues, Fails, closeVars
  <2>5. ASSUME NEW s \in Session,
               \/ Join(s) \/ JoinGranted(s) \/ JoinDenied(s) \/ Joined(s) \/ JoinRejected(s)
               \/ JoinFails(s) \/ Leave(s) \/ Left(s) \/ LeaveFails(s)
               \/ Drop(s) \/ RevokeMembership(s) \/ Edit(s)
        PROVE  awaited' = awaited
    BY <2>5 DEF Join, JoinGranted, JoinDenied, Joined, JoinRejected, JoinFails, Leave, Left, LeaveFails,
                Drop, RevokeMembership, Edit, closeVars
  <2> QED
    BY <2>1, <2>2, <2>3, <2>4, <2>5 DEF Next
<1> QED
  BY <1>1, TypedAlways, DrainsAlways, PTL DEF Spec, DrainedIsSaved
=============================================================================
