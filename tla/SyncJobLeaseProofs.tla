-------------------------- MODULE SyncJobLeaseProofs --------------------------
(***************************************************************************)
(* What SyncJobLease keeps for any runs, workers and App Servers, and for  *)
(* every bound: its types, the agreement of its tables, and that its jobs  *)
(* are the jobs of LeasedJobs.                                             *)
(***************************************************************************)
EXTENDS SyncJobLease, FiniteSetTheorems, TLAPS

\* Types, in two parts, and a process that is not idle works on a run.
Status == {"none", "queued", "running", "success", "failed"}
AnyJob == [status : Status, holder : Process \cup {None}, lease : {"none", "live", "expired"},
           attempts : 0..MaxAttempts, by : Slot \cup {None}, renewed : BOOLEAN]
AnySchedule == [present : BOOLEAN, active : Run \cup {None}, owner : Worker \cup {None},
                lease : {"none", "live", "expired"}]
AnyMessage == [run : Run, slot : Slot, receives : 0..MaxReceives,
               state : {"visible", "hidden", "deferred"}]
AnyWork == [run : Run \cup {None}, slot : Slot \cup {None}, receives : 0..MaxReceives,
            polling : BOOLEAN, last : BOOLEAN]
Step == {"idle", "prepare", "publish", "acquire", "sync", "finish", "give-up", "lost", "delete"}

TablesTyped ==
    /\ run \in [Run -> Status]
    /\ job \in [Run -> AnyJob]
    /\ schedule \in AnySchedule

ProcessesTyped ==
    /\ step \in [Process -> Step]
    /\ work \in [Process -> AnyWork]
    /\ \A p \in Process : step[p] # "idle" => work[p].run \in Run

\* A slot of a run holds one message at a time.
MessagesTyped ==
    /\ messages \subseteq AnyMessage
    /\ \A m1, m2 \in messages : m1.run = m2.run /\ m1.slot = m2.slot => m1 = m2

Typed == TablesTyped /\ ProcessesTyped /\ MessagesTyped /\ faults \in 0..MaxFaults

\* A run that does not exist has no job, and a job that does not is blank.
NothingIsLeftBehind ==
    \A r \in Run :
        /\ run[r] = "none" => job[r].status = "none"
        /\ job[r].status = "none" => job[r] = NoJob

USE NamesAssumption
-----------------------------------------------------------------------------
\* Types

LEMMA NoWorkTyped == NoWork \in AnyWork
  BY BoundsAssumption DEF NoWork, AnyWork

LEMMA NoJobTyped == NoJob \in AnyJob /\ NoJob.status = "none" /\ NoJob.lease = "none"
                 /\ NoJob.holder = None
  BY BoundsAssumption DEF NoJob, AnyJob, Status

LEMMA EndedTyped ==
  ASSUME NEW st \in Status
  PROVE  /\ Ended(st) \in AnyJob /\ Ended(st).status = st
         /\ Ended(st).lease = "none" /\ Ended(st).holder = None
  BY NoJobTyped DEF Ended, AnyJob

\* The rows, field by field.
LEMMA JobFields ==
  ASSUME TablesTyped, NEW r \in Run
  PROVE  /\ run[r] \in Status /\ job[r] \in AnyJob
         /\ job[r].status \in Status /\ job[r].holder \in Process \cup {None}
         /\ job[r].lease \in {"none", "live", "expired"} /\ job[r].attempts \in 0..MaxAttempts
         /\ job[r].by \in Slot \cup {None} /\ job[r].renewed \in BOOLEAN
<1>1. job[r] \in AnyJob /\ run[r] \in Status
  BY DEF TablesTyped
<1> QED BY <1>1 DEF AnyJob

LEMMA ScheduleFields ==
  ASSUME TablesTyped
  PROVE  /\ schedule.present \in BOOLEAN /\ schedule.active \in Run \cup {None}
         /\ schedule.owner \in Worker \cup {None}
         /\ schedule.lease \in {"none", "live", "expired"}
  BY DEF TablesTyped, AnySchedule

LEMMA WorkFields ==
  ASSUME ProcessesTyped, NEW p \in Process
  PROVE  /\ step[p] \in Step /\ work[p] \in AnyWork
         /\ work[p].run \in Run \cup {None} /\ work[p].slot \in Slot \cup {None}
         /\ work[p].receives \in 0..MaxReceives /\ work[p].polling \in BOOLEAN
         /\ work[p].last \in BOOLEAN
         /\ step[p] # "idle" => work[p].run \in Run
<1>1. work[p] \in AnyWork /\ step[p] \in Step
  BY DEF ProcessesTyped
<1> QED BY <1>1 DEF AnyWork, ProcessesTyped

LEMMA MessageFields ==
  ASSUME MessagesTyped, NEW m \in messages
  PROVE  /\ m \in AnyMessage /\ m.run \in Run /\ m.slot \in Slot
         /\ m.receives \in 0..MaxReceives /\ m.state \in {"visible", "hidden", "deferred"}
  BY DEF MessagesTyped, AnyMessage

\* What the shared steps leave.
LEMMA GotoTyped ==
  ASSUME ProcessesTyped, NEW p \in Process, NEW next \in Step, NEW w \in AnyWork,
         next # "idle" => w.run \in Run, Goto(p, next, w)
  PROVE  ProcessesTyped'
  BY DEF ProcessesTyped, Goto

LEMMA RestTyped ==
  ASSUME ProcessesTyped, NEW p \in Process, Rest(p)
  PROVE  ProcessesTyped'
  BY GotoTyped, NoWorkTyped DEF Rest, Step

LEMMA GoOnTyped ==
  ASSUME ProcessesTyped, NEW p \in Process, NEW next \in Step, step[p] # "idle",
         Goto(p, next, work[p])
  PROVE  ProcessesTyped'
  BY GotoTyped, WorkFields

LEMMA ClosesScheduleTyped ==
  ASSUME schedule \in AnySchedule, NEW r \in Run, ClosesSchedule(r)
  PROVE  schedule' \in AnySchedule
<1>1. Cleared \in AnySchedule
  BY DEF Cleared, AnySchedule
<1> QED BY <1>1 DEF ClosesSchedule

LEMMA EndsTyped ==
  ASSUME TablesTyped, NEW r \in Run, NEW st \in Status, Ends(r, st)
  PROVE  TablesTyped'
  BY EndedTyped, ClosesScheduleTyped DEF TablesTyped, Ends

LEMMA SendMessageTyped ==
  ASSUME MessagesTyped, NEW r \in Run, SendMessage(r)
  PROVE  MessagesTyped'
<1>1. PICK n \in Slot \ {m.slot : m \in MessagesOf(r)} :
        messages' = messages \cup {[run |-> r, slot |-> n, receives |-> 0, state |-> "visible"]}
  BY DEF SendMessage
<1> DEFINE new == [run |-> r, slot |-> n, receives |-> 0, state |-> "visible"]
<1>2. new \in AnyMessage /\ new.run = r /\ new.slot = n
  BY BoundsAssumption DEF AnyMessage
<1>3. \A m \in messages : m.run = r => m.slot # n
  BY <1>1 DEF MessagesOf
<1>4. messages' = messages \cup {new}
  BY <1>1
<1> HIDE DEF new
<1> QED BY <1>2, <1>3, <1>4 DEF MessagesTyped

\* A message that is put back in place of another, in the same slot.
LEMMA PutBackTyped ==
  ASSUME MessagesTyped, NEW m \in messages, NEW new \in AnyMessage,
         new.run = m.run, new.slot = m.slot,
         messages' = (messages \ {m}) \cup {new}
  PROVE  MessagesTyped'
  BY DEF MessagesTyped

LEMMA FaultTyped == faults \in 0..MaxFaults /\ Fault => faults' \in 0..MaxFaults
  BY BoundsAssumption DEF Fault

LEMMA TypedInit == Init => Typed
<1> SUFFICES ASSUME Init PROVE Typed
  OBVIOUS
<1>1. TablesTyped
  <2>1. NoSchedule \in AnySchedule
    BY DEF NoSchedule, AnySchedule
  <2> QED BY <2>1, NoJobTyped DEF Init, TablesTyped, Status
<1>2. ProcessesTyped
  BY NoWorkTyped DEF Init, ProcessesTyped, Step
<1>3. MessagesTyped
  BY DEF Init, MessagesTyped
<1>4. faults \in 0..MaxFaults
  BY BoundsAssumption DEF Init
<1> QED BY <1>1, <1>2, <1>3, <1>4 DEF Typed

LEMMA TypedStep == Typed /\ [Next]_vars => Typed'
<1> SUFFICES ASSUME Typed, [Next]_vars PROVE Typed'
  OBVIOUS
<1> USE DEF Typed
<1>1. ASSUME NEW s \in Server, NEW r \in Full, RequestFull(s, r) PROVE Typed'
  <2>1. TablesTyped'
    <3>1. [NoJob EXCEPT !.status = "queued", !.holder = s] \in AnyJob
      BY NoJobTyped DEF AnyJob, Status, Process
    <3> QED BY <1>1, <3>1 DEF RequestFull, TablesTyped, Run, Status
  <2>2. ProcessesTyped'
    <3>1. [NoWork EXCEPT !.run = r] \in AnyWork /\ [NoWork EXCEPT !.run = r].run = r
      BY NoWorkTyped DEF AnyWork, Run
    <3> QED BY <1>1, <3>1, GotoTyped DEF RequestFull, Step, Process, Run
  <2>3. MessagesTyped'
    BY <1>1 DEF RequestFull, MessagesTyped
  <2>4. faults' \in 0..MaxFaults
    BY <1>1 DEF RequestFull
  <2> QED BY <2>1, <2>2, <2>3, <2>4 DEF Typed
<1>2. ASSUME NEW p \in Process, Publish(p) PROVE Typed'
  <2>1. TablesTyped'
    BY <1>2 DEF Publish, TablesTyped, tables
  <2>2. ProcessesTyped'
    BY <1>2, RestTyped DEF Publish
  <2>3. MessagesTyped'
    BY <1>2, WorkFields, SendMessageTyped DEF Publish
  <2>4. faults' \in 0..MaxFaults
    BY <1>2 DEF Publish
  <2> QED BY <2>1, <2>2, <2>3, <2>4 DEF Typed
<1>3. ASSUME NEW p \in Process, PublishFails(p) PROVE Typed'
  <2>1. TablesTyped'
    <3>1. work[p].run \in Run
      BY <1>3, WorkFields DEF PublishFails
    <3>2. CASE Ends(work[p].run, "failed")
      BY <3>1, <3>2, EndsTyped DEF Status
    <3>3. CASE UNCHANGED tables
      BY <3>3 DEF TablesTyped, tables
    <3> QED BY <1>3, <3>2, <3>3 DEF PublishFails
  <2>2. ProcessesTyped'
    BY <1>3, RestTyped DEF PublishFails
  <2>3. MessagesTyped'
    <3>1. work[p].run \in Run
      BY <1>3, WorkFields DEF PublishFails
    <3>2. CASE UNCHANGED messages
      BY <3>2 DEF MessagesTyped
    <3> QED BY <1>3, <3>1, <3>2, SendMessageTyped DEF PublishFails
  <2>4. faults' \in 0..MaxFaults
    BY <1>3, FaultTyped DEF PublishFails
  <2> QED BY <2>1, <2>2, <2>3, <2>4 DEF Typed
<1>4. ASSUME NEW p \in Process, Crash(p) PROVE Typed'
  <2>1. TablesTyped'
    BY <1>4 DEF Crash, TablesTyped, tables
  <2>2. ProcessesTyped'
    BY <1>4, RestTyped DEF Crash
  <2>3. MessagesTyped'
    BY <1>4 DEF Crash, MessagesTyped
  <2>4. faults' \in 0..MaxFaults
    BY <1>4, FaultTyped DEF Crash
  <2> QED BY <2>1, <2>2, <2>3, <2>4 DEF Typed
<1>5. ASSUME NEW w \in Worker, ClaimDueSchedule(w) PROVE Typed'
  <2>0. PICK r \in Run :
          /\ \/ UNCHANGED <<run, job>>
             \/ /\ run' = [run EXCEPT ![r] = "queued"]
                /\ job' = [job EXCEPT ![r] = NoJob]
          /\ schedule' = [schedule EXCEPT !.active = r, !.owner = w, !.lease = "live"]
          /\ Goto(w, "prepare", [NoWork EXCEPT !.run = r])
    BY <1>5 DEF ClaimDueSchedule
  <2>1. TablesTyped'
    <3>1. [schedule EXCEPT !.active = r, !.owner = w, !.lease = "live"] \in AnySchedule
      BY DEF TablesTyped, AnySchedule
    <3> QED BY <2>0, <3>1, NoJobTyped DEF TablesTyped, Status
  <2>2. ProcessesTyped'
    <3>1. [NoWork EXCEPT !.run = r] \in AnyWork /\ [NoWork EXCEPT !.run = r].run = r
      BY NoWorkTyped DEF AnyWork
    <3> QED BY <2>0, <3>1, GotoTyped DEF Step, Process
  <2>3. MessagesTyped'
    BY <1>5 DEF ClaimDueSchedule, MessagesTyped
  <2>4. faults' \in 0..MaxFaults
    BY <1>5 DEF ClaimDueSchedule
  <2> QED BY <2>1, <2>2, <2>3, <2>4 DEF Typed
<1>6. ASSUME NEW w \in Worker, PrepareSyncJob(w) PROVE Typed'
  <2> DEFINE r == work[w].run
  <2>0. r \in Run
    BY <1>6, WorkFields DEF PrepareSyncJob, Process
  <2>1. TablesTyped'
    <3>1. CASE MayPrepare(r)
      <4>1. job[r].attempts \in 0..MaxAttempts
        BY <2>0, JobFields
      <4>2. [NoJob EXCEPT !.status = "queued", !.holder = w, !.attempts = job[r].attempts] \in AnyJob
        BY <4>1, NoJobTyped DEF AnyJob, Status, Process
      <4> QED BY <1>6, <3>1, <4>2, <2>0 DEF PrepareSyncJob, TablesTyped
    <3>2. CASE ~MayPrepare(r)
      BY <1>6, <3>2 DEF PrepareSyncJob, TablesTyped
    <3> QED BY <3>1, <3>2
  <2>2. ProcessesTyped'
    BY <1>6, RestTyped, GoOnTyped DEF PrepareSyncJob, Step, Process
  <2>3. MessagesTyped'
    BY <1>6 DEF PrepareSyncJob, MessagesTyped
  <2>4. faults' \in 0..MaxFaults
    BY <1>6 DEF PrepareSyncJob
  <2> QED BY <2>1, <2>2, <2>3, <2>4 DEF Typed
<1>7. ASSUME NEW w \in Worker, AcquireLease(w) PROVE Typed'
  <2> DEFINE r == work[w].run
             n == IF job[r].attempts < MaxAttempts THEN job[r].attempts + 1 ELSE MaxAttempts
  <2>0. r \in Run
    BY <1>7, WorkFields DEF AcquireLease, Process
  <2>11. n \in 0..MaxAttempts
    BY <2>0, JobFields, BoundsAssumption
  <2>12. work[w] \in AnyWork /\ work[w].slot \in Slot \cup {None}
    BY WorkFields DEF Process
  <2>1. TablesTyped'
    <3>1. CASE MayAcquire(r)
      <4>1. [status |-> "running", holder |-> w, lease |-> "live",
             attempts |-> n, by |-> work[w].slot, renewed |-> FALSE] \in AnyJob
        BY <2>11, <2>12 DEF AnyJob, Status, Process
      <4>2. [schedule EXCEPT !.owner = w, !.lease = "live"] \in AnySchedule
        BY DEF TablesTyped, AnySchedule
      <4> QED BY <1>7, <3>1, <4>1, <4>2, <2>0 DEF AcquireLease, TablesTyped, Status
    <3>2. CASE ~MayAcquire(r)
      BY <1>7, <3>2 DEF AcquireLease, TablesTyped, tables
    <3> QED BY <3>1, <3>2
  <2>2. ProcessesTyped'
    <3>1. CASE MayAcquire(r)
      <4> DEFINE new == [work[w] EXCEPT !.polling = schedule.active = r, !.last = n = MaxAttempts]
      <4>1. new \in AnyWork /\ new.run = r
        BY <2>12 DEF AnyWork
      <4> QED BY <1>7, <3>1, <4>1, <2>0, GotoTyped DEF AcquireLease, Step, Process
    <3>2. CASE ~MayAcquire(r)
      BY <1>7, <3>2, GoOnTyped DEF AcquireLease, Step, Process
    <3> QED BY <3>1, <3>2
  <2>3. MessagesTyped'
    BY <1>7 DEF AcquireLease, MessagesTyped
  <2>4. faults' \in 0..MaxFaults
    BY <1>7 DEF AcquireLease
  <2> QED BY <2>1, <2>2, <2>3, <2>4 DEF Typed
<1>8. ASSUME NEW w \in Worker, RenewLease(w) PROVE Typed'
  <2> DEFINE r == work[w].run
  <2>0. r \in Run
    BY <1>8, WorkFields DEF RenewLease, IsAtWork, Process
  <2>1. TablesTyped'
    <3>1. job[r] \in AnyJob
      BY <2>0, JobFields
    <3>2. [job[r] EXCEPT !.lease = "live", !.renewed = TRUE] \in AnyJob
      BY <3>1 DEF AnyJob
    <3>3. job' \in [Run -> AnyJob]
      BY <1>8, <2>0, <3>2 DEF RenewLease, TablesTyped, AnyJob
    <3>4. [schedule EXCEPT !.lease = "live"] \in AnySchedule
      BY DEF TablesTyped, AnySchedule
    <3> QED BY <1>8, <3>3, <3>4 DEF RenewLease, TablesTyped
  <2>2. ProcessesTyped'
    BY <1>8 DEF RenewLease, ProcessesTyped, processes
  <2>3. MessagesTyped'
    BY <1>8 DEF RenewLease, MessagesTyped
  <2>4. faults' \in 0..MaxFaults
    BY <1>8 DEF RenewLease
  <2> QED BY <2>1, <2>2, <2>3, <2>4 DEF Typed
<1>9. ASSUME NEW w \in Worker, AssertLease(w) PROVE Typed'
  <2>1. TablesTyped'
    BY <1>9 DEF AssertLease, TablesTyped, tables
  <2>2. ProcessesTyped'
    BY <1>9, GoOnTyped DEF AssertLease, Step, Process
  <2>3. MessagesTyped'
    BY <1>9 DEF AssertLease, MessagesTyped
  <2>4. faults' \in 0..MaxFaults
    BY <1>9 DEF AssertLease
  <2> QED BY <2>1, <2>2, <2>3, <2>4 DEF Typed
<1>10. ASSUME NEW w \in Worker, SyncFails(w) PROVE Typed'
  <2>1. TablesTyped'
    BY <1>10 DEF SyncFails, TablesTyped, tables
  <2>2. ProcessesTyped'
    BY <1>10, RestTyped, GoOnTyped DEF SyncFails, Step, Process
  <2>3. MessagesTyped'
    BY <1>10 DEF SyncFails, MessagesTyped
  <2>4. faults' \in 0..MaxFaults
    BY <1>10 DEF SyncFails
  <2> QED BY <2>1, <2>2, <2>3, <2>4 DEF Typed
<1>11. ASSUME NEW w \in Worker, Complete(w) PROVE Typed'
  <2>1. TablesTyped'
    <3>1. work[w].run \in Run
      BY <1>11, WorkFields DEF Complete, Process
    <3>2. CASE Ends(work[w].run, IF step[w] = "finish" THEN "success" ELSE "failed")
      BY <3>1, <3>2, EndsTyped DEF Status
    <3>3. CASE UNCHANGED tables
      BY <3>3 DEF TablesTyped, tables
    <3> QED BY <1>11, <3>2, <3>3 DEF Complete
  <2>2. ProcessesTyped'
    BY <1>11, GoOnTyped DEF Complete, Step, Process
  <2>3. MessagesTyped'
    BY <1>11 DEF Complete, MessagesTyped
  <2>4. faults' \in 0..MaxFaults
    BY <1>11 DEF Complete
  <2> QED BY <2>1, <2>2, <2>3, <2>4 DEF Typed
<1>12. ASSUME NEW w \in Worker, FailLost(w) PROVE Typed'
  <2>1. TablesTyped'
    <3>1. work[w].run \in Run
      BY <1>12, WorkFields DEF FailLost, Process
    <3>2. CASE Ends(work[w].run, "failed")
      BY <3>1, <3>2, EndsTyped DEF Status
    <3>3. CASE UNCHANGED tables
      BY <3>3 DEF TablesTyped, tables
    <3> QED BY <1>12, <3>2, <3>3 DEF FailLost
  <2>2. ProcessesTyped'
    BY <1>12, GoOnTyped DEF FailLost, Step, Process
  <2>3. MessagesTyped'
    BY <1>12 DEF FailLost, MessagesTyped
  <2>4. faults' \in 0..MaxFaults
    BY <1>12 DEF FailLost
  <2> QED BY <2>1, <2>2, <2>3, <2>4 DEF Typed
<1>13. ASSUME NEW w \in Worker, DeleteMessage(w) PROVE Typed'
  <2>1. TablesTyped'
    BY <1>13 DEF DeleteMessage, TablesTyped, tables
  <2>2. ProcessesTyped'
    BY <1>13, RestTyped DEF DeleteMessage, Process
  <2>3. MessagesTyped'
    BY <1>13 DEF DeleteMessage, MessagesTyped
  <2>4. faults' \in 0..MaxFaults
    BY <1>13 DEF DeleteMessage
  <2> QED BY <2>1, <2>2, <2>3, <2>4 DEF Typed
<1>14. ASSUME NEW w \in Worker, CallFails(w) PROVE Typed'
  <2>1. TablesTyped'
    BY <1>14 DEF CallFails, TablesTyped, tables
  <2>2. ProcessesTyped'
    BY <1>14, RestTyped DEF CallFails, Process
  <2>3. MessagesTyped'
    <3> DEFINE Back(m) == m.run = work[w].run /\ m.slot = work[w].slot /\ m.state = "hidden"
                           /\ step[w] # "delete"
               put(m) == IF Back(m) THEN [m EXCEPT !.state = "deferred"] ELSE m
    <3>1. messages' = {put(m) : m \in messages}
      BY <1>14 DEF CallFails
    <3>2. \A m \in messages : put(m) \in AnyMessage /\ put(m).run = m.run /\ put(m).slot = m.slot
      BY DEF MessagesTyped, AnyMessage
    <3> HIDE DEF put
    <3> QED BY <3>1, <3>2 DEF MessagesTyped
  <2>4. faults' \in 0..MaxFaults
    BY <1>14, FaultTyped DEF CallFails
  <2> QED BY <2>1, <2>2, <2>3, <2>4 DEF Typed
<1>15. ASSUME NEW w \in Worker, NEW m \in messages, Receive(w, m) PROVE Typed'
  <2>1. TablesTyped'
    BY <1>15 DEF Receive, TablesTyped, tables
  <2>2. ProcessesTyped'
    <3>1. CASE MayReceive(m)
      <4>1. m.receives + 1 \in 0..MaxReceives
        BY <3>1, MessageFields, BoundsAssumption DEF MayReceive
      <4> DEFINE new == [NoWork EXCEPT !.run = m.run, !.slot = m.slot, !.receives = m.receives + 1]
      <4>2. new \in AnyWork /\ new.run = m.run
        BY <4>1, MessageFields, NoWorkTyped DEF AnyWork
      <4> QED BY <1>15, <3>1, <4>2, MessageFields, GotoTyped DEF Receive, Step, Process
    <3>2. CASE ~MayReceive(m)
      BY <1>15, <3>2 DEF Receive, ProcessesTyped, processes
    <3> QED BY <3>1, <3>2
  <2>3. MessagesTyped'
    <3>1. CASE MayReceive(m)
      <4>1. m.receives + 1 \in 0..MaxReceives
        BY <3>1, MessageFields, BoundsAssumption DEF MayReceive
      <4>2. /\ Received(m) \in AnyMessage
            /\ Received(m).run = m.run /\ Received(m).slot = m.slot
        BY <4>1, MessageFields DEF AnyMessage, Received
      <4> QED BY <1>15, <3>1, <4>2, PutBackTyped DEF Receive
    <3>2. CASE ~MayReceive(m)
      BY <1>15, <3>2 DEF Receive, MessagesTyped
    <3> QED BY <3>1, <3>2
  <2>4. faults' \in 0..MaxFaults
    BY <1>15 DEF Receive
  <2> QED BY <2>1, <2>2, <2>3, <2>4 DEF Typed
<1>16. ASSUME NEW m \in messages, Reappear(m) PROVE Typed'
  <2>1. TablesTyped'
    BY <1>16 DEF Reappear, TablesTyped, tables
  <2>2. ProcessesTyped'
    BY <1>16 DEF Reappear, ProcessesTyped, processes
  <2>3. MessagesTyped'
    <3>1. LET new == [m EXCEPT !.state = "visible"]
          IN  new \in AnyMessage /\ new.run = m.run /\ new.slot = m.slot
      BY MessageFields DEF AnyMessage
    <3> QED BY <1>16, <3>1, PutBackTyped DEF Reappear
  <2>4. faults' \in 0..MaxFaults
    BY <1>16 DEF Reappear
  <2> QED BY <2>1, <2>2, <2>3, <2>4 DEF Typed
<1>17. ASSUME NEW r \in Run, JobLeaseExpires(r) PROVE Typed'
  <2>1. TablesTyped'
    <3>1. job[r] \in AnyJob
      BY JobFields
    <3>2. [job[r] EXCEPT !.lease = "expired", !.by = None, !.renewed = FALSE] \in AnyJob
      BY <3>1 DEF AnyJob
    <3>3. job' \in [Run -> AnyJob]
      BY <1>17, <3>2 DEF JobLeaseExpires, TablesTyped, AnyJob
    <3>4. [schedule EXCEPT !.lease = "expired"] \in AnySchedule
      BY DEF TablesTyped, AnySchedule
    <3> QED BY <1>17, <3>3, <3>4 DEF JobLeaseExpires, TablesTyped
  <2>2. ProcessesTyped'
    BY <1>17 DEF JobLeaseExpires, ProcessesTyped, processes
  <2>3. MessagesTyped'
    BY <1>17 DEF JobLeaseExpires, MessagesTyped
  <2>4. faults' \in 0..MaxFaults
    BY <1>17, FaultTyped DEF JobLeaseExpires
  <2> QED BY <2>1, <2>2, <2>3, <2>4 DEF Typed
<1>18. CASE ScheduleLeaseExpires
  <2>1. TablesTyped'
    BY <1>18 DEF ScheduleLeaseExpires, TablesTyped, AnySchedule
  <2>2. ProcessesTyped'
    BY <1>18 DEF ScheduleLeaseExpires, ProcessesTyped, processes
  <2>3. MessagesTyped'
    BY <1>18 DEF ScheduleLeaseExpires, MessagesTyped
  <2>4. faults' \in 0..MaxFaults
    BY <1>18, FaultTyped DEF ScheduleLeaseExpires
  <2> QED BY <2>1, <2>2, <2>3, <2>4 DEF Typed
<1>19. CASE Select
  <2>1. TablesTyped'
    BY <1>19 DEF Select, TablesTyped, NoSchedule, AnySchedule
  <2>2. ProcessesTyped'
    BY <1>19 DEF Select, ProcessesTyped, processes
  <2>3. MessagesTyped'
    BY <1>19 DEF Select, MessagesTyped
  <2>4. faults' \in 0..MaxFaults
    BY <1>19 DEF Select
  <2> QED BY <2>1, <2>2, <2>3, <2>4 DEF Typed
<1>20. CASE Deselect
  <2>1. TablesTyped'
    <3>1. NoSchedule \in AnySchedule
      BY DEF NoSchedule, AnySchedule
    <3>2. job' \in [Run -> AnyJob]
      BY <1>20, EndedTyped, ScheduleFields DEF Deselect, TablesTyped, Status
    <3>3. run' \in [Run -> Status]
      BY <1>20 DEF Deselect, TablesTyped, Status
    <3> QED BY <1>20, <3>1, <3>2, <3>3 DEF Deselect, TablesTyped
  <2>2. ProcessesTyped'
    BY <1>20 DEF Deselect, ProcessesTyped, processes
  <2>3. MessagesTyped'
    BY <1>20 DEF Deselect, MessagesTyped
  <2>4. faults' \in 0..MaxFaults
    BY <1>20 DEF Deselect
  <2> QED BY <2>1, <2>2, <2>3, <2>4 DEF Typed
<1>21. CASE Reselect
  <2>1. TablesTyped'
    BY <1>21 DEF Reselect, TablesTyped, NoSchedule, AnySchedule
  <2>2. ProcessesTyped'
    BY <1>21 DEF Reselect, ProcessesTyped, processes
  <2>3. MessagesTyped'
    BY <1>21 DEF Reselect, MessagesTyped
  <2>4. faults' \in 0..MaxFaults
    BY <1>21 DEF Reselect
  <2> QED BY <2>1, <2>2, <2>3, <2>4 DEF Typed
<1>22. CASE UNCHANGED vars
  BY <1>22 DEF vars, tables, processes, TablesTyped, ProcessesTyped, MessagesTyped
<1> QED
  BY <1>1, <1>2, <1>3, <1>4, <1>5, <1>6, <1>7, <1>8, <1>9, <1>10, <1>11, <1>12, <1>13,
     <1>14, <1>15, <1>16, <1>17, <1>18, <1>19, <1>20, <1>21, <1>22 DEF Next

LEMMA TypedAlways == Spec => []Typed
  BY TypedInit, TypedStep, PTL DEF Spec

\* Every variable keeps to its type, and a slot of a run never holds two messages.
THEOREM SyncJobTypeCorrect == Spec => []TypeOK
<1>1. Typed => TypeOK
  <2> SUFFICES ASSUME Typed PROVE TypeOK
    OBVIOUS
  <2>1. ASSUME NEW r \in Run, NEW n \in Slot PROVE Cardinality(At(r, n)) <= 1
    <3>1. CASE At(r, n) = {}
      BY <3>1, FS_EmptySet
    <3>2. CASE At(r, n) # {}
      <4>1. PICK m : m \in At(r, n)
        BY <3>2
      <4>2. At(r, n) = {m}
        BY <4>1 DEF At, Typed, MessagesTyped
      <4>3. Cardinality({m}) = 1
        BY FS_Singleton
      <4> QED BY <4>2, <4>3
    <3> QED BY <3>1, <3>2
  <2> QED
    BY <2>1 DEF Typed, TablesTyped, ProcessesTyped, MessagesTyped, TypeOK, Status,
                AnyJob, AnySchedule, AnyMessage, AnyWork, Step
<1> QED BY TypedAlways, <1>1, PTL
-----------------------------------------------------------------------------
\* The tables

Agree == TablesAgree /\ NothingIsLeftBehind

\* What a step makes of one job, as far as the tables and the leases go.
JobBecomes(r, st, h, l) ==
    /\ job'[r].status = st /\ job'[r].holder = h /\ job'[r].lease = l
    /\ \A x \in Run \ {r} : job'[x] = job[x] /\ run'[x] = run[x]

\* What may happen to the schedule beside it.
ScheduleKeeps(r) ==
    \/ schedule'.active = None
    \/ /\ schedule'.active \in {schedule.active, r}
       /\ schedule'.present /\ schedule'.owner # None

LEMMA RowChanges ==
  ASSUME TablesTyped, TablesTyped', Agree, NEW r \in Run, NEW st, NEW h, NEW l,
         JobBecomes(r, st, h, l), ScheduleKeeps(r),
         run'[r] # "none", run'[r] = "success" <=> st = "success",
         run'[r] = "failed" => st \in {"none", "failed"},
         st = "running" => run'[r] = "running", st = "running" <=> l # "none",
         st = "none" => job'[r] = NoJob,
         schedule'.active = r => run'[r] \in {"queued", "running"} /\ st # "failed"
  PROVE  Agree'
<1>1. \A x \in Run :
        /\ run'[x] = "success" <=> job'[x].status = "success"
        /\ run'[x] = "failed" => job'[x].status \in {"none", "failed"}
        /\ job'[x].status = "running" => run'[x] = "running"
        /\ job'[x].status = "running" <=> job'[x].lease # "none"
        /\ run'[x] = "none" => job'[x].status = "none"
        /\ job'[x].status = "none" => job'[x] = NoJob
  <2> TAKE x \in Run
  <2>1. CASE x = r
    BY <2>1 DEF JobBecomes
  <2>2. CASE x # r
    BY <2>2 DEF JobBecomes, Agree, TablesAgree, NothingIsLeftBehind
  <2> QED BY <2>1, <2>2
<1>2. schedule'.active # None =>
        /\ schedule'.present /\ schedule'.owner # None
        /\ run'[schedule'.active] \in {"queued", "running"}
        /\ job'[schedule'.active].status # "failed"
  <2> SUFFICES ASSUME schedule'.active # None, schedule'.active # r
               PROVE  /\ schedule'.present /\ schedule'.owner # None
                      /\ run'[schedule'.active] \in {"queued", "running"}
                      /\ job'[schedule'.active].status # "failed"
    BY DEF ScheduleKeeps, JobBecomes
  <2>1. schedule'.active = schedule.active /\ schedule.active \in Run \ {r}
    BY ScheduleFields DEF ScheduleKeeps
  <2> QED BY <2>1 DEF ScheduleKeeps, JobBecomes, Agree, TablesAgree, IsActive
<1> QED BY <1>1, <1>2 DEF Agree, TablesAgree, NothingIsLeftBehind, IsActive

\* The same when no run and no job changes.
LEMMA RowsStay ==
  ASSUME TablesTyped, Agree, UNCHANGED <<run, job>>,
         \/ schedule'.active = None
         \/ /\ schedule'.active = schedule.active
            /\ schedule'.present = schedule.present /\ schedule'.owner = schedule.owner
  PROVE  Agree'
  BY DEF Agree, TablesAgree, NothingIsLeftBehind, IsActive

\* The facts about one run and its job that the steps use.
LEMMA RowFacts ==
  ASSUME Agree, NEW r \in Run
  PROVE  /\ run[r] = "success" <=> job[r].status = "success"
         /\ run[r] = "failed" => job[r].status \in {"none", "failed"}
         /\ job[r].status = "running" => run[r] = "running"
         /\ job[r].status = "running" <=> job[r].lease # "none"
         /\ run[r] = "none" => job[r].status = "none"
         /\ job[r].status = "none" => job[r] = NoJob
         /\ schedule.active = r =>
              /\ run[r] \in {"queued", "running"} /\ job[r].status # "failed"
  BY DEF Agree, TablesAgree, NothingIsLeftBehind, IsActive

LEMMA ScheduleStays ==
  ASSUME Agree, NEW r \in Run, schedule' = schedule
  PROVE  ScheduleKeeps(r)
  BY DEF Agree, TablesAgree, ScheduleKeeps

LEMMA CloseKeeps ==
  ASSUME TablesTyped, Agree, NEW r \in Run, ClosesSchedule(r)
  PROVE  ScheduleKeeps(r) /\ schedule'.active # r
<1>1. Cleared.active = None
  BY DEF Cleared, TablesTyped, AnySchedule
<1> QED BY <1>1, ScheduleStays DEF ClosesSchedule, ScheduleKeeps

\* Ending a run and its job together.
LEMMA EndsBecomes ==
  ASSUME TablesTyped, NEW r \in Run, NEW st \in Status, Ends(r, st)
  PROVE  JobBecomes(r, st, None, "none") /\ run'[r] = st
<1>1. job'[r] = Ended(st) /\ run'[r] = st /\ \A x \in Run \ {r} : job'[x] = job[x] /\ run'[x] = run[x]
  BY DEF Ends, TablesTyped
<1> QED BY <1>1, EndedTyped DEF JobBecomes

LEMMA EndsAgrees ==
  ASSUME TablesTyped, Agree, NEW r \in Run, NEW st \in {"success", "failed"}, Ends(r, st)
  PROVE  Agree'
<1>1. st \in Status /\ st \notin {"none", "running"}
  BY DEF Status
<1>2. JobBecomes(r, st, None, "none") /\ run'[r] = st
  BY <1>1, EndsBecomes
<1>3. ScheduleKeeps(r) /\ schedule'.active # r
  BY CloseKeeps DEF Ends
<1>4. TablesTyped'
  BY <1>1, EndsTyped
<1> QED BY <1>1, <1>2, <1>3, <1>4, RowChanges

\* What the other steps make of a job.
LEMMA RequestBecomes ==
  ASSUME TablesTyped, NEW s \in Server, NEW r \in Full, RequestFull(s, r)
  PROVE  /\ JobBecomes(r, "queued", s, "none") /\ run'[r] = "queued"
<1>1. LET new == [NoJob EXCEPT !.status = "queued", !.holder = s]
      IN  new.status = "queued" /\ new.holder = s /\ new.lease = "none"
  BY NoJobTyped DEF AnyJob
<1> QED BY <1>1 DEF RequestFull, JobBecomes, TablesTyped, Run

LEMMA PrepareBecomes ==
  ASSUME TablesTyped, NEW w \in Worker, NEW r \in Run, r = work[w].run,
         PrepareSyncJob(w), MayPrepare(r)
  PROVE  /\ JobBecomes(r, "queued", w, "none") /\ run' = run
<1>1. LET new == [NoJob EXCEPT !.status = "queued", !.holder = w, !.attempts = job[r].attempts]
      IN  new.status = "queued" /\ new.holder = w /\ new.lease = "none"
  BY NoJobTyped DEF AnyJob
<1> QED BY <1>1 DEF PrepareSyncJob, JobBecomes, TablesTyped

LEMMA AcquireBecomes ==
  ASSUME TablesTyped, NEW w \in Worker, NEW r \in Run, r = work[w].run,
         AcquireLease(w), MayAcquire(r)
  PROVE  /\ JobBecomes(r, "running", w, "live") /\ run'[r] = "running"
         /\ schedule'.active = schedule.active /\ schedule'.present = schedule.present
         /\ schedule' # schedule => schedule'.owner = w
<1> DEFINE n == IF job[r].attempts < MaxAttempts THEN job[r].attempts + 1 ELSE MaxAttempts
           new == [status |-> "running", holder |-> w, lease |-> "live",
                   attempts |-> n, by |-> work[w].slot, renewed |-> FALSE]
<1>1. /\ run' = [run EXCEPT ![r] = "running"] /\ job' = [job EXCEPT ![r] = new]
      /\ schedule' = IF schedule.active = r THEN [schedule EXCEPT !.owner = w, !.lease = "live"]
                     ELSE schedule
  BY DEF AcquireLease
<1>2. new.status = "running" /\ new.holder = w /\ new.lease = "live"
  OBVIOUS
<1> HIDE DEF new
<1> QED BY <1>1, <1>2 DEF JobBecomes, TablesTyped, AnySchedule

LEMMA RenewBecomes ==
  ASSUME TablesTyped, NEW w \in Worker, NEW r \in Run, r = work[w].run, RenewLease(w)
  PROVE  /\ JobBecomes(r, job[r].status, job[r].holder, "live") /\ run' = run
         /\ schedule'.active = schedule.active /\ schedule'.present = schedule.present
         /\ schedule'.owner = schedule.owner
<1> DEFINE new == [job[r] EXCEPT !.lease = "live", !.renewed = TRUE]
<1>1. new.status = job[r].status /\ new.holder = job[r].holder /\ new.lease = "live"
  BY JobFields DEF AnyJob
<1>2. job' = [job EXCEPT ![r] = new]
  BY DEF RenewLease
<1>3. JobBecomes(r, job[r].status, job[r].holder, "live") /\ run' = run
  BY <1>1, <1>2 DEF RenewLease, JobBecomes, TablesTyped
<1>4. /\ schedule'.active = schedule.active /\ schedule'.present = schedule.present
      /\ schedule'.owner = schedule.owner
  BY DEF RenewLease, TablesTyped, AnySchedule
<1> QED BY <1>3, <1>4

LEMMA ExpireBecomes ==
  ASSUME TablesTyped, NEW r \in Run, JobLeaseExpires(r)
  PROVE  /\ JobBecomes(r, job[r].status, job[r].holder, "expired") /\ run' = run
         /\ schedule'.active = schedule.active /\ schedule'.present = schedule.present
         /\ schedule'.owner = schedule.owner
  BY DEF JobLeaseExpires, JobBecomes, TablesTyped, AnyJob, AnySchedule

\* A claim takes the run of the schedule again, or begins a new one.
LEMMA ClaimBecomes ==
  ASSUME TablesTyped, NEW w \in Worker, ClaimDueSchedule(w)
  PROVE  \E r \in Run :
           /\ schedule'.active = r /\ schedule'.owner = w /\ schedule'.present
           /\ \/ IsReusable(r) /\ r = schedule.active /\ UNCHANGED <<run, job>>
              \/ /\ ~IsActive(r) /\ r # schedule.active
                 /\ run' = [run EXCEPT ![r] = "queued"]
                 /\ job' = [job EXCEPT ![r] = NoJob]
<1>1. PICK r \in Run :
        /\ IF IsReusable(schedule.active)
           THEN r = schedule.active /\ UNCHANGED <<run, job>>
           ELSE /\ IsFree(r)
                /\ run' = [run EXCEPT ![r] = "queued"]
                /\ job' = [job EXCEPT ![r] = NoJob]
        /\ schedule' = [schedule EXCEPT !.active = r, !.owner = w, !.lease = "live"]
  BY DEF ClaimDueSchedule
<1>2. schedule'.active = r /\ schedule'.owner = w /\ schedule'.present
  BY <1>1 DEF ClaimDueSchedule, IsClaimable, TablesTyped, AnySchedule
<1> QED BY <1>1, <1>2 DEF IsFree

\* Deselecting ends what is only queued.
LEMMA DeselectBecomes ==
  ASSUME TablesTyped, Agree, Deselect, NEW r \in Run, r = schedule.active
  PROVE  /\ \/ job[r].status = "queued" /\ JobBecomes(r, "failed", None, "none")
            \/ job[r].status # "queued" /\ job' = job /\ \A x \in Run \ {r} : run'[x] = run[x]
         /\ run'[r] = IF run[r] = "queued" THEN "failed" ELSE run[r]
<1>1. "failed" \in Status
  BY DEF Status
<1>2. CASE job[r].status = "queued"
  <2>1. job' = [job EXCEPT ![r] = Ended("failed")] /\ \A x \in Run \ {r} : run'[x] = run[x]
    BY <1>2 DEF Deselect, TablesTyped
  <2>2. job'[r] = Ended("failed") /\ \A x \in Run \ {r} : job'[x] = job[x]
    BY <2>1 DEF TablesTyped
  <2>3. JobBecomes(r, "failed", None, "none")
    BY <1>1, <2>1, <2>2, EndedTyped DEF JobBecomes
  <2>4. run'[r] = IF run[r] = "queued" THEN "failed" ELSE run[r]
    BY DEF Deselect, TablesTyped
  <2> QED BY <1>2, <2>3, <2>4
<1>3. CASE job[r].status # "queued"
  BY <1>3 DEF Deselect, TablesTyped
<1> QED BY <1>2, <1>3

LEMMA AgreeInit == Init => Agree
  BY NoJobTyped DEF Init, Agree, TablesAgree, NothingIsLeftBehind, NoSchedule

LEMMA AgreeStep == Typed /\ Typed' /\ Agree /\ [Next]_vars => Agree'
<1> SUFFICES ASSUME TablesTyped, TablesTyped', ProcessesTyped, Agree, [Next]_vars PROVE Agree'
  BY DEF Typed
<1>1. ASSUME NEW s \in Server, NEW r \in Full, RequestFull(s, r) PROVE Agree'
  <2>1. JobBecomes(r, "queued", s, "none") /\ run'[r] = "queued" /\ r \in Run
    BY <1>1, RequestBecomes DEF Run
  <2>2. ScheduleKeeps(r)
    BY <1>1, <2>1, ScheduleStays DEF RequestFull
  <2> QED BY <2>1, <2>2, RowChanges
<1>2. ASSUME NEW p \in Process, Publish(p) PROVE Agree'
  BY <1>2, RowsStay DEF Publish, tables
<1>3. ASSUME NEW p \in Process, PublishFails(p) PROVE Agree'
  <2>1. work[p].run \in Run
    BY <1>3, WorkFields DEF PublishFails
  <2>2. CASE Ends(work[p].run, "failed")
    BY <2>1, <2>2, EndsAgrees
  <2>3. CASE UNCHANGED tables
    BY <2>3, RowsStay DEF tables
  <2> QED BY <1>3, <2>2, <2>3 DEF PublishFails
<1>4. ASSUME NEW p \in Process, Crash(p) PROVE Agree'
  BY <1>4, RowsStay DEF Crash, tables
<1>5. ASSUME NEW w \in Worker, ClaimDueSchedule(w) PROVE Agree'
  <2>1. PICK r \in Run :
          /\ schedule'.active = r /\ schedule'.owner = w /\ schedule'.present
          /\ \/ IsReusable(r) /\ r = schedule.active /\ UNCHANGED <<run, job>>
             \/ /\ ~IsActive(r) /\ r # schedule.active
                /\ run' = [run EXCEPT ![r] = "queued"]
                /\ job' = [job EXCEPT ![r] = NoJob]
    BY <1>5, ClaimBecomes
  <2>2. w # None
    BY DEF Process
  <2>3. CASE UNCHANGED <<run, job>> /\ r = schedule.active
    BY <2>1, <2>2, <2>3 DEF Agree, TablesAgree, NothingIsLeftBehind, IsActive
  <2>4. CASE run' = [run EXCEPT ![r] = "queued"] /\ job' = [job EXCEPT ![r] = NoJob]
    <3>1. JobBecomes(r, "none", NoJob.holder, "none") /\ run'[r] = "queued" /\ job'[r] = NoJob
      BY <2>4, NoJobTyped DEF TablesTyped, JobBecomes
    <3>2. ScheduleKeeps(r)
      BY <2>1, <2>2 DEF ScheduleKeeps
    <3> QED BY <3>1, <3>2, RowChanges
  <2> QED BY <2>1, <2>3, <2>4
<1>6. ASSUME NEW w \in Worker, PrepareSyncJob(w) PROVE Agree'
  <2> DEFINE r == work[w].run
  <2>0. r \in Run
    BY <1>6, WorkFields DEF PrepareSyncJob, Process
  <2>1. CASE MayPrepare(r)
    <3>1. JobBecomes(r, "queued", w, "none") /\ run' = run
      BY <1>6, <2>0, <2>1, PrepareBecomes
    <3>2. run[r] \in {"queued", "running"} /\ ScheduleKeeps(r)
      BY <1>6, <2>0, <2>1, ScheduleStays DEF PrepareSyncJob, MayPrepare
    <3> QED BY <2>0, <3>1, <3>2, RowChanges
  <2>2. CASE ~MayPrepare(r)
    BY <1>6, <2>2, RowsStay DEF PrepareSyncJob
  <2> QED BY <2>1, <2>2
<1>7. ASSUME NEW w \in Worker, AcquireLease(w) PROVE Agree'
  <2> DEFINE r == work[w].run
  <2>0. r \in Run
    BY <1>7, WorkFields DEF AcquireLease, Process
  <2>1. CASE MayAcquire(r)
    <3>1. /\ JobBecomes(r, "running", w, "live") /\ run'[r] = "running"
          /\ schedule'.active = schedule.active /\ schedule'.present = schedule.present
          /\ schedule' # schedule => schedule'.owner = w
      BY <1>7, <2>0, <2>1, AcquireBecomes
    <3>2. ScheduleKeeps(r)
      BY <3>1 DEF ScheduleKeeps, Agree, TablesAgree, Process
    <3> QED BY <2>0, <3>1, <3>2, RowChanges
  <2>2. CASE ~MayAcquire(r)
    BY <1>7, <2>2, RowsStay DEF AcquireLease, tables
  <2> QED BY <2>1, <2>2
<1>8. ASSUME NEW w \in Worker, RenewLease(w) PROVE Agree'
  <2> DEFINE r == work[w].run
  <2>0. r \in Run
    BY <1>8, WorkFields DEF RenewLease, IsAtWork, Process
  <2>1. /\ JobBecomes(r, job[r].status, job[r].holder, "live") /\ run' = run
        /\ schedule'.active = schedule.active /\ schedule'.present = schedule.present
        /\ schedule'.owner = schedule.owner
    BY <1>8, <2>0, RenewBecomes
  <2>2. job[r].status = "running" /\ run[r] = "running"
    BY <1>8, <2>0, RowFacts DEF RenewLease, HoldsJob
  <2>3. ScheduleKeeps(r)
    BY <2>1 DEF ScheduleKeeps, Agree, TablesAgree
  <2> QED BY <2>0, <2>1, <2>2, <2>3, RowChanges
<1>9. ASSUME NEW w \in Worker, AssertLease(w) PROVE Agree'
  BY <1>9, RowsStay DEF AssertLease, tables
<1>10. ASSUME NEW w \in Worker, SyncFails(w) PROVE Agree'
  BY <1>10, RowsStay DEF SyncFails, tables
<1>11. ASSUME NEW w \in Worker, Complete(w) PROVE Agree'
  <2>1. work[w].run \in Run
    BY <1>11, WorkFields DEF Complete, Process
  <2>2. CASE Ends(work[w].run, IF step[w] = "finish" THEN "success" ELSE "failed")
    BY <2>1, <2>2, EndsAgrees
  <2>3. CASE UNCHANGED tables
    BY <2>3, RowsStay DEF tables
  <2> QED BY <1>11, <2>2, <2>3 DEF Complete
<1>12. ASSUME NEW w \in Worker, FailLost(w) PROVE Agree'
  <2>1. work[w].run \in Run
    BY <1>12, WorkFields DEF FailLost, Process
  <2>2. CASE Ends(work[w].run, "failed")
    BY <2>1, <2>2, EndsAgrees
  <2>3. CASE UNCHANGED tables
    BY <2>3, RowsStay DEF tables
  <2> QED BY <1>12, <2>2, <2>3 DEF FailLost
<1>13. ASSUME NEW w \in Worker, DeleteMessage(w) PROVE Agree'
  BY <1>13, RowsStay DEF DeleteMessage, tables
<1>14. ASSUME NEW w \in Worker, CallFails(w) PROVE Agree'
  BY <1>14, RowsStay DEF CallFails, tables
<1>15. ASSUME NEW w \in Worker, NEW m \in messages, Receive(w, m) PROVE Agree'
  BY <1>15, RowsStay DEF Receive, tables
<1>16. ASSUME NEW m \in messages, Reappear(m) PROVE Agree'
  BY <1>16, RowsStay DEF Reappear, tables
<1>17. ASSUME NEW r \in Run, JobLeaseExpires(r) PROVE Agree'
  <2>1. /\ JobBecomes(r, job[r].status, job[r].holder, "expired") /\ run' = run
        /\ schedule'.active = schedule.active /\ schedule'.present = schedule.present
        /\ schedule'.owner = schedule.owner
    BY <1>17, ExpireBecomes
  <2>2. job[r].status = "running" /\ run[r] = "running"
    BY <1>17, RowFacts DEF JobLeaseExpires
  <2>3. ScheduleKeeps(r)
    BY <2>1 DEF ScheduleKeeps, Agree, TablesAgree
  <2> QED BY <2>1, <2>2, <2>3, RowChanges
<1>18. CASE ScheduleLeaseExpires
  BY <1>18, RowsStay DEF ScheduleLeaseExpires, TablesTyped, AnySchedule
<1>19. CASE Select
  BY <1>19, RowsStay DEF Select, tables, NoSchedule
<1>20. CASE Deselect
  <2>1. schedule'.active = None
    BY <1>20 DEF Deselect, NoSchedule
  <2>2. CASE schedule.active = None
    BY <1>20, <2>1, <2>2, RowsStay DEF Deselect
  <2>3. ASSUME NEW r \in Run, r = schedule.active PROVE Agree'
    <3>1. run'[r] = IF run[r] = "queued" THEN "failed" ELSE run[r]
      BY <1>20, <2>3, DeselectBecomes
    <3>2. ScheduleKeeps(r) /\ schedule'.active # r
      BY <2>1 DEF ScheduleKeeps
    <3>3. run[r] \in {"queued", "running"} /\ (job[r].status = "running" => run[r] = "running")
          /\ job[r].status \in {"none", "queued", "running"}
      BY <2>3, RowFacts, JobFields DEF Status
    <3>4. CASE JobBecomes(r, "failed", None, "none")
      BY <3>1, <3>2, <3>3, <3>4, RowChanges
    <3>5. CASE job' = job /\ job[r].status # "queued" /\ \A x \in Run \ {r} : run'[x] = run[x]
      <4>1. JobBecomes(r, job[r].status, job[r].holder, job[r].lease)
        BY <3>5 DEF JobBecomes
      <4> QED BY <3>1, <3>2, <3>3, <3>5, <4>1, RowFacts, RowChanges
    <3> QED BY <1>20, <2>3, <3>4, <3>5, DeselectBecomes
  <2> QED BY <2>2, <2>3, ScheduleFields
<1>21. CASE Reselect
  BY <1>21, RowsStay DEF Reselect, tables, NoSchedule
<1>22. CASE UNCHANGED vars
  BY <1>22, RowsStay DEF vars, tables
<1> QED
  BY <1>1, <1>2, <1>3, <1>4, <1>5, <1>6, <1>7, <1>8, <1>9, <1>10, <1>11, <1>12, <1>13,
     <1>14, <1>15, <1>16, <1>17, <1>18, <1>19, <1>20, <1>21, <1>22 DEF Next

LEMMA AgreeAlways == Spec => []Agree
  BY AgreeInit, AgreeStep, TypedAlways, PTL DEF Spec

\* The runs, the jobs and the schedule agree, whichever of the statements that
\* change them run in between.
THEOREM TablesAlwaysAgree == Spec => []TablesAgree
<1>1. Agree => TablesAgree
  BY DEF Agree
<1> QED BY AgreeAlways, <1>1, PTL
-----------------------------------------------------------------------------
\* The leases

Maps == Leases!Next \/ UNCHANGED Leases!vars

\* Who is at work: nobody comes or goes, one process goes, one comes.
Doing == {"sync", "finish", "give-up", "lost"}
Stays == \A x \in Run : WorkersOn(x)' = WorkersOn(x)
Leaves(r, p) ==
    /\ WorkersOn(r)' = WorkersOn(r) \ {p}
    /\ \A x \in Run \ {r} : WorkersOn(x)' = WorkersOn(x)
Comes(r, p) ==
    /\ WorkersOn(r)' = WorkersOn(r) \cup {p}
    /\ \A x \in Run \ {r} : WorkersOn(x)' = WorkersOn(x)

LEMMA ProcessesStay == UNCHANGED processes => Stays
  BY DEF processes, Stays, WorkersOn, IsAtWork

\* One process goes on, and the others stay where they are.
LEMMA OneMoves ==
  ASSUME ProcessesTyped, NEW p \in Process, NEW next, NEW w, Goto(p, next, w), NEW x \in Run
  PROVE  WorkersOn(x)' = IF next \in Doing /\ w.run = x THEN WorkersOn(x) \cup {p}
                         ELSE WorkersOn(x) \ {p}
<1>1. /\ step'[p] = next /\ work'[p] = w
      /\ \A q \in Process \ {p} : step'[q] = step[q] /\ work'[q] = work[q]
  BY DEF Goto, ProcessesTyped
<1>2. \A q \in Process \ {p} : q \in WorkersOn(x)' <=> q \in WorkersOn(x)
  BY <1>1 DEF WorkersOn, IsAtWork
<1>3. p \in WorkersOn(x)' <=> next \in Doing /\ w.run = x
  BY <1>1 DEF WorkersOn, IsAtWork, Doing
<1>4. WorkersOn(x) \subseteq Process /\ WorkersOn(x)' \subseteq Process
  BY DEF WorkersOn
<1> QED BY <1>2, <1>3, <1>4

LEMMA WhereItIs ==
  ASSUME NEW p \in Process, NEW x \in Run
  PROVE  p \in WorkersOn(x) <=> step[p] \in Doing /\ work[p].run = x
  BY DEF WorkersOn, IsAtWork, Doing

\* A process that is not at work goes on to something else.
LEMMA OutsideStays ==
  ASSUME ProcessesTyped, NEW p \in Process, NEW next, NEW w, Goto(p, next, w),
         step[p] \notin Doing, next \notin Doing
  PROVE  Stays
  BY OneMoves, WhereItIs DEF Stays

\* One that is at work goes on with it.
LEMMA InsideStays ==
  ASSUME ProcessesTyped, NEW p \in Process, NEW next \in Doing, Goto(p, next, work[p]),
         step[p] \in Doing
  PROVE  Stays
  BY OneMoves, WhereItIs DEF Stays

LEMMA GoesAway ==
  ASSUME ProcessesTyped, NEW p \in Process, NEW r \in Run, r = work[p].run,
         NEW next, NEW w, Goto(p, next, w), next \notin Doing
  PROVE  Leaves(r, p)
  BY OneMoves, WhereItIs DEF Leaves

LEMMA ComesIn ==
  ASSUME ProcessesTyped, NEW p \in Process, NEW r \in Run, NEW next \in Doing, NEW w,
         w.run = r, Goto(p, next, w), step[p] \notin Doing
  PROVE  Comes(r, p)
  BY OneMoves, WhereItIs DEF Comes

\* The same for what LeasedJobs sees.
LEMMA StaysMaps == Stays => Leases!Same
  BY DEF Stays, Leases!Same

LEMMA JobStaysMaps == UNCHANGED job /\ Stays => Maps
<1> SUFFICES ASSUME UNCHANGED job, Stays PROVE UNCHANGED Leases!vars
  BY DEF Maps
<1>1. UNCHANGED [x \in Run |-> WorkersOn(x)]
  BY DEF Stays
<1> QED BY <1>1 DEF Leases!vars

LEMMA LeavesMaps ==
  ASSUME NEW r \in Run, NEW p \in Process, UNCHANGED job, Leaves(r, p)
  PROVE  Maps
<1>1. [x \in Run |-> WorkersOn(x)]' =
        [[x \in Run |-> WorkersOn(x)] EXCEPT ![r] = @ \ {p}]
  BY DEF Leaves
<1>2. Leases!Leave(r, p)
  BY <1>1 DEF Leases!Leave
<1> QED BY <1>2 DEF Maps, Leases!Next

LEMMA BecomesMaps ==
  ASSUME NEW r \in Run, NEW st, NEW h, NEW l, JobBecomes(r, st, h, l)
  PROVE  Leases!Becomes(r, st, h, l = "live")
  BY DEF JobBecomes, Leases!Becomes

LEMMA BecomesIdleMaps ==
  ASSUME NEW r \in Run, NEW st, NEW h, NEW l, JobBecomes(r, st, h, l), l # "live"
  PROVE  Leases!Becomes(r, st, h, FALSE)
<1>1. (l = "live") = FALSE
  OBVIOUS
<1> QED BY <1>1, BecomesMaps

\* What LeasedJobs sees of a job.
LEMMA Seen ==
  ASSUME NEW r \in Run
  PROVE  /\ [x \in Run |-> job[x].status][r] = job[r].status
         /\ [x \in Run |-> job[x].holder][r] = job[r].holder
         /\ [x \in Run |-> job[x].lease = "live"][r] = (job[r].lease = "live")
         /\ [x \in Run |-> WorkersOn(x)][r] = WorkersOn(r)
  OBVIOUS

LEMMA OfferMaps ==
  ASSUME NEW r \in Run, NEW p \in Process, job[r].status \in {"none", "queued", "running"},
         job[r].lease # "live", JobBecomes(r, "queued", p, "none"), Stays
  PROVE  Maps
<1>1. Leases!Offer(r, p)
  BY BecomesIdleMaps, StaysMaps, Seen DEF Leases!Offer
<1> QED BY <1>1 DEF Maps, Leases!Next

LEMMA TakeMaps ==
  ASSUME NEW r \in Run, NEW p \in Process, job[r].status \in {"queued", "running"},
         job[r].lease # "live", JobBecomes(r, "running", p, "live"), Comes(r, p)
  PROVE  Maps
<1>1. [x \in Run |-> WorkersOn(x)]' =
        [[x \in Run |-> WorkersOn(x)] EXCEPT ![r] = @ \cup {p}]
  BY DEF Comes
<1>2. Leases!Take(r, p)
  BY <1>1, BecomesMaps, Seen DEF Leases!Take
<1> QED BY <1>2 DEF Maps, Leases!Next

LEMMA RenewMaps ==
  ASSUME NEW r \in Run, job[r].status = "running",
         JobBecomes(r, job[r].status, job[r].holder, "live"), Stays
  PROVE  Maps
<1>1. Leases!Renew(r)
  BY BecomesMaps, StaysMaps, Seen DEF Leases!Renew
<1> QED BY <1>1 DEF Maps, Leases!Next

LEMMA ExpireMaps ==
  ASSUME NEW r \in Run, JobBecomes(r, job[r].status, job[r].holder, "expired"), Stays
  PROVE  Maps
<1>1. Leases!Expire(r)
  BY BecomesIdleMaps, StaysMaps, Seen DEF Leases!Expire
<1> QED BY <1>1 DEF Maps, Leases!Next

LEMMA ForgetMaps ==
  ASSUME NEW r \in Run, job[r].status \in {"success", "failed"},
         JobBecomes(r, "none", None, "none"), Stays
  PROVE  Maps
<1>1. Leases!Forget(r)
  BY BecomesIdleMaps, StaysMaps, Seen DEF Leases!Forget
<1> QED BY <1>1 DEF Maps, Leases!Next

LEMMA DropMaps ==
  ASSUME NEW r \in Run, job[r].status = "queued", JobBecomes(r, "failed", None, "none"), Stays
  PROVE  Maps
<1>1. Leases!Drop(r)
  BY BecomesIdleMaps, StaysMaps, Seen DEF Leases!Drop
<1> QED BY <1>1 DEF Maps, Leases!Next

\* The process that holds the job ends it, and with that its own work on it.
LEMMA DecideMaps ==
  ASSUME TablesTyped, NEW r \in Run, NEW p \in Process, NEW st \in {"success", "failed"},
         Ends(r, st), HoldsJob(p, r), p \in WorkersOn(r), Leaves(r, p)
  PROVE  Maps
<1>1. JobBecomes(r, st, None, "none")
  BY EndsBecomes DEF Status
<1>2. job[r].status = "running" /\ job[r].holder = p
  BY DEF HoldsJob
<1>3. [x \in Run |-> WorkersOn(x)]' =
        [[x \in Run |-> WorkersOn(x)] EXCEPT ![r] = @ \ {p}]
  BY DEF Leaves
<1>4. Leases!Decide(r, st)
  BY <1>1, <1>2, <1>3, BecomesIdleMaps, Seen DEF Leases!Decide
<1> QED BY <1>4 DEF Maps, Leases!Next

LEMMA MapsStep == Typed /\ Agree /\ [Next]_vars => Maps
<1> SUFFICES ASSUME TablesTyped, ProcessesTyped, Agree, [Next]_vars PROVE Maps
  BY DEF Typed
<1>0. Worker \subseteq Process /\ Server \subseteq Process /\ Full \subseteq Run
  BY DEF Process, Run
<1>1. ASSUME NEW s \in Server, NEW r \in Full, RequestFull(s, r) PROVE Maps
  <2>1. JobBecomes(r, "queued", s, "none")
    BY <1>1, RequestBecomes
  <2>2. job[r].status = "none" /\ job[r].lease # "live"
    BY <1>0, <1>1, <2>1, RowFacts, NoJobTyped DEF RequestFull
  <2>3. Stays
    BY <1>0, <1>1, OutsideStays DEF RequestFull, Doing
  <2> QED BY <1>0, <2>1, <2>2, <2>3, OfferMaps
<1>2. ASSUME NEW p \in Process, Publish(p) PROVE Maps
  <2>1. Stays
    BY <1>2, OutsideStays DEF Publish, Rest, Doing
  <2> QED BY <1>2, <2>1, JobStaysMaps DEF Publish, tables
<1>3. ASSUME NEW p \in Process, PublishFails(p) PROVE Maps
  <2> DEFINE r == work[p].run
  <2>1. r \in Run
    BY <1>3, WorkFields DEF PublishFails
  <2>2. Stays
    BY <1>3, OutsideStays DEF PublishFails, Rest, Doing
  <2>3. CASE job[r].status = "queued" /\ job[r].holder = p /\ run[r] = "queued"
    <3>1. JobBecomes(r, "failed", None, "none")
      BY <1>3, <2>1, <2>3, EndsBecomes DEF PublishFails, Status
    <3> QED BY <2>1, <2>2, <2>3, <3>1, DropMaps
  <2>4. CASE ~(job[r].status = "queued" /\ job[r].holder = p /\ run[r] = "queued")
    BY <1>3, <2>2, <2>4, JobStaysMaps DEF PublishFails, tables
  <2> QED BY <2>3, <2>4
<1>4. ASSUME NEW p \in Process, Crash(p) PROVE Maps
  <2>1. work[p].run \in Run
    BY <1>4, WorkFields DEF Crash
  <2>2. Leaves(work[p].run, p)
    BY <1>4, <2>1, GoesAway DEF Crash, Rest, Doing
  <2> QED BY <1>4, <2>1, <2>2, LeavesMaps DEF Crash, tables
<1>5. ASSUME NEW w \in Worker, ClaimDueSchedule(w) PROVE Maps
  <2>0. Stays
    <3>1. PICK r \in Run : Goto(w, "prepare", [NoWork EXCEPT !.run = r])
      BY <1>5 DEF ClaimDueSchedule
    <3> QED BY <1>0, <1>5, <3>1, OutsideStays DEF ClaimDueSchedule, Doing
  <2>1. PICK r \in Run :
          \/ UNCHANGED job
          \/ ~IsActive(r) /\ job' = [job EXCEPT ![r] = NoJob] /\ run' = [run EXCEPT ![r] = "queued"]
    BY <1>5, ClaimBecomes
  <2>2. ASSUME ~IsActive(r), job' = [job EXCEPT ![r] = NoJob], run' = [run EXCEPT ![r] = "queued"]
        PROVE  Maps
    <3>1. JobBecomes(r, "none", None, "none")
      BY <2>2, NoJobTyped DEF JobBecomes, TablesTyped
    <3>2. CASE job[r].status = "none"
      <4>1. job' = job
        BY <2>2, <3>2, RowFacts DEF TablesTyped
      <4> QED BY <2>0, <4>1, JobStaysMaps
    <3>3. CASE job[r].status # "none"
      <4>1. job[r].status \in {"success", "failed"}
        BY <2>2, <3>3, RowFacts, JobFields DEF IsActive, Status
      <4> QED BY <2>0, <3>1, <4>1, ForgetMaps
    <3> QED BY <3>2, <3>3
  <2> QED BY <2>0, <2>1, <2>2, JobStaysMaps
<1>6. ASSUME NEW w \in Worker, PrepareSyncJob(w) PROVE Maps
  <2> DEFINE r == work[w].run
  <2>0. r \in Run
    BY <1>6, WorkFields DEF PrepareSyncJob, Process
  <2>1. CASE MayPrepare(r)
    <3>1. JobBecomes(r, "queued", w, "none")
      BY <1>6, <2>0, <2>1, PrepareBecomes
    <3>2. job[r].status \in {"none", "queued", "running"} /\ job[r].lease # "live"
      BY <2>0, <2>1, RowFacts DEF MayPrepare
    <3>3. Stays
      BY <1>0, <1>6, <2>1, OutsideStays DEF PrepareSyncJob, Doing
    <3> QED BY <1>0, <2>0, <3>1, <3>2, <3>3, OfferMaps
  <2>2. CASE ~MayPrepare(r)
    <3>1. Stays
      BY <1>0, <1>6, <2>2, OutsideStays DEF PrepareSyncJob, Rest, Doing
    <3> QED BY <1>6, <2>2, <3>1, JobStaysMaps DEF PrepareSyncJob
  <2> QED BY <2>1, <2>2
<1>7. ASSUME NEW w \in Worker, AcquireLease(w) PROVE Maps
  <2> DEFINE r == work[w].run
  <2>0. r \in Run
    BY <1>7, WorkFields DEF AcquireLease, Process
  <2>1. CASE MayAcquire(r)
    <3>1. JobBecomes(r, "running", w, "live")
      BY <1>7, <2>0, <2>1, AcquireBecomes
    <3>2. PICK polling, last :
            Goto(w, "sync", [work[w] EXCEPT !.polling = polling, !.last = last])
      BY <1>7, <2>1 DEF AcquireLease
    <3>3. [work[w] EXCEPT !.polling = polling, !.last = last].run = r
      BY <1>0, WorkFields DEF AnyWork
    <3>4. Comes(r, w)
      BY <1>0, <1>7, <2>0, <3>2, <3>3, ComesIn DEF AcquireLease, Doing
    <3> QED BY <1>0, <2>0, <2>1, <3>1, <3>4, TakeMaps DEF MayAcquire, IsOpen
  <2>2. CASE ~MayAcquire(r)
    <3>1. Stays
      BY <1>0, <1>7, <2>2, OutsideStays DEF AcquireLease, Doing
    <3> QED BY <1>7, <2>2, <3>1, JobStaysMaps DEF AcquireLease, tables
  <2> QED BY <2>1, <2>2
<1>8. ASSUME NEW w \in Worker, RenewLease(w) PROVE Maps
  <2> DEFINE r == work[w].run
  <2>0. r \in Run
    BY <1>8, WorkFields DEF RenewLease, IsAtWork, Process
  <2>1. JobBecomes(r, job[r].status, job[r].holder, "live") /\ job[r].status = "running"
    BY <1>8, <2>0, RenewBecomes DEF RenewLease, HoldsJob
  <2>2. Stays
    BY <1>8, ProcessesStay DEF RenewLease
  <2> QED BY <2>0, <2>1, <2>2, RenewMaps
<1>9. ASSUME NEW w \in Worker, AssertLease(w) PROVE Maps
  <2>1. PICK next \in {"finish", "lost"} : Goto(w, next, work[w])
    BY <1>9 DEF AssertLease
  <2>2. Stays
    BY <1>0, <1>9, <2>1, InsideStays DEF AssertLease, Doing
  <2> QED BY <1>9, <2>2, JobStaysMaps DEF AssertLease, tables
<1>10. ASSUME NEW w \in Worker, SyncFails(w) PROVE Maps
  <2>1. work[w].run \in Run /\ step[w] \in Doing /\ UNCHANGED job
    BY <1>10, <1>0, WorkFields DEF SyncFails, Doing, tables
  <2>2. CASE Goto(w, "give-up", work[w])
    <3>1. Stays
      BY <1>0, <2>1, <2>2, InsideStays DEF Doing
    <3> QED BY <2>1, <3>1, JobStaysMaps
  <2>3. CASE Rest(w)
    <3>1. Leaves(work[w].run, w)
      BY <1>0, <2>1, <2>3, GoesAway DEF Rest, Doing
    <3> QED BY <1>0, <2>1, <3>1, LeavesMaps
  <2> QED BY <1>10, <2>2, <2>3 DEF SyncFails
<1>11. ASSUME NEW w \in Worker, Complete(w) PROVE Maps
  <2> DEFINE r == work[w].run
  <2>1. r \in Run /\ w \in WorkersOn(r)
    BY <1>0, <1>11, WorkFields, WhereItIs DEF Complete, Doing
  <2>2. Leaves(r, w)
    BY <1>0, <1>11, <2>1, GoesAway DEF Complete, Doing
  <2>3. CASE HoldsJob(w, r) /\ HasItsSchedule(w, r)
    <3>1. PICK st \in {"success", "failed"} : Ends(r, st)
      BY <1>11, <2>3 DEF Complete
    <3> QED BY <1>0, <2>1, <2>2, <2>3, <3>1, DecideMaps
  <2>4. CASE ~(HoldsJob(w, r) /\ HasItsSchedule(w, r))
    BY <1>0, <1>11, <2>1, <2>2, <2>4, LeavesMaps DEF Complete, tables
  <2> QED BY <2>3, <2>4
<1>12. ASSUME NEW w \in Worker, FailLost(w) PROVE Maps
  <2> DEFINE r == work[w].run
  <2>1. r \in Run /\ w \in WorkersOn(r)
    BY <1>0, <1>12, WorkFields, WhereItIs DEF FailLost, Doing
  <2>2. Leaves(r, w)
    BY <1>0, <1>12, <2>1, GoesAway DEF FailLost, Doing
  <2>3. CASE MayFailLost(w, r)
    BY <1>0, <1>12, <2>1, <2>2, <2>3, DecideMaps DEF FailLost, MayFailLost
  <2>4. CASE ~MayFailLost(w, r)
    BY <1>0, <1>12, <2>1, <2>2, <2>4, LeavesMaps DEF FailLost, tables
  <2> QED BY <2>3, <2>4
<1>13. ASSUME NEW w \in Worker, DeleteMessage(w) PROVE Maps
  <2>1. Stays
    BY <1>0, <1>13, OutsideStays DEF DeleteMessage, Rest, Doing
  <2> QED BY <1>13, <2>1, JobStaysMaps DEF DeleteMessage, tables
<1>14. ASSUME NEW w \in Worker, CallFails(w) PROVE Maps
  <2>1. work[w].run \in Run
    BY <1>0, <1>14, WorkFields DEF CallFails
  <2>2. Leaves(work[w].run, w)
    BY <1>0, <1>14, <2>1, GoesAway DEF CallFails, Rest, Doing
  <2> QED BY <1>0, <1>14, <2>1, <2>2, LeavesMaps DEF CallFails, tables
<1>15. ASSUME NEW w \in Worker, NEW m \in messages, Receive(w, m) PROVE Maps
  <2>1. CASE MayReceive(m)
    <3>1. PICK v : Goto(w, "acquire", v)
      BY <1>15, <2>1 DEF Receive
    <3>2. Stays
      BY <1>0, <1>15, <3>1, OutsideStays DEF Receive, Doing
    <3> QED BY <1>15, <3>2, JobStaysMaps DEF Receive, tables
  <2>2. CASE ~MayReceive(m)
    BY <1>15, <2>2, ProcessesStay, JobStaysMaps DEF Receive, tables
  <2> QED BY <2>1, <2>2
<1>16. ASSUME NEW m \in messages, Reappear(m) PROVE Maps
  BY <1>16, ProcessesStay, JobStaysMaps DEF Reappear, tables
<1>17. ASSUME NEW r \in Run, JobLeaseExpires(r) PROVE Maps
  <2>1. Stays
    BY <1>17, ProcessesStay DEF JobLeaseExpires
  <2> QED BY <1>17, <2>1, ExpireBecomes, ExpireMaps
<1>18. CASE ScheduleLeaseExpires
  BY <1>18, ProcessesStay, JobStaysMaps DEF ScheduleLeaseExpires
<1>19. CASE Select
  BY <1>19, ProcessesStay, JobStaysMaps DEF Select
<1>20. CASE Deselect
  <2>0. Stays
    BY <1>20, ProcessesStay DEF Deselect
  <2>1. CASE schedule.active = None
    BY <1>20, <2>0, <2>1, JobStaysMaps DEF Deselect
  <2>2. ASSUME NEW r \in Run, r = schedule.active PROVE Maps
    BY <1>20, <2>0, <2>2, DeselectBecomes, DropMaps, JobStaysMaps
  <2> QED BY <2>1, <2>2, ScheduleFields
<1>21. CASE Reselect
  BY <1>21, ProcessesStay, JobStaysMaps DEF Reselect
<1>22. CASE UNCHANGED vars
  BY <1>22, ProcessesStay, JobStaysMaps DEF vars, tables
<1> QED
  BY <1>1, <1>2, <1>3, <1>4, <1>5, <1>6, <1>7, <1>8, <1>9, <1>10, <1>11, <1>12, <1>13,
     <1>14, <1>15, <1>16, <1>17, <1>18, <1>19, <1>20, <1>21, <1>22 DEF Next

\* A job changes hands only when its lease is over, and its outcome is decided
\* once, by the process that was given the job last, however many are at work on
\* it: SyncJobLease implements LeasedJobs.
THEOREM JobsAreLeased == Spec => ImplementsLeasedJobs
<1>1. Init => Leases!Init
  <2>1. Init => \A x \in Run : WorkersOn(x) = {}
    BY DEF Init, WorkersOn, IsAtWork
  <2> QED BY <2>1, NoJobTyped DEF Init, Leases!Init
<1> QED
  BY <1>1, MapsStep, TypedAlways, AgreeAlways, PTL DEF Spec, Maps, ImplementsLeasedJobs, Leases!Spec
=============================================================================
