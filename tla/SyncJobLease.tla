---------------------------- MODULE SyncJobLease ----------------------------
(***************************************************************************)
(* The jobs that synchronise one GitHub ProjectV2: a polling schedule that *)
(* starts a run whenever the last one has ended, full runs that members    *)
(* ask for, a queue (SQS) that delivers at least once, and worker          *)
(* processes that take a job under a lease, keep it with a heartbeat and   *)
(* may stop at any step.  Runs, jobs and the schedule are rows of one      *)
(* database; every statement of the code is one step.                      *)
(*                                                                         *)
(* lease_generation goes up whenever a job is prepared or leased, and is   *)
(* only compared with the generation a process was given: a job keeps the  *)
(* process that was given its latest generation instead of the number.     *)
(***************************************************************************)
EXTENDS Naturals, FiniteSets

CONSTANTS
    Full,               \* runs of the whole repository that members ask for
    Polling,            \* runs of the polling schedule
    Worker,             \* worker processes
    Server,             \* App Servers
    None,
    MaxAttempts,        \* 3 in the code
    MaxReceives,        \* maxReceiveCount of the queue, 3 in the deployment
    Slot,               \* bound: messages of one run in the queue at a time
    MaxFaults           \* bound: crashes, failed calls and stalled processes

Run == Full \cup Polling
Process == Worker \cup Server

ASSUME NamesAssumption ==
    Full \cap Polling = {} /\ Worker \cap Server = {} /\ None \notin Run \cup Process \cup Slot
ASSUME BoundsAssumption == MaxAttempts \in Nat \ {0} /\ MaxReceives \in Nat \ {0} /\ MaxFaults \in Nat

VARIABLES
    run,                \* github_sync_runs: the status of each
    job,                \* github_sync_jobs: the job of each run
    schedule,           \* github_project_v2_polling_schedules, of this project
    messages,           \* the queue
    step, work,         \* where each process stands, and on what
    faults

tables == <<run, job, schedule>>
processes == <<step, work>>
vars == <<tables, messages, processes, faults>>

NoJob == [status |-> "none", holder |-> None, lease |-> "none", attempts |-> 0,
          by |-> None, renewed |-> FALSE]
NoSchedule == [present |-> FALSE, active |-> None, owner |-> None, lease |-> "none"]
NoWork == [run |-> None, slot |-> None, receives |-> 0, polling |-> FALSE, last |-> FALSE]

Init ==
    /\ run = [r \in Run |-> "none"]
    /\ job = [r \in Run |-> NoJob]
    /\ schedule = NoSchedule
    /\ messages = {}
    /\ step = [p \in Process |-> "idle"]
    /\ work = [p \in Process |-> NoWork]
    /\ faults = 0

Fault == faults < MaxFaults /\ faults' = faults + 1

Goto(p, next, w) == step' = [step EXCEPT ![p] = next] /\ work' = [work EXCEPT ![p] = w]
Rest(p) == Goto(p, "idle", NoWork)

IsActive(r) == run[r] \in {"queued", "running"}
IsOpen(r) == job[r].status \in {"queued", "running"}
FullSyncGoesOn == \E r \in Full : IsActive(r)
MessagesOf(r) == {m \in messages : m.run = r}
-----------------------------------------------------------------------------
\* What several statements share

\* The schedule after its run has ended, or is being given up.
Cleared == [schedule EXCEPT !.active = None, !.owner = None, !.lease = "none"]

\* Nothing reads what else an ended job keeps.
Ended(status) == [NoJob EXCEPT !.status = status]

ClosesScheduleMutant(r) == schedule' = schedule
ClosesSchedule(r) == schedule' = IF schedule.active = r THEN Cleared ELSE schedule

Ends(r, status) ==
    /\ run' = [run EXCEPT ![r] = status]
    /\ job' = [job EXCEPT ![r] = Ended(status)]
    /\ ClosesSchedule(r)

\* status = running, lease_owner and lease_generation are the process's.
HoldsJobMutant(p, r) == job[r].status = "running"
HoldsJob(p, r) == job[r].status = "running" /\ job[r].holder = p

\* A polling job also needs the row of its schedule.
HasItsSchedule(p, r) == work[p].polling => schedule.active = r

\* hasLease
HasLease(p, r) ==
    /\ HoldsJob(p, r)
    /\ job[r].lease = "live"
    /\ work[p].polling => /\ schedule.active = r
                          /\ schedule.owner = p
                          /\ schedule.lease = "live"
-----------------------------------------------------------------------------
\* Runs come into being

\* A request for a full run, unless one that a member asked for is active: the
\* run, its job and the ledger entry at once.
RequestFull(s, r) ==
    /\ step[s] = "idle"
    /\ run[r] = "none"
    /\ ~FullSyncGoesOn
    /\ run' = [run EXCEPT ![r] = "queued"]
    /\ job' = [job EXCEPT ![r] = [NoJob EXCEPT !.status = "queued", !.holder = s]]
    /\ Goto(s, "publish", [NoWork EXCEPT !.run = r])
    /\ UNCHANGED <<schedule, messages, faults>>

\* claimDueSchedules: a run that nobody works on is used again.  next_poll_at is
\* left out: it stays in the past while there is a run, and may come at any time
\* once there is none.
IsReusable(r) == r # None /\ IsActive(r) /\ job[r].status \in {"none", "queued", "running"}

IsClaimable ==
    /\ schedule.present
    /\ ~FullSyncGoesOn
    /\ schedule.active # None
       => /\ schedule.lease = "expired"
          /\ job[schedule.active].lease # "live"

\* A name that is free, or whose run has ended and left nothing behind.
IsFree(r) ==
    /\ r \in Polling
    /\ ~IsActive(r)
    /\ r # schedule.active
    /\ MessagesOf(r) = {}
    /\ \A p \in Process : work[p].run # r

ClaimDueSchedule(w) ==
    /\ step[w] = "idle"
    /\ IsClaimable
    /\ \E r \in Run :
        /\ IF IsReusable(schedule.active)
           THEN /\ r = schedule.active
                /\ Cardinality(MessagesOf(r)) < Cardinality(Slot)
                /\ UNCHANGED <<run, job>>
           ELSE /\ IsFree(r)
                /\ run' = [run EXCEPT ![r] = "queued"]
                /\ job' = [job EXCEPT ![r] = NoJob]
        /\ schedule' = [schedule EXCEPT !.active = r, !.owner = w, !.lease = "live"]
        /\ Goto(w, "prepare", [NoWork EXCEPT !.run = r])
    /\ UNCHANGED <<messages, faults>>

\* prepareSyncJob: a new job, one that is queued, or one whose lease is over.
MayPrepareMutant(r) == run[r] = "queued" /\ job[r].status \in {"none", "queued"}
MayPrepare(r) ==
    /\ run[r] = "queued" \/ (run[r] = "running" /\ IsOpen(r) /\ job[r].lease # "live")
    /\ job[r].status \in {"none", "queued"} \/ (job[r].status = "running" /\ job[r].lease = "expired")

PrepareSyncJob(w) ==
    LET r == work[w].run IN
    /\ step[w] = "prepare"
    /\ IF MayPrepare(r)
       THEN /\ job' = [job EXCEPT ![r] = [NoJob EXCEPT !.status = "queued", !.holder = w,
                                                        !.attempts = job[r].attempts]]
            /\ Goto(w, "publish", work[w])
       ELSE /\ Rest(w)
            /\ UNCHANGED job
    /\ UNCHANGED <<run, schedule, messages, faults>>

SendMessage(r) ==
    \E n \in Slot \ {m.slot : m \in MessagesOf(r)} :
        messages' = messages \cup {[run |-> r, slot |-> n, receives |-> 0, state |-> "visible"]}

Publish(p) ==
    /\ step[p] = "publish"
    /\ SendMessage(work[p].run)
    /\ Rest(p)
    /\ UNCHANGED <<tables, faults>>

\* failEnqueue, which leaves a run that was started before as it is.  The queue
\* may have taken the message all the same.
PublishFails(p) ==
    LET r == work[p].run IN
    /\ step[p] = "publish"
    /\ Fault
    /\ IF job[r].status = "queued" /\ job[r].holder = p /\ run[r] = "queued"
       THEN Ends(r, "failed")
       ELSE UNCHANGED tables
    /\ UNCHANGED messages \/ SendMessage(r)
    /\ Rest(p)
-----------------------------------------------------------------------------
\* A worker takes a message and does the job

Received(m) == [m EXCEPT !.receives = @ + 1, !.state = "hidden"]

MayReceiveMutant(m) == m.receives <= MaxReceives
MayReceive(m) == m.receives < MaxReceives

\* The queue moves a message that was received too often to its dead letters.
Receive(w, m) ==
    /\ step[w] = "idle"
    /\ m \in messages
    /\ m.state = "visible"
    /\ IF MayReceive(m)
       THEN /\ messages' = (messages \ {m}) \cup {Received(m)}
            /\ Goto(w, "acquire", [NoWork EXCEPT !.run = m.run, !.slot = m.slot,
                                                 !.receives = m.receives + 1])
       ELSE /\ messages' = messages \ {m}
            /\ UNCHANGED processes
    /\ UNCHANGED <<tables, faults>>

\* acquireLease
MayAcquireMutant(r) == IsOpen(r) /\ IsActive(r)
MayAcquire(r) == IsOpen(r) /\ job[r].lease # "live" /\ IsActive(r)

AcquireLease(w) ==
    LET r == work[w].run
        attempts == IF job[r].attempts < MaxAttempts THEN job[r].attempts + 1 ELSE MaxAttempts
        polling == schedule.active = r
    IN
    /\ step[w] = "acquire"
    /\ IF MayAcquire(r)
       THEN /\ run' = [run EXCEPT ![r] = "running"]
            /\ job' = [job EXCEPT ![r] = [status |-> "running", holder |-> w, lease |-> "live",
                          attempts |-> attempts, by |-> work[w].slot, renewed |-> FALSE]]
            /\ schedule' = IF polling THEN [schedule EXCEPT !.owner = w, !.lease = "live"]
                           ELSE schedule
            /\ Goto(w, "sync", [work[w] EXCEPT !.polling = polling,
                                               !.last = attempts = MaxAttempts])
       ELSE /\ Goto(w, "delete", work[w])
            /\ UNCHANGED tables
    /\ UNCHANGED <<messages, faults>>

IsAtWork(p) == step[p] \in {"sync", "finish", "give-up", "lost"}
WorkersOn(r) == {p \in Process : IsAtWork(p) /\ work[p].run = r}

\* The heartbeat; it brings back a lease that has run out meanwhile.
RenewLease(w) ==
    LET r == work[w].run IN
    /\ IsAtWork(w)
    /\ HoldsJob(w, r)
    /\ work[w].polling => schedule.active = r /\ schedule.owner = w
    /\ job' = [job EXCEPT ![r].lease = "live", ![r].renewed = TRUE]
    /\ schedule' = IF schedule.active = r /\ schedule.owner = w
                   THEN [schedule EXCEPT !.lease = "live"] ELSE schedule
    /\ UNCHANGED <<run, messages, processes, faults>>

\* assertLease, before a batch of writes and before the end.
AssertLease(w) ==
    /\ step[w] = "sync"
    /\ Goto(w, IF HasLease(w, work[w].run) THEN "finish" ELSE "lost", work[w])
    /\ UNCHANGED <<tables, messages, faults>>

\* GitHub or the database fails: the message is left to the queue, unless the
\* attempts are spent, or GitHub's error is final.
SyncFails(w) ==
    /\ step[w] \in {"sync", "finish"}
    /\ \/ (step[w] = "sync" \/ work[w].last) /\ Goto(w, "give-up", work[w])
       \/ ~work[w].last /\ Rest(w)
    /\ UNCHANGED <<tables, messages, faults>>

\* completeSuccess and completeFailure; the number of rows is not looked at.
Complete(w) ==
    LET r == work[w].run IN
    /\ step[w] \in {"finish", "give-up"}
    /\ IF HoldsJob(w, r) /\ HasItsSchedule(w, r)
       THEN Ends(r, IF step[w] = "finish" THEN "success" ELSE "failed")
       ELSE UNCHANGED tables
    /\ Goto(w, "delete", work[w])
    /\ UNCHANGED <<messages, faults>>

\* completeLostLeaseFailure: a job that was handed on is left alone.
MayFailLost(w, r) ==
    /\ HoldsJob(w, r)
    /\ run[r] = "running"
    /\ schedule.active = r => schedule.owner = w

FailLost(w) ==
    LET r == work[w].run IN
    /\ step[w] = "lost"
    /\ IF MayFailLost(w, r)
       THEN Ends(r, "failed")
       ELSE UNCHANGED tables
    /\ Goto(w, "delete", work[w])
    /\ UNCHANGED <<messages, faults>>

\* DeleteMessage, unless the message was received again meanwhile.
DeleteMessage(w) ==
    /\ step[w] = "delete"
    /\ messages' = {m \in messages : m.run = work[w].run /\ m.slot = work[w].slot
                                     => m.receives # work[w].receives}
    /\ Rest(w)
    /\ UNCHANGED <<tables, faults>>

\* DeleteMessage fails, or a statement outside the attempt does, after which
\* deferSyncJobRetry lets the message come back in 30 seconds.
CallFails(w) ==
    /\ step[w] \in {"prepare", "acquire", "give-up", "lost", "delete"}
    /\ Fault
    /\ messages' = {IF m.run = work[w].run /\ m.slot = work[w].slot /\ m.state = "hidden"
                       /\ step[w] # "delete"
                    THEN [m EXCEPT !.state = "deferred"] ELSE m : m \in messages}
    /\ Rest(w)
    /\ UNCHANGED <<tables>>

Crash(p) ==
    /\ step[p] # "idle"
    /\ Fault
    /\ Rest(p)
    /\ UNCHANGED <<tables, messages>>
-----------------------------------------------------------------------------
\* Time

\* A message comes back after 15 minutes.  The lease its delivery was given
\* lasts 10, so that it can only be live by then if it was renewed.
IsBack(m) ==
    \/ m.state = "deferred"
    \/ m.state = "hidden" /\ (job[m.run].lease = "live" /\ job[m.run].by = m.slot
                              => job[m.run].renewed)

Reappear(m) ==
    /\ m \in messages
    /\ IsBack(m)
    /\ messages' = (messages \ {m}) \cup {[m EXCEPT !.state = "visible"]}
    /\ UNCHANGED <<tables, processes, faults>>

\* The heartbeat keeps the lease of a process that is at work and well.
IsKept(r) == job[r].holder \in WorkersOn(r)

\* A job and its schedule were leased, and renewed, for the same time.
LeasedTogether(r) == schedule.active = r /\ schedule.owner = job[r].holder

JobLeaseExpires(r) ==
    /\ job[r].lease = "live"
    /\ IF IsKept(r) THEN Fault ELSE UNCHANGED faults
    /\ job' = [job EXCEPT ![r].lease = "expired", ![r].by = None, ![r].renewed = FALSE]
    /\ schedule' = IF LeasedTogether(r) THEN [schedule EXCEPT !.lease = "expired"] ELSE schedule
    /\ UNCHANGED <<run, messages, processes>>

\* The lease of a claim, when its run was not started for 10 minutes.
ScheduleLeaseExpires ==
    LET r == schedule.active IN
    /\ schedule.lease = "live"
    /\ ~(job[r].lease = "live" /\ LeasedTogether(r))
    /\ IF \E p \in Worker : step[p] \in {"prepare", "publish"} /\ work[p].run = r
       THEN Fault ELSE UNCHANGED faults
    /\ schedule' = [schedule EXCEPT !.lease = "expired"]
    /\ UNCHANGED <<run, job, messages, processes>>
-----------------------------------------------------------------------------
\* The selection of projects

Select ==
    /\ ~schedule.present
    /\ schedule' = [NoSchedule EXCEPT !.present = TRUE]
    /\ UNCHANGED <<run, job, messages, processes, faults>>

\* terminateDeselectedQueuedRuns, and the schedule goes with its selection.
Deselect ==
    LET r == schedule.active IN
    /\ schedule.present
    /\ job' = IF r # None /\ job[r].status = "queued"
              THEN [job EXCEPT ![r] = Ended("failed")] ELSE job
    /\ run' = IF r # None /\ run[r] = "queued" THEN [run EXCEPT ![r] = "failed"] ELSE run
    /\ schedule' = NoSchedule
    /\ UNCHANGED <<messages, processes, faults>>

\* Saving a selection again deletes it first, and the schedule with it.
Reselect ==
    /\ schedule.present
    /\ schedule.active # None
    /\ schedule' = [NoSchedule EXCEPT !.present = TRUE]
    /\ UNCHANGED <<run, job, messages, processes, faults>>
-----------------------------------------------------------------------------
Next ==
    \/ \E s \in Server, r \in Full : RequestFull(s, r)
    \/ \E p \in Process : Publish(p) \/ PublishFails(p) \/ Crash(p)
    \/ \E w \in Worker :
        \/ ClaimDueSchedule(w) \/ PrepareSyncJob(w) \/ AcquireLease(w) \/ RenewLease(w)
        \/ AssertLease(w) \/ SyncFails(w) \/ Complete(w) \/ FailLost(w)
        \/ DeleteMessage(w) \/ CallFails(w)
        \/ \E m \in messages : Receive(w, m)
    \/ \E m \in messages : Reappear(m)
    \/ \E r \in Run : JobLeaseExpires(r)
    \/ ScheduleLeaseExpires \/ Select \/ Deselect \/ Reselect

Spec == Init /\ [][Next]_vars

WorkerStep(w) ==
    \/ PrepareSyncJob(w) \/ AcquireLease(w) \/ AssertLease(w) \/ Complete(w)
    \/ FailLost(w) \/ DeleteMessage(w)
At(r, n) == {m \in messages : m.run = r /\ m.slot = n}

\* Calls return, an attempt comes to its end, leases of processes that are
\* gone run out, and the queue delivers.  A worker that is idle polls, for due
\* schedules first and then for a message.  Members owe nothing.
FairSpec ==
    /\ Spec
    /\ \A p \in Process : WF_vars(Publish(p))
    /\ \A w \in Worker : WF_vars(WorkerStep(w))
    /\ SF_vars(\E w \in Worker : ClaimDueSchedule(w))
    /\ \A r \in Run : WF_vars(~IsKept(r) /\ JobLeaseExpires(r))
    /\ WF_vars(ScheduleLeaseExpires)
    /\ \A r \in Run, n \in Slot :
        /\ WF_vars(\E m \in At(r, n) : Reappear(m))
        /\ SF_vars(\E m \in At(r, n), w \in Worker : Receive(w, m))
-----------------------------------------------------------------------------
\* Every variable keeps to its type.
TypeOK ==
    /\ run \in [Run -> {"none", "queued", "running", "success", "failed"}]
    /\ job \in [Run -> [status : {"none", "queued", "running", "success", "failed"},
                        holder : Process \cup {None}, lease : {"none", "live", "expired"},
                        attempts : 0..MaxAttempts, by : Slot \cup {None}, renewed : BOOLEAN]]
    /\ schedule \in [present : BOOLEAN, active : Run \cup {None}, owner : Worker \cup {None},
                     lease : {"none", "live", "expired"}]
    /\ messages \subseteq [run : Run, slot : Slot, receives : 0..MaxReceives,
                           state : {"visible", "hidden", "deferred"}]
    /\ \A r \in Run, n \in Slot : Cardinality(At(r, n)) <= 1
    /\ step \in [Process -> {"idle", "prepare", "publish", "acquire", "sync", "finish",
                             "give-up", "lost", "delete"}]
    /\ work \in [Process -> [run : Run \cup {None}, slot : Slot \cup {None},
                             receives : 0..MaxReceives, polling : BOOLEAN, last : BOOLEAN]]
    /\ faults \in 0..MaxFaults

\* The three tables, which seven statements change, agree: a run and its job
\* succeed together, a running job has a running run and a lease, and the
\* schedule never waits for a run that has ended.
TablesAgree ==
    /\ \A r \in Run :
        /\ run[r] = "success" <=> job[r].status = "success"
        /\ run[r] = "failed" => job[r].status \in {"none", "failed"}
        /\ job[r].status = "running" => run[r] = "running"
        /\ job[r].status = "running" <=> job[r].lease # "none"
    /\ schedule.active # None =>
        /\ schedule.present /\ schedule.owner # None
        /\ IsActive(schedule.active)
        /\ job[schedule.active].status # "failed"

\* Jobs are leased jobs: one changes hands only when its lease is over, and
\* however many processes are at work on it, its outcome is decided once, by
\* the one that was given it last.
Leases == INSTANCE LeasedJobs WITH
    Job <- Run,
    Worker <- Process,
    Nobody <- None,
    status <- [r \in Run |-> job[r].status],
    owner <- [r \in Run |-> job[r].holder],
    live <- [r \in Run |-> job[r].lease = "live"],
    atWork <- [r \in Run |-> WorkersOn(r)]
ImplementsLeasedJobs == Leases!Spec

\* Polling goes on: whatever attempt stops, message is thrown away or
\* publication fails, a schedule does not wait for one run for ever, unless a
\* full run keeps it from being claimed.
PollingMovesOn ==
    \A r \in Polling :
        (schedule.active = r) ~> (schedule.active # r \/ FullSyncGoesOn)
=============================================================================
