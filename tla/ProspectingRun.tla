--------------------------- MODULE ProspectingRun ---------------------------
(***************************************************************************)
(* The life of ONE prospecting run across the API, the worker, the         *)
(* scheduler's recovery and reconciliation, PostgreSQL and BullMQ.  What   *)
(* the worker does between claiming the run and its outcome is             *)
(* CellDiscovery; here it is one label, "work".                            *)
(*                                                                         *)
(* Every PostgreSQL statement or transaction and every queue operation is  *)
(* a step of its own, so the API, a scheduler tick and the workers         *)
(* interleave wherever the code awaits.  A status read by one step and     *)
(* used by a later one is kept in saw.  One API request at a time has      *)
(* several steps; the requests of a single step interleave with it.        *)
(*                                                                         *)
(* EnqueueAnew, SkipNoRow, SkipStarted, AttemptsKept, Succeeded, Accepted  *)
(* and NotCompleted are faulty variants of the operator defined after      *)
(* them; no action uses them, and each breaks a property when put in.      *)
(***************************************************************************)
EXTENDS Naturals

CONSTANTS
  Workers,      \* job processors (WORKER_CONCURRENCY)
  Requests,     \* the requests the operator and the schedules make
  Faults,       \* the faults that may happen
  MaxAttempts,  \* DEFAULT_JOB_OPTIONS.attempts
  MaxRequests, MaxFaults     \* bounds on how many requests and faults

ASSUME ConstantsAssumption ==
  /\ Requests \subseteq {"create", "schedule", "cancel", "retry", "retryJob", "archive",
                         "cancelJob"}
  /\ Faults \subseteq {"worker", "api", "tick", "redis", "outage", "lock"}
  /\ MaxAttempts \in Nat \ {0} /\ MaxRequests \in Nat /\ MaxFaults \in Nat

VARIABLES
  run,       \* ProspectingRun.status; NEW, UNCOMMITTED and GONE stand for no visible row
  beat,      \* heartbeatAt is within HEARTBEAT_TIMEOUT_SECONDS
  rec,       \* JobRecord.state of the run
  linked,    \* JobRecord.bullJobId is set
  job,       \* the BullMQ job prospecting-<run>
  tries,     \* its attemptsMade, up to MaxAttempts
  stalls,    \* its stalled counter
  holder,    \* the worker BullMQ believes to be processing it
  dead,      \* the dead-letter job exists
  late,      \* what the worker's event handlers have started and not done yet
  at,        \* where each worker is in processRun
  api, tick, \* where the API request and the scheduler tick are
  saw,       \* the run status the tick has read
  requests, faults

db    == <<run, beat, rec, linked>>
redis == <<job, tries, stalls, holder, dead>>
procs == <<late, at, api, tick, saw>>
count == <<requests, faults>>
vars  == <<db, redis, procs, count>>

NoWorker  == "none"
NoRow     == {"NEW", "UNCOMMITTED", "GONE"}
Durable   == {"PENDING", "QUEUED", "RECOVERING"}
Terminal  == {"COMPLETED", "FAILED", "CANCELLED"}
RunStatus == NoRow \union Durable \union {"RUNNING"} \union Terminal
LiveRec   == {"WAITING", "ACTIVE", "RECOVERING"}
Beating   == {"work", "final", "commit"}

TypeOK ==
  /\ run \in RunStatus /\ saw \in RunStatus
  /\ rec \in {"ABSENT"} \union LiveRec \union Terminal
  /\ beat \in BOOLEAN /\ linked \in BOOLEAN /\ dead \in BOOLEAN
  /\ job \in {"none", "wait", "active", "delayed", "completed", "failed"}
  /\ tries \in 0..MaxAttempts /\ stalls \in 0..1
  /\ holder \in Workers \union {NoWorker}
  /\ late \subseteq {"ACTIVE", "WAITING", "FAILED", "DEAD"}
  /\ at \in [Workers -> {"idle", "load", "mark", "work", "final", "commit", "cancelled",
                         "fail", "ack", "nack"}]
  /\ api \in {"idle", "created", "queued", "link", "retry", "retryJob", "undead",
             "archive"}
  /\ tick \in {"idle", "inTx", "recoverRun", "recoverRec", "recoverJob", "fix", "add", "upsert",
               "check", "drop"}
  /\ requests \in 0..MaxRequests /\ faults \in 0..MaxFaults

Init ==
  /\ run = "NEW" /\ beat = FALSE /\ rec = "ABSENT" /\ linked = FALSE
  /\ job = "none" /\ tries = 0 /\ stalls = 0 /\ holder = NoWorker /\ dead = FALSE
  /\ late = {} /\ at = [w \in Workers |-> "idle"]
  /\ api = "idle" /\ tick = "idle" /\ saw = "NEW"
  /\ requests = 0 /\ faults = 0

Request(kind) ==
  /\ kind \in Requests /\ requests < MaxRequests
  /\ requests' = requests + 1
  /\ UNCHANGED faults

Fault(kind) ==
  /\ kind \in Faults /\ faults < MaxFaults
  /\ faults' = faults + 1
  /\ UNCHANGED requests

SetLive(state) == rec' = IF rec \in LiveRec THEN state ELSE rec
SetAll(state)  == rec' = IF rec = "ABSENT" THEN rec ELSE state

-----------------------------------------------------------------------------
(* Queue operations (packages/queues).                                     *)

\* add() with an existing jobId leaves the existing job alone.
Fresh == job' = "wait" /\ tries' = 0 /\ stalls' = 0 /\ holder' = NoWorker /\ UNCHANGED dead

AddJob == IF job = "none" THEN Fresh ELSE UNCHANGED redis

\* ensureProspectingJob: look the job up, retry a failed one, replace a completed one.
EnqueueAnew == Fresh
EnqueueRun ==
  \/ job \in {"none", "completed"} /\ Fresh
  \/ job = "failed" /\ job' = "wait" /\ UNCHANGED <<tries, stalls, holder, dead>>
  \/ job \in {"wait", "active", "delayed"} /\ UNCHANGED redis

-----------------------------------------------------------------------------
(* The API (service.ts).                                                   *)

CreateRun ==
  /\ Request("create") /\ api = "idle" /\ run = "NEW"
  /\ run' = "PENDING" /\ api' = "created"
  /\ UNCHANGED <<beat, rec, linked, redis, late, at, tick, saw>>

\* The record and the QUEUED status are one transaction, refused if a record exists.
RecordIntent ==
  /\ api = "created"
  /\ IF rec = "ABSENT"
       THEN rec' = "WAITING" /\ run' = "QUEUED" /\ api' = "queued"
       ELSE UNCHANGED <<rec, run>> /\ api' = "idle"
  /\ UNCHANGED <<beat, linked, redis, late, at, tick, saw, count>>

EnqueueCreated ==
  /\ api = "queued" /\ EnqueueRun
  /\ api' = "link"
  /\ UNCHANGED <<db, late, at, tick, saw, count>>

LinkJob ==
  /\ api = "link"
  /\ linked' = TRUE /\ api' = "idle"
  /\ UNCHANGED <<run, beat, rec, redis, late, at, tick, saw, count>>

CancelRun ==
  /\ Request("cancel") /\ run \notin NoRow
  /\ run' = "CANCELLED" /\ SetLive("CANCELLED")
  /\ UNCHANGED <<beat, linked, redis, procs>>

RetryRun ==
  /\ Request("retry") /\ api = "idle" /\ run \notin NoRow
  /\ run' = "RECOVERING" /\ api' = "retry"
  /\ UNCHANGED <<beat, rec, linked, redis, late, at, tick, saw>>

\* The record was read before: it says whether there is a dead letter to remove afterwards.
RetryJob ==
  /\ Request("retryJob") /\ api = "idle" /\ run \notin NoRow /\ rec # "ABSENT"
  /\ run' = "RECOVERING" /\ rec' = "RECOVERING"
  /\ api' = IF linked THEN "retryJob" ELSE "retry"
  /\ UNCHANGED <<beat, linked, redis, late, at, tick, saw>>

EnqueueRetry ==
  /\ api \in {"retry", "retryJob"} /\ EnqueueRun
  /\ api' = IF api = "retryJob" THEN "undead" ELSE "idle"
  /\ UNCHANGED <<db, late, at, tick, saw, count>>

RemoveDeadLetter ==
  /\ api = "undead"
  /\ dead' = FALSE /\ api' = "idle"
  /\ UNCHANGED <<db, job, tries, stalls, holder, late, at, tick, saw, count>>

ArchiveJob ==
  /\ Request("archive") /\ api = "idle" /\ rec # "ABSENT"
  /\ dead' = (dead /\ ~linked) /\ api' = "archive"
  /\ UNCHANGED <<db, job, tries, stalls, holder, late, at, tick, saw>>

ArchiveRecord ==
  /\ api = "archive"
  /\ rec' = "CANCELLED" /\ api' = "idle"
  /\ UNCHANGED <<run, beat, linked, redis, late, at, tick, saw, count>>

CancelJob ==
  /\ Request("cancelJob") /\ rec # "ABSENT"
  /\ rec' = "CANCELLED"
  /\ UNCHANGED <<run, beat, linked, redis, procs>>

ApiCrash ==
  /\ Fault("api") /\ api # "idle"
  /\ api' = "idle"
  /\ UNCHANGED <<db, redis, late, at, tick, saw>>

-----------------------------------------------------------------------------
(* The worker (processRun and the handlers of its events).                 *)

Become(w, label) == at' = [at EXCEPT ![w] = label]

PickJob(w) ==
  /\ at[w] = "idle" /\ job = "wait"
  /\ job' = "active" /\ holder' = w
  /\ Become(w, "load")
  /\ late' = late \union {"ACTIVE"}
  /\ UNCHANGED <<db, tries, stalls, dead, api, tick, saw, count>>

SkipNoRow   == run \in NoRow
SkipStarted == run \notin {"PENDING", "QUEUED"}
Skip        == run \in NoRow \union {"COMPLETED", "CANCELLED"}

LoadRun(w) ==
  /\ at[w] = "load"
  /\ Become(w, IF Skip THEN "ack" ELSE "mark")
  /\ UNCHANGED <<db, redis, late, api, tick, saw, count>>

\* The emergency stop or an unreachable database: the job fails, the run is not touched.
Outage(w) ==
  /\ Fault("outage") /\ at[w] \in {"load", "mark", "fail"}
  /\ Become(w, "nack")
  /\ UNCHANGED <<db, redis, late, api, tick, saw>>

MarkRunning(w) ==
  /\ at[w] = "mark"
  /\ run' = "RUNNING" /\ beat' = TRUE
  /\ Become(w, "work")
  /\ UNCHANGED <<rec, linked, redis, late, api, tick, saw, count>>

Heartbeat(w) ==
  /\ at[w] \in Beating /\ ~beat
  /\ beat' = TRUE
  /\ UNCHANGED <<run, rec, linked, redis, procs, count>>

Work(w) ==
  /\ at[w] = "work"
  /\ \/ Become(w, "final")
     \/ Become(w, "fail")
     \/ run = "CANCELLED" /\ Become(w, "cancelled")
  /\ UNCHANGED <<db, redis, late, api, tick, saw, count>>

FinalCheck(w) ==
  /\ at[w] = "final"
  /\ Become(w, IF run = "CANCELLED" THEN "cancelled" ELSE "commit")
  /\ UNCHANGED <<db, redis, late, api, tick, saw, count>>

CommitRun(w) ==
  /\ at[w] = "commit"
  /\ run' = "COMPLETED" /\ beat' = TRUE /\ SetLive("COMPLETED")
  /\ Become(w, "ack")
  /\ UNCHANGED <<linked, redis, late, api, tick, saw, count>>

EndCancelled(w) ==
  /\ at[w] = "cancelled"
  /\ SetLive("CANCELLED")
  /\ Become(w, "ack")
  /\ UNCHANGED <<run, beat, linked, redis, late, api, tick, saw, count>>

FailRun(w) ==
  /\ at[w] = "fail"
  /\ run' = "FAILED" /\ SetAll("FAILED")
  /\ Become(w, "nack")
  /\ UNCHANGED <<beat, linked, redis, late, api, tick, saw, count>>

\* BullMQ moves the job only for the worker that still holds it.
Holds(w) == job = "active" /\ holder = w

Ack(w) ==
  /\ at[w] = "ack"
  /\ Become(w, "idle")
  /\ IF Holds(w) THEN job' = "completed" /\ holder' = NoWorker ELSE UNCHANGED <<job, holder>>
  /\ UNCHANGED <<db, tries, stalls, dead, late, api, tick, saw, count>>

AttemptsKept == FALSE
Exhausted    == tries + 1 >= MaxAttempts

Nack(w) ==
  /\ at[w] = "nack"
  /\ Become(w, "idle")
  /\ IF Holds(w)
       THEN /\ job' = IF Exhausted THEN "failed" ELSE "delayed"
            /\ tries' = IF Exhausted THEN MaxAttempts ELSE tries + 1
            /\ holder' = NoWorker
            /\ late' = late \union IF Exhausted THEN {"FAILED", "DEAD"} ELSE {"WAITING"}
       ELSE UNCHANGED <<job, tries, holder, late>>
  /\ UNCHANGED <<db, stalls, dead, api, tick, saw, count>>

\* The handlers do not wait for their writes: they land in any order, or never if the
\* process dies first.  The records are found by bullJobId.
LateWrite ==
  \E write \in late :
    /\ late' = late \ {write}
    /\ IF write = "DEAD"
         THEN dead' = TRUE /\ UNCHANGED rec
         ELSE rec' = (IF linked /\ rec # "ABSENT" THEN write ELSE rec) /\ UNCHANGED dead
    /\ UNCHANGED <<run, beat, linked, job, tries, stalls, holder, at, api, tick, saw, count>>

WorkerCrash(w) ==
  /\ Fault("worker") /\ at[w] # "idle"
  /\ Become(w, "idle") /\ late' = {}
  /\ UNCHANGED <<db, redis, api, tick, saw>>

HeartbeatLost ==
  /\ Fault("outage") /\ beat
  /\ beat' = FALSE
  /\ UNCHANGED <<run, rec, linked, redis, procs>>

HeartbeatExpires ==
  /\ beat /\ \A w \in Workers : at[w] \notin Beating
  /\ beat' = FALSE
  /\ UNCHANGED <<run, rec, linked, redis, procs, count>>

-----------------------------------------------------------------------------
(* BullMQ on its own.                                                      *)

DelayElapses ==
  /\ job = "delayed"
  /\ job' = "wait"
  /\ UNCHANGED <<db, tries, stalls, holder, dead, procs, count>>

\* An active job whose lock is not renewed goes back to wait once, then it is failed: the
\* failed handler sees the attempts it really made.
Release ==
  /\ IF stalls = 0
       THEN job' = "wait" /\ UNCHANGED late
       ELSE /\ job' = "failed"
            /\ late' = late \union
                  IF tries >= MaxAttempts THEN {"FAILED", "DEAD"} ELSE {"WAITING"}
  /\ stalls' = 1 /\ holder' = NoWorker
  /\ UNCHANGED <<db, tries, dead, at, api, tick, saw>>

JobStalls ==
  /\ job = "active" /\ holder # NoWorker /\ at[holder] = "idle"
  /\ Release
  /\ UNCHANGED count

LockLost ==
  /\ Fault("lock") /\ job = "active" /\ holder # NoWorker /\ at[holder] # "idle"
  /\ Release

RedisLoss ==
  /\ Fault("redis")
  /\ job' = "none" /\ tries' = 0 /\ stalls' = 0 /\ holder' = NoWorker /\ dead' = FALSE
  /\ UNCHANGED <<db, procs>>

-----------------------------------------------------------------------------
(* The scheduler: schedules, recovery, reconciliation.  A tick goes through *)
(* them in order every 30 seconds and ticks may overlap, so each is a       *)
(* sequence of its own, started whenever it has something to do.            *)

Step(from, to) == tick = from /\ tick' = to
Forget         == saw' = "NEW"
TickRest       == UNCHANGED <<late, at, api, count>>
Succeeded(status) == status \in {"COMPLETED"} \union NoRow
Ended(status)     == status \in Terminal \union NoRow
Accepted          == {"QUEUED", "RECOVERING"}
Rebuildable       == {"PENDING", "QUEUED", "RECOVERING"}

\* dispatchSchedules enqueues inside the transaction that creates the run.
DispatchSchedule ==
  /\ Request("schedule") /\ run = "NEW" /\ Step("idle", "inTx")
  /\ run' = "UNCOMMITTED" /\ EnqueueRun
  /\ UNCHANGED <<beat, rec, linked, late, at, api, saw>>

CommitSchedule ==
  /\ Step("inTx", "idle")
  /\ run' = "QUEUED" /\ rec' = "WAITING"
  /\ UNCHANGED <<beat, linked, redis, saw>> /\ TickRest

RollbackSchedule ==
  /\ Fault("tick") /\ Step("inTx", "idle")
  /\ run' = "GONE"
  /\ UNCHANGED <<beat, rec, linked, redis, late, at, api, saw>>

\* recover
FindStale ==
  /\ Step("idle", "recoverRun") /\ run = "RUNNING" /\ ~beat
  /\ UNCHANGED <<db, redis, saw>> /\ TickRest

RecoverRun ==
  /\ Step("recoverRun", "recoverRec")
  /\ run' = "RECOVERING"
  /\ UNCHANGED <<beat, rec, linked, redis, saw>> /\ TickRest

RecoverRecord ==
  /\ Step("recoverRec", "recoverJob")
  /\ SetAll("RECOVERING")
  /\ UNCHANGED <<run, beat, linked, redis, saw>> /\ TickRest

RecoverJob ==
  /\ Step("recoverJob", "idle")
  /\ EnqueueRun
  /\ UNCHANGED <<db, saw>> /\ TickRest

\* reconcileDurableJobRecords
FindRecord ==
  /\ Step("idle", "fix") /\ rec \in LiveRec /\ Ended(run)
  /\ saw' = run
  /\ UNCHANGED <<db, redis>> /\ TickRest

FixRecord ==
  /\ Step("fix", "idle") /\ Forget
  /\ rec' = IF saw \in Terminal THEN saw ELSE "CANCELLED"
  /\ UNCHANGED <<run, beat, linked, redis>> /\ TickRest

\* rebuildProspectingQueue
FindDurable ==
  /\ Step("idle", "add") /\ run \in Rebuildable
  /\ saw' = run
  /\ UNCHANGED <<db, redis>> /\ TickRest

AddMissingJob ==
  /\ Step("add", "upsert")
  /\ AddJob
  /\ UNCHANGED <<db, saw>> /\ TickRest

UpsertRecord ==
  /\ Step("upsert", "idle") /\ Forget
  /\ rec' = IF saw = "RECOVERING" THEN "RECOVERING" ELSE "WAITING"
  /\ linked' = TRUE
  /\ UNCHANGED <<run, beat, redis>> /\ TickRest

FindOrphan ==
  /\ Step("idle", "check") /\ job \in {"wait", "delayed"}
  /\ UNCHANGED <<db, redis, saw>> /\ TickRest

CheckOrphan ==
  /\ Step("check", IF Ended(run) THEN "drop" ELSE "idle")
  /\ UNCHANGED <<db, redis, saw>> /\ TickRest

\* remove() fails on a job a worker has taken meanwhile, which ends the tick.
DropOrphan ==
  /\ Step("drop", "idle")
  /\ job' = IF job = "active" THEN job ELSE "none"
  /\ UNCHANGED <<db, tries, stalls, holder, dead, saw>> /\ TickRest

TickCrash ==
  /\ Fault("tick") /\ tick \notin {"idle", "inTx"}
  /\ tick' = "idle" /\ Forget
  /\ UNCHANGED <<db, redis, late, at, api>>

\* rebuildDeadLetterQueue runs beside the other rebuilds (Promise.all).
NotCompleted == rec \in {"FAILED", "CANCELLED"} /\ linked
DeadRecord   == rec = "FAILED" /\ linked

RebuildDeadLetter ==
  /\ DeadRecord /\ ~dead
  /\ dead' = TRUE
  /\ UNCHANGED <<db, job, tries, stalls, holder, procs, count>>

SweepDeadLetter ==
  /\ dead /\ ~DeadRecord
  /\ dead' = FALSE
  /\ UNCHANGED <<db, job, tries, stalls, holder, procs, count>>

-----------------------------------------------------------------------------
ApiStep ==
  \/ RecordIntent \/ EnqueueCreated \/ LinkJob \/ EnqueueRetry \/ RemoveDeadLetter
  \/ ArchiveRecord

WorkerStep(w) ==
  \/ LoadRun(w) \/ MarkRunning(w) \/ Work(w) \/ FinalCheck(w) \/ CommitRun(w)
  \/ EndCancelled(w) \/ FailRun(w) \/ Ack(w) \/ Nack(w)

TickStep ==
  \/ CommitSchedule \/ RecoverRun \/ RecoverRecord \/ RecoverJob \/ FixRecord
  \/ AddMissingJob \/ UpsertRecord \/ CheckOrphan \/ DropOrphan

TickStart == FindStale \/ FindRecord \/ FindDurable \/ FindOrphan

QueueStep == DelayElapses \/ JobStalls

Ask ==
  \/ CreateRun \/ CancelRun \/ RetryRun \/ RetryJob \/ ArchiveJob \/ CancelJob
  \/ DispatchSchedule

Break ==
  \/ ApiCrash \/ TickCrash \/ RollbackSchedule \/ LockLost \/ RedisLoss \/ HeartbeatLost
  \/ \E w \in Workers : WorkerCrash(w) \/ Outage(w)

Next ==
  \/ Ask \/ Break \/ ApiStep \/ TickStart \/ TickStep \/ QueueStep \/ HeartbeatExpires
  \/ LateWrite \/ RebuildDeadLetter \/ SweepDeadLetter
  \/ \E w \in Workers : PickJob(w) \/ WorkerStep(w) \/ Heartbeat(w)

Spec == Init /\ [][Next]_vars

\* An accepted request, a started tick, a worker's event loop and BullMQ's own timers keep
\* going; a phase of the tick that keeps finding something to do is started again and again.
\* Requests, faults and the removal of orphan jobs are never owed.
Fairness ==
  /\ WF_vars(ApiStep) /\ WF_vars(TickStep) /\ WF_vars(QueueStep)
  /\ SF_vars(FindStale) /\ SF_vars(FindRecord) /\ SF_vars(FindDurable)
  /\ WF_vars(HeartbeatExpires) /\ WF_vars(LateWrite)
  /\ WF_vars(RebuildDeadLetter \/ SweepDeadLetter)
  /\ \A w \in Workers : WF_vars(PickJob(w) \/ WorkerStep(w))

FairSpec == Spec /\ Fairness

-----------------------------------------------------------------------------
(* Properties.                                                             *)

\* The deterministic job id keeps a run from being processed twice at the same time, as
\* long as BullMQ keeps its jobs and its locks: whoever enqueues, and however often.
OneProcessor == \A v, w \in Workers : at[v] # "idle" /\ at[w] # "idle" => v = w

\* Under the same proviso a COMPLETED run is not processed again by a job that was picked
\* or rebuilt from a status read before it ended; only the API or recovery reopen it.
CompletedNotRerun == [][run = "COMPLETED" => run' \notin {"RUNNING", "FAILED"}]_run

\* A run some worker has started ends, although workers die, Redis is emptied and BullMQ
\* hands its job to two workers: heartbeat, recovery and reconciliation together see to it.
StartedRunEnds == run = "RUNNING" ~> run \in Terminal

\* "Reconciliation recreates the jobs of PENDING, QUEUED and RECOVERING runs that are
\* missing in BullMQ" (RECOVERY.md): wherever the API or Redis stopped, the job comes back.
MissingJobReturns ==
  LET missing == run \in Durable /\ job = "none" IN missing ~> ~missing

\* A live JobRecord of a run that has ended is corrected, even when a late handler or a
\* rebuild from a stale read has revived it (reconcileDurableJobRecords).
RecordFollowsRun ==
  LET astray == run \in Terminal /\ rec \in LiveRec IN astray ~> ~astray

\* The dead letter of a failed record exists again after Redis was lost, and one whose
\* record is no longer failed goes away (RECOVERY.md on the dead-letter queue).
DeadLetterMatches == []<>(dead <=> (rec = "FAILED" /\ linked))

\* "No processing is lost after a restart" (specification of the repository, section 73):
\* every run with a durable intent ends.
IntentSettles == run \in Durable \union {"RUNNING"} ~> run \in Terminal

\* "Five attempts with exponential backoff" (tests/queues.integration.test.ts): a job that
\* waits for its next attempt gets it.
PendingRetrySurvives == [][job = "delayed" => job' \in {"delayed", "wait"}]_job
=============================================================================
