----------------------- MODULE ProspectingRun_proofs -----------------------
(***************************************************************************)
(* Proofs about ProspectingRun, for any number of workers, attempts,       *)
(* requests and faults:                                                    *)
(*   - type correctness, whatever the faults;                              *)
(*   - while BullMQ keeps its jobs and its locks, one worker at a time     *)
(*     processes the run (OneProcessor) and a COMPLETED run is not         *)
(*     processed again (CompletedNotRerun).                                *)
(***************************************************************************)
EXTENDS ProspectingRun, TLAPS

-----------------------------------------------------------------------------
(* Type correctness.                                                       *)

\* A run that nobody has asked for yet has only idle processes.
LEMMA TypeInit == Init => TypeOK
<1> SUFFICES ASSUME Init PROVE TypeOK
  OBVIOUS
<1>1. run \in RunStatus /\ saw \in RunStatus
  BY DEF Init, RunStatus, NoRow
<1>2. beat \in BOOLEAN /\ linked \in BOOLEAN /\ dead \in BOOLEAN
  BY Zenon DEF Init
<1>3. /\ tries \in 0..MaxAttempts /\ stalls \in 0..1
      /\ requests \in 0..MaxRequests /\ faults \in 0..MaxFaults
  BY ConstantsAssumption DEF Init, ConstantsAssumption
<1>4. at \in [Workers -> {"idle"}]
  BY DEF Init
<1>5. /\ rec = "ABSENT" /\ job = "none" /\ holder = NoWorker /\ late = {}
      /\ api = "idle" /\ tick = "idle"
  BY DEF Init
<1> QED BY <1>1, <1>2, <1>3, <1>4, <1>5 DEF TypeOK

\* What the queue operations leave in Redis.
LEMMA QueueTypes ==
  ASSUME TypeOK, EnqueueRun \/ AddJob
  PROVE  /\ job' \in {"none", "wait", "active", "delayed", "completed", "failed"}
         /\ tries' \in 0..MaxAttempts /\ stalls' \in 0..1
         /\ holder' \in Workers \union {NoWorker} /\ dead' \in BOOLEAN
BY ConstantsAssumption
   DEF TypeOK, EnqueueRun, AddJob, Fresh, redis, ConstantsAssumption

\* The steps that switch the heartbeat or the dead letter off, one by one or with all Redis.
LEMMA SwitchedOff ==
  ASSUME TypeOK, HeartbeatExpires \/ HeartbeatLost \/ SweepDeadLetter \/ RedisLoss
  PROVE  TypeOK'
<1>1. beat' \in BOOLEAN /\ dead' \in BOOLEAN
  BY Zenon DEF HeartbeatExpires, HeartbeatLost, SweepDeadLetter, RedisLoss, db, redis, TypeOK
<1>2. UNCHANGED <<run, rec, linked, procs, requests>>
  BY Zenon DEF HeartbeatExpires, HeartbeatLost, SweepDeadLetter, RedisLoss, Fault, db, redis,
    procs, count
<1>3. faults' \in 0..MaxFaults
  BY ConstantsAssumption DEF HeartbeatExpires, HeartbeatLost, SweepDeadLetter, RedisLoss, Fault,
    count, TypeOK, ConstantsAssumption
<1>4. /\ job' \in {job, "none"} /\ tries' \in {tries, 0} /\ stalls' \in {stalls, 0}
      /\ holder' \in {holder, NoWorker}
  BY Zenon DEF HeartbeatExpires, HeartbeatLost, SweepDeadLetter, RedisLoss, db, redis
<1> QED BY <1>1, <1>2, <1>3, <1>4, ConstantsAssumption DEF procs, TypeOK, ConstantsAssumption

\* A stalled job goes back to wait or is failed, and its handler writes what BullMQ says.
LEMMA Released ==
  ASSUME TypeOK, JobStalls \/ LockLost
  PROVE  TypeOK'
<1>1. late' \subseteq {"ACTIVE", "WAITING", "FAILED", "DEAD"} /\ job' \in {"wait", "failed"}
  BY DEF JobStalls, LockLost, Release, TypeOK
<1> QED BY <1>1, ConstantsAssumption
        DEF JobStalls, LockLost, Release, db, count, Fault, TypeOK, NoWorker, ConstantsAssumption

\* Every step keeps the types; TypeOK is inductive on its own.
LEMMA TypeStep == TypeOK /\ [Next]_vars => TypeOK'
<1> SUFFICES ASSUME TypeOK, [Next]_vars PROVE TypeOK'
  OBVIOUS
<1>1. CASE UNCHANGED vars
  BY <1>1 DEF vars, db, redis, procs, count, TypeOK
<1>2. CASE Ask
  <2>1. CASE CreateRun
    BY <2>1, ConstantsAssumption
    DEF CreateRun, Request, redis, TypeOK, RunStatus, Durable, ConstantsAssumption
  <2>2. CASE CancelRun
    BY <2>2, ConstantsAssumption DEF CancelRun, Request, redis, procs, SetLive, TypeOK, RunStatus,
      Terminal, LiveRec, ConstantsAssumption
  <2>3. CASE RetryRun
    BY <2>3, ConstantsAssumption
    DEF RetryRun, Request, redis, TypeOK, RunStatus, Durable, ConstantsAssumption
  <2>4. CASE RetryJob
    BY <2>4, ConstantsAssumption DEF RetryJob, Request, redis, TypeOK, RunStatus, Durable,
      LiveRec, ConstantsAssumption
  <2>5. CASE ArchiveJob
    BY <2>5, ConstantsAssumption DEF ArchiveJob, Request, db, TypeOK, ConstantsAssumption
  <2>6. CASE DispatchSchedule
    BY <2>6, QueueTypes, ConstantsAssumption
    DEF DispatchSchedule, Request, Step, TypeOK, RunStatus, NoRow, ConstantsAssumption
  <2>7. CASE CancelJob
    BY <2>7, ConstantsAssumption
    DEF CancelJob, Request, redis, procs, TypeOK, Terminal, ConstantsAssumption
  <2> QED BY <1>2, <2>1, <2>2, <2>3, <2>4, <2>5, <2>6, <2>7 DEF Ask
<1>3. CASE ApiStep
  <2>1. CASE RecordIntent
    BY <2>1 DEF RecordIntent, redis, count, TypeOK, RunStatus, Durable, LiveRec
  <2>2. CASE EnqueueCreated \/ EnqueueRetry
    BY <2>2, QueueTypes DEF EnqueueCreated, EnqueueRetry, db, count, TypeOK
  <2>3. CASE LinkJob
    BY <2>3 DEF LinkJob, redis, count, TypeOK
  <2>4. CASE RemoveDeadLetter
    BY <2>4 DEF RemoveDeadLetter, db, count, TypeOK
  <2>5. CASE ArchiveRecord
    BY <2>5 DEF ArchiveRecord, redis, count, TypeOK, Terminal
  <2> QED BY <1>3, <2>1, <2>2, <2>3, <2>4, <2>5 DEF ApiStep
<1>4. CASE TickStart
  BY <1>4 DEF TickStart, FindStale, FindRecord, FindDurable, FindOrphan, TickRest, db, redis,
    count, Step, TypeOK
<1>5. CASE TickStep
  <2>1. CASE CommitSchedule \/ RecoverRun
    BY <2>1 DEF CommitSchedule, RecoverRun, TickRest, redis, count, Step, TypeOK, RunStatus,
      Durable, LiveRec
  <2>2. CASE RecoverRecord
    BY <2>2 DEF RecoverRecord, SetAll, TickRest, redis, count, Step, TypeOK, LiveRec
  <2>3. CASE RecoverJob \/ AddMissingJob
    BY <2>3, QueueTypes DEF RecoverJob, AddMissingJob, TickRest, db, count, Step, TypeOK
  <2>4. CASE FixRecord
    BY <2>4 DEF FixRecord, Forget, TickRest, redis, count, Step, TypeOK, RunStatus, NoRow, Terminal
  <2>5. CASE UpsertRecord
    BY <2>5 DEF UpsertRecord, Forget, TickRest, redis, count, Step, TypeOK, RunStatus, NoRow,
      LiveRec
  <2>6. CASE CheckOrphan \/ DropOrphan
    BY <2>6 DEF CheckOrphan, DropOrphan, redis, TickRest, db, count, Step, TypeOK
  <2> QED BY <1>5, <2>1, <2>2, <2>3, <2>4, <2>5, <2>6 DEF TickStep
<1>6. CASE QueueStep \/ HeartbeatExpires \/ SweepDeadLetter
  <2>1. CASE DelayElapses
    BY <2>1 DEF DelayElapses, db, procs, count, TypeOK
  <2> QED BY <1>6, <2>1, Released, SwitchedOff DEF QueueStep
<1>7. CASE LateWrite
  <2>1. PICK write \in late : LateWrite!(write)
    BY <1>7 DEF LateWrite
  <2>2. dead' \in BOOLEAN /\ rec' \in {"ABSENT"} \union LiveRec \union Terminal
    BY <2>1 DEF TypeOK, LiveRec, Terminal
  <2> QED BY <2>1, <2>2 DEF count, TypeOK
<1>8. CASE RebuildDeadLetter
  BY <1>8 DEF RebuildDeadLetter, db, procs, count, TypeOK
<1>9. CASE Break
  <2>1. CASE ApiCrash
    BY <2>1, ConstantsAssumption DEF ApiCrash, Fault, db, redis, TypeOK, ConstantsAssumption
  <2>2. CASE TickCrash
    BY <2>2, ConstantsAssumption DEF TickCrash, Forget, Fault, db, redis, TypeOK, RunStatus,
      NoRow, ConstantsAssumption
  <2>3. CASE RollbackSchedule
    BY <2>3, ConstantsAssumption DEF RollbackSchedule, Step, Fault, redis, TypeOK, RunStatus,
      NoRow, ConstantsAssumption
  <2>4. ASSUME NEW w \in Workers, WorkerCrash(w) PROVE TypeOK'
    BY <2>4, ConstantsAssumption
    DEF WorkerCrash, Become, Fault, db, redis, TypeOK, ConstantsAssumption
  <2>5. ASSUME NEW w \in Workers, Outage(w) PROVE TypeOK'
    BY <2>5, ConstantsAssumption
    DEF Outage, Become, Fault, db, redis, TypeOK, ConstantsAssumption
  <2> QED BY <1>9, <2>1, <2>2, <2>3, <2>4, <2>5, Released, SwitchedOff DEF Break
<1>10. ASSUME NEW w \in Workers, PickJob(w) \/ WorkerStep(w) \/ Heartbeat(w) PROVE TypeOK'
  <2>1. CASE PickJob(w)
    BY <2>1 DEF PickJob, Become, db, count, TypeOK
  <2>2. CASE LoadRun(w)
    BY <2>2 DEF LoadRun, Become, db, redis, count, TypeOK
  <2>3. CASE MarkRunning(w)
    BY <2>3 DEF MarkRunning, Become, redis, count, TypeOK, RunStatus
  <2>4. CASE Work(w)
    BY <2>4 DEF Work, Become, db, redis, count, TypeOK
  <2>5. CASE FinalCheck(w)
    BY <2>5 DEF FinalCheck, Become, db, redis, count, TypeOK
  <2>6. CASE CommitRun(w)
    BY <2>6 DEF CommitRun, Become, SetLive, redis, count, TypeOK, RunStatus, Terminal, LiveRec
  <2>7. CASE EndCancelled(w)
    BY <2>7 DEF EndCancelled, Become, SetLive, redis, count, TypeOK, Terminal, LiveRec
  <2>8. CASE FailRun(w)
    BY <2>8 DEF FailRun, Become, SetAll, redis, count, TypeOK, RunStatus, Terminal
  <2>9. CASE Ack(w)
    BY <2>9 DEF Ack, Become, db, count, TypeOK
  <2>10. CASE Nack(w)
    <3>1. tries' \in 0..MaxAttempts
      BY <2>10, ConstantsAssumption DEF Nack, Exhausted, TypeOK, ConstantsAssumption
    <3>2. /\ job' \in {"failed", "delayed", job} /\ holder' \in {holder, NoWorker}
          /\ late' \subseteq late \union {"FAILED", "DEAD", "WAITING"}
      BY <2>10 DEF Nack
    <3> QED BY <2>10, <3>1, <3>2 DEF Nack, Become, db, count, TypeOK
  <2>11. CASE Heartbeat(w)
    BY <2>11 DEF Heartbeat, redis, procs, count, TypeOK
  <2> QED BY <1>10, <2>1, <2>2, <2>3, <2>4, <2>5, <2>6, <2>7, <2>8, <2>9, <2>10, <2>11
          DEF WorkerStep
<1> QED BY <1>1, <1>2, <1>3, <1>4, <1>5, <1>6, <1>7, <1>8, <1>9, <1>10 DEF Next

\* Whatever the requests and the faults, the rows, the job and the processes keep their types.
THEOREM RunTypeCorrect == Spec => []TypeOK
BY TypeInit, TypeStep, PTL DEF Spec

-----------------------------------------------------------------------------
(* One processor at a time.                                                *)

\* A busy worker is the one BullMQ has given the active job to.
Held == \A w \in Workers : at[w] # "idle" => job = "active" /\ holder = w

\* The labels from which processRun still writes the outcome of the run.
Deciding == {"mark", "work", "final", "commit", "cancelled", "fail"}

\* Whoever is busy once the run is COMPLETED is on its way out, or about to read the status.
Settled == run = "COMPLETED" => \A w \in Workers : at[w] \notin Deciding

OwnInv == TypeOK /\ Held /\ Settled

\* A step that leaves the workers alone, moves the job only when nobody is busy, and does
\* not complete the run.
LEMMA NobodyMoves ==
  ASSUME Held, Settled, UNCHANGED at,
         UNCHANGED <<job, holder>> \/ \A w \in Workers : at[w] = "idle",
         run' = run \/ run' # "COMPLETED"
  PROVE  Held' /\ Settled'
BY DEF Held, Settled

\* Enqueueing, by the deterministic id, never takes an active job from its worker.
LEMMA EnqueueLeavesActive ==
  ASSUME Held, EnqueueRun \/ AddJob
  PROVE  UNCHANGED <<job, holder>> \/ \A w \in Workers : at[w] = "idle"
BY DEF Held, EnqueueRun, AddJob, Fresh, redis

\* While BullMQ keeps its jobs and its locks every step keeps the job with its worker, and
\* only that worker decides the outcome of the run.
LEMMA OwnStep ==
  ASSUME "lock" \notin Faults, "redis" \notin Faults
  PROVE  OwnInv /\ [Next]_vars => OwnInv'
<1> SUFFICES ASSUME TypeOK, Held, Settled, [Next]_vars PROVE Held' /\ Settled'
  BY TypeStep DEF OwnInv
<1>1. CASE UNCHANGED vars
  BY <1>1, NobodyMoves DEF vars, db, redis, procs
<1>2. CASE Ask
  <2>1. CASE DispatchSchedule
    BY <2>1, EnqueueLeavesActive, NobodyMoves DEF DispatchSchedule
  <2>2. CASE CreateRun \/ CancelRun \/ RetryRun \/ RetryJob \/ ArchiveJob \/ CancelJob
    BY <2>2, NobodyMoves DEF CreateRun, CancelRun, RetryRun, RetryJob, ArchiveJob, CancelJob,
      db, redis, procs
  <2> QED BY <1>2, <2>1, <2>2 DEF Ask
<1>3. CASE ApiStep
  <2>1. CASE EnqueueCreated \/ EnqueueRetry
    BY <2>1, EnqueueLeavesActive, NobodyMoves DEF EnqueueCreated, EnqueueRetry, db
  <2>2. CASE RecordIntent \/ LinkJob \/ RemoveDeadLetter \/ ArchiveRecord
    BY <2>2, NobodyMoves DEF RecordIntent, LinkJob, RemoveDeadLetter, ArchiveRecord, redis, db
  <2> QED BY <1>3, <2>1, <2>2 DEF ApiStep
<1>4. CASE TickStart
  BY <1>4, NobodyMoves
  DEF TickStart, FindStale, FindRecord, FindDurable, FindOrphan, TickRest, db, redis
<1>5. CASE TickStep
  <2>1. CASE RecoverJob \/ AddMissingJob
    BY <2>1, EnqueueLeavesActive, NobodyMoves DEF RecoverJob, AddMissingJob, TickRest, db
  <2>2. CASE \/ CommitSchedule \/ RecoverRun \/ RecoverRecord \/ FixRecord \/ UpsertRecord
             \/ CheckOrphan
    BY <2>2, NobodyMoves DEF CommitSchedule, RecoverRun, RecoverRecord, FixRecord, UpsertRecord,
      CheckOrphan, TickRest, db, redis
  <2>3. CASE DropOrphan
    <3>1. UNCHANGED <<job, holder>> \/ \A w \in Workers : at[w] = "idle"
      BY <2>3 DEF DropOrphan, Held
    <3> QED BY <2>3, <3>1, NobodyMoves DEF DropOrphan, TickRest, db
  <2> QED BY <1>5, <2>1, <2>2, <2>3 DEF TickStep
<1>6. CASE QueueStep
  <2>1. \A w \in Workers : at[w] = "idle"
    BY <1>6 DEF QueueStep, DelayElapses, JobStalls, Held
  <2>2. UNCHANGED <<at, run>>
    BY <1>6 DEF QueueStep, DelayElapses, JobStalls, Release, db, procs
  <2> QED BY <2>1, <2>2, NobodyMoves
<1>7. CASE HeartbeatExpires \/ LateWrite \/ RebuildDeadLetter \/ SweepDeadLetter
  BY <1>7, NobodyMoves
  DEF HeartbeatExpires, LateWrite, RebuildDeadLetter, SweepDeadLetter, db, redis, procs
<1>8. CASE Break
  <2>1. CASE ApiCrash \/ TickCrash \/ RollbackSchedule \/ HeartbeatLost
    BY <2>1, NobodyMoves
    DEF ApiCrash, TickCrash, RollbackSchedule, HeartbeatLost, db, redis, procs
  <2>2. ~LockLost /\ ~RedisLoss
    BY DEF LockLost, RedisLoss, Fault
  <2>3. ASSUME NEW w \in Workers, WorkerCrash(w) \/ Outage(w) PROVE Held' /\ Settled'
    <3>1. at[w] # "idle" /\ at' \in {[at EXCEPT ![w] = "idle"], [at EXCEPT ![w] = "nack"]}
      BY <2>3 DEF WorkerCrash, Outage, Become
    <3>2. UNCHANGED <<job, holder, run>>
      BY <2>3 DEF WorkerCrash, Outage, db, redis
    <3> QED BY <3>1, <3>2 DEF TypeOK, Held, Settled, Deciding
  <2> QED BY <1>8, <2>1, <2>2, <2>3 DEF Break
<1>9. ASSUME NEW w \in Workers, PickJob(w) \/ WorkerStep(w) \/ Heartbeat(w)
      PROVE  Held' /\ Settled'
  <2>a. /\ at = [v \in Workers |-> at[v]]
        /\ \A v \in Workers \ {w} : at[w] # "idle" => at[v] = "idle"
    BY DEF TypeOK, Held
  <2>1. CASE Heartbeat(w)
    BY <2>1, NobodyMoves DEF Heartbeat, redis, procs
  <2>2. CASE PickJob(w)
    <3>1. \A v \in Workers : at[v] = "idle"
      BY <2>2 DEF PickJob, Held
    <3>2. job' = "active" /\ holder' = w /\ run' = run /\ at' = [at EXCEPT ![w] = "load"]
      BY <2>2 DEF PickJob, Become, db
    <3> QED BY <2>a, <3>1, <3>2 DEF Held, Settled, Deciding
  <2>3. CASE LoadRun(w)
    <3>1. /\ UNCHANGED <<run, job, holder>> /\ at[w] = "load"
          /\ at' = [at EXCEPT ![w] = IF Skip THEN "ack" ELSE "mark"]
      BY <2>3 DEF LoadRun, Become, db, redis
    <3> QED BY <2>a, <3>1 DEF Held, Settled, Deciding, Skip
  <2>4. CASE \/ MarkRunning(w) \/ Work(w) \/ FinalCheck(w) \/ CommitRun(w) \/ EndCancelled(w)
             \/ FailRun(w)
    <3>1. /\ UNCHANGED <<job, holder>> /\ at[w] \in Deciding
          /\ \A v \in Workers \ {w} : at'[v] = at[v]
      BY <2>4, <2>a DEF MarkRunning, Work, FinalCheck, CommitRun, EndCancelled, FailRun, Become,
        Deciding, db, redis
    <3>2. run # "COMPLETED" /\ (run' # "COMPLETED" \/ at'[w] = "ack")
      BY <2>4, <2>a, <3>1 DEF MarkRunning, Work, FinalCheck, CommitRun, EndCancelled, FailRun,
        Become, db, Settled
    <3> QED BY <2>a, <3>1, <3>2 DEF Held, Settled, Deciding
  <2>5. CASE Ack(w) \/ Nack(w)
    <3>1. run' = run /\ at' = [at EXCEPT ![w] = "idle"] /\ at[w] # "idle"
      BY <2>5 DEF Ack, Nack, Become, db
    <3> QED BY <2>a, <3>1 DEF Held, Settled, Deciding
  <2> QED BY <1>9, <2>1, <2>2, <2>3, <2>4, <2>5 DEF WorkerStep
<1> QED BY <1>1, <1>2, <1>3, <1>4, <1>5, <1>6, <1>7, <1>8, <1>9 DEF Next

\* Nobody is busy and nothing is completed before the run is asked for.
LEMMA OwnInit == Init => OwnInv
BY TypeInit DEF Init, OwnInv, Held, Settled

\* While Redis keeps the job and its lock, the run has one processor, whoever enqueues it
\* and however often the API, the workers and the scheduler stop.
THEOREM OneProcessorAlways ==
  ASSUME "lock" \notin Faults, "redis" \notin Faults
  PROVE  Spec => []OneProcessor
<1>1. OwnInv => OneProcessor
  BY DEF OwnInv, Held, OneProcessor
<1> QED BY <1>1, OwnInit, OwnStep, PTL DEF Spec

\* Under the same assumption no job left from before, and no job rebuilt from a stale
\* status, takes a COMPLETED run back to RUNNING or to FAILED.
THEOREM CompletedIsNotRerun ==
  ASSUME "lock" \notin Faults, "redis" \notin Faults
  PROVE  Spec => CompletedNotRerun
<1>1. OwnInv /\ [Next]_vars => [run = "COMPLETED" => run' \notin {"RUNNING", "FAILED"}]_run
  <2> SUFFICES ASSUME OwnInv, Next, run = "COMPLETED", run' # run
               PROVE  run' \notin {"RUNNING", "FAILED"}
    BY DEF vars, db
  <2>1. \A w \in Workers : ~MarkRunning(w) /\ ~FailRun(w) /\ ~CommitRun(w)
    BY DEF OwnInv, Settled, Deciding, MarkRunning, FailRun, CommitRun
  <2>2. CASE Ask \/ ApiStep \/ TickStart \/ TickStep
    BY <2>2 DEF Ask, ApiStep, TickStart, TickStep, CreateRun, CancelRun, RetryRun, RetryJob,
      ArchiveJob, CancelJob, DispatchSchedule, RecordIntent, EnqueueCreated, LinkJob,
      EnqueueRetry, RemoveDeadLetter, ArchiveRecord, FindStale, FindRecord, FindDurable,
      FindOrphan, CommitSchedule, RecoverRun, RecoverRecord, RecoverJob, FixRecord,
      AddMissingJob, UpsertRecord, CheckOrphan, DropOrphan, db
  <2>3. CASE \/ Break \/ QueueStep \/ HeartbeatExpires \/ LateWrite \/ RebuildDeadLetter
             \/ SweepDeadLetter
    BY <2>3 DEF Break, QueueStep, HeartbeatExpires, LateWrite, RebuildDeadLetter,
      SweepDeadLetter, ApiCrash, TickCrash, RollbackSchedule, LockLost, Release, RedisLoss,
      HeartbeatLost, WorkerCrash, Outage, DelayElapses, JobStalls, db
  <2>4. ASSUME NEW w \in Workers, PickJob(w) \/ WorkerStep(w) \/ Heartbeat(w)
        PROVE  run' = run
    BY <2>1, <2>4 DEF WorkerStep, PickJob, Heartbeat, LoadRun, Work, FinalCheck, EndCancelled,
      Ack, Nack, db
  <2> QED BY <2>2, <2>3, <2>4 DEF Next
<1> QED BY <1>1, OwnInit, OwnStep, PTL DEF Spec, CompletedNotRerun
=============================================================================
