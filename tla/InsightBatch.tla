---------------------------- MODULE InsightBatch ----------------------------
(***************************************************************************)
(* Batches of AI insights: the operator's batches and the scheduler's      *)
(* automatic ones with their lease on each business, the single insight    *)
(* worker, the cancellation, and the reconciliation of the insight queue.  *)
(*                                                                         *)
(* Of the filters only onlyMissing matters here; every business may be     *)
(* leased (the code asks for a checked website, or none).  The scheduler   *)
(* starts a tick every 30 seconds whether or not the last one has ended,   *)
(* so Ticks may overlap in dispatchAutomaticInsights.  As in               *)
(* WebsiteAnalysis, one step per statement, transaction or queue operation.*)
(*                                                                         *)
(* KeepLease, SkipCancelled, MissingOnly and Unstarted are faulty variants *)
(* of the operator defined after them; no action uses them.                *)
(***************************************************************************)
EXTENDS Integers, FiniteSets

CONSTANTS
  Batches, Businesses, Ticks,
  BatchSize,                \* INSIGHT_BATCH_MAX_SIZE and AI_AUTO_INSIGHT_BATCH_SIZE
  MaxRequests, MaxFaults    \* bounds on the operator's requests and on the faults

NoBatch    == "no batch"
NoBusiness == "no business"

ASSUME ConstantsAssumption ==
  /\ NoBatch \notin Batches /\ IsFiniteSet(Businesses) /\ BatchSize \in Nat \ {0}
  /\ MaxRequests \in Nat /\ MaxFaults \in Nat

VARIABLES
  lease,     \* Business.aiInsightQueuedAt is set and younger than AI_INSIGHT_LEASE_MINUTES
  insight,   \* BusinessInsight: none, fresh, or older than AI_INSIGHT_REFRESH_DAYS
  row,       \* InsightBatch.status; NEW stands for no row
  members,   \* filters.businessIds of an automatic batch; {} for the operator's
  total, processed,         \* totalBusinesses, processedCount
  rec,       \* JobRecord.state; ABSENT stands for no record
  job,       \* the BullMQ job insight-batch-<id>
  at, of, todo, cur,        \* the worker: where it is, its batch, businesses left, current
  auto, found,              \* each tick's dispatch: its step and batch, the candidates
  api,       \* the step and batch of the operator's request
  tick, saw, \* the step and batch of the reconciliation, the status it has read
  requests, faults

leases == <<lease, insight>>
db     == <<row, members, total, processed, rec>>
worker == <<at, of, todo, cur>>
count  == <<requests, faults>>
vars   == <<leases, db, job, worker, auto, found, api, tick, saw, count>>

Terminal   == {"COMPLETED", "FAILED", "CANCELLED"}
LiveRow    == {"WAITING", "ACTIVE", "RECOVERING"}
Idle       == <<"idle", NoBatch>>
Automatic(b) == members[b] # {}

TypeOK ==
  /\ lease \in [Businesses -> BOOLEAN]
  /\ insight \in [Businesses -> {"none", "fresh", "stale"}]
  /\ row \in [Batches -> {"NEW"} \union LiveRow \union Terminal]
  /\ members \in [Batches -> SUBSET Businesses] /\ total \in [Batches -> 0..BatchSize]
  /\ processed \in [Batches -> Nat]
  /\ rec \in [Batches -> {"ABSENT"} \union LiveRow \union Terminal]
  /\ \A b \in Batches : row[b] # "NEW" /\ Automatic(b) => rec[b] # "ABSENT"
  /\ job \in [Batches -> {"none", "wait", "active", "completed", "failed"}]
  /\ at \in {"idle", "load", "mark", "list", "next", "generate", "store", "count", "free", "fail",
             "ack", "nack"}
  /\ of \in Batches \union {NoBatch} /\ todo \subseteq Businesses
  /\ cur \in Businesses \union {NoBusiness}
  /\ auto \in [Ticks -> {Idle, <<"found", NoBatch>>} \union ({"add", "undo"} \X Batches)]
  /\ found \in [Ticks -> SUBSET Businesses]
  /\ api \in {Idle} \union ({"add", "record", "retry", "cancel"} \X Batches)
  /\ tick \in {Idle} \union ({"mark", "add", "upsert", "drop", "fix"} \X Batches)
  /\ saw \in {"NEW"} \union LiveRow \union Terminal
  /\ requests \in 0..MaxRequests /\ faults \in 0..MaxFaults

Init ==
  /\ lease = [x \in Businesses |-> FALSE] /\ insight = [x \in Businesses |-> "none"]
  /\ row = [b \in Batches |-> "NEW"] /\ members = [b \in Batches |-> {}]
  /\ total = [b \in Batches |-> 0] /\ processed = [b \in Batches |-> 0]
  /\ rec = [b \in Batches |-> "ABSENT"] /\ job = [b \in Batches |-> "none"]
  /\ at = "idle" /\ of = NoBatch /\ todo = {} /\ cur = NoBusiness
  /\ auto = [t \in Ticks |-> Idle] /\ found = [t \in Ticks |-> {}]
  /\ api = Idle /\ tick = Idle /\ saw = "NEW"
  /\ requests = 0 /\ faults = 0

Request == requests < MaxRequests /\ requests' = requests + 1 /\ UNCHANGED faults
Fault   == faults < MaxFaults /\ faults' = faults + 1 /\ UNCHANGED requests

SmallerOf(m, n) == IF m < n THEN m ELSE n
Without(x)      == insight[x] = "none"

\* ensureInsightBatchJob: retry a failed job, replace a completed one.
EnsureJob(b) == job' = [job EXCEPT ![b] = IF @ = "active" THEN @ ELSE "wait"]
SetRecord(b, state) ==    \* updateMany: nothing happens without a record
  rec' = [rec EXCEPT ![b] = IF @ = "ABSENT" THEN @ ELSE state]
SetRow(b, status) == row' = [row EXCEPT ![b] = status] /\ UNCHANGED <<members, total, processed>>
Free(set)      == lease' = [x \in Businesses |-> lease[x] /\ x \notin set]
KeepLease(b)   == lease' = lease
FreeMembers(b) == Free(members[b])

-----------------------------------------------------------------------------
(* dispatchAutomaticInsights (scheduler/insights.ts).                      *)

Candidate(x) == ~lease[x] /\ insight[x] # "fresh"

FindCandidates(t) ==
  /\ auto[t] = Idle
  /\ \E set \in SUBSET {x \in Businesses : Candidate(x)} :
       /\ Cardinality(set) = SmallerOf(BatchSize, Cardinality({x \in Businesses : Candidate(x)}))
       /\ set # {}
       /\ found' = [found EXCEPT ![t] = set]
  /\ auto' = [auto EXCEPT ![t] = <<"found", NoBatch>>]
  /\ UNCHANGED <<leases, db, job, worker, api, tick, saw, count>>

NewRecord(b) == rec' = [rec EXCEPT ![b] = "WAITING"]

\* Batch, leases and record are one transaction, for the candidates as they were read.
LeaseCandidates(t, b) ==
  /\ auto[t] = <<"found", NoBatch>> /\ row[b] = "NEW"
  /\ row' = [row EXCEPT ![b] = "WAITING"] /\ NewRecord(b)
  /\ members' = [members EXCEPT ![b] = found[t]]
  /\ total' = [total EXCEPT ![b] = Cardinality(found[t])]
  /\ lease' = [x \in Businesses |-> lease[x] \/ x \in found[t]]
  /\ auto' = [auto EXCEPT ![t] = <<"add", b>>] /\ found' = [found EXCEPT ![t] = {}]
  /\ UNCHANGED <<insight, processed, job, worker, api, tick, saw, count>>

EnqueueLeased(t, b) ==
  /\ auto[t] = <<"add", b>>
  /\ EnsureJob(b) /\ auto' = [auto EXCEPT ![t] = Idle]
  /\ UNCHANGED <<leases, db, worker, found, api, tick, saw, count>>

\* The enqueuing fails, before or after its effect; the batch is FAILED and its leases end.
EnqueueFails(t, b) ==
  /\ auto[t] = <<"add", b>> /\ Fault
  /\ EnsureJob(b) \/ UNCHANGED job
  /\ auto' = [auto EXCEPT ![t] = <<"undo", b>>]
  /\ UNCHANGED <<leases, db, worker, found, api, tick, saw>>

UndoLeased(t, b) ==
  /\ auto[t] = <<"undo", b>>
  /\ SetRow(b, "FAILED") /\ SetRecord(b, "FAILED") /\ FreeMembers(b)
  /\ auto' = [auto EXCEPT ![t] = Idle]
  /\ UNCHANGED <<insight, job, worker, found, api, tick, saw, count>>

SchedulerCrash ==
  /\ Fault /\ (tick # Idle \/ \E t \in Ticks : auto[t] # Idle)
  /\ auto' = [t \in Ticks |-> Idle] /\ found' = [t \in Ticks |-> {}]
  /\ tick' = Idle /\ saw' = "NEW"
  /\ UNCHANGED <<leases, db, job, worker, api>>

LeaseExpires(x) ==
  /\ lease[x] /\ lease' = [lease EXCEPT ![x] = FALSE]
  /\ UNCHANGED <<insight, db, job, worker, auto, found, api, tick, saw, count>>

InsightAges(x) ==
  /\ insight[x] = "fresh" /\ insight' = [insight EXCEPT ![x] = "stale"]
  /\ UNCHANGED <<lease, db, job, worker, auto, found, api, tick, saw, count>>

-----------------------------------------------------------------------------
(* The operator (service.ts).                                              *)

\* createInsightBatch: the row, then the job, and only then the record.
CreateBatch(b) ==
  /\ Request /\ api = Idle /\ row[b] = "NEW" /\ \E x \in Businesses : Without(x)
  /\ row' = [row EXCEPT ![b] = "WAITING"]
  /\ total' = [total EXCEPT ![b] =
                 SmallerOf(BatchSize, Cardinality({x \in Businesses : Without(x)}))]
  /\ api' = <<"add", b>>
  /\ UNCHANGED <<leases, members, processed, rec, job, worker, auto, found, tick, saw>>

EnqueueBatch(b) ==
  /\ \/ api = <<"add", b>> /\ api' = <<"record", b>>
     \/ api = <<"retry", b>> /\ api' = Idle
  /\ EnsureJob(b)
  /\ UNCHANGED <<leases, db, worker, auto, found, tick, saw, count>>

\* The create is refused when the reconciliation has made the record already.
RecordBatch(b) ==
  /\ api = <<"record", b>>
  /\ rec' = [rec EXCEPT ![b] = IF @ = "ABSENT" THEN "WAITING" ELSE @]
  /\ api' = Idle
  /\ UNCHANGED <<leases, row, members, total, processed, job, worker, auto, found, tick, saw,
                 count>>

\* insightBatch() reads the row; a finished batch is returned as it is.
CancelBatch(b) ==
  /\ Request /\ api = Idle /\ row[b] \in LiveRow
  /\ job' = [job EXCEPT ![b] = IF @ = "active" THEN @ ELSE "none"]
  /\ api' = <<"cancel", b>>
  /\ UNCHANGED <<leases, db, worker, auto, found, tick, saw>>

CommitCancel(b) ==
  /\ api = <<"cancel", b>>
  /\ SetRow(b, "CANCELLED") /\ SetRecord(b, "CANCELLED") /\ FreeMembers(b)
  /\ api' = Idle
  /\ UNCHANGED <<insight, job, worker, auto, found, tick, saw, count>>

\* jobAction retry: any record, whatever became of its batch.
RetryJob(b) ==
  /\ Request /\ api = Idle /\ rec[b] # "ABSENT"
  /\ SetRow(b, "RECOVERING") /\ SetRecord(b, "RECOVERING")
  /\ api' = <<"retry", b>>
  /\ UNCHANGED <<leases, job, worker, auto, found, tick, saw>>

\* jobAction archive and cancel: the record alone, and the job goes on.
CloseRecord(b) ==
  /\ Request /\ rec[b] # "ABSENT" /\ SetRecord(b, "CANCELLED")
  /\ UNCHANGED <<leases, row, members, total, processed, job, worker, auto, found, api, tick, saw>>

ApiCrash ==
  /\ api # Idle /\ Fault /\ api' = Idle
  /\ UNCHANGED <<leases, db, job, worker, auto, found, tick, saw>>

-----------------------------------------------------------------------------
(* The worker: processInsightBatch (worker/main.ts).                       *)

Goto(label) == at' = label /\ UNCHANGED <<of, todo, cur>>
Leave == at' = "idle" /\ of' = NoBatch /\ todo' = {} /\ cur' = NoBusiness

Pick(b) ==
  /\ at = "idle" /\ job[b] = "wait"
  /\ job' = [job EXCEPT ![b] = "active"]
  /\ at' = "load" /\ of' = b /\ UNCHANGED <<todo, cur>>
  /\ UNCHANGED <<leases, db, auto, found, api, tick, saw, count>>

SkipCancelled(b) == row[b] = "CANCELLED"
Skipped(b)       == row[b] \in {"COMPLETED", "CANCELLED"}

Load ==
  /\ at = "load"
  /\ Goto(IF Skipped(of) THEN "ack" ELSE "mark")
  /\ UNCHANGED <<leases, db, job, auto, found, api, tick, saw, count>>

MarkActive ==
  /\ at = "mark"
  /\ SetRow(of, "ACTIVE") /\ UNCHANGED rec /\ Goto("list")
  /\ UNCHANGED <<leases, job, auto, found, api, tick, saw, count>>

\* An automatic batch takes its members, whether or not they have an insight by now; one of
\* the operator takes the businesses without an insight.  Both up to totalBusinesses.
MissingOnly(b) == {x \in Businesses : Without(x)}
Selection(b)   == IF Automatic(b) THEN members[b] ELSE {x \in Businesses : Without(x)}

ListBusinesses ==
  /\ at = "list"
  /\ \E set \in SUBSET Selection(of) :
       /\ Cardinality(set) = SmallerOf(total[of], Cardinality(Selection(of)))
       /\ todo' = set
  /\ at' = "next" /\ UNCHANGED <<of, cur>>
  /\ UNCHANGED <<leases, db, job, auto, found, api, tick, saw, count>>

\* The status is read before each business; a cancelled batch frees its members and ends.
NextBusiness ==
  /\ at = "next" /\ todo # {}
  /\ IF row[of] = "CANCELLED"
       THEN FreeMembers(of) /\ Goto("ack")
       ELSE /\ \E x \in todo : cur' = x /\ todo' = todo \ {x}
            /\ at' = "generate" /\ UNCHANGED <<of, lease>>
  /\ UNCHANGED <<insight, db, job, auto, found, api, tick, saw, count>>

\* The provider answers or fails.
Generate ==
  /\ at = "generate"
  /\ Goto("store") \/ Goto("count")
  /\ UNCHANGED <<leases, db, job, auto, found, api, tick, saw, count>>

StoreInsight ==
  /\ at = "store"
  /\ insight' = [insight EXCEPT ![cur] = "fresh"] /\ Goto("count")
  /\ UNCHANGED <<lease, db, job, auto, found, api, tick, saw, count>>

CountProcessed ==
  /\ at = "count"
  /\ processed' = [processed EXCEPT ![of] = @ + 1] /\ Goto("free")
  /\ UNCHANGED <<leases, row, members, total, rec, job, auto, found, api, tick, saw, count>>

FreeBusiness ==
  /\ at = "free"
  /\ Free({cur}) /\ at' = "next" /\ cur' = NoBusiness /\ UNCHANGED <<of, todo>>
  /\ UNCHANGED <<insight, db, job, auto, found, api, tick, saw, count>>

\* Whatever the status has become meanwhile.
Complete ==
  /\ at = "next" /\ todo = {}
  /\ SetRow(of, "COMPLETED") /\ SetRecord(of, "COMPLETED") /\ Goto("ack")
  /\ UNCHANGED <<leases, job, auto, found, api, tick, saw, count>>

\* A statement outside the inner try fails; the one that records this may fail as well.
Outage ==
  /\ Fault
  /\ \/ at \in {"next", "free"} /\ Goto("fail")
     \/ at \in {"load", "mark", "list", "fail"} /\ Goto("nack")
  /\ UNCHANGED <<leases, db, job, auto, found, api, tick, saw>>

FailBatch ==
  /\ at = "fail"
  /\ SetRow(of, "FAILED") /\ SetRecord(of, "FAILED") /\ FreeMembers(of) /\ Goto("nack")
  /\ UNCHANGED <<insight, job, auto, found, api, tick, saw, count>>

JobEnds(states) ==
  IF job[of] = "active" THEN \E state \in states : job' = [job EXCEPT ![of] = state]
                        ELSE UNCHANGED job

Ack ==
  /\ at = "ack" /\ JobEnds({"completed"}) /\ Leave
  /\ UNCHANGED <<leases, db, auto, found, api, tick, saw, count>>

Nack ==
  /\ at = "nack" /\ JobEnds({"wait", "failed"}) /\ Leave
  /\ UNCHANGED <<leases, db, auto, found, api, tick, saw, count>>

WorkerCrash ==
  /\ at # "idle" /\ Fault /\ JobEnds({"wait", "failed"}) /\ Leave
  /\ UNCHANGED <<leases, db, auto, found, api, tick, saw>>

RedisLoss ==
  /\ Fault /\ job' = [b \in Batches |-> "none"]
  /\ UNCHANGED <<leases, db, worker, auto, found, api, tick, saw>>

-----------------------------------------------------------------------------
(* Reconciliation (scheduler/reconciliation.ts).                           *)

\* A row is updated with each business; one that is not worked on becomes stale.
Unstarted(b) == row[b] \in {"WAITING", "RECOVERING"}
Durable(b)   == row[b] \in {"WAITING", "RECOVERING"} \/ (row[b] = "ACTIVE" /\ of # b)

FindDurable(b) ==
  /\ tick = Idle /\ Durable(b)
  /\ job[b] \in {"none", "completed", "failed"} \/ row[b] = "ACTIVE" \/ rec[b] = "ABSENT"
  /\ saw' = row[b] /\ tick' = <<IF row[b] = "ACTIVE" THEN "mark" ELSE "add", b>>
  /\ UNCHANGED <<leases, db, job, worker, auto, found, api, count>>

MarkRecovering(b) ==
  /\ tick = <<"mark", b>>
  /\ SetRow(b, "RECOVERING") /\ UNCHANGED rec /\ tick' = <<"add", b>>
  /\ UNCHANGED <<leases, job, worker, auto, found, api, saw, count>>

RebuildJob(b) ==
  /\ tick = <<"add", b>> /\ EnsureJob(b) /\ tick' = <<"upsert", b>>
  /\ UNCHANGED <<leases, db, worker, auto, found, api, saw, count>>

UpsertRecord(b) ==
  /\ tick = <<"upsert", b>>
  /\ rec' = [rec EXCEPT ![b] = IF saw = "WAITING" THEN "WAITING" ELSE "RECOVERING"]
  /\ saw' = "NEW" /\ tick' = Idle
  /\ UNCHANGED <<leases, row, members, total, processed, job, worker, auto, found, api, count>>

FindOrphan(b) ==
  /\ tick = Idle /\ job[b] \in {"wait", "failed"} /\ row[b] \in {"COMPLETED", "CANCELLED"}
  /\ tick' = <<"drop", b>>
  /\ UNCHANGED <<leases, db, job, worker, auto, found, api, saw, count>>

DropOrphan(b) ==
  /\ tick = <<"drop", b>>
  /\ job' = [job EXCEPT ![b] = IF @ = "active" THEN @ ELSE "none"] /\ tick' = Idle
  /\ UNCHANGED <<leases, db, worker, auto, found, api, saw, count>>

Astray(b) == rec[b] \in LiveRow /\ row[b] \in Terminal

FindRecord(b) ==
  /\ tick = Idle /\ Astray(b)
  /\ saw' = row[b] /\ tick' = <<"fix", b>>
  /\ UNCHANGED <<leases, db, job, worker, auto, found, api, count>>

FixRecord(b) ==
  /\ tick = <<"fix", b>>
  /\ SetRecord(b, saw) /\ saw' = "NEW" /\ tick' = Idle
  /\ UNCHANGED <<leases, row, members, total, processed, job, worker, auto, found, api, count>>

-----------------------------------------------------------------------------
WorkerStep ==
  \/ Load \/ MarkActive \/ ListBusinesses \/ NextBusiness \/ Generate \/ StoreInsight
  \/ CountProcessed \/ FreeBusiness \/ Complete \/ FailBatch \/ Ack \/ Nack
ApiStep(b)     == EnqueueBatch(b) \/ RecordBatch(b) \/ CommitCancel(b)
AutoStep(t, b) == LeaseCandidates(t, b) \/ EnqueueLeased(t, b) \/ UndoLeased(t, b)
TickStep(b)    ==
  MarkRecovering(b) \/ RebuildJob(b) \/ UpsertRecord(b) \/ DropOrphan(b) \/ FixRecord(b)

Next ==
  \/ WorkerStep \/ Outage \/ WorkerCrash \/ RedisLoss \/ ApiCrash \/ SchedulerCrash
  \/ \E x \in Businesses : LeaseExpires(x) \/ InsightAges(x)
  \/ \E t \in Ticks : FindCandidates(t)
  \/ \E b \in Batches :
       \/ CreateBatch(b) \/ CancelBatch(b) \/ RetryJob(b) \/ CloseRecord(b) \/ ApiStep(b)
       \/ Pick(b)
       \/ FindDurable(b) \/ FindOrphan(b) \/ FindRecord(b) \/ TickStep(b)
       \/ \E t \in Ticks : AutoStep(t, b) \/ EnqueueFails(t, b)

Spec == Init /\ [][Next]_vars

\* The worker, an accepted request and a started dispatch keep going; BullMQ serves its jobs
\* in turn, and each tick of the reconciliation looks at every batch.
Fairness ==
  /\ WF_vars(WorkerStep)
  /\ \A b \in Batches :
       /\ SF_vars(Pick(b)) /\ WF_vars(ApiStep(b)) /\ WF_vars(TickStep(b))
       /\ SF_vars(FindDurable(b)) /\ SF_vars(FindRecord(b))
       /\ \A t \in Ticks : WF_vars(AutoStep(t, b))

FairSpec == Spec /\ Fairness

-----------------------------------------------------------------------------
(* Properties.                                                             *)

\* A lease is never orphaned: while it holds, some unfinished automatic batch contains the
\* business, whoever cancelled, failed or crashed; so a business is not kept from its
\* insight by a batch that will not come to it.
LeaseHasOwner ==
  \A x \in Businesses : lease[x] => \E b \in Batches : x \in members[b] /\ row[b] \in LiveRow

\* An automatic batch is COMPLETED only after every business it leased was processed, in
\* spite of interrupted deliveries and of insights that other batches made meanwhile.
AutomaticCovers ==
  \A b \in Batches : row[b] = "COMPLETED" /\ Automatic(b) => processed[b] >= total[b]

\* A delivery that starts over counts again, so processedCount may pass totalBusinesses.  Each
\* request costs one further round at most and each interruption two: the redelivery, and the
\* reconciliation that found the batch interrupted and revives it when it has COMPLETED since.
CountBounded == \A b \in Batches : processed[b] <= total[b] * (1 + requests + 2 * faults)

\* A batch that is waiting or being worked on ends, wherever the API, the scheduler, the
\* worker or Redis stopped.
BatchEnds == \A b \in Batches : row[b] \in LiveRow ~> row[b] \in Terminal
=============================================================================
