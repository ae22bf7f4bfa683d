-------------------------- MODULE WebsiteAnalysis --------------------------
(***************************************************************************)
(* The analysis of ONE website of one business: the WebsiteAnalysis row,   *)
(* its JobRecord and its BullMQ job, and what the business shows of it,    *)
(* across discovery (which also changes the business's address), the API,  *)
(* the worker, the refresh and the reconciliation.  How website.ts visits  *)
(* a site is in WebsiteVisit; here an analysis succeeds or throws.         *)
(*                                                                         *)
(* The steps are those of ProspectingRun: one per statement, transaction   *)
(* or queue operation; a status one step reads and a later one uses is     *)
(* kept in saw.  The deterministic job id gives the row one delivery at a  *)
(* time (a lost lock is in ProspectingRun).                                *)
(*                                                                         *)
(* EnsureMissing, SkipCancelled, AnyAddress, Unstarted and NeverAstray are *)
(* faulty variants of the operator defined after them; no action uses them.*)
(***************************************************************************)
EXTENDS Naturals

CONSTANTS
  Clients,                  \* discovery, the API and the refresh: who asks for an analysis
  MaxRequests, MaxFaults    \* bounds on what they and the operator ask, and on the faults

ASSUME ConstantsAssumption == MaxRequests \in Nat /\ MaxFaults \in Nat

VARIABLES
  site,      \* Business.website is this analysis' url, or another
  shown,     \* the address whose result the business shows
  row,       \* WebsiteAnalysis.status; NEW stands for no row
  rec,       \* JobRecord.state; ABSENT stands for no record
  linked,    \* JobRecord.bullJobId is set
  job,       \* the BullMQ job website-analysis-<id>
  at,        \* where the worker's delivery of it is
  late,      \* what the worker's event handlers have started and not done yet
  client,    \* where each client is
  op,        \* where the operator's jobAction is
  tick, saw, \* where the reconciliation is, the row's status it has read
  requests, faults

business == <<site, shown>>
db       == <<row, rec, linked>>
procs    == <<late, client, op, tick, saw>>
count    == <<requests, faults>>
vars     == <<business, db, job, at, procs, count>>

Terminal == {"COMPLETED", "FAILED", "CANCELLED"}
LiveRow  == {"WAITING", "ACTIVE", "RECOVERING"}
Status   == {"NEW"} \union LiveRow \union Terminal

TypeOK ==
  /\ site \in {"ours", "other"} /\ shown \in {"none", "ours", "other"}
  /\ row \in Status /\ saw \in Status
  /\ rec \in {"ABSENT"} \union LiveRow \union Terminal /\ linked \in BOOLEAN
  /\ row # "NEW" => rec # "ABSENT"
  /\ job \in {"none", "wait", "active", "completed", "failed"}
  /\ at \in {"idle", "load", "mark", "fetch", "check", "commit", "fail", "ack", "nack"}
  /\ late \subseteq {"ACTIVE", "WAITING", "FAILED"}
  /\ client \in [Clients -> {"idle", "intent", "force", "add", "link"}]
  /\ op \in {"idle", "retry", "remove", "cancel"}
  /\ tick \in {"idle", "mark", "add", "upsert", "drop", "fix"}
  /\ requests \in 0..MaxRequests /\ faults \in 0..MaxFaults

Init ==
  /\ site = "other" /\ shown = "none"
  /\ row = "NEW" /\ rec = "ABSENT" /\ linked = FALSE /\ job = "none" /\ at = "idle"
  /\ late = {} /\ client = [k \in Clients |-> "idle"] /\ op = "idle"
  /\ tick = "idle" /\ saw = "NEW"
  /\ requests = 0 /\ faults = 0

Request == requests < MaxRequests /\ requests' = requests + 1 /\ UNCHANGED faults
Fault   == faults < MaxFaults /\ faults' = faults + 1 /\ UNCHANGED requests

-----------------------------------------------------------------------------
(* Discovery, the API and the refresh ask for an analysis.                 *)

\* A changed address resets what the business shows.
Reset(address) == IF address = site THEN shown ELSE "none"

\* Discovery stores the address of a result, and asks if it is this one.
Discover(k, address) ==
  /\ Request /\ client[k] = "idle"
  /\ site' = address /\ shown' = Reset(address)
  /\ client' = [client EXCEPT ![k] = IF address = "ours" THEN "intent" ELSE "idle"]
  /\ UNCHANGED <<db, job, at, late, op, tick, saw>>

\* analyzeBusinessWebsite, and refreshStaleWebsiteAnalyses for a business checked long ago.
AskForce(k, checked) ==
  /\ Request /\ client[k] = "idle" /\ site = "ours" /\ (checked => shown # "none")
  /\ client' = [client EXCEPT ![k] = "force"]
  /\ UNCHANGED <<business, db, job, at, late, op, tick, saw>>

\* createWebsiteAnalysisIntent: row and record in one transaction.  Without force an
\* existing row keeps its status, and a COMPLETED one is not enqueued.
CreateIntent(k) ==
  /\ client[k] \in {"intent", "force"}
  /\ IF client[k] = "intent" /\ row = "COMPLETED"
       THEN client' = [client EXCEPT ![k] = "idle"] /\ UNCHANGED db
       ELSE /\ row' = IF client[k] = "force" \/ row = "NEW" THEN "WAITING" ELSE row
            /\ rec' = "WAITING" /\ UNCHANGED linked
            /\ client' = [client EXCEPT ![k] = "add"]
  /\ UNCHANGED <<business, job, at, late, op, tick, saw, count>>

\* ensureWebsiteAnalysisJob: retry a failed job, replace a completed one.
EnsureMissing == job' = IF job = "none" THEN "wait" ELSE job
EnsureJob     == job' = IF job = "active" THEN job ELSE "wait"

Enqueue(k) ==
  /\ client[k] = "add" /\ EnsureJob
  /\ client' = [client EXCEPT ![k] = "link"]
  /\ UNCHANGED <<business, db, at, late, op, tick, saw, count>>

Link(k) ==
  /\ client[k] = "link" /\ linked' = TRUE
  /\ client' = [client EXCEPT ![k] = "idle"]
  /\ UNCHANGED <<business, row, rec, job, at, late, op, tick, saw, count>>

\* The client crashes, or a statement of it fails: discovery and the refresh go on without.
ClientFails(k) ==
  /\ client[k] # "idle" /\ Fault
  /\ client' = [client EXCEPT ![k] = "idle"]
  /\ UNCHANGED <<business, db, job, at, late, op, tick, saw>>

-----------------------------------------------------------------------------
(* The operator: jobAction (service.ts).                                   *)

RetryJob ==
  /\ Request /\ op = "idle" /\ rec # "ABSENT"
  /\ row' = "RECOVERING" /\ rec' = "RECOVERING" /\ op' = "retry"
  /\ UNCHANGED <<business, linked, job, at, late, client, tick, saw>>

RetryEnqueue ==
  /\ op = "retry" /\ EnsureJob /\ op' = "idle"
  /\ UNCHANGED <<business, db, at, late, client, tick, saw, count>>

CancelJob ==
  /\ Request /\ op = "idle" /\ rec # "ABSENT"
  /\ row' = "CANCELLED" /\ op' = "remove"
  /\ UNCHANGED <<business, rec, linked, job, at, late, client, tick, saw>>

\* BullMQ refuses to remove a job that is being processed; the refusal is swallowed.
RemoveJob ==
  /\ op = "remove"
  /\ job' = IF job = "active" THEN job ELSE "none"
  /\ op' = "cancel"
  /\ UNCHANGED <<business, db, at, late, client, tick, saw, count>>

CancelRecord ==
  /\ op = "cancel" /\ rec' = "CANCELLED" /\ op' = "idle"
  /\ UNCHANGED <<business, row, linked, job, at, late, client, tick, saw, count>>

ArchiveJob ==
  /\ Request /\ op = "idle" /\ rec # "ABSENT"
  /\ rec' = "CANCELLED"
  /\ UNCHANGED <<business, row, linked, job, at, procs>>

ApiCrash ==
  /\ op # "idle" /\ Fault /\ op' = "idle"
  /\ UNCHANGED <<business, db, job, at, late, client, tick, saw>>

-----------------------------------------------------------------------------
(* The worker: processWebsiteAnalysis.                                     *)

Pick ==
  /\ job = "wait" /\ at = "idle"
  /\ job' = "active" /\ at' = "load" /\ late' = late \union {"ACTIVE"}
  /\ UNCHANGED <<business, db, client, op, tick, saw, count>>

SkipCancelled == {"CANCELLED"}
Skipped       == {"COMPLETED", "CANCELLED"}

Load ==
  /\ at = "load"
  /\ at' = IF row \in Skipped THEN "ack" ELSE "mark"
  /\ UNCHANGED <<business, db, job, procs, count>>

MarkActive ==
  /\ at = "mark"
  /\ row' = "ACTIVE" /\ at' = "fetch"
  /\ UNCHANGED <<business, rec, linked, job, procs, count>>

Fetch ==
  /\ at = "fetch"
  /\ at' \in {"check", "fail"}
  /\ UNCHANGED <<business, db, job, procs, count>>

\* PageSpeed follows the check, and its failures are swallowed.
CheckCancelled ==
  /\ at = "check"
  /\ at' = IF row = "CANCELLED" THEN "ack" ELSE "commit"
  /\ UNCHANGED <<business, db, job, procs, count>>

\* The business is updated only where its address is still the one analysed.
AnyAddress  == TRUE
SameAddress == site = "ours"
Show == shown' = IF SameAddress THEN "ours" ELSE shown

Commit ==
  /\ at = "commit"
  /\ row' = "COMPLETED" /\ rec' = "COMPLETED" /\ Show
  /\ at' = "ack"
  /\ UNCHANGED <<site, linked, job, procs, count>>

Fail ==
  /\ at = "fail"
  /\ row' = "FAILED" /\ rec' = "FAILED" /\ Show
  /\ at' = "nack"
  /\ UNCHANGED <<site, linked, job, procs, count>>

\* The transaction fails: after the commit's, that of the failure is tried; its own failure
\* is swallowed.
Outage ==
  /\ Fault
  /\ \/ at \in {"commit", "check"} /\ at' = "fail"
     \/ at \in {"load", "mark", "fail"} /\ at' = "nack"
  /\ UNCHANGED <<business, db, job, procs>>

\* After a loss of Redis the delivery ends without a job.
Ack ==
  /\ at = "ack" /\ at' = "idle"
  /\ job' = IF job = "active" THEN "completed" ELSE job
  /\ UNCHANGED <<business, db, procs, count>>

Nack ==
  /\ at = "nack" /\ at' = "idle"
  /\ \/ job = "active" /\ job' = "wait" /\ late' = late \union {"WAITING"}
     \/ job = "active" /\ job' = "failed" /\ late' = late \union {"FAILED"}
     \/ job # "active" /\ UNCHANGED <<job, late>>
  /\ UNCHANGED <<business, db, client, op, tick, saw, count>>

\* The worker stops anywhere; BullMQ finds its job stalled, or gives it up.
WorkerCrash ==
  /\ at # "idle" /\ Fault /\ at' = "idle" /\ late' = {}
  /\ job' \in IF job = "active" THEN {"wait", "failed"} ELSE {job}
  /\ UNCHANGED <<business, db, client, op, tick, saw>>

RedisLoss ==
  /\ Fault /\ job' = "none"
  /\ UNCHANGED <<business, db, at, procs>>

\* The handlers write by bullJobId, whenever their statement is served.
LateWrite ==
  \E state \in late :
    /\ late' = late \ {state}
    /\ rec' = IF linked /\ rec # "ABSENT" THEN state ELSE rec
    /\ UNCHANGED <<business, row, linked, job, at, client, op, tick, saw, count>>

-----------------------------------------------------------------------------
(* Reconciliation.                                                         *)

\* An ACTIVE row counts as stale when no delivery has touched it for the heartbeat timeout,
\* which is longer than the timeouts of a delivery.
Unstarted == row \in {"WAITING", "RECOVERING"}
Durable   == row \in {"WAITING", "RECOVERING"} \/ (row = "ACTIVE" /\ at = "idle")

FindDurable ==
  /\ tick = "idle" /\ Durable /\ (job \in {"none", "completed", "failed"} \/ row = "ACTIVE")
  /\ saw' = row /\ tick' = IF row = "ACTIVE" THEN "mark" ELSE "add"
  /\ UNCHANGED <<business, db, job, at, late, client, op, count>>

\* The update goes by id, whatever has become of the row.
MarkRecovering ==
  /\ tick = "mark" /\ row' = "RECOVERING" /\ tick' = "add"
  /\ UNCHANGED <<business, rec, linked, job, at, late, client, op, saw, count>>

RebuildJob ==
  /\ tick = "add" /\ EnsureJob /\ tick' = "upsert"
  /\ UNCHANGED <<business, db, at, late, client, op, saw, count>>

UpsertRecord ==
  /\ tick = "upsert" /\ linked' = TRUE
  /\ rec' = IF saw = "WAITING" THEN "WAITING" ELSE "RECOVERING"
  /\ saw' = "NEW" /\ tick' = "idle"
  /\ UNCHANGED <<business, row, job, at, late, client, op, count>>

FindOrphan ==
  /\ tick = "idle" /\ job \in {"wait", "failed"} /\ row \in {"COMPLETED", "CANCELLED"}
  /\ tick' = "drop"
  /\ UNCHANGED <<business, db, job, at, late, client, op, saw, count>>

DropOrphan ==
  /\ tick = "drop" /\ tick' = "idle"
  /\ job' = IF job = "active" THEN job ELSE "none"
  /\ UNCHANGED <<business, db, at, late, client, op, saw, count>>

\* reconcileDurableJobRecords: a live record whose row is no longer running.
NeverAstray == FALSE
Astray      == rec \in LiveRow /\ row \in Terminal

FindRecord ==
  /\ tick = "idle" /\ Astray
  /\ saw' = row /\ tick' = "fix"
  /\ UNCHANGED <<business, db, job, at, late, client, op, count>>

FixRecord ==
  /\ tick = "fix"
  /\ rec' = saw /\ saw' = "NEW" /\ tick' = "idle"
  /\ UNCHANGED <<business, row, linked, job, at, late, client, op, count>>

TickCrash ==
  /\ tick # "idle" /\ Fault /\ tick' = "idle" /\ saw' = "NEW"
  /\ UNCHANGED <<business, db, job, at, late, client, op>>

-----------------------------------------------------------------------------
ClientStep(k) == CreateIntent(k) \/ Enqueue(k) \/ Link(k)
OpStep        == RetryEnqueue \/ RemoveJob \/ CancelRecord
TickStep      == MarkRecovering \/ RebuildJob \/ UpsertRecord \/ DropOrphan \/ FixRecord
WorkerStep    ==
  Pick \/ Load \/ MarkActive \/ Fetch \/ CheckCancelled \/ Commit \/ Fail \/ Ack \/ Nack

Next ==
  \/ WorkerStep \/ LateWrite \/ Outage \/ WorkerCrash \/ RedisLoss
  \/ RetryJob \/ CancelJob \/ ArchiveJob \/ OpStep \/ ApiCrash
  \/ FindDurable \/ FindOrphan \/ FindRecord \/ TickStep \/ TickCrash
  \/ \E k \in Clients :
       \/ ClientStep(k) \/ ClientFails(k)
       \/ \E address \in {"ours", "other"} : Discover(k, address)
       \/ \E checked \in BOOLEAN : AskForce(k, checked)

Spec == Init /\ [][Next]_vars

\* The worker, its handlers and an accepted request keep going, and every tick of the
\* reconciliation looks at the row and its record again.
Fairness ==
  /\ WF_vars(WorkerStep) /\ WF_vars(LateWrite) /\ WF_vars(OpStep) /\ WF_vars(TickStep)
  /\ SF_vars(FindDurable) /\ SF_vars(FindRecord)
  /\ \A k \in Clients : WF_vars(ClientStep(k))

FairSpec == Spec /\ Fairness

-----------------------------------------------------------------------------
(* Properties.                                                             *)

\* Whatever deliveries end late, the business never shows the result of an address that is
\* not, or no longer, its own.
ShownIsCurrent == shown \in {"none", site}

\* A COMPLETED analysis is only done again after a request or the recovery has reopened it,
\* never by a job that was queued, rebuilt or redelivered for what is already done.
CompletedNotRedone == [][row = "COMPLETED" => row' \notin {"ACTIVE", "FAILED"}]_row

\* "The scheduler rebuilds pending or abandoned analyses" (ARCHITECTURE.md): wherever the
\* client, the worker or Redis stopped, an analysis that was asked for ends.
AnalysisEnds == row \in LiveRow ~> row \in Terminal

\* The address an analysis waits for gets its result shown, good or POOR, unless the address
\* changes or the operator cancels.  (An address that returns after its analysis was
\* COMPLETED is not analysed again: CreateIntent enqueues nothing and the refresh looks
\* only at businesses that show a result.)
WaitingAddressShown ==
  site = "ours" /\ row = "WAITING" ~> shown = "ours" \/ site # "ours" \/ row = "CANCELLED"

\* A live JobRecord of an analysis that has ended is corrected, however late the handlers
\* and however stale the rebuild that revived it.
RecordSettles == LET astray == rec \in LiveRow /\ row \in Terminal IN astray ~> ~astray
=============================================================================
