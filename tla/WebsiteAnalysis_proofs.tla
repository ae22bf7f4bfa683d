----------------------- MODULE WebsiteAnalysis_proofs -----------------------
(***************************************************************************)
(* Safety of the website analyses, for any set of clients and any number   *)
(* of requests and faults: type correctness, with a JobRecord beside every *)
(* row; the business shows only the result of its own address; and a       *)
(* COMPLETED analysis is not redone.                                       *)
(*                                                                         *)
(* TypeOK alone is not inductive: a row keeps its record because nothing   *)
(* but an intent begins anything before there is one (RecordFirst), and    *)
(* what the reconciliation copies into a record is the end of a row        *)
(* (CopiesEnd).  COMPLETED is not redone because past its check of the row *)
(* a delivery works on one that is not COMPLETED (OpenRow): no one else    *)
(* completes it.                                                           *)
(***************************************************************************)
EXTENDS WebsiteAnalysis, TLAPS

RecordFirst ==
  rec = "ABSENT" =>
    /\ row = "NEW" /\ job = "none" /\ at = "idle" /\ late = {} /\ op = "idle" /\ tick = "idle"
    /\ \A k \in Clients : client[k] \in {"idle", "intent", "force"}

CopiesEnd == tick = "fix" => saw \in Terminal

TypeInv == TypeOK /\ RecordFirst /\ CopiesEnd

OpenRow == at \in {"mark", "fetch", "check", "commit", "fail"} => row # "COMPLETED"

-----------------------------------------------------------------------------
(* Type correctness.                                                       *)

LEMMA TypeInit == Init => TypeInv
<1> SUFFICES ASSUME Init PROVE TypeInv
  OBVIOUS
<1>1. client \in [Clients -> {"idle"}]
  BY DEF Init
<1>2. requests \in 0..MaxRequests /\ faults \in 0..MaxFaults
  BY ConstantsAssumption DEF Init, ConstantsAssumption
<1>3. RecordFirst /\ CopiesEnd
  BY <1>1 DEF Init, RecordFirst, CopiesEnd
<1>4. linked \in BOOLEAN
  BY Zenon DEF Init
<1>5. QED
  BY <1>1, <1>2, <1>3, <1>4 DEF Init, TypeInv, TypeOK, Status

\* What a client asks for begins with the transaction that creates the record.
LEMMA ClientTypes ==
  ASSUME TypeInv, NEW k \in Clients, NEW address \in {"ours", "other"}, NEW checked \in BOOLEAN,
         ClientStep(k) \/ ClientFails(k) \/ Discover(k, address) \/ AskForce(k, checked)
  PROVE  TypeInv'
<1> USE ConstantsAssumption DEF ConstantsAssumption, TypeInv, TypeOK, RecordFirst, CopiesEnd,
      Status, LiveRow, Terminal, business, db, procs, count
<1>1. CASE CreateIntent(k)
  BY <1>1 DEF CreateIntent
<1>2. CASE Enqueue(k)
  BY <1>2 DEF Enqueue, EnsureJob
<1>3. CASE Link(k)
  BY <1>3 DEF Link
<1>4. CASE ClientFails(k)
  BY <1>4 DEF ClientFails, Fault
<1>5. CASE Discover(k, address)
  BY <1>5 DEF Discover, Reset, Request
<1>6. CASE AskForce(k, checked)
  BY <1>6 DEF AskForce, Request
<1>7. QED
  BY <1>1, <1>2, <1>3, <1>4, <1>5, <1>6 DEF ClientStep

\* The operator acts on a record, and never deletes it.
LEMMA OperatorTypes ==
  ASSUME TypeInv, RetryJob \/ CancelJob \/ ArchiveJob \/ OpStep \/ ApiCrash
  PROVE  TypeInv'
<1> USE ConstantsAssumption DEF ConstantsAssumption, TypeInv, TypeOK, RecordFirst, CopiesEnd,
      Status, LiveRow, Terminal, business, db, procs, count
<1>1. CASE RetryJob
  BY <1>1 DEF RetryJob, Request
<1>2. CASE CancelJob
  BY <1>2 DEF CancelJob, Request
<1>3. CASE ArchiveJob
  BY <1>3 DEF ArchiveJob, Request
<1>4. CASE RetryEnqueue
  BY <1>4 DEF RetryEnqueue, EnsureJob
<1>5. CASE RemoveJob
  BY <1>5 DEF RemoveJob
<1>6. CASE CancelRecord
  BY <1>6 DEF CancelRecord
<1>7. CASE ApiCrash
  BY <1>7 DEF ApiCrash, Fault
<1>8. QED
  BY <1>1, <1>2, <1>3, <1>4, <1>5, <1>6, <1>7 DEF OpStep

\* The worker takes a job, which has a record, and its handlers write that record.
LEMMA WorkerTypes ==
  ASSUME TypeInv, WorkerStep \/ LateWrite \/ Outage \/ WorkerCrash \/ RedisLoss
  PROVE  TypeInv'
<1> USE ConstantsAssumption DEF ConstantsAssumption, TypeInv, TypeOK, RecordFirst, CopiesEnd,
      Status, LiveRow, Terminal, business, db, procs, count
<1>1. CASE Pick
  BY <1>1 DEF Pick
<1>2. CASE Load
  BY <1>2 DEF Load
<1>3. CASE MarkActive
  BY <1>3 DEF MarkActive
<1>4. CASE Fetch
  BY <1>4 DEF Fetch
<1>5. CASE CheckCancelled
  BY <1>5 DEF CheckCancelled
<1>6. CASE Commit
  BY <1>6 DEF Commit, Show
<1>7. CASE Fail
  BY <1>7 DEF Fail, Show
<1>8. CASE Ack
  BY <1>8 DEF Ack
<1>9. CASE Nack
  <2>1. at = "nack" /\ at' = "idle" /\ UNCHANGED <<site, shown, row, rec, linked>>
    BY <1>9 DEF Nack
  <2>2. UNCHANGED <<client, op, tick, saw, requests, faults>>
    BY <1>9 DEF Nack
  <2>3. /\ job' \in {job, "wait", "failed"}
        /\ late' \in {late, late \union {"WAITING"}, late \union {"FAILED"}}
    BY <1>9 DEF Nack
  <2>4. QED
    BY <2>1, <2>2, <2>3
<1>10. CASE LateWrite
  BY <1>10 DEF LateWrite
<1>11. CASE Outage
  BY <1>11 DEF Outage, Fault
<1>12. CASE WorkerCrash
  BY <1>12 DEF WorkerCrash, Fault
<1>13. CASE RedisLoss
  BY <1>13 DEF RedisLoss, Fault
<1>14. QED
  BY <1>1, <1>2, <1>3, <1>4, <1>5, <1>6, <1>7, <1>8, <1>9, <1>10, <1>11, <1>12, <1>13 DEF WorkerStep

\* The reconciliation rebuilds the job of a row and corrects the record it has.
LEMMA TickTypes ==
  ASSUME TypeInv, FindDurable \/ FindOrphan \/ FindRecord \/ TickStep \/ TickCrash
  PROVE  TypeInv'
<1> USE ConstantsAssumption DEF ConstantsAssumption, TypeInv, TypeOK, RecordFirst, CopiesEnd,
      Status, LiveRow, Terminal, business, db, procs, count
<1>1. CASE FindDurable
  BY <1>1 DEF FindDurable, Durable
<1>2. CASE FindOrphan
  BY <1>2 DEF FindOrphan
<1>3. CASE FindRecord
  BY <1>3 DEF FindRecord, Astray
<1>4. CASE MarkRecovering
  BY <1>4 DEF MarkRecovering
<1>5. CASE RebuildJob
  BY <1>5 DEF RebuildJob, EnsureJob
<1>6. CASE UpsertRecord
  BY <1>6 DEF UpsertRecord
<1>7. CASE DropOrphan
  BY <1>7 DEF DropOrphan
<1>8. CASE FixRecord
  BY <1>8 DEF FixRecord
<1>9. CASE TickCrash
  BY <1>9 DEF TickCrash, Fault
<1>10. QED
  BY <1>1, <1>2, <1>3, <1>4, <1>5, <1>6, <1>7, <1>8, <1>9 DEF TickStep

LEMMA TypeNext == TypeInv /\ [Next]_vars => TypeInv'
<1> SUFFICES ASSUME TypeInv, [Next]_vars PROVE TypeInv'
  OBVIOUS
<1>1. CASE UNCHANGED vars
  BY <1>1 DEF TypeInv, TypeOK, RecordFirst, CopiesEnd, vars, business, db, procs, count
<1>2. QED
  BY <1>1, ClientTypes, OperatorTypes, WorkerTypes, TickTypes DEF Next

\* Every variable keeps its type, and a row never exists without its JobRecord, the one thing
\* the operator and the reconciliation can find it by.
THEOREM TypeCorrect == Spec => []TypeOK
<1>1. TypeInv => TypeOK
  BY DEF TypeInv
<1>2. QED
  BY <1>1, TypeInit, TypeNext, PTL DEF Spec

-----------------------------------------------------------------------------
(* What the business shows.                                                *)

\* Only a change of the address, which resets it, and the end of a delivery, which asks for
\* the address again, write what is shown.
LEMMA ShownNext == ShownIsCurrent /\ [Next]_vars => ShownIsCurrent'
<1> SUFFICES ASSUME ShownIsCurrent, [Next]_vars PROVE ShownIsCurrent'
  OBVIOUS
<1>1. ASSUME NEW k \in Clients, NEW address \in {"ours", "other"}, Discover(k, address)
      PROVE  ShownIsCurrent'
  BY <1>1 DEF ShownIsCurrent, Discover, Reset
<1>2. CASE Commit \/ Fail
  BY <1>2 DEF ShownIsCurrent, Commit, Fail, Show, SameAddress
<1>3. CASE UNCHANGED business
  BY <1>3 DEF ShownIsCurrent, business
<1>4. ASSUME NEW k \in Clients, NEW checked \in BOOLEAN,
             ClientStep(k) \/ ClientFails(k) \/ AskForce(k, checked)
      PROVE  UNCHANGED business
  BY <1>4 DEF ClientStep, CreateIntent, Enqueue, Link, ClientFails, AskForce
<1>5. CASE RetryJob \/ CancelJob \/ ArchiveJob \/ OpStep \/ ApiCrash
  BY <1>3, <1>5 DEF RetryJob, CancelJob, ArchiveJob, OpStep, RetryEnqueue, RemoveJob, CancelRecord,
     ApiCrash
<1>6. CASE FindDurable \/ FindOrphan \/ FindRecord \/ TickStep \/ TickCrash
  BY <1>3, <1>6 DEF FindDurable, FindOrphan, FindRecord, TickStep, MarkRecovering, RebuildJob,
     UpsertRecord, DropOrphan, FixRecord, TickCrash
<1>7. CASE LateWrite \/ Outage \/ WorkerCrash \/ RedisLoss
  BY <1>3, <1>7 DEF LateWrite, Outage, WorkerCrash, RedisLoss
<1>8. CASE WorkerStep
  BY <1>2, <1>3, <1>8 DEF WorkerStep, Pick, Load, MarkActive, Fetch, CheckCancelled, Ack, Nack
<1>9. CASE UNCHANGED vars
  BY <1>3, <1>9 DEF vars
<1>10. QED
  BY <1>1, <1>3, <1>4, <1>5, <1>6, <1>7, <1>8, <1>9 DEF Next

\* A business never shows the result of an address that is not its own, however late the
\* delivery of an earlier address ends (worker/src/main.ts 156-163 and 165-168).
THEOREM ShownCurrent == Spec => []ShownIsCurrent
<1>1. Init => ShownIsCurrent
  BY DEF Init, ShownIsCurrent
<1>2. QED
  BY <1>1, ShownNext, PTL DEF Spec

-----------------------------------------------------------------------------
(* What is COMPLETED is not redone.                                        *)

\* A delivery passes its check on an open row, and no other step completes it.
LEMMA OpenRowNext == OpenRow /\ [Next]_vars => OpenRow'
<1> SUFFICES ASSUME OpenRow, [Next]_vars PROVE OpenRow'
  OBVIOUS
<1> USE DEF OpenRow
<1>1. ASSUME NEW k \in Clients PROVE ClientStep(k) \/ ClientFails(k) => OpenRow'
  BY DEF ClientStep, CreateIntent, Enqueue, Link, ClientFails, db
<1>2. ASSUME NEW k \in Clients, NEW address \in {"ours", "other"}, NEW checked \in BOOLEAN
      PROVE  Discover(k, address) \/ AskForce(k, checked) => OpenRow'
  BY DEF Discover, AskForce, db
<1>3. CASE RetryJob \/ CancelJob \/ ArchiveJob \/ OpStep \/ ApiCrash
  BY <1>3 DEF RetryJob, CancelJob, ArchiveJob, OpStep, RetryEnqueue, RemoveJob, CancelRecord,
     ApiCrash, db
<1>4. CASE FindDurable \/ FindOrphan \/ FindRecord \/ TickStep \/ TickCrash
  BY <1>4 DEF FindDurable, FindOrphan, FindRecord, TickStep, MarkRecovering, RebuildJob,
     UpsertRecord, DropOrphan, FixRecord, TickCrash, db
<1>5. CASE LateWrite \/ Outage \/ WorkerCrash \/ RedisLoss
  BY <1>5 DEF LateWrite, Outage, WorkerCrash, RedisLoss, db
<1>6. CASE Load
  BY <1>6 DEF Load, Skipped, db
<1>7. CASE Pick \/ MarkActive \/ Fetch \/ CheckCancelled \/ Commit \/ Fail \/ Ack \/ Nack
  BY <1>7 DEF Pick, MarkActive, Fetch, CheckCancelled, Commit, Fail, Ack, Nack, db
<1>8. CASE UNCHANGED vars
  BY <1>8 DEF vars, db
<1>9. QED
  BY <1>1, <1>2, <1>3, <1>4, <1>5, <1>6, <1>7, <1>8 DEF Next, WorkerStep

\* Of the steps that change the row, those of a delivery find it open, and the others write
\* neither ACTIVE nor FAILED.
LEMMA NotRedone ==
  ASSUME OpenRow, [Next]_vars, row = "COMPLETED", row' # row
  PROVE  row' \notin {"ACTIVE", "FAILED"}
<1> USE DEF OpenRow
<1>1. ASSUME NEW k \in Clients, ClientStep(k) \/ ClientFails(k)
      PROVE  row' \notin {"ACTIVE", "FAILED"}
  BY <1>1 DEF ClientStep, CreateIntent, Enqueue, Link, ClientFails, db
<1>2. ASSUME NEW k \in Clients, NEW address \in {"ours", "other"}, NEW checked \in BOOLEAN
      PROVE  ~(Discover(k, address) \/ AskForce(k, checked))
  BY DEF Discover, AskForce, db
<1>3. CASE RetryJob \/ CancelJob \/ ArchiveJob \/ OpStep \/ ApiCrash
  BY <1>3 DEF RetryJob, CancelJob, ArchiveJob, OpStep, RetryEnqueue, RemoveJob, CancelRecord,
     ApiCrash, db
<1>4. CASE FindDurable \/ FindOrphan \/ FindRecord \/ TickStep \/ TickCrash
  BY <1>4 DEF FindDurable, FindOrphan, FindRecord, TickStep, MarkRecovering, RebuildJob,
     UpsertRecord, DropOrphan, FixRecord, TickCrash, db
<1>5. CASE WorkerStep \/ LateWrite \/ Outage \/ WorkerCrash \/ RedisLoss
  BY <1>5 DEF WorkerStep, Pick, Load, MarkActive, Fetch, CheckCancelled, Commit, Fail, Ack, Nack,
     LateWrite, Outage, WorkerCrash, RedisLoss, db
<1>6. CASE UNCHANGED vars
  BY <1>6 DEF vars, db
<1>7. QED
  BY <1>1, <1>2, <1>3, <1>4, <1>5, <1>6 DEF Next

\* A COMPLETED analysis is not analysed again before someone has reopened it, whatever is
\* queued, rebuilt or redelivered (worker/src/main.ts 131-136).
THEOREM CompletedStays == Spec => CompletedNotRedone
<1>1. Init => OpenRow
  BY DEF Init, OpenRow
<1>2. OpenRow /\ [Next]_vars => [row = "COMPLETED" => row' \notin {"ACTIVE", "FAILED"}]_row
  BY NotRedone
<1>3. QED
  BY <1>1, <1>2, OpenRowNext, PTL DEF Spec, CompletedNotRedone
=============================================================================
