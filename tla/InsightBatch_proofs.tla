------------------------ MODULE InsightBatch_proofs ------------------------
(***************************************************************************)
(* Safety of the insight batches, for any batches, businesses, overlapping *)
(* ticks, requests and faults: type correctness, with a JobRecord beside   *)
(* every automatic batch; no lease is orphaned (LeaseHasOwner); an         *)
(* automatic batch that is COMPLETED has processed all of its members      *)
(* (AutomaticCovers); and processedCount is bounded (CountBounded).        *)
(*                                                                         *)
(* The first two need what a delivery has still to do: a leased business   *)
(* of the batch in progress is among those it has not come to (ToCome),    *)
(* and what it has counted and what is left make up the batch (Covering).  *)
(* The bound needs the rounds a batch has still before it (Rounds), which  *)
(* only a request or a fault can add to.                                   *)
(***************************************************************************)
EXTENDS InsightBatch, TLAPS, FiniteSetTheorems

Working == {"generate", "store", "count", "free"}

-----------------------------------------------------------------------------
(* Type correctness.                                                       *)

WellFormed ==
  /\ \A b \in Batches : Automatic(b) =>
       rec[b] # "ABSENT" /\ IsFiniteSet(members[b]) /\ total[b] = Cardinality(members[b])
  /\ \A t \in Ticks : IsFiniteSet(found[t]) /\ Cardinality(found[t]) \in 0..BatchSize
  /\ tick \in {"fix"} \X Batches => saw # "NEW"
  /\ at # "idle" => of \in Batches
  /\ at \in Working => cur \in Businesses

\* Nothing is under way for a batch that has no row.
Created ==
  \A b \in Batches : row[b] = "NEW" =>
    /\ members[b] = {} /\ rec[b] = "ABSENT" /\ job[b] = "none" /\ of # b
    /\ \A t \in Ticks : auto[t] \notin {<<"add", b>>, <<"undo", b>>}
    /\ api \notin {"add", "record", "retry", "cancel"} \X {b}
    /\ tick \notin {"mark", "add", "upsert", "drop", "fix"} \X {b}

TypeInv == TypeOK /\ WellFormed /\ Created

LEMMA TypeInit == Init => TypeInv
<1> SUFFICES ASSUME Init PROVE TypeInv
  OBVIOUS
<1>1. /\ lease \in [Businesses -> BOOLEAN] /\ insight \in [Businesses -> {"none"}]
      /\ row \in [Batches -> {"NEW"}] /\ members \in [Batches -> {{}}]
      /\ rec \in [Batches -> {"ABSENT"}] /\ job \in [Batches -> {"none"}]
      /\ auto \in [Ticks -> {Idle}] /\ found \in [Ticks -> {{}}]
  BY DEF Init
<1>2. total \in [Batches -> 0..BatchSize] /\ processed \in [Batches -> Nat]
  BY ConstantsAssumption DEF Init, ConstantsAssumption
<1>3. requests \in 0..MaxRequests /\ faults \in 0..MaxFaults
  BY ConstantsAssumption DEF Init, ConstantsAssumption
<1>4. TypeOK
  BY <1>1, <1>2, <1>3 DEF Init, TypeOK, Automatic, Idle
<1>5. WellFormed
  BY <1>1, FS_EmptySet, ConstantsAssumption DEF Init, WellFormed, Automatic, Working, Idle,
     ConstantsAssumption
<1>6. Created
  BY <1>1, ConstantsAssumption DEF Init, Created, Idle, ConstantsAssumption
<1>7. QED
  BY <1>4, <1>5, <1>6 DEF TypeInv

\* Ending leases keeps their type.
LEMMA FreeTyped ==
  ASSUME lease \in [Businesses -> BOOLEAN], NEW set, Free(set)
  PROVE  lease' \in [Businesses -> BOOLEAN]
  BY DEF Free

\* A part of the businesses is finite.
LEMMA PartFinite ==
  ASSUME NEW set \in SUBSET Businesses
  PROVE  IsFiniteSet(set) /\ Cardinality(set) \in Nat
  BY ConstantsAssumption, FS_Subset, FS_CardinalityType DEF ConstantsAssumption

\* The automatic dispatch.
LEMMA FindTypes ==
  ASSUME TypeInv, NEW t \in Ticks, FindCandidates(t)
  PROVE  TypeInv'
<1> USE ConstantsAssumption
    DEF ConstantsAssumption, TypeInv, TypeOK, WellFormed, Created, Working, Automatic, LiveRow,
        Terminal, Idle, leases, db, worker, count
<1>1. PICK set \in SUBSET Businesses :
        /\ Cardinality(set) = SmallerOf(BatchSize, Cardinality({x \in Businesses : Candidate(x)}))
        /\ found' = [found EXCEPT ![t] = set]
  BY DEF FindCandidates
<1>2. IsFiniteSet(set) /\ Cardinality(set) \in 0..BatchSize
  BY <1>1, PartFinite DEF SmallerOf
<1>3. QED
  BY <1>1, <1>2 DEF FindCandidates

LEMMA AutoTypes ==
  ASSUME TypeInv, NEW t \in Ticks, NEW b \in Batches, AutoStep(t, b) \/ EnqueueFails(t, b)
  PROVE  TypeInv'
<1> USE ConstantsAssumption
    DEF ConstantsAssumption, TypeInv, TypeOK, WellFormed, Created, Working, Automatic, LiveRow,
        Terminal, Idle, leases, db, worker, count
<1>1. CASE LeaseCandidates(t, b)
  <2>1. /\ found[t] \in SUBSET Businesses /\ IsFiniteSet(found[t])
        /\ Cardinality(found[t]) \in 0..BatchSize
    OBVIOUS
  <2>2. /\ row' = [row EXCEPT ![b] = "WAITING"] /\ rec' = [rec EXCEPT ![b] = "WAITING"]
        /\ members' = [members EXCEPT ![b] = found[t]]
        /\ total' = [total EXCEPT ![b] = Cardinality(found[t])]
        /\ auto' = [auto EXCEPT ![t] = <<"add", b>>] /\ found' = [found EXCEPT ![t] = {}]
        /\ UNCHANGED <<insight, processed, job, worker, api, tick, saw, count>>
    BY <1>1 DEF LeaseCandidates, NewRecord
  <2>3. lease' \in [Businesses -> BOOLEAN]
    BY <1>1 DEF LeaseCandidates
  <2>4. TypeOK'
    BY <2>1, <2>2, <2>3
  <2>5. WellFormed'
    BY <2>1, <2>2, FS_EmptySet
  <2>6. Created'
    BY <2>2
  <2>7. QED
    BY <2>4, <2>5, <2>6
<1>2. CASE EnqueueLeased(t, b)
  BY <1>2 DEF EnqueueLeased, EnsureJob
<1>3. CASE EnqueueFails(t, b)
  BY <1>3 DEF EnqueueFails, EnsureJob, Fault
<1>4. CASE UndoLeased(t, b)
  BY <1>4 DEF UndoLeased, SetRow, SetRecord, FreeMembers, Free
<1>5. QED
  BY <1>1, <1>2, <1>3, <1>4 DEF AutoStep

\* What concerns no batch in particular.
LEMMA OneOffTypes ==
  ASSUME TypeInv, Outage \/ WorkerCrash \/ RedisLoss \/ ApiCrash \/ SchedulerCrash
  PROVE  TypeInv'
<1> USE ConstantsAssumption
    DEF ConstantsAssumption, TypeInv, TypeOK, WellFormed, Created, Working, Automatic, LiveRow,
        Terminal, Idle, leases, db, worker, count
<1>1. CASE Outage
  BY <1>1 DEF Outage, Goto, Fault
<1>2. CASE WorkerCrash
  BY <1>2 DEF WorkerCrash, JobEnds, Leave, Fault
<1>3. CASE RedisLoss
  BY <1>3 DEF RedisLoss, Fault
<1>4. CASE ApiCrash
  BY <1>4 DEF ApiCrash, Fault
<1>5. CASE SchedulerCrash
  BY <1>5, FS_EmptySet DEF SchedulerCrash, Fault
<1>6. QED
  BY <1>1, <1>2, <1>3, <1>4, <1>5

\* The age of leases and insights.
LEMMA BusinessTypes ==
  ASSUME TypeInv, NEW x \in Businesses, LeaseExpires(x) \/ InsightAges(x)
  PROVE  TypeInv'
<1> USE ConstantsAssumption
    DEF ConstantsAssumption, TypeInv, TypeOK, WellFormed, Created, Working, Automatic, LiveRow,
        Terminal, Idle, leases, db, worker, count
<1>1. CASE LeaseExpires(x)
  BY <1>1 DEF LeaseExpires
<1>2. CASE InsightAges(x)
  BY <1>2 DEF InsightAges
<1>3. QED
  BY <1>1, <1>2

\* The operator.
LEMMA ApiTypes ==
  ASSUME TypeInv, NEW b \in Batches,
         CreateBatch(b) \/ CancelBatch(b) \/ RetryJob(b) \/ CloseRecord(b) \/ ApiStep(b)
  PROVE  TypeInv'
<1> USE ConstantsAssumption
    DEF ConstantsAssumption, TypeInv, TypeOK, WellFormed, Created, Working, Automatic, LiveRow,
        Terminal, Idle, leases, db, worker, count
<1>1. CASE CreateBatch(b)
  <2>1. SmallerOf(BatchSize, Cardinality({x \in Businesses : Without(x)})) \in 0..BatchSize
    BY PartFinite DEF SmallerOf
  <2>2. members[b] = {}
    BY <1>1 DEF CreateBatch
  <2>3. QED
    BY <1>1, <2>1, <2>2 DEF CreateBatch, Request
<1>2. CASE CancelBatch(b)
  BY <1>2 DEF CancelBatch, Request
<1>3. CASE RetryJob(b)
  BY <1>3 DEF RetryJob, SetRow, SetRecord, Request
<1>4. CASE EnqueueBatch(b)
  BY <1>4 DEF EnqueueBatch, EnsureJob
<1>5. CASE RecordBatch(b)
  BY <1>5 DEF RecordBatch
<1>6. CASE CommitCancel(b)
  BY <1>6 DEF CommitCancel, SetRow, SetRecord, FreeMembers, Free
<1>7. CASE CloseRecord(b)
  BY <1>7 DEF CloseRecord, SetRecord, Request
<1>8. QED
  BY <1>1, <1>2, <1>3, <1>4, <1>5, <1>6, <1>7 DEF ApiStep

LEMMA PickTypes ==
  ASSUME TypeInv, NEW b \in Batches, Pick(b)
  PROVE  TypeInv'
<1> USE ConstantsAssumption
    DEF ConstantsAssumption, TypeInv, TypeOK, WellFormed, Created, Working, Automatic, LiveRow,
        Terminal, Idle, leases, db, worker, count
<1>1. QED
  BY DEF Pick

\* The delivery.
LEMMA WorkerTypes ==
  ASSUME TypeInv, WorkerStep
  PROVE  TypeInv'
<1> USE ConstantsAssumption
    DEF ConstantsAssumption, TypeInv, TypeOK, WellFormed, Created, Working, Automatic, LiveRow,
        Terminal, Idle, leases, db, worker, count
<1>1. CASE Load
  BY <1>1 DEF Load, Goto
<1>2. CASE MarkActive
  BY <1>2 DEF MarkActive, SetRow, Goto
<1>3. CASE ListBusinesses
  BY <1>3 DEF ListBusinesses, Selection, Without, SmallerOf
<1>4. CASE NextBusiness
  <2>1. lease' \in [Businesses -> BOOLEAN]
    <3>1. CASE row[of] = "CANCELLED"
      BY <1>4, <3>1, FreeTyped DEF NextBusiness, FreeMembers
    <3>2. CASE row[of] # "CANCELLED"
      <4>1. lease' = lease
        BY <1>4, <3>2, Zenon DEF NextBusiness
      <4>2. QED
        BY <4>1
    <3>3. QED
      BY <3>1, <3>2
  <2>2. /\ UNCHANGED <<insight, db, job, auto, found, api, tick, saw, count, of>>
        /\ todo' \subseteq todo /\ cur' \in Businesses \union {NoBusiness}
        /\ at' = "ack" \/ (at' = "generate" /\ cur' \in Businesses)
    BY <1>4 DEF NextBusiness, Goto
  <2>3. at # "idle"
    BY <1>4 DEF NextBusiness
  <2>4. QED
    BY <2>1, <2>2, <2>3
<1>5. CASE Generate
  BY <1>5 DEF Generate, Goto
<1>6. CASE StoreInsight
  BY <1>6 DEF StoreInsight, Goto
<1>7. CASE CountProcessed
  BY <1>7 DEF CountProcessed, Goto
<1>8. CASE FreeBusiness
  BY <1>8 DEF FreeBusiness, Free
<1>9. CASE Complete
  BY <1>9 DEF Complete, SetRow, SetRecord, Goto
<1>10. CASE FailBatch
  BY <1>10 DEF FailBatch, SetRow, SetRecord, FreeMembers, Free, Goto
<1>11. CASE Ack
  BY <1>11 DEF Ack, JobEnds, Leave
<1>12. CASE Nack
  BY <1>12 DEF Nack, JobEnds, Leave
<1>13. QED
  BY <1>1, <1>2, <1>3, <1>4, <1>5, <1>6, <1>7, <1>8, <1>9, <1>10, <1>11, <1>12 DEF WorkerStep

\* The reconciliation.
LEMMA TickTypes ==
  ASSUME TypeInv, NEW b \in Batches, FindDurable(b) \/ FindOrphan(b) \/ FindRecord(b) \/ TickStep(b)
  PROVE  TypeInv'
<1> USE ConstantsAssumption
    DEF ConstantsAssumption, TypeInv, TypeOK, WellFormed, Created, Working, Automatic, LiveRow,
        Terminal, Idle, leases, db, worker, count
<1>1. CASE FindDurable(b)
  BY <1>1 DEF FindDurable, Durable
<1>2. CASE FindOrphan(b)
  BY <1>2 DEF FindOrphan
<1>3. CASE FindRecord(b)
  BY <1>3 DEF FindRecord, Astray
<1>4. CASE MarkRecovering(b)
  BY <1>4 DEF MarkRecovering, SetRow
<1>5. CASE RebuildJob(b)
  BY <1>5 DEF RebuildJob, EnsureJob
<1>6. CASE UpsertRecord(b)
  BY <1>6 DEF UpsertRecord
<1>7. CASE DropOrphan(b)
  BY <1>7 DEF DropOrphan
<1>8. CASE FixRecord(b)
  BY <1>8 DEF FixRecord, SetRecord
<1>9. QED
  BY <1>1, <1>2, <1>3, <1>4, <1>5, <1>6, <1>7, <1>8 DEF TickStep

LEMMA TypeNext == TypeInv /\ [Next]_vars => TypeInv'
<1> SUFFICES ASSUME TypeInv, [Next]_vars PROVE TypeInv'
  OBVIOUS
<1>1. CASE UNCHANGED vars
  BY <1>1 DEF vars, TypeInv, TypeOK, WellFormed, Created, Automatic, leases, db, worker, count
<1>2. CASE \E b \in Batches :
        \/ CreateBatch(b) \/ CancelBatch(b) \/ RetryJob(b) \/ CloseRecord(b) \/ ApiStep(b)
        \/ Pick(b)
        \/ FindDurable(b) \/ FindOrphan(b) \/ FindRecord(b) \/ TickStep(b)
        \/ \E t \in Ticks : AutoStep(t, b) \/ EnqueueFails(t, b)
  BY <1>2, ApiTypes, PickTypes, TickTypes, AutoTypes
<1>3. ASSUME NEW t \in Ticks, FindCandidates(t) PROVE TypeInv'
  BY <1>3, FindTypes
<1>4. QED
  BY <1>1, <1>2, <1>3, WorkerTypes, OneOffTypes, BusinessTypes DEF Next

\* Every variable keeps its type, and an automatic batch has its JobRecord from its first
\* moment, so that whatever becomes of its job the reconciliation can report it.
THEOREM TypeCorrect == Spec => []TypeOK
<1>1. TypeInv => TypeOK
  BY DEF TypeInv
<1>2. QED
  BY <1>1, TypeInit, TypeNext, PTL DEF Spec

-----------------------------------------------------------------------------
(* No lease is orphaned, and an automatic batch processes all its members. *)

\* If b is being delivered and its businesses are listed, x is still to come.
ToCome(b, x) ==
  of = b => /\ at = "next" => x \in todo
            /\ at \in Working => x \in todo \union {cur}

Owned ==
  \A x \in Businesses :
    lease[x] => \E b \in Batches : x \in members[b] /\ row[b] \in LiveRow /\ ToCome(b, x)

LeftToCount == IF at \in {"generate", "store", "count"} THEN 1 ELSE 0

Covering ==
  /\ AutomaticCovers
  /\ at \in {"next"} \union Working =>
       /\ IsFiniteSet(todo)
       /\ Automatic(of) => processed[of] + Cardinality(todo) + LeftToCount >= total[of]

Safe == TypeInv /\ Owned /\ Covering

LEMMA SafeInit == Init => Safe
<1>1. Init => Owned
  BY DEF Init, Owned
<1>2. Init => Covering
  BY DEF Init, Covering, AutomaticCovers, Working
<1>3. QED
  BY <1>1, <1>2, TypeInit DEF Safe

\* Most steps leave the batches and the delivery alone and grant no lease.
LEMMA Quiet ==
  ASSUME Safe, UNCHANGED <<row, members, total, processed, worker>>,
         \A x \in Businesses : lease'[x] => lease[x]
  PROVE  Owned' /\ Covering'
<1>1. Owned'
  BY DEF Safe, Owned, ToCome, worker, Working
<1>2. Covering'
  BY DEF Safe, Covering, AutomaticCovers, LeftToCount, Automatic, worker, Working
<1>3. QED
  BY <1>1, <1>2

\* Ending a batch ends the leases of its members, so the others keep their owner.
LEMMA EndOwned ==
  ASSUME Safe, NEW b \in Batches, NEW status, FreeMembers(b), UNCHANGED members,
         row' = [row EXCEPT ![b] = status],
         UNCHANGED worker \/ at' \notin {"next"} \union Working
  PROVE  Owned'
<1> SUFFICES ASSUME NEW x \in Businesses, lease'[x]
             PROVE  \E c \in Batches : x \in members'[c] /\ row'[c] \in LiveRow /\ ToCome(c, x)'
  BY DEF Owned
<1>1. lease[x] /\ x \notin members[b]
  BY DEF FreeMembers, Free
<1>2. PICK c \in Batches : x \in members[c] /\ row[c] \in LiveRow /\ ToCome(c, x)
  BY <1>1 DEF Safe, Owned
<1>3. c # b /\ row'[c] = row[c]
  BY <1>1, <1>2 DEF Safe, TypeInv, TypeOK
<1>4. ToCome(c, x)'
  BY <1>2 DEF ToCome, worker
<1>5. QED
  BY <1>2, <1>3, <1>4

LEMMA DispatchSafe ==
  ASSUME Safe, NEW t \in Ticks, NEW b \in Batches, AutoStep(t, b) \/ EnqueueFails(t, b)
  PROVE  Owned' /\ Covering'
<1> USE ConstantsAssumption
    DEF ConstantsAssumption, TypeInv, TypeOK, WellFormed, Created, Working, Automatic, LiveRow,
        Terminal, Idle, leases, db, worker, count, Safe, Owned, ToCome, Covering, AutomaticCovers,
        LeftToCount
<1>1. CASE LeaseCandidates(t, b)
  <2>1. Owned'
    BY <1>1 DEF LeaseCandidates, NewRecord
  <2>2. Covering'
    BY <1>1 DEF LeaseCandidates, NewRecord
  <2>3. QED
    BY <2>1, <2>2
<1>2. CASE UndoLeased(t, b)
  <2>1. Owned'
    BY <1>2, EndOwned DEF UndoLeased, SetRow
  <2>2. Covering'
    BY <1>2 DEF UndoLeased, SetRow, SetRecord, FreeMembers, Free
  <2>3. QED
    BY <2>1, <2>2
<1>3. CASE EnqueueLeased(t, b) \/ EnqueueFails(t, b)
  BY <1>3, Quiet DEF EnqueueLeased, EnsureJob, EnqueueFails, Fault
<1>4. QED
  BY <1>1, <1>2, <1>3 DEF AutoStep

LEMMA OperatorSafe ==
  ASSUME Safe, NEW b \in Batches,
         CreateBatch(b) \/ CancelBatch(b) \/ RetryJob(b) \/ CloseRecord(b) \/ ApiStep(b)
  PROVE  Owned' /\ Covering'
<1> USE ConstantsAssumption
    DEF ConstantsAssumption, TypeInv, TypeOK, WellFormed, Created, Working, Automatic, LiveRow,
        Terminal, Idle, leases, db, worker, count, Safe, Owned, ToCome, Covering, AutomaticCovers,
        LeftToCount
<1>1. CASE CreateBatch(b)
  <2>1. Owned'
    BY <1>1 DEF CreateBatch, SmallerOf, Request
  <2>2. Covering'
    BY <1>1 DEF CreateBatch, SmallerOf, Request
  <2>3. QED
    BY <2>1, <2>2
<1>2. CASE RetryJob(b)
  <2>1. Owned'
    BY <1>2 DEF RetryJob, SetRow, SetRecord, Request
  <2>2. Covering'
    BY <1>2 DEF RetryJob, SetRow, SetRecord, Request
  <2>3. QED
    BY <2>1, <2>2
<1>3. CASE CommitCancel(b)
  <2>1. Owned'
    BY <1>3, EndOwned DEF CommitCancel, SetRow
  <2>2. Covering'
    BY <1>3 DEF CommitCancel, SetRow, SetRecord, FreeMembers, Free
  <2>3. QED
    BY <2>1, <2>2
<1>4. CASE CancelBatch(b) \/ EnqueueBatch(b) \/ RecordBatch(b) \/ CloseRecord(b)
  BY <1>4, Quiet DEF CancelBatch, Request, EnqueueBatch, EnsureJob, RecordBatch, CloseRecord,
     SetRecord
<1>5. QED
  BY <1>1, <1>2, <1>3, <1>4 DEF ApiStep

LEMMA ReconciliationSafe ==
  ASSUME Safe, NEW b \in Batches, FindDurable(b) \/ FindOrphan(b) \/ FindRecord(b) \/ TickStep(b)
  PROVE  Owned' /\ Covering'
<1> USE ConstantsAssumption
    DEF ConstantsAssumption, TypeInv, TypeOK, WellFormed, Created, Working, Automatic, LiveRow,
        Terminal, Idle, leases, db, worker, count, Safe, Owned, ToCome, Covering, AutomaticCovers,
        LeftToCount
<1>1. CASE MarkRecovering(b)
  <2>1. Owned'
    BY <1>1 DEF MarkRecovering, SetRow
  <2>2. Covering'
    BY <1>1 DEF MarkRecovering, SetRow
  <2>3. QED
    BY <2>1, <2>2
<1>2. CASE FindDurable(b) \/ FindOrphan(b) \/ FindRecord(b)
  BY <1>2, Quiet DEF FindDurable, Durable, FindOrphan, FindRecord, Astray
<1>3. CASE RebuildJob(b) \/ UpsertRecord(b) \/ DropOrphan(b) \/ FixRecord(b)
  BY <1>3, Quiet DEF RebuildJob, EnsureJob, UpsertRecord, DropOrphan, FixRecord, SetRecord
<1>4. QED
  BY <1>1, <1>2, <1>3 DEF TickStep

LEMMA BreakdownSafe ==
  ASSUME Safe, Outage \/ WorkerCrash \/ RedisLoss \/ ApiCrash \/ SchedulerCrash
  PROVE  Owned' /\ Covering'
<1> USE ConstantsAssumption
    DEF ConstantsAssumption, TypeInv, TypeOK, WellFormed, Created, Working, Automatic, LiveRow,
        Terminal, Idle, leases, db, worker, count, Safe, Owned, ToCome, Covering, AutomaticCovers,
        LeftToCount
<1>1. CASE Outage
  <2>1. Owned'
    BY <1>1 DEF Outage, Goto, Fault
  <2>2. Covering'
    BY <1>1 DEF Outage, Goto, Fault
  <2>3. QED
    BY <2>1, <2>2
<1>2. CASE WorkerCrash
  <2>1. Owned'
    BY <1>2 DEF WorkerCrash, JobEnds, Leave, Fault
  <2>2. Covering'
    BY <1>2 DEF WorkerCrash, JobEnds, Leave, Fault
  <2>3. QED
    BY <2>1, <2>2
<1>3. CASE RedisLoss \/ ApiCrash \/ SchedulerCrash
  BY <1>3, Quiet DEF RedisLoss, Fault, ApiCrash, SchedulerCrash
<1>4. QED
  BY <1>1, <1>2, <1>3

\* An interrupted delivery that starts over lists every member of its batch again.
LEMMA ListsMembers ==
  ASSUME TypeInv, ListBusinesses
  PROVE  IsFiniteSet(todo') /\ (Automatic(of) => todo' = members[of])
<1>1. PICK set \in SUBSET Selection(of) :
        /\ Cardinality(set) = SmallerOf(total[of], Cardinality(Selection(of)))
        /\ todo' = set
  BY DEF ListBusinesses
<1>2. of \in Batches
  BY DEF ListBusinesses, TypeInv, WellFormed
<1>3. IsFiniteSet(todo')
  BY <1>1, <1>2, PartFinite DEF Selection, TypeInv, TypeOK
<1>4. ASSUME Automatic(of) PROVE todo' = members[of]
  <2>1. /\ Selection(of) = members[of] /\ IsFiniteSet(members[of])
        /\ total[of] = Cardinality(members[of])
    BY <1>2, <1>4 DEF Selection, TypeInv, WellFormed
  <2>2. Cardinality(set) = Cardinality(members[of])
    BY <1>1, <2>1, FS_CardinalityType DEF SmallerOf
  <2>3. QED
    BY <1>1, <2>1, <2>2, FS_Subset
<1>5. QED
  BY <1>3, <1>4

LEMMA DeliverySafe ==
  ASSUME Safe, WorkerStep
  PROVE  Owned' /\ Covering'
<1> USE ConstantsAssumption
    DEF ConstantsAssumption, TypeInv, TypeOK, WellFormed, Created, Working, Automatic, LiveRow,
        Terminal, Idle, leases, db, worker, count, Safe, Owned, ToCome, Covering, AutomaticCovers,
        LeftToCount
<1>1. CASE Load \/ Generate \/ StoreInsight \/ Ack \/ Nack
  <2>1. Owned'
    BY <1>1 DEF Load, Generate, StoreInsight, Goto, Ack, Nack, Leave
  <2>2. Covering'
    BY <1>1 DEF Load, Generate, StoreInsight, Goto, Ack, Nack, Leave
  <2>3. QED
    BY <2>1, <2>2
<1>2. CASE MarkActive
  <2>1. Owned'
    BY <1>2 DEF MarkActive, SetRow, Goto
  <2>2. Covering'
    BY <1>2 DEF MarkActive, SetRow, Goto
  <2>3. QED
    BY <2>1, <2>2
<1>3. CASE ListBusinesses
  <2>1. Owned'
    BY <1>3, ListsMembers DEF ListBusinesses
  <2>2. Covering'
    <3>1. /\ at' = "next" /\ of \in Batches /\ IsFiniteSet(todo')
          /\ Automatic(of) => todo' = members[of] /\ total[of] = Cardinality(members[of])
      BY <1>3, ListsMembers DEF ListBusinesses
    <3>2. UNCHANGED <<row, members, total, processed, of>>
      BY <1>3 DEF ListBusinesses
    <3>3. QED
      BY <3>1, <3>2
  <2>3. QED
    BY <2>1, <2>2
<1>4. CASE NextBusiness
  <2>1. CASE row[of] = "CANCELLED"
    <3>1. /\ Free(members[of]) /\ at' = "ack"
          /\ UNCHANGED <<row, members, total, processed>>
      BY <1>4, <2>1 DEF NextBusiness, FreeMembers, Goto
    <3>2. QED
      BY <3>1 DEF Free
  <2>2. CASE row[of] # "CANCELLED"
    <3>1. PICK x \in todo : cur' = x /\ todo' = todo \ {x}
      BY <1>4, <2>2 DEF NextBusiness
    <3>2. /\ at = "next" /\ at' = "generate"
          /\ UNCHANGED <<lease, row, members, total, processed, of>>
      BY <1>4, <2>2 DEF NextBusiness
    <3>3. /\ IsFiniteSet(todo') /\ Cardinality(todo') = Cardinality(todo) - 1
          /\ Cardinality(todo) \in Nat
      BY <3>1, <3>2, FS_RemoveElement, FS_CardinalityType
    <3>4. Owned'
      BY <3>1, <3>2
    <3>5. Covering'
      BY <3>2, <3>3
    <3>6. QED
      BY <3>4, <3>5
  <2>3. QED
    BY <2>1, <2>2
<1>5. CASE CountProcessed
  <2>1. Owned'
    BY <1>5 DEF CountProcessed, Goto
  <2>2. Covering'
    <3>1. /\ at = "count" /\ at' = "free" /\ processed' = [processed EXCEPT ![of] = @ + 1]
          /\ UNCHANGED <<row, members, total, of, todo>>
      BY <1>5 DEF CountProcessed, Goto
    <3>2. /\ IsFiniteSet(todo) /\ Cardinality(todo) \in Nat
          /\ Automatic(of) => processed[of] + Cardinality(todo) + 1 >= total[of]
      BY <3>1, FS_CardinalityType
    <3>3. of \in Batches /\ \A b \in Batches : processed[b] \in Nat /\ processed'[b] >= processed[b]
      BY <3>1
    <3>4. AutomaticCovers'
      BY <3>1, <3>3
    <3>5. processed'[of] = processed[of] + 1
      BY <3>1, <3>3
    <3>6. QED
      BY <3>1, <3>2, <3>4, <3>5
  <2>3. QED
    BY <2>1, <2>2
<1>6. CASE FreeBusiness
  <2>1. Owned'
    <3> SUFFICES ASSUME NEW x \in Businesses, lease'[x]
                 PROVE  \E b \in Batches :
                          x \in members'[b] /\ row'[b] \in LiveRow /\ ToCome(b, x)'
      OBVIOUS
    <3>1. lease[x] /\ x # cur
      BY <1>6 DEF FreeBusiness, Free
    <3>2. PICK b \in Batches : x \in members[b] /\ row[b] \in LiveRow /\ ToCome(b, x)
      BY <3>1
    <3>3. of = b => x \in todo
      BY <1>6, <3>1, <3>2 DEF FreeBusiness
    <3>4. /\ at' = "next" /\ UNCHANGED <<row, members, of, todo>>
      BY <1>6 DEF FreeBusiness
    <3>5. QED
      BY <3>2, <3>3, <3>4
  <2>2. Covering'
    BY <1>6 DEF FreeBusiness, Free
  <2>3. QED
    BY <2>1, <2>2
<1>7. CASE Complete
  <2>1. Owned'
    <3>1. /\ at = "next" /\ todo = {} /\ at' = "ack" /\ row' = [row EXCEPT ![of] = "COMPLETED"]
          /\ UNCHANGED <<lease, members, of>>
      BY <1>7 DEF Complete, SetRow, Goto
    <3>2. QED
      BY <3>1
  <2>2. Covering'
    <3>1. /\ at = "next" /\ todo = {} /\ at' = "ack" /\ row' = [row EXCEPT ![of] = "COMPLETED"]
          /\ UNCHANGED <<members, total, processed>>
      BY <1>7 DEF Complete, SetRow, Goto
    <3>2. Automatic(of) => processed[of] >= total[of]
      BY <3>1, FS_EmptySet
    <3>3. QED
      BY <3>1, <3>2
  <2>3. QED
    BY <2>1, <2>2
<1>8. CASE FailBatch
  <2>1. Owned'
    BY <1>8, EndOwned DEF FailBatch, SetRow, Goto
  <2>2. Covering'
    BY <1>8 DEF FailBatch, SetRow, SetRecord, FreeMembers, Free, Goto
  <2>3. QED
    BY <2>1, <2>2
<1>9. QED
  BY <1>1, <1>2, <1>3, <1>4, <1>5, <1>6, <1>7, <1>8 DEF WorkerStep

LEMMA SafeNext == Safe /\ [Next]_vars => Safe'
<1> SUFFICES ASSUME Safe, [Next]_vars PROVE Owned' /\ Covering'
  BY TypeNext DEF Safe
<1>1. CASE UNCHANGED vars
  BY <1>1, Quiet DEF vars, leases, db
<1>2. ASSUME NEW b \in Batches, Pick(b) PROVE Owned' /\ Covering'
  BY <1>2 DEF Pick, leases, db, Safe, Owned, ToCome, Covering, AutomaticCovers, Automatic, Working
<1>3. CASE \E x \in Businesses : LeaseExpires(x) \/ InsightAges(x)
  BY <1>3, Quiet DEF LeaseExpires, InsightAges, db, Safe, TypeInv, TypeOK
<1>4. CASE \E t \in Ticks : FindCandidates(t)
  BY <1>4, Quiet DEF FindCandidates, leases, db
<1>5. CASE \E b \in Batches :
        \/ CreateBatch(b) \/ CancelBatch(b) \/ RetryJob(b) \/ CloseRecord(b) \/ ApiStep(b)
        \/ Pick(b)
        \/ FindDurable(b) \/ FindOrphan(b) \/ FindRecord(b) \/ TickStep(b)
        \/ \E t \in Ticks : AutoStep(t, b) \/ EnqueueFails(t, b)
  BY <1>2, <1>5, DispatchSafe, OperatorSafe, ReconciliationSafe
<1>6. QED
  BY <1>1, <1>3, <1>4, <1>5, DeliverySafe, BreakdownSafe DEF Next

\* A leased business is in an unfinished automatic batch, whoever cancelled, failed or
\* crashed, and however many ticks of the scheduler overlapped.
THEOREM LeaseOwned == Spec => []LeaseHasOwner
<1>1. Safe => LeaseHasOwner
  BY DEF Safe, Owned, LeaseHasOwner
<1>2. QED
  BY <1>1, SafeInit, SafeNext, PTL DEF Spec

\* A COMPLETED automatic batch has processed all of its members, whatever interrupted it.
THEOREM BatchCovers == Spec => []AutomaticCovers
<1>1. Safe => AutomaticCovers
  BY DEF Safe, Covering
<1>2. QED
  BY <1>1, SafeInit, SafeNext, PTL DEF Spec

-----------------------------------------------------------------------------
(* What a batch may yet count.                                             *)

\* A batch that is not being worked on is delivered once more unless it has ended, and one
\* whose delivery has begun, or has failed, has this round before it.
Due(b) ==
  IF \/ (of # b \/ at \in {"load", "ack", "nack"}) /\ ~Skipped(b)
     \/ of = b /\ at \in {"mark", "list", "fail"}
  THEN 1 ELSE 0

\* The reconciliation revives a batch that it has found, or may still find, interrupted.
Revival(b) ==
  IF tick = <<"mark", b>> \/ (row[b] = "ACTIVE" /\ (of # b \/ at \in {"ack", "nack"}))
  THEN 1 ELSE 0

\* So does the dispatch whose enqueuing failed, when it reports a batch that was delivered.
Undoing(b) == IF \E t \in Ticks : auto[t] = <<"undo", b>> THEN 1 ELSE 0

Rounds(b)    == Due(b) + Revival(b) + Undoing(b)
Allowance    == 1 + requests + 2 * faults

\* Of the round that is under way.
Uncounted(b) ==
  IF of = b /\ at \in {"next"} \union Working THEN Cardinality(todo) + LeftToCount ELSE 0

Within(b) == processed[b] + Uncounted(b) <= total[b] * (Allowance - Rounds(b))

Uncreated(b) == row[b] = "NEW" => processed[b] = 0
OneDispatch(b) ==
  \A t, u \in Ticks :
    auto[t] \in {<<"add", b>>, <<"undo", b>>} /\ auto[u] \in {<<"add", b>>, <<"undo", b>>}
    => t = u

Budgeted ==
  /\ Safe /\ (at = "idle" => of = NoBatch)
  /\ \A b \in Batches : Within(b) /\ Uncreated(b) /\ OneDispatch(b)

-----------------------------------------------------------------------------
(* No step takes more rounds than the requests and faults allow.           *)

LEMMA MoreRounds == \A n \in Nat, k, l \in Int : k <= l => n * k <= n * l
  OBVIOUS

LEMMA OneRound == \A n \in Nat, k, l \in Int : k + 1 <= l => n * k + n <= n * l
<1> SUFFICES ASSUME NEW n \in Nat, NEW k \in Int, NEW l \in Int, k + 1 <= l
             PROVE  n * k + n <= n * l
  OBVIOUS
<1>1. n * (k + 1) <= n * l
  BY MoreRounds
<1>2. n * (k + 1) = n * k + n
  OBVIOUS
<1>3. QED
  BY <1>1, <1>2

LEMMA RoundsType ==
  ASSUME TypeInv, NEW b \in Batches
  PROVE  /\ Due(b) \in 0..1 /\ Revival(b) \in 0..1 /\ Undoing(b) \in 0..1
         /\ Allowance \in Nat /\ requests \in Nat /\ faults \in Nat
  BY ConstantsAssumption DEF Due, Revival, Undoing, Allowance, TypeInv, TypeOK,
     ConstantsAssumption

LEMMA UncountedType ==
  ASSUME Safe, NEW b \in Batches
  PROVE  Uncounted(b) \in Nat
<1>1. at \in {"next"} \union Working => Cardinality(todo) \in Nat
  BY FS_CardinalityType DEF Safe, Covering
<1>2. QED
  BY <1>1 DEF Uncounted, LeftToCount

\* A step that counts no more than it had reserved, and takes no round without paying for it.
Paid(b) ==
  /\ total'[b] = total[b] /\ processed'[b] + Uncounted(b)' <= processed[b] + Uncounted(b)
  /\ Rounds(b)' - Rounds(b) <= Allowance' - Allowance

LEMMA PaidWithin ==
  ASSUME Safe, Safe', NEW b \in Batches, Within(b), Paid(b)
  PROVE  Within(b)'
<1>1. total[b] \in Nat /\ processed[b] \in Nat /\ total'[b] \in Nat /\ processed'[b] \in Nat
  BY ConstantsAssumption DEF Safe, TypeInv, TypeOK, ConstantsAssumption
<1>2. Uncounted(b) \in Nat /\ Rounds(b) \in Int /\ Allowance \in Int
  BY UncountedType, RoundsType DEF Safe, Rounds
<1>3. Uncounted(b)' \in Nat
  <2>1. (at \in {"next"} \union Working)' => Cardinality(todo)' \in Nat
    BY FS_CardinalityType DEF Safe, Covering
  <2>2. QED
    BY <2>1 DEF Uncounted, LeftToCount
<1>4. Rounds(b)' \in Int /\ Allowance' \in Int
  <2>1. requests' \in Nat /\ faults' \in Nat
    BY ConstantsAssumption DEF Safe, TypeInv, TypeOK, ConstantsAssumption
  <2>2. QED
    BY <2>1 DEF Rounds, Due, Revival, Undoing, Allowance
<1>5. Allowance - Rounds(b) <= Allowance' - Rounds(b)'
  BY <1>2, <1>4 DEF Paid
<1>6. total[b] * (Allowance - Rounds(b)) <= total[b] * (Allowance' - Rounds(b)')
  BY <1>1, <1>2, <1>4, <1>5, MoreRounds
<1>7. processed'[b] + Uncounted(b)' <= total[b] * (Allowance - Rounds(b))
  BY <1>1, <1>2, <1>3 DEF Paid, Within
<1>8. processed'[b] + Uncounted(b)' <= total[b] * (Allowance' - Rounds(b)')
  <2> DEFINE p == processed'[b] + Uncounted(b)'
             m == total[b] * (Allowance - Rounds(b))
             n == total[b] * (Allowance' - Rounds(b)')
  <2>1. p \in Int /\ m \in Int /\ n \in Int
    BY <1>1, <1>2, <1>3, <1>4
  <2>2. p <= m /\ m <= n
    BY <1>6, <1>7
  <2> HIDE DEF p, m, n
  <2>3. p <= n
    BY <2>1, <2>2
  <2>4. QED
    BY <2>3 DEF p, n
<1>9. QED
  BY <1>8 DEF Within, Paid

\* Where neither the worker nor the counts are concerned only the rounds matter.
LEMMA RestPaid ==
  ASSUME Safe, NEW b \in Batches,
         UNCHANGED <<total, processed, worker>>,
         Rounds(b)' - Rounds(b) <= Allowance' - Allowance
  PROVE  Paid(b)
<1>1. Uncounted(b)' = Uncounted(b)
  BY DEF Uncounted, LeftToCount, Working, worker
<1>2. processed[b] + Uncounted(b) \in Nat
  BY UncountedType DEF Safe, TypeInv, TypeOK
<1>3. QED
  BY <1>1, <1>2 DEF Paid

\* Most of the steps of the API, of the dispatch and of the reconciliation.
LEMMA IdlePaid ==
  ASSUME Safe, NEW b \in Batches,
         UNCHANGED <<row, total, processed, worker>>,
         tick' = <<"mark", b>> => Revival(b) = 1,
         (\E t \in Ticks : auto'[t] = <<"undo", b>>) => Undoing(b) = 1 \/ faults' > faults,
         requests' \in Nat, faults' \in Nat, requests' >= requests, faults' >= faults
  PROVE  Paid(b)
<1>1. Due(b)' = Due(b)
  BY DEF Due, Skipped, worker
<1>2. Revival(b)' <= Revival(b)
  BY DEF Revival, worker
<1>3. Undoing(b)' <= Undoing(b) + (faults' - faults)
  BY RoundsType DEF Undoing, Safe
<1>4. /\ Due(b) \in 0..1 /\ Revival(b) \in 0..1 /\ Undoing(b) \in 0..1
      /\ Due(b)' \in 0..1 /\ Revival(b)' \in 0..1 /\ Undoing(b)' \in 0..1
      /\ requests \in Nat /\ faults \in Nat
  BY RoundsType DEF Safe, Due, Revival, Undoing
<1>5. Rounds(b)' - Rounds(b) <= Allowance' - Allowance
  BY <1>1, <1>2, <1>3, <1>4 DEF Rounds, Allowance
<1>6. QED
  BY <1>5, RestPaid

LEMMA OperatorPaid ==
  ASSUME Budgeted, NEW b \in Batches, NEW c \in Batches,
         CancelBatch(c) \/ RetryJob(c) \/ CloseRecord(c) \/ ApiStep(c)
  PROVE  Paid(b)
<1> USE DEF Budgeted, Safe, TypeInv, TypeOK, Idle, leases, db, worker, count
<1>0. requests \in Nat /\ faults \in Nat
  BY RoundsType
<1>1. CASE RetryJob(c)
  <2>1. /\ row' = [row EXCEPT ![c] = "RECOVERING"] /\ requests' = requests + 1
        /\ UNCHANGED <<total, processed, worker, auto, tick, faults>>
    BY <1>1 DEF RetryJob, SetRow, Request
  <2>2. Due(b)' <= Due(b) + 1
    BY DEF Due
  <2>3. Revival(b)' <= Revival(b)
    BY <2>1 DEF Revival
  <2>4. Undoing(b)' = Undoing(b)
    BY <2>1 DEF Undoing
  <2>5. Rounds(b)' - Rounds(b) <= Allowance' - Allowance
    <3>1. /\ Due(b) \in 0..1 /\ Revival(b) \in 0..1 /\ Undoing(b) \in 0..1
          /\ Due(b)' \in 0..1 /\ Revival(b)' \in 0..1 /\ Undoing(b)' \in 0..1
      BY RoundsType DEF Due, Revival, Undoing
    <3>2. QED
      BY <1>0, <2>1, <2>2, <2>3, <2>4, <3>1 DEF Rounds, Allowance
  <2>6. QED
    BY <2>1, <2>5, RestPaid
<1>2. CASE CommitCancel(c)
  <2>1. /\ row' = [row EXCEPT ![c] = "CANCELLED"]
        /\ UNCHANGED <<total, processed, worker, auto, tick, requests, faults>>
    BY <1>2 DEF CommitCancel, SetRow
  <2>2. Due(b)' <= Due(b)
    BY <2>1 DEF Due, Skipped
  <2>3. Revival(b)' <= Revival(b)
    BY <2>1 DEF Revival
  <2>4. Undoing(b)' = Undoing(b)
    BY <2>1 DEF Undoing
  <2>5. Rounds(b)' - Rounds(b) <= Allowance' - Allowance
    <3>1. /\ Due(b) \in 0..1 /\ Revival(b) \in 0..1 /\ Undoing(b) \in 0..1
          /\ Due(b)' \in 0..1 /\ Revival(b)' \in 0..1 /\ Undoing(b)' \in 0..1
      BY RoundsType DEF Due, Revival, Undoing
    <3>2. QED
      BY <1>0, <2>1, <2>2, <2>3, <2>4, <3>1 DEF Rounds, Allowance
  <2>6. QED
    BY <2>1, <2>5, RestPaid
<1>3. CASE CancelBatch(c) \/ CloseRecord(c) \/ EnqueueBatch(c) \/ RecordBatch(c)
  <2>1. /\ UNCHANGED <<row, total, processed, worker, auto, tick, faults>>
        /\ requests' \in Nat /\ requests' >= requests
    BY <1>0, <1>3 DEF CancelBatch, CloseRecord, EnqueueBatch, RecordBatch, SetRecord, Request
  <2>2. /\ tick' = <<"mark", b>> => Revival(b) = 1
        /\ (\E t \in Ticks : auto'[t] = <<"undo", b>>) => Undoing(b) = 1
    BY <2>1 DEF Revival, Undoing
  <2>3. QED
    BY <1>0, <2>1, <2>2, IdlePaid
<1>4. QED
  BY <1>1, <1>2, <1>3 DEF ApiStep

LEMMA DispatchPaid ==
  ASSUME Budgeted, NEW b \in Batches, NEW t \in Ticks, NEW c \in Batches,
         EnqueueLeased(t, c) \/ EnqueueFails(t, c) \/ UndoLeased(t, c)
  PROVE  Paid(b)
<1> USE DEF Budgeted, Safe, TypeInv, TypeOK, Idle, leases, db, worker, count
<1>0. requests \in Nat /\ faults \in Nat
  BY RoundsType
<1>1. CASE UndoLeased(t, c)
  <2>1. /\ row' = [row EXCEPT ![c] = "FAILED"] /\ auto' = [auto EXCEPT ![t] = Idle]
        /\ UNCHANGED <<total, processed, worker, tick, requests, faults>>
        /\ auto[t] = <<"undo", c>>
    BY <1>1 DEF UndoLeased, SetRow
  <2>2. Revival(b)' <= Revival(b)
    BY <2>1 DEF Revival
  <2>3. /\ Due(b) \in 0..1 /\ Revival(b) \in 0..1 /\ Undoing(b) \in 0..1
        /\ Due(b)' \in 0..1 /\ Revival(b)' \in 0..1 /\ Undoing(b)' \in 0..1
    BY RoundsType DEF Due, Revival, Undoing
  <2>4. Due(b)' + Undoing(b)' <= Due(b) + Undoing(b)
    <3>1. CASE b = c
      <4>1. Undoing(b) = 1
        BY <2>1, <3>1 DEF Undoing
      <4>2. Undoing(b)' = 0
        BY <2>1, <3>1 DEF Undoing, OneDispatch
      <4>3. QED
        BY <2>3, <4>1, <4>2
    <3>2. CASE b # c
      <4>1. Due(b)' = Due(b)
        BY <2>1, <3>2 DEF Due, Skipped
      <4>2. Undoing(b)' <= Undoing(b)
        BY <2>1, <3>2 DEF Undoing
      <4>3. QED
        BY <2>3, <4>1, <4>2
    <3>3. QED
      BY <3>1, <3>2
  <2>5. Rounds(b)' - Rounds(b) <= Allowance' - Allowance
    BY <1>0, <2>1, <2>2, <2>3, <2>4 DEF Rounds, Allowance
  <2>6. QED
    BY <2>1, <2>5, RestPaid
<1>2. CASE EnqueueLeased(t, c) \/ EnqueueFails(t, c)
  <2>1. /\ UNCHANGED <<row, total, processed, worker, tick, requests>>
        /\ faults' \in Nat /\ faults' >= faults
        /\ \A u \in Ticks : auto'[u] = <<"undo", b>> => auto[u] = <<"undo", b>> \/ faults' > faults
    BY <1>0, <1>2 DEF EnqueueLeased, EnqueueFails, Fault
  <2>2. /\ tick' = <<"mark", b>> => Revival(b) = 1
        /\ (\E u \in Ticks : auto'[u] = <<"undo", b>>) => Undoing(b) = 1 \/ faults' > faults
    BY <2>1 DEF Revival, Undoing
  <2>3. Safe /\ requests' \in Nat /\ requests' >= requests
    BY <1>0, <2>1
  <2> HIDE DEF Safe, worker
  <2>4. UNCHANGED <<row, total, processed, worker>>
    BY <2>1
  <2>5. QED
    BY <2>1, <2>2, <2>3, <2>4, IdlePaid
<1>3. QED
  BY <1>1, <1>2

LEMMA ReconciliationPaid ==
  ASSUME Budgeted, NEW b \in Batches, NEW c \in Batches,
         FindDurable(c) \/ FindOrphan(c) \/ FindRecord(c) \/ TickStep(c)
  PROVE  Paid(b)
<1> USE DEF Budgeted, Safe, TypeInv, TypeOK, Idle, leases, db, worker, count
<1>0. requests \in Nat /\ faults \in Nat
  BY RoundsType
<1>1. CASE MarkRecovering(c)
  <2>1. /\ row' = [row EXCEPT ![c] = "RECOVERING"] /\ tick = <<"mark", c>> /\ tick' = <<"add", c>>
        /\ UNCHANGED <<total, processed, worker, auto, requests, faults>>
    BY <1>1 DEF MarkRecovering, SetRow
  <2>2. Undoing(b)' = Undoing(b)
    BY <2>1 DEF Undoing
  <2>3. /\ Due(b) \in 0..1 /\ Revival(b) \in 0..1 /\ Undoing(b) \in 0..1
        /\ Due(b)' \in 0..1 /\ Revival(b)' \in 0..1 /\ Undoing(b)' \in 0..1
    BY RoundsType DEF Due, Revival, Undoing
  <2>4. Due(b)' + Revival(b)' <= Due(b) + Revival(b)
    <3>1. CASE b = c
      <4>1. Revival(b) = 1 /\ Revival(b)' = 0
        BY <2>1, <3>1 DEF Revival
      <4>2. QED
        BY <2>3, <4>1
    <3>2. CASE b # c
      <4>1. Due(b)' = Due(b)
        BY <2>1, <3>2 DEF Due, Skipped
      <4>2. Revival(b)' <= Revival(b)
        BY <2>1, <3>2 DEF Revival
      <4>3. QED
        BY <2>3, <4>1, <4>2
    <3>3. QED
      BY <3>1, <3>2
  <2>5. Rounds(b)' - Rounds(b) <= Allowance' - Allowance
    BY <1>0, <2>1, <2>2, <2>3, <2>4 DEF Rounds, Allowance
  <2>6. QED
    BY <2>1, <2>5, RestPaid
<1>2. CASE FindDurable(c) \/ FindOrphan(c) \/ FindRecord(c) \/ RebuildJob(c) \/ UpsertRecord(c)
           \/ DropOrphan(c) \/ FixRecord(c)
  <2>1. UNCHANGED <<row, total, processed, worker, auto, requests, faults>>
    BY <1>2 DEF FindDurable, FindOrphan, FindRecord, RebuildJob, UpsertRecord, DropOrphan,
       FixRecord, SetRecord
  <2>2. tick' = <<"mark", b>> => row[b] = "ACTIVE" /\ of # b
    BY <1>2 DEF FindDurable, FindOrphan, FindRecord, RebuildJob, UpsertRecord, DropOrphan,
       FixRecord, Durable
  <2>3. /\ tick' = <<"mark", b>> => Revival(b) = 1
        /\ (\E t \in Ticks : auto'[t] = <<"undo", b>>) => Undoing(b) = 1
    BY <2>1, <2>2 DEF Revival, Undoing
  <2>4. QED
    BY <1>0, <2>1, <2>3, IdlePaid
<1>3. QED
  BY <1>1, <1>2 DEF TickStep

LEMMA BreakdownPaid ==
  ASSUME Budgeted, NEW b \in Batches,
         Outage \/ WorkerCrash \/ RedisLoss \/ ApiCrash \/ SchedulerCrash
  PROVE  Paid(b)
<1> USE DEF Budgeted, Safe, TypeInv, TypeOK, Idle, leases, db, worker, count
<1>0. requests \in Nat /\ faults \in Nat
  BY RoundsType
<1>1. CASE Outage \/ WorkerCrash
  <2>1. /\ UNCHANGED <<row, total, processed, auto, tick, requests>> /\ faults' = faults + 1
        /\ at' \in {"fail", "nack", "idle"}
    BY <1>1 DEF Outage, WorkerCrash, Fault, Goto, Leave
  <2>2. Uncounted(b)' = 0
    BY <2>1 DEF Uncounted, Working
  <2>3. Undoing(b)' = Undoing(b)
    BY <2>1 DEF Undoing
  <2>4. /\ Due(b) \in 0..1 /\ Revival(b) \in 0..1 /\ Undoing(b) \in 0..1
        /\ Due(b)' \in 0..1 /\ Revival(b)' \in 0..1 /\ Undoing(b)' \in 0..1
    BY RoundsType DEF Due, Revival, Undoing
  <2>5. Rounds(b)' - Rounds(b) <= Allowance' - Allowance
    BY <1>0, <2>1, <2>3, <2>4 DEF Rounds, Allowance
  <2>6. Uncounted(b) \in Nat /\ processed[b] \in Nat
    BY UncountedType
  <2>7. QED
    BY <2>1, <2>2, <2>5, <2>6 DEF Paid
<1>2. CASE RedisLoss \/ ApiCrash \/ SchedulerCrash
  <2>1. /\ UNCHANGED <<row, total, processed, worker, requests>> /\ faults' = faults + 1
        /\ tick' = tick \/ tick' = Idle
        /\ auto' = auto \/ auto' = [t \in Ticks |-> Idle]
    BY <1>2 DEF RedisLoss, ApiCrash, SchedulerCrash, Fault
  <2>2. tick' = <<"mark", b>> => Revival(b) = 1
    BY <2>1 DEF Revival
  <2>3. QED
    BY <1>0, <2>1, <2>2, IdlePaid
<1>3. QED
  BY <1>1, <1>2

LEMMA PickPaid ==
  ASSUME Budgeted, NEW b \in Batches, NEW c \in Batches, Pick(c)
  PROVE  Paid(b)
<1> USE DEF Budgeted, Safe, TypeInv, TypeOK, Idle, leases, db, worker, count
<1>0. requests \in Nat /\ faults \in Nat
  BY RoundsType
<1>1. /\ at = "idle" /\ at' = "load" /\ of = NoBatch /\ NoBatch # b /\ of' = c
      /\ UNCHANGED <<row, total, processed, auto, tick, requests, faults>>
  BY ConstantsAssumption DEF Pick, ConstantsAssumption
<1>2. Uncounted(b)' = 0
  BY <1>1 DEF Uncounted, Working
<1>3. Due(b)' <= Due(b)
  BY <1>1 DEF Due, Skipped
<1>4. Revival(b)' <= Revival(b)
  BY <1>1 DEF Revival
<1>5. Undoing(b)' = Undoing(b)
  BY <1>1 DEF Undoing
<1>6. /\ Due(b) \in 0..1 /\ Revival(b) \in 0..1 /\ Undoing(b) \in 0..1
      /\ Due(b)' \in 0..1 /\ Revival(b)' \in 0..1 /\ Undoing(b)' \in 0..1
  BY RoundsType DEF Due, Revival, Undoing
<1>7. Rounds(b)' - Rounds(b) <= Allowance' - Allowance
  BY <1>0, <1>1, <1>3, <1>4, <1>5, <1>6 DEF Rounds, Allowance
<1>8. Uncounted(b) \in Nat /\ processed[b] \in Nat
  BY UncountedType
<1>9. QED
  BY <1>1, <1>2, <1>7, <1>8 DEF Paid

\* The steps of a delivery other than the one that begins the round.
LEMMA DeliveryPaid ==
  ASSUME Budgeted, NEW b \in Batches, WorkerStep, at # "list"
  PROVE  Paid(b)
<1> USE DEF Budgeted, Safe, TypeInv, TypeOK, Idle, leases, db, worker, count
<1>0. requests \in Nat /\ faults \in Nat
  BY RoundsType
<1>1. Uncounted(b) \in Nat /\ processed[b] \in Nat
  BY UncountedType
<1>2. UNCHANGED <<total, auto, tick, requests, faults>>
  BY DEF WorkerStep, Load, MarkActive, ListBusinesses, NextBusiness, Generate, StoreInsight,
     CountProcessed, FreeBusiness, Complete, FailBatch, Ack, Nack, SetRow
<1>3. of \in Batches
  BY DEF WorkerStep, Load, MarkActive, ListBusinesses, NextBusiness, Generate, StoreInsight,
     CountProcessed, FreeBusiness, Complete, FailBatch, Ack, Nack, WellFormed
<1>4. processed'[b] + Uncounted(b)' <= processed[b] + Uncounted(b)
  <2>1. CASE Load \/ MarkActive \/ Complete \/ FailBatch \/ Ack \/ Nack
    <3>1. processed' = processed /\ at' \notin {"next"} \union Working
      BY <2>1 DEF Load, MarkActive, Complete, FailBatch, Ack, Nack, Goto, Leave, SetRow, Working
    <3>2. Uncounted(b)' = 0
      BY <3>1 DEF Uncounted
    <3>3. QED
      BY <1>1, <3>1, <3>2
  <2>2. CASE NextBusiness
    <3>0. processed' = processed /\ of' = of /\ at = "next"
      BY <2>2 DEF NextBusiness, Goto
    <3>1. CASE row[of] = "CANCELLED"
      <4>1. at' = "ack"
        BY <2>2, <3>1 DEF NextBusiness, Goto
      <4>2. Uncounted(b)' = 0
        BY <4>1 DEF Uncounted, Working
      <4>3. QED
        BY <1>1, <3>0, <4>2
    <3>2. CASE row[of] # "CANCELLED"
      <4>1. PICK x \in todo : todo' = todo \ {x}
        BY <2>2, <3>2 DEF NextBusiness
      <4>2. at' = "generate"
        BY <2>2, <3>2 DEF NextBusiness
      <4>3. IsFiniteSet(todo)
        BY <3>0 DEF Covering
      <4>4. Cardinality(todo') = Cardinality(todo) - 1 /\ Cardinality(todo) \in Nat
        BY <4>1, <4>3, FS_RemoveElement, FS_CardinalityType
      <4>5. Uncounted(b)' = Uncounted(b)
        BY <3>0, <4>2, <4>4 DEF Uncounted, LeftToCount, Working
      <4>6. QED
        BY <1>1, <3>0, <4>5
    <3>3. QED
      BY <3>1, <3>2
  <2>3. CASE Generate \/ StoreInsight \/ FreeBusiness
    <3>1. /\ processed' = processed /\ of' = of /\ todo' = todo
          /\ \/ at \in {"generate", "store"} /\ at' \in {"store", "count"}
             \/ at = "free" /\ at' = "next"
      BY <2>3 DEF Generate, StoreInsight, FreeBusiness, Goto
    <3>2. Uncounted(b)' = Uncounted(b)
      BY <3>1 DEF Uncounted, LeftToCount, Working
    <3>3. QED
      BY <1>1, <3>1, <3>2
  <2>4. CASE CountProcessed
    <3>1. /\ processed' = [processed EXCEPT ![of] = @ + 1] /\ of' = of /\ todo' = todo
          /\ at = "count" /\ at' = "free"
      BY <2>4 DEF CountProcessed, Goto
    <3>2. IsFiniteSet(todo) /\ Cardinality(todo) \in Nat
      BY <3>1, FS_CardinalityType DEF Covering, Working
    <3>3. CASE of = b
      <4>1. Uncounted(b) = Cardinality(todo) + 1 /\ Uncounted(b)' = Cardinality(todo)
        BY <3>1, <3>2, <3>3 DEF Uncounted, LeftToCount, Working
      <4>2. processed'[b] = processed[b] + 1
        BY <3>1, <3>3
      <4>3. QED
        BY <1>1, <3>2, <4>1, <4>2
    <3>4. CASE of # b
      <4>1. Uncounted(b) = 0 /\ Uncounted(b)' = 0 /\ processed'[b] = processed[b]
        BY <1>3, <3>1, <3>4 DEF Uncounted
      <4>2. QED
        BY <1>1, <4>1
    <3>5. QED
      BY <3>3, <3>4
  <2>5. QED
    BY <2>1, <2>2, <2>3, <2>4 DEF WorkerStep, ListBusinesses
<1>5. Due(b)' + Revival(b)' <= Due(b) + Revival(b)
  <2>1. CASE Load
    <3>1. /\ at = "load" /\ at' = IF Skipped(of) THEN "ack" ELSE "mark"
          /\ of' = of /\ row' = row
      BY <2>1 DEF Load, Goto
    <3>2. Due(b)' <= Due(b)
      BY <3>1 DEF Due, Skipped
    <3>3. Revival(b)' <= Revival(b)
      BY <1>2, <3>1 DEF Revival, Skipped
    <3>4. QED
      BY <3>2, <3>3, RoundsType DEF Due, Revival
  <2>2. CASE MarkActive
    <3>1. /\ at = "mark" /\ at' = "list" /\ of' = of /\ row' = [row EXCEPT ![of] = "ACTIVE"]
      BY <2>2 DEF MarkActive, SetRow, Goto
    <3>2. Due(b)' <= Due(b)
      BY <1>3, <3>1 DEF Due, Skipped
    <3>3. Revival(b)' <= Revival(b)
      BY <1>2, <1>3, <3>1 DEF Revival
    <3>4. QED
      BY <3>2, <3>3, RoundsType DEF Due, Revival
  <2>3. CASE NextBusiness \/ Generate \/ StoreInsight \/ CountProcessed \/ FreeBusiness
    <3>1. /\ at \in {"next"} \union Working /\ of' = of /\ row' = row
          /\ at' \in {"next"} \union Working \/ (at' = "ack" /\ row[of] = "CANCELLED")
      BY <2>3 DEF NextBusiness, Generate, StoreInsight, CountProcessed, FreeBusiness, Goto, Working
    <3>2. Due(b)' <= Due(b)
      BY <3>1 DEF Due, Skipped, Working
    <3>3. Revival(b)' <= Revival(b)
      BY <1>2, <3>1 DEF Revival, Working
    <3>4. QED
      BY <3>2, <3>3, RoundsType DEF Due, Revival
  <2>4. CASE Complete
    <3>1. /\ at = "next" /\ at' = "ack" /\ of' = of /\ row' = [row EXCEPT ![of] = "COMPLETED"]
      BY <2>4 DEF Complete, SetRow, Goto
    <3>2. Due(b)' <= Due(b)
      BY <1>3, <3>1 DEF Due, Skipped
    <3>3. Revival(b)' <= Revival(b)
      BY <1>2, <1>3, <3>1 DEF Revival
    <3>4. QED
      BY <3>2, <3>3, RoundsType DEF Due, Revival
  <2>5. CASE FailBatch
    <3>1. /\ at = "fail" /\ at' = "nack" /\ of' = of /\ row' = [row EXCEPT ![of] = "FAILED"]
      BY <2>5 DEF FailBatch, SetRow, Goto
    <3>2. Due(b)' <= Due(b)
      BY <1>3, <3>1 DEF Due, Skipped
    <3>3. Revival(b)' <= Revival(b)
      BY <1>2, <1>3, <3>1 DEF Revival
    <3>4. QED
      BY <3>2, <3>3, RoundsType DEF Due, Revival
  <2>6. CASE Ack \/ Nack
    <3>1. /\ at \in {"ack", "nack"} /\ at' = "idle" /\ of' = NoBatch /\ row' = row
      BY <2>6 DEF Ack, Nack, Leave
    <3>2. NoBatch # b
      BY ConstantsAssumption DEF ConstantsAssumption
    <3>3. Due(b)' <= Due(b)
      BY <3>1, <3>2 DEF Due, Skipped
    <3>4. Revival(b)' <= Revival(b)
      BY <1>2, <3>1, <3>2 DEF Revival
    <3>5. QED
      BY <3>3, <3>4, RoundsType DEF Due, Revival
  <2>7. QED
    BY <2>1, <2>2, <2>3, <2>4, <2>5, <2>6 DEF WorkerStep, ListBusinesses
<1>6. Undoing(b)' = Undoing(b)
  BY <1>2 DEF Undoing
<1>7. Rounds(b)' - Rounds(b) <= Allowance' - Allowance
  <2>1. /\ Due(b) \in 0..1 /\ Revival(b) \in 0..1 /\ Undoing(b) \in 0..1
        /\ Due(b)' \in 0..1 /\ Revival(b)' \in 0..1 /\ Undoing(b)' \in 0..1
    BY RoundsType DEF Due, Revival, Undoing
  <2>2. QED
    BY <1>0, <1>2, <1>5, <1>6, <2>1 DEF Rounds, Allowance
<1>8. QED
  BY <1>2, <1>4, <1>7 DEF Paid

\* The round that was due is reserved: as many businesses as the batch has at most.
LEMMA ListWithin ==
  ASSUME Budgeted, NEW b \in Batches, ListBusinesses
  PROVE  Within(b)'
<1> USE DEF Budgeted, Safe, TypeInv, TypeOK, Idle, leases, db, worker, count
<1>1. /\ at = "list" /\ at' = "next" /\ of' = of /\ of \in Batches
      /\ UNCHANGED <<row, total, processed, auto, tick, requests, faults>>
  BY DEF ListBusinesses, WellFormed
<1>2. /\ Due(b) \in 0..1 /\ Revival(b) \in 0..1 /\ Undoing(b) \in 0..1 /\ Allowance \in Nat
  BY RoundsType
<1>3. total[b] \in Nat /\ processed[b] \in Nat
  BY ConstantsAssumption DEF ConstantsAssumption
<1>4. Revival(b)' = Revival(b) /\ Undoing(b)' = Undoing(b) /\ Allowance' = Allowance
  BY <1>1 DEF Revival, Undoing, Allowance
<1>5. CASE of # b
  <2>1. Uncounted(b) = 0 /\ Uncounted(b)' = 0
    BY <1>1, <1>5 DEF Uncounted
  <2>2. Due(b)' = Due(b)
    BY <1>1, <1>5 DEF Due, Skipped
  <2>3. QED
    BY <1>1, <1>4, <2>1, <2>2 DEF Within, Rounds
<1>6. CASE of = b
  <2>1. Uncounted(b) = 0 /\ Due(b) = 1 /\ Due(b)' = 0
    BY <1>1, <1>6 DEF Uncounted, Due, Working
  <2>2. PICK set \in SUBSET Selection(of) :
          /\ Cardinality(set) = SmallerOf(total[of], Cardinality(Selection(of)))
          /\ todo' = set
    BY DEF ListBusinesses
  <2>3. Cardinality(todo') \in Nat /\ Cardinality(todo') <= total[b]
    <3>1. Selection(of) \in SUBSET Businesses
      BY <1>1 DEF Selection
    <3>2. Cardinality(Selection(of)) \in Nat
      BY <3>1, PartFinite
    <3>3. QED
      BY <1>3, <1>6, <2>2, <3>2 DEF SmallerOf
  <2>4. Uncounted(b)' = Cardinality(todo')
    BY <1>1, <1>6, <2>3 DEF Uncounted, LeftToCount
  <2> DEFINE k == Allowance - Rounds(b)
             l == Allowance' - Rounds(b)'
  <2>5. k \in Int /\ l \in Int /\ k + 1 <= l
    BY <1>2, <1>4, <2>1 DEF Rounds
  <2>6. processed[b] <= total[b] * k
    BY <1>3, <2>1 DEF Within
  <2> HIDE DEF k, l
  <2>7. total[b] * k + total[b] <= total[b] * l
    BY <1>3, <2>5, OneRound
  <2>8. processed[b] + Cardinality(todo') <= total[b] * l
    <3>1. total[b] * k \in Int /\ total[b] * l \in Int
      BY <1>3, <2>5
    <3>2. QED
      BY <1>3, <2>3, <2>6, <2>7, <3>1
  <2>9. QED
    BY <1>1, <2>4, <2>8 DEF Within, l
<1>7. QED
  BY <1>5, <1>6

\* A batch begins with one round due, whoever creates it.
LEMMA CreationWithin ==
  ASSUME Budgeted, Safe', NEW b \in Batches, NEW c \in Batches,
         CreateBatch(c) \/ \E t \in Ticks : LeaseCandidates(t, c)
  PROVE  Within(b)'
<1> USE DEF Budgeted, Safe, TypeInv, TypeOK, Idle, leases, db, worker, count
<1>0. requests \in Nat /\ faults \in Nat
  BY RoundsType
<1>1. /\ row[c] = "NEW" /\ row' = [row EXCEPT ![c] = "WAITING"]
      /\ \A d \in Batches \ {c} : total'[d] = total[d]
      /\ UNCHANGED <<processed, worker, tick, faults>>
      /\ requests' \in Nat /\ requests' >= requests
      /\ \A t \in Ticks, d \in Batches : auto'[t] = <<"undo", d>> => auto[t] = <<"undo", d>>
  BY <1>0 DEF CreateBatch, LeaseCandidates, Request
<1>2. Undoing(b)' <= Undoing(b)
  BY <1>1 DEF Undoing
<1>3. Revival(b)' <= Revival(b)
  BY <1>1 DEF Revival
<1>4. /\ Due(b) \in 0..1 /\ Revival(b) \in 0..1 /\ Undoing(b) \in 0..1
      /\ Due(b)' \in 0..1 /\ Revival(b)' \in 0..1 /\ Undoing(b)' \in 0..1
  BY RoundsType DEF Due, Revival, Undoing
<1>5. CASE b # c
  <2>1. Due(b)' = Due(b)
    BY <1>1, <1>5 DEF Due, Skipped
  <2>2. Rounds(b)' - Rounds(b) <= Allowance' - Allowance
    BY <1>0, <1>1, <1>2, <1>3, <1>4, <2>1 DEF Rounds, Allowance
  <2>3. Uncounted(b)' = Uncounted(b) /\ Uncounted(b) \in Nat /\ processed[b] \in Nat
    BY <1>1, UncountedType DEF Uncounted, LeftToCount, Working
  <2>4. Paid(b)
    BY <1>1, <1>5, <2>2, <2>3 DEF Paid
  <2>5. QED
    BY <2>4, PaidWithin
<1>6. CASE b = c
  <2>1. processed'[b] = 0 /\ Uncounted(b)' = 0
    BY <1>1, <1>6 DEF Uncreated, Created, Uncounted
  <2>2. Revival(b)' = 0 /\ Undoing(b)' = 0
    <3>1. Revival(b) = 0 /\ Undoing(b) = 0
      BY <1>1, <1>6 DEF Created, Revival, Undoing
    <3>2. QED
      BY <1>2, <1>3, <1>4, <3>1
  <2>3. Allowance' - Rounds(b)' \in Nat /\ total'[b] \in Nat
    BY <1>0, <1>1, <1>4, <2>2, ConstantsAssumption DEF Rounds, Allowance, ConstantsAssumption
  <2> DEFINE l == Allowance' - Rounds(b)'
  <2> HIDE DEF l
  <2>4. total'[b] * l >= total'[b] * 0
    BY <2>3, MoreRounds DEF l
  <2>5. QED
    BY <2>1, <2>3, <2>4 DEF Within, l
<1>7. QED
  BY <1>5, <1>6

-----------------------------------------------------------------------------
(* Batches that have no row, and the dispatch of the others.               *)

\* Only the worker counts, and only for a batch that has its row.
LEMMA UncreatedKept ==
  ASSUME Budgeted, [Next]_vars, NEW b \in Batches
  PROVE  Uncreated(b)'
<1> USE DEF Budgeted, Safe, TypeInv, TypeOK, LiveRow, Terminal, leases, db, worker, count
<1> SUFFICES ASSUME row'[b] = "NEW" PROVE processed'[b] = 0
  BY DEF Uncreated
<1>1. CASE WorkerStep
  <2>1. CASE CountProcessed
    <3>1. row' = row /\ processed' = [processed EXCEPT ![of] = @ + 1]
      BY <2>1 DEF CountProcessed, Goto
    <3>2. QED
      BY <3>1 DEF Uncreated, Created
  <2>2. CASE MarkActive \/ Complete \/ FailBatch
    <3>1. row'[b] = row[b] /\ processed' = processed
      BY <2>2 DEF MarkActive, Complete, FailBatch, SetRow
    <3>2. QED
      BY <3>1 DEF Uncreated
  <2>3. CASE Load \/ ListBusinesses \/ NextBusiness \/ Generate \/ StoreInsight \/ FreeBusiness
             \/ Ack \/ Nack
    <3>1. row' = row /\ processed' = processed
      BY <2>3 DEF Load, ListBusinesses, NextBusiness, Generate, StoreInsight, FreeBusiness, Ack, Nack
    <3>2. QED
      BY <3>1 DEF Uncreated
  <2>4. QED
    BY <1>1, <2>1, <2>2, <2>3 DEF WorkerStep
<1>2. CASE Outage \/ WorkerCrash \/ RedisLoss \/ ApiCrash \/ SchedulerCrash \/ UNCHANGED vars
           \/ (\E x \in Businesses : LeaseExpires(x) \/ InsightAges(x))
           \/ (\E t \in Ticks : FindCandidates(t))
  <2>1. row' = row /\ processed' = processed
    BY <1>2 DEF Outage, WorkerCrash, RedisLoss, ApiCrash, SchedulerCrash, vars, LeaseExpires,
       InsightAges, FindCandidates
  <2>2. QED
    BY <2>1 DEF Uncreated
<1>3. ASSUME NEW c \in Batches,
             \/ CreateBatch(c) \/ CancelBatch(c) \/ RetryJob(c) \/ CloseRecord(c) \/ ApiStep(c)
             \/ Pick(c)
      PROVE  processed'[b] = 0
  <2>1. row'[b] = row[b] /\ processed' = processed
    BY <1>3 DEF CreateBatch, CancelBatch, RetryJob, CloseRecord, ApiStep, EnqueueBatch, RecordBatch,
       CommitCancel, Pick, SetRow
  <2>2. QED
    BY <2>1 DEF Uncreated
<1>4. ASSUME NEW c \in Batches,
             FindDurable(c) \/ FindOrphan(c) \/ FindRecord(c) \/ TickStep(c)
      PROVE  processed'[b] = 0
  <2>1. row'[b] = row[b] /\ processed' = processed
    BY <1>4 DEF FindDurable, FindOrphan, FindRecord, TickStep, MarkRecovering, RebuildJob,
       UpsertRecord, DropOrphan, FixRecord, SetRow
  <2>2. QED
    BY <2>1 DEF Uncreated
<1>5. ASSUME NEW c \in Batches, NEW t \in Ticks, AutoStep(t, c) \/ EnqueueFails(t, c)
      PROVE  processed'[b] = 0
  <2>1. row'[b] = row[b] /\ processed' = processed
    BY <1>5 DEF AutoStep, LeaseCandidates, EnqueueLeased, UndoLeased, EnqueueFails, SetRow
  <2>2. QED
    BY <2>1 DEF Uncreated
<1>6. QED
  BY <1>1, <1>2, <1>3, <1>4, <1>5 DEF Next

\* A batch is dispatched by the tick that created it and by no other.
LEMMA DispatchKept ==
  ASSUME Budgeted, [Next]_vars, NEW b \in Batches
  PROVE  OneDispatch(b)'
<1> USE DEF Budgeted, Safe, TypeInv, TypeOK, Idle, leases, db, worker, count
<1>1. CASE auto' = auto
  BY <1>1 DEF OneDispatch
<1>2. ASSUME NEW c \in Batches, NEW t \in Ticks, LeaseCandidates(t, c)
      PROVE  OneDispatch(b)'
  <2>1. row[c] = "NEW" /\ auto' = [auto EXCEPT ![t] = <<"add", c>>]
    BY <1>2 DEF LeaseCandidates
  <2>2. \A u \in Ticks : auto[u] \notin {<<"add", c>>, <<"undo", c>>}
    BY <2>1 DEF Created
  <2>3. QED
    BY <2>1, <2>2 DEF OneDispatch
<1>3. ASSUME NEW c \in Batches, NEW t \in Ticks,
             EnqueueLeased(t, c) \/ UndoLeased(t, c) \/ EnqueueFails(t, c)
      PROVE  OneDispatch(b)'
  <2>1. /\ auto[t] \in {<<"add", c>>, <<"undo", c>>}
        /\ auto' = [auto EXCEPT ![t] = Idle] \/ auto' = [auto EXCEPT ![t] = <<"undo", c>>]
    BY <1>3 DEF EnqueueLeased, UndoLeased, EnqueueFails
  <2>2. auto \in [Ticks -> {Idle, <<"found", NoBatch>>} \union ({"add", "undo"} \X Batches)]
    OBVIOUS
  <2>3. ASSUME NEW u \in Ticks, auto'[u] \in {<<"add", b>>, <<"undo", b>>}
        PROVE  auto[u] \in {<<"add", b>>, <<"undo", b>>}
    <3>1. CASE u = t
      BY <2>1, <2>2, <2>3, <3>1
    <3>2. CASE u # t
      BY <2>1, <2>2, <2>3, <3>2
    <3>3. QED
      BY <3>1, <3>2
  <2>4. OneDispatch(b)
    OBVIOUS
  <2>5. QED
    BY <2>3, <2>4 DEF OneDispatch
<1>4. ASSUME NEW t \in Ticks, FindCandidates(t)
      PROVE  OneDispatch(b)'
  BY <1>4 DEF FindCandidates, OneDispatch
<1>5. CASE SchedulerCrash
  BY <1>5 DEF SchedulerCrash, OneDispatch
<1>6. CASE WorkerStep \/ Outage \/ WorkerCrash \/ RedisLoss \/ ApiCrash \/ UNCHANGED vars
           \/ (\E x \in Businesses : LeaseExpires(x) \/ InsightAges(x))
  <2>1. auto' = auto
    BY <1>6 DEF WorkerStep, Load, MarkActive, ListBusinesses, NextBusiness, Generate, StoreInsight,
       CountProcessed, FreeBusiness, Complete, FailBatch, Ack, Nack, Outage, WorkerCrash,
       RedisLoss, ApiCrash, vars, LeaseExpires, InsightAges
  <2>2. QED
    BY <1>1, <2>1
<1>7. ASSUME NEW c \in Batches,
             \/ CreateBatch(c) \/ CancelBatch(c) \/ RetryJob(c) \/ CloseRecord(c) \/ ApiStep(c)
             \/ Pick(c) \/ FindDurable(c) \/ FindOrphan(c) \/ FindRecord(c) \/ TickStep(c)
      PROVE  OneDispatch(b)'
  <2>1. auto' = auto
    BY <1>7 DEF CreateBatch, CancelBatch, RetryJob, CloseRecord, ApiStep, EnqueueBatch, RecordBatch,
       CommitCancel, Pick, FindDurable, FindOrphan, FindRecord, TickStep, MarkRecovering,
       RebuildJob, UpsertRecord, DropOrphan, FixRecord
  <2>2. QED
    BY <1>1, <2>1
<1>8. QED
  BY <1>2, <1>3, <1>4, <1>5, <1>6, <1>7 DEF Next, AutoStep

LEMMA RestKept ==
  ASSUME Budgeted, [Next]_vars
  PROVE  at' = "idle" => of' = NoBatch
<1>1. CASE UNCHANGED worker
  BY <1>1 DEF worker, Budgeted
<1>2. CASE WorkerStep \/ Outage \/ WorkerCrash
  BY <1>2 DEF WorkerStep, Load, MarkActive, ListBusinesses, NextBusiness, Generate, StoreInsight,
     CountProcessed, FreeBusiness, Complete, FailBatch, Ack, Nack, Outage, WorkerCrash, Goto, Leave
<1>3. ASSUME NEW c \in Batches, Pick(c) PROVE at' # "idle"
  BY <1>3 DEF Pick
<1>4. CASE RedisLoss \/ ApiCrash \/ SchedulerCrash \/ UNCHANGED vars
           \/ (\E x \in Businesses : LeaseExpires(x) \/ InsightAges(x))
           \/ (\E t \in Ticks : FindCandidates(t))
  BY <1>1, <1>4 DEF RedisLoss, ApiCrash, SchedulerCrash, vars, LeaseExpires, InsightAges,
     FindCandidates
<1>5. ASSUME NEW c \in Batches,
             \/ CreateBatch(c) \/ CancelBatch(c) \/ RetryJob(c) \/ CloseRecord(c) \/ ApiStep(c)
             \/ FindDurable(c) \/ FindOrphan(c) \/ FindRecord(c) \/ TickStep(c)
             \/ (\E t \in Ticks : AutoStep(t, c) \/ EnqueueFails(t, c))
      PROVE  UNCHANGED worker
  BY <1>5 DEF CreateBatch, CancelBatch, RetryJob, CloseRecord, ApiStep, EnqueueBatch, RecordBatch,
     CommitCancel, FindDurable, FindOrphan, FindRecord, TickStep, MarkRecovering, RebuildJob,
     UpsertRecord, DropOrphan, FixRecord, AutoStep, LeaseCandidates, EnqueueLeased, UndoLeased,
     EnqueueFails
<1>6. QED
  BY <1>1, <1>2, <1>3, <1>4, <1>5 DEF Next

-----------------------------------------------------------------------------
LEMMA WithinKept ==
  ASSUME Budgeted, Safe', [Next]_vars, NEW b \in Batches
  PROVE  Within(b)'
<1>0. Safe /\ Within(b) /\ requests \in Nat /\ faults \in Nat
  BY RoundsType DEF Budgeted, Safe
<1>1. ASSUME NEW c \in Batches,
             CreateBatch(c) \/ \E t \in Ticks : LeaseCandidates(t, c)
      PROVE  Within(b)'
  BY <1>1, CreationWithin
<1>2. CASE ListBusinesses
  BY <1>2, ListWithin
<1>3. CASE WorkerStep /\ ~ListBusinesses
  <2>1. at # "list"
    BY <1>3 DEF WorkerStep, Load, MarkActive, NextBusiness, Generate, StoreInsight, CountProcessed,
       FreeBusiness, Complete, FailBatch, Ack, Nack
  <2>2. Paid(b)
    BY <1>3, <2>1, DeliveryPaid
  <2>3. QED
    BY <1>0, <2>2, PaidWithin
<1>4. CASE Outage \/ WorkerCrash \/ RedisLoss \/ ApiCrash \/ SchedulerCrash
  BY <1>0, <1>4, BreakdownPaid, PaidWithin
<1>5. CASE UNCHANGED vars \/ (\E x \in Businesses : LeaseExpires(x) \/ InsightAges(x))
           \/ (\E t \in Ticks : FindCandidates(t))
  <2>1. /\ UNCHANGED <<row, total, processed, worker, tick, requests, faults>>
        /\ \A t \in Ticks : auto'[t] = <<"undo", b>> => auto[t] = <<"undo", b>>
    BY <1>5 DEF vars, db, count, LeaseExpires, InsightAges, FindCandidates, Budgeted, Safe, TypeInv,
       TypeOK
  <2>2. /\ tick' = <<"mark", b>> => Revival(b) = 1
        /\ (\E t \in Ticks : auto'[t] = <<"undo", b>>) => Undoing(b) = 1
    BY <2>1 DEF Revival, Undoing
  <2>3. requests' \in Nat /\ requests' >= requests /\ faults' \in Nat /\ faults' >= faults
    BY <1>0, <2>1
  <2>4. Paid(b)
    BY <1>0, <2>1, <2>2, <2>3, IdlePaid
  <2>5. QED
    BY <1>0, <2>4, PaidWithin
<1>6. ASSUME NEW c \in Batches,
             \/ CancelBatch(c) \/ RetryJob(c) \/ CloseRecord(c) \/ ApiStep(c) \/ Pick(c)
             \/ FindDurable(c) \/ FindOrphan(c) \/ FindRecord(c) \/ TickStep(c)
             \/ (\E t \in Ticks :
                    EnqueueLeased(t, c) \/ EnqueueFails(t, c) \/ UndoLeased(t, c))
      PROVE  Within(b)'
  BY <1>0, <1>6, OperatorPaid, PickPaid, ReconciliationPaid, DispatchPaid, PaidWithin
<1>7. QED
  BY <1>1, <1>2, <1>3, <1>4, <1>5, <1>6 DEF Next, AutoStep

LEMMA BudgetedInit == Init => Budgeted
<1> SUFFICES ASSUME Init PROVE Budgeted
  OBVIOUS
<1>1. \A b \in Batches : processed[b] = 0 /\ total[b] = 0 /\ row[b] = "NEW"
  BY DEF Init
<1>2. \A b \in Batches : Uncreated(b) /\ OneDispatch(b)
  BY <1>1 DEF Init, Uncreated, OneDispatch, Idle
<1>3. ASSUME NEW b \in Batches PROVE Within(b)
  <2>1. Uncounted(b) = 0
    BY DEF Init, Uncounted, Working
  <2>2. Allowance - Rounds(b) \in Int
    BY SafeInit, RoundsType DEF Safe, Rounds
  <2>3. 0 * (Allowance - Rounds(b)) = 0
    BY <2>2
  <2>4. QED
    BY <1>1, <2>1, <2>3 DEF Within
<1>4. QED
  BY <1>2, <1>3, SafeInit DEF Budgeted, Init

LEMMA BudgetedNext == Budgeted /\ [Next]_vars => Budgeted'
<1> SUFFICES ASSUME Budgeted, [Next]_vars PROVE Budgeted'
  OBVIOUS
<1>1. Safe'
  BY SafeNext DEF Budgeted
<1>2. QED
  BY <1>1, WithinKept, UncreatedKept, DispatchKept, RestKept DEF Budgeted

\* However often deliveries are interrupted and started over, processedCount is bounded: each
\* request of the operator costs one round at most and each fault two.
THEOREM CountIsBounded == Spec => []CountBounded
<1>1. Budgeted => CountBounded
  <2> SUFFICES ASSUME Budgeted, NEW b \in Batches
               PROVE  processed[b] <= total[b] * (1 + requests + 2 * faults)
    BY DEF CountBounded
  <2>1. total[b] \in Nat /\ processed[b] \in Nat /\ Uncounted(b) \in Nat
    BY ConstantsAssumption, UncountedType
       DEF Budgeted, Safe, TypeInv, TypeOK, ConstantsAssumption
  <2>2. /\ Allowance \in Int /\ Allowance - Rounds(b) \in Int
        /\ Allowance - Rounds(b) <= Allowance
    BY RoundsType DEF Budgeted, Safe, Rounds
  <2> DEFINE k == Allowance - Rounds(b)
  <2> HIDE DEF k
  <2>3. total[b] * k <= total[b] * Allowance
    BY <2>1, <2>2, MoreRounds DEF k
  <2>4. total[b] * k \in Int /\ total[b] * Allowance \in Int
    BY <2>1, <2>2 DEF k
  <2>5. processed[b] + Uncounted(b) <= total[b] * k
    BY DEF Budgeted, Within, k
  <2>6. processed[b] <= total[b] * Allowance
    BY <2>1, <2>3, <2>4, <2>5
  <2>7. QED
    BY <2>6 DEF Allowance
<1>2. QED
  BY <1>1, BudgetedInit, BudgetedNext, PTL DEF Spec

=============================================================================
