--------------------------- MODULE CellDiscovery ---------------------------
(***************************************************************************)
(* How the workers discover the businesses of ONE prospecting run: the     *)
(* geographic grid, the page loop of each cell, the discovery events, the  *)
(* resume point of each cell and its checkpoint                            *)
(* (apps/worker/src/main.ts, packages/database/src/index.ts).              *)
(*                                                                         *)
(* Every PostgreSQL statement or transaction is one action; what runs      *)
(* between two awaits of processRun is a label of pc.  BullMQ is a source  *)
(* of deliveries: it may hand the run's job to an idle worker at any time, *)
(* and a worker whose lock expired keeps going while another one starts    *)
(* (two Workers).  A worker may stop between any two steps.                *)
(*                                                                         *)
(* GridAlwaysBuilt, AllCells, NotFailed, FromPage1, TokenOnly, SameResult, *)
(* One and Always are faulty variants of the operator defined after them;  *)
(* no action uses them, and each breaks a property when it is put in.      *)
(***************************************************************************)
EXTENDS Naturals, FiniteSets, Sequences

CONSTANTS
  Workers,        \* processors that may hold the run's job at the same time
  Cells,          \* the cells of the grid, by their sequence number
  Businesses,     \* what the provider knows, by (provider, providerId)
  HasWebsite,     \* the businesses that come with a website
  Listing,        \* Listing[c]: the pages of results the provider has for c
  MaxPages,       \* GOOGLE_PLACES_MAX_PAGES_PER_CELL
  MaxBusinesses,  \* MAX_BUSINESSES_PER_RUN
  MaxDeliveries   \* bound on the deliveries of the run's job

ASSUME ConstantsAssumption ==
  /\ Cells \subseteq Nat /\ IsFiniteSet(Cells) /\ Cells # {}
  /\ IsFiniteSet(Businesses) /\ Businesses # {}
  /\ HasWebsite \subseteq Businesses
  /\ Listing \in [Cells -> Seq(SUBSET Businesses)]
  /\ \A c \in Cells : Len(Listing[c]) >= 1
  /\ MaxPages \in Nat \ {0} /\ MaxBusinesses \in Nat \ {0}
  /\ MaxDeliveries \in Nat

VARIABLES
  run,         \* ProspectingRun.status
  grid,        \* the search cells of the run have been created
  done,        \* ProspectingRun.gridCellsCompleted
  cell,        \* SearchCell: status, currentPage, nextPageToken, resultsFound
  ckpt,        \* ProcessingCheckpoint of the cell: status, page, processedItems
  events,      \* DiscoveryEvent rows of the run
  analyses,    \* the businesses with a durable website analysis intent
  deliveries,  \* how many times BullMQ has handed out the job
  pc,          \* where each worker is in processRun
  todo,        \* the cells it listed and has not reached, as it read them
  cur,         \* the cell it is in, with its own page and token
  left,        \* the results of the page it has not looked at yet
  item,        \* the result it is about to persist
  tally        \* the completed cells it counted for the final totals

durable == <<run, grid, done, cell, ckpt, events, analyses>>
local   == <<todo, cur, left, item, tally>>
vars    == <<durable, local, deliveries, pc>>

RunStatus  == {"QUEUED", "RUNNING", "RECOVERING", "COMPLETED", "FAILED", "CANCELLED"}
CellStatus == {"PENDING", "RUNNING", "COMPLETED", "FAILED"}
Labels     == {"idle", "load", "mark", "create", "list", "next", "claim", "page", "items",
               "persist", "analyse", "close", "complete", "cancel", "fail", "final", "commit"}
InCell     == {"page", "items", "persist", "close", "complete"}
OutOfCell  == {"create", "list", "next", "claim", "final", "commit"}
Position   == [cell : Cells, page : Nat, token : BOOLEAN]

TypeOK ==
  /\ run \in RunStatus /\ grid \in BOOLEAN /\ done \in Nat
  /\ cell \in [Cells -> [status : CellStatus, page : Nat, token : BOOLEAN, found : Nat]]
  /\ ckpt \in [Cells -> [status : CellStatus \union {"NONE"}, page : Nat, items : Nat]]
  /\ events \subseteq [business : Businesses, cell : Cells]
  /\ analyses \subseteq HasWebsite
  /\ deliveries \in 0..MaxDeliveries
  /\ pc \in [Workers -> Labels]
  /\ todo \in [Workers -> SUBSET Position]
  /\ cur \in [Workers -> Position]
  /\ left \in [Workers -> SUBSET Businesses]
  /\ item \in [Workers -> Businesses]
  /\ tally \in [Workers -> Nat]

Init ==
  /\ run = "QUEUED" /\ grid = FALSE /\ done = 0
  /\ cell = [c \in Cells |-> [status |-> "PENDING", page |-> 0, token |-> FALSE, found |-> 0]]
  /\ ckpt = [c \in Cells |-> [status |-> "NONE", page |-> 0, items |-> 0]]
  /\ events = {} /\ analyses = {} /\ deliveries = 0
  /\ pc = [s \in Workers |-> "idle"]
  /\ todo = [s \in Workers |-> {}]
  /\ cur = [s \in Workers |-> [cell |-> CHOOSE c \in Cells : TRUE, page |-> 0, token |-> FALSE]]
  /\ left = [s \in Workers |-> {}]
  /\ item = [s \in Workers |-> CHOOSE b \in Businesses : TRUE]
  /\ tally = [s \in Workers |-> 0]

-----------------------------------------------------------------------------
(* What the rows say.                                                      *)

Recorded  == {e.business : e \in events}
Completed == {c \in Cells : cell[c].status = "COMPLETED"}
HasMore(c, n)  == n < Len(Listing[c])                    \* the page after n exists
LastPage(c)    == IF HasMore(c, MaxPages) THEN MaxPages ELSE Len(Listing[c])
Backed(c, n)   == \A p \in 1..n : Listing[c][p] \subseteq Recorded
Covered(c)     == Backed(c, LastPage(c))
LimitReached   == Cardinality(events) >= MaxBusinesses

At(s, label)   == pc[s] = label
Goto(s, label) == pc' = [pc EXCEPT ![s] = label]
Mark(c, status) ==
  /\ cell' = [cell EXCEPT ![c].status = status]
  /\ ckpt' = [ckpt EXCEPT ![c].status = status]

-----------------------------------------------------------------------------
(* BullMQ and the operator.                                                *)

Deliver(s) ==
  /\ At(s, "idle") /\ deliveries < MaxDeliveries
  /\ deliveries' = deliveries + 1
  /\ Goto(s, "load")
  /\ UNCHANGED <<durable, local>>

Crash(s) ==
  /\ ~At(s, "idle")
  /\ Goto(s, "idle")
  /\ UNCHANGED <<durable, local, deliveries>>

CancelRun ==
  /\ run # "CANCELLED"
  /\ run' = "CANCELLED"
  /\ UNCHANGED <<grid, done, cell, ckpt, events, analyses, local, deliveries, pc>>

RetryRun ==
  /\ run # "RECOVERING"
  /\ run' = "RECOVERING"
  /\ UNCHANGED <<grid, done, cell, ckpt, events, analyses, local, deliveries, pc>>

-----------------------------------------------------------------------------
(* processRun up to the list of cells.                                     *)

LoadRun(s) ==
  /\ At(s, "load")
  /\ Goto(s, IF run \in {"COMPLETED", "CANCELLED"} THEN "idle" ELSE "mark")
  /\ UNCHANGED <<durable, local, deliveries>>

GridAlwaysBuilt == TRUE
GridMissing     == ~grid

\* The update and the count of the existing cells that follows it.
MarkRunning(s) ==
  /\ At(s, "mark")
  /\ run' = "RUNNING"
  /\ Goto(s, IF GridMissing THEN "create" ELSE "list")
  /\ UNCHANGED <<grid, done, cell, ckpt, events, analyses, local, deliveries>>

CreateGrid(s) ==
  /\ At(s, "create")
  /\ grid' = TRUE /\ done' = 0
  /\ Goto(s, "list")
  /\ UNCHANGED <<run, cell, ckpt, events, analyses, local, deliveries>>

AllCells    == Cells
NotFailed   == {c \in Cells : cell[c].status \in {"PENDING", "RUNNING"}}
Unfinished  == {c \in Cells : cell[c].status # "COMPLETED"}
FromPage1(c) == [cell |-> c, page |-> 0, token |-> FALSE]
Snapshot(c)  == [cell |-> c, page |-> cell[c].page, token |-> cell[c].token]

ListCells(s) ==
  /\ At(s, "list")
  /\ todo' = [todo EXCEPT ![s] = {Snapshot(c) : c \in Unfinished}]
  /\ Goto(s, "next")
  /\ UNCHANGED <<durable, cur, left, item, tally, deliveries>>

NextCell(s) ==
  /\ At(s, "next")
  /\ \/ /\ todo[s] = {} \/ LimitReached
        /\ Goto(s, "final")
        /\ UNCHANGED <<todo, cur>>
     \/ /\ ~LimitReached
        /\ \E t \in todo[s] :
             /\ \A u \in todo[s] : t.cell <= u.cell
             /\ cur' = [cur EXCEPT ![s] = t]
             /\ todo' = [todo EXCEPT ![s] = @ \ {t}]
        /\ Goto(s, "claim")
  /\ UNCHANGED <<durable, left, item, tally, deliveries>>

-----------------------------------------------------------------------------
(* processCell.                                                            *)

ClaimCell(s) ==
  LET c == cur[s].cell IN
  /\ At(s, "claim")
  /\ cell' = [cell EXCEPT ![c].status = "RUNNING"]
  /\ ckpt' = [ckpt EXCEPT ![c].status = "RUNNING",
                          ![c].page = IF ckpt[c].status = "NONE" THEN cur[s].page ELSE @]
  /\ Goto(s, "page")
  /\ UNCHANGED <<run, grid, done, events, analyses, local, deliveries>>

TokenOnly(s)      == cur[s].page < MaxPages /\ cur[s].token
PageLoopGoesOn(s) == cur[s].page < MaxPages /\ (cur[s].page = 0 \/ cur[s].token)

FetchPage(s) ==
  /\ At(s, "page") /\ PageLoopGoesOn(s)
  /\ \/ /\ run = "CANCELLED"
        /\ Goto(s, "cancel")
        /\ UNCHANGED left
     \/ /\ run # "CANCELLED"
        /\ left' = [left EXCEPT ![s] = Listing[cur[s].cell][cur[s].page + 1]]
        /\ Goto(s, "items")
  /\ UNCHANGED <<durable, todo, cur, item, tally, deliveries>>

LeavePageLoop(s) ==
  /\ At(s, "page") /\ ~PageLoopGoesOn(s)
  /\ Goto(s, "close")
  /\ UNCHANGED <<durable, local, deliveries>>

SameResult(s, b) == IF b \in Recorded THEN left[s] ELSE left[s] \ {b}
Rest(s, b)       == left[s] \ {b}

CheckItem(s) ==
  /\ At(s, "items")
  /\ \E b \in left[s] :
       /\ left' = [left EXCEPT ![s] = Rest(s, b)]
       /\ \/ /\ b \in Recorded
             /\ UNCHANGED <<item, pc>>
          \/ /\ b \notin Recorded
             /\ item' = [item EXCEPT ![s] = b]
             /\ Goto(s, "persist")
  /\ UNCHANGED <<durable, todo, cur, tally, deliveries>>

One(rows)      == 1
Count(rows)    == Cardinality(rows)
Always(s)      == TRUE
HasSite(s)     == item[s] \in HasWebsite

PersistItem(s) ==
  LET c == cur[s].cell
      rows == IF item[s] \in Recorded THEN {} ELSE {[business |-> item[s], cell |-> c]} IN
  /\ At(s, "persist")
  /\ events' = events \union rows
  /\ ckpt' = [ckpt EXCEPT ![c] = [status |-> "RUNNING", page |-> cur[s].page + 1,
                                  items |-> @.items + Count(rows)]]
  /\ Goto(s, IF HasSite(s) THEN "analyse" ELSE "items")
  /\ UNCHANGED <<run, grid, done, cell, analyses, local, deliveries>>

ScheduleAnalysis(s) ==
  /\ At(s, "analyse")
  /\ analyses' \in {analyses, analyses \union {item[s]}}   \* a failure is only logged
  /\ Goto(s, "items")
  /\ UNCHANGED <<run, grid, done, cell, ckpt, events, local, deliveries>>

PageRead(s) == left[s] = {}

FinishPage(s) ==
  LET c == cur[s].cell
      p == cur[s].page + 1 IN
  /\ At(s, "items") /\ PageRead(s)
  /\ cur' = [cur EXCEPT ![s].page = p, ![s].token = HasMore(c, p)]
  /\ cell' = [cell EXCEPT ![c].page = p, ![c].token = HasMore(c, p),
                          ![c].found = @ + Cardinality(Listing[c][p])]
  /\ ckpt' = [ckpt EXCEPT ![c].page = p, ![c].status = "RUNNING"]
  /\ Goto(s, "page")
  /\ UNCHANGED <<run, grid, done, events, analyses, todo, left, item, tally, deliveries>>

CloseCell(s) ==
  /\ At(s, "close")
  /\ Goto(s, IF run = "CANCELLED" THEN "cancel" ELSE "complete")
  /\ UNCHANGED <<durable, local, deliveries>>

CompleteCell(s) ==
  LET c == cur[s].cell IN
  /\ At(s, "complete")
  /\ cell' = [cell EXCEPT ![c].status = "COMPLETED", ![c].token = FALSE]
  /\ ckpt' = [ckpt EXCEPT ![c].status = "COMPLETED"]
  /\ done' = done + 1
  /\ Goto(s, "next")
  /\ UNCHANGED <<run, grid, events, analyses, local, deliveries>>

-----------------------------------------------------------------------------
(* How a delivery ends.                                                    *)

CancelCell(s) ==
  /\ At(s, "cancel")
  /\ Mark(cur[s].cell, "PENDING") \/ UNCHANGED <<cell, ckpt>>
  /\ Goto(s, "idle")
  /\ UNCHANGED <<run, grid, done, events, analyses, local, deliveries>>

\* The provider, its budget, the emergency stop or the database interrupt processCell; the
\* update of the catch clause may fail too.
FailCell(s) ==
  /\ pc[s] \in InCell
  /\ Mark(cur[s].cell, "FAILED") \/ UNCHANGED <<cell, ckpt>>
  /\ Goto(s, "fail")
  /\ UNCHANGED <<run, grid, done, events, analyses, local, deliveries>>

FailOutOfCell(s) ==
  /\ pc[s] \in OutOfCell
  /\ Goto(s, "fail")
  /\ UNCHANGED <<durable, local, deliveries>>

FailRun(s) ==
  /\ At(s, "fail")
  /\ run' = "FAILED"
  /\ Goto(s, "idle")
  /\ UNCHANGED <<grid, done, cell, ckpt, events, analyses, local, deliveries>>

FinalCheck(s) ==
  /\ At(s, "final")
  /\ tally' = [tally EXCEPT ![s] = Cardinality(Completed)]
  /\ Goto(s, IF run = "CANCELLED" THEN "idle" ELSE "commit")
  /\ UNCHANGED <<durable, todo, cur, left, item, deliveries>>

CommitRun(s) ==
  /\ At(s, "commit")
  /\ run' = "COMPLETED" /\ done' = tally[s]
  /\ Goto(s, "idle")
  /\ UNCHANGED <<grid, cell, ckpt, events, analyses, local, deliveries>>

-----------------------------------------------------------------------------
Work(s) ==
  \/ LoadRun(s) \/ MarkRunning(s) \/ CreateGrid(s) \/ ListCells(s) \/ NextCell(s)
  \/ ClaimCell(s) \/ FetchPage(s) \/ LeavePageLoop(s) \/ CheckItem(s) \/ PersistItem(s)
  \/ ScheduleAnalysis(s) \/ FinishPage(s) \/ CloseCell(s) \/ CompleteCell(s)
  \/ CancelCell(s) \/ FailRun(s) \/ FinalCheck(s) \/ CommitRun(s)

Disturb(s) == Deliver(s) \/ Crash(s) \/ FailCell(s) \/ FailOutOfCell(s)

Next == CancelRun \/ RetryRun \/ \E s \in Workers : Work(s) \/ Disturb(s)

Spec     == Init /\ [][Next]_vars
FairSpec == Spec /\ \A s \in Workers : WF_vars(Work(s))

-----------------------------------------------------------------------------
(* Properties.                                                             *)

\* The page a cell resumes from is never ahead of the data: every result of every page
\* before SearchCell.currentPage is a discovery event of the run, whichever workers
\* overlapped or died on the way there (main.ts, the page loop of processCell).
ResumePointBacked == \A c \in Cells : Backed(c, cell[c].page)

\* A cell marked COMPLETED has all its results recorded, up to the page limit, even if
\* it was completed from a position another worker had left behind.
CompletedCellCovered == \A c \in Completed : Covered(c)

\* processedItems counts exactly the events attributed to the cell, although the event
\* is inserted with skipDuplicates after a check made in an earlier statement.
ProcessedItemsExact ==
  \A c \in Cells : ckpt[c].items = Cardinality({e \in events : e.cell = c})

\* The run keeps the promise of DiscoveryPromise: one permanent attribution per business,
\* to a cell that lists it, and no COMPLETED status before everything wanted is recorded.
Promise     == INSTANCE DiscoveryPromise WITH found <- events, outcome <- run
PromiseKept == Promise!Spec

\* The number of results in the first n pages of each cell.
ResultsUpTo[n \in 0..MaxPages] ==
  [c \in Cells |-> IF n = 0 THEN 0 ELSE Cardinality(Listing[c][n]) + ResultsUpTo[n - 1][c]]

\* With one delivery at a time, resultsFound is the number of results of the pages the
\* cell has passed: a restart neither skips nor counts a page twice.
ResultsFoundExact == \A c \in Cells : cell[c].found = ResultsUpTo[cell[c].page][c]

\* With one delivery at a time, gridCellsCompleted, an increment per cell and a rewrite
\* at both ends of the run, is the number of COMPLETED cells at every moment.
GridDoneExact == done = Cardinality(Completed)

\* "Completed cells are not redone" (RECOVERY.md): no step takes a cell out of COMPLETED.
CompletedCellsNotRedone == [][Completed \subseteq Completed']_cell

\* A delivery always ends: no page loop, cell loop or failure path holds the job forever.
DeliveryEnds == \A s \in Workers : ~At(s, "idle") ~> At(s, "idle")

\* "Businesses with a website are sent to the Website Analyzer" (README.md): once the run
\* is COMPLETED each has a durable analysis intent.
SitesAnalysed == run = "COMPLETED" => Recorded \cap HasWebsite \subseteq analyses
=============================================================================
