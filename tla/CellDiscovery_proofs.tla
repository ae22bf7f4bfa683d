----------------------- MODULE CellDiscovery_proofs -----------------------
(***************************************************************************)
(* Proofs about CellDiscovery, for any number of workers, cells, pages and *)
(* businesses:                                                             *)
(*   - type correctness;                                                   *)
(*   - a cell never resumes ahead of its recorded results                  *)
(*     (ResumePointBacked);                                                *)
(*   - a completed cell is covered (CompletedCellCovered);                 *)
(*   - processedItems counts the events of the cell (ProcessedItemsExact); *)
(*   - the discovery implements DiscoveryPromise (PromiseKept);            *)
(*   - when one worker holds the job, gridCellsCompleted is exact, a       *)
(*     completed cell stays completed, and resultsFound is the number of   *)
(*     results of the pages passed;                                        *)
(*   - a delivery advances towards its end with each step (Rank).          *)
(***************************************************************************)
EXTENDS CellDiscovery, FiniteSetTheorems, TLAPS

-----------------------------------------------------------------------------
(* Type correctness.                                                       *)

Reading == {"items", "persist", "analyse"}

\* The page after n exists whenever the position says so: at the start of a cell (every
\* cell has a page) and after a page that came with a token.
InRange(c, n, token) == n <= Len(Listing[c]) /\ (token => HasMore(c, n))

\* TypeOK alone is not inductive: resultsFound is a number because only pages that exist
\* are read, and the intents are of businesses with a website because ScheduleAnalysis is
\* only reached for those.
PagesExist ==
  /\ \A c \in Cells : InRange(c, cell[c].page, cell[c].token)
  /\ \A s \in Workers :
       /\ InRange(cur[s].cell, cur[s].page, cur[s].token)
       /\ \A t \in todo[s] : InRange(t.cell, t.page, t.token)
       /\ pc[s] \in Reading => HasMore(cur[s].cell, cur[s].page)
SiteKept == \A s \in Workers : pc[s] = "analyse" => item[s] \in HasWebsite
TypeInv  == TypeOK /\ PagesExist /\ SiteKept

CellRow  == [status : CellStatus, page : Nat, token : BOOLEAN, found : Nat]
CellRows == [Cells -> CellRow]
CkptRows == [Cells -> [status : CellStatus \union {"NONE"}, page : Nat, items : Nat]]

\* The page after n is a finite set of businesses, so its size is a number.
LEMMA NextPage ==
  ASSUME NEW c \in Cells, NEW n \in Nat, HasMore(c, n)
  PROVE  /\ n + 1 \in 1..Len(Listing[c])
         /\ Listing[c][n + 1] \in SUBSET Businesses
         /\ Cardinality(Listing[c][n + 1]) \in Nat
<1>1. Listing[c] \in Seq(SUBSET Businesses)
  BY ConstantsAssumption DEF ConstantsAssumption
<1>2. n + 1 \in 1..Len(Listing[c])
  BY <1>1 DEF HasMore
<1>3. Listing[c][n + 1] \in SUBSET Businesses
  BY <1>1, <1>2
<1>4. IsFiniteSet(Listing[c][n + 1])
  BY <1>3, ConstantsAssumption, FS_Subset DEF ConstantsAssumption
<1> QED BY <1>2, <1>3, <1>4, FS_CardinalityType

\* The number of completed cells, which FinalCheck takes for the totals, is a number.
LEMMA CompletedSize == Cardinality(Completed) \in Nat
<1>1. Completed \subseteq Cells
  BY DEF Completed
<1> QED BY <1>1, ConstantsAssumption, FS_Subset, FS_CardinalityType DEF ConstantsAssumption

\* A run that has just been queued has no positions, no results and no intents.
LEMMA TypeInit == Init => TypeInv
<1> SUFFICES ASSUME Init PROVE TypeInv
  OBVIOUS
<1>1. (CHOOSE c \in Cells : TRUE) \in Cells /\ (CHOOSE b \in Businesses : TRUE) \in Businesses
  BY ConstantsAssumption DEF ConstantsAssumption
<1> DEFINE c0 == CHOOSE c \in Cells : TRUE
           b0 == CHOOSE b \in Businesses : TRUE
<1> HIDE DEF c0, b0
<1>2. TypeOK
  <2>1. c0 \in Cells /\ b0 \in Businesses
    BY <1>1 DEF c0, b0
  <2>2. cur = [s \in Workers |-> [cell |-> c0, page |-> 0, token |-> FALSE]]
        /\ item = [s \in Workers |-> b0]
    BY DEF Init, c0, b0
  <2>3. cur \in [Workers -> Position] /\ item \in [Workers -> Businesses]
    BY <2>1, <2>2 DEF Position
  <2>4. cell \in [Cells -> [status : CellStatus, page : Nat, token : BOOLEAN, found : Nat]]
    BY DEF Init, CellStatus
  <2>5. ckpt \in [Cells -> [status : CellStatus \union {"NONE"}, page : Nat, items : Nat]]
    BY DEF Init, CellStatus
  <2>6. /\ pc \in [Workers -> Labels] /\ todo \in [Workers -> SUBSET Position]
        /\ left \in [Workers -> SUBSET Businesses] /\ tally \in [Workers -> Nat]
    BY DEF Init, Labels
  <2>7. /\ run \in RunStatus /\ grid \in BOOLEAN /\ done \in Nat /\ deliveries \in 0..MaxDeliveries
        /\ events \subseteq [business : Businesses, cell : Cells] /\ analyses \subseteq HasWebsite
    <3>1. MaxDeliveries \in Nat
      BY ConstantsAssumption DEF ConstantsAssumption
    <3>2. /\ deliveries = 0 /\ done = 0 /\ grid = FALSE
          /\ run = "QUEUED" /\ events = {} /\ analyses = {}
      BY DEF Init
    <3>3. deliveries \in 0..MaxDeliveries /\ done \in Nat
      BY <3>1, <3>2
    <3>4. run \in RunStatus /\ grid \in BOOLEAN
      BY <3>2 DEF RunStatus
    <3>5. events \subseteq [business : Businesses, cell : Cells] /\ analyses \subseteq HasWebsite
      BY <3>2
    <3> QED BY <3>3, <3>4, <3>5
  <2> QED BY <2>3, <2>4, <2>5, <2>6, <2>7 DEF TypeOK
<1>3. \A c \in Cells : InRange(c, 0, FALSE)
  <2>1. \A c \in Cells : Len(Listing[c]) >= 1 /\ Len(Listing[c]) \in Nat
    BY ConstantsAssumption DEF ConstantsAssumption
  <2> QED BY <2>1 DEF InRange
<1>4. PagesExist
  BY <1>1, <1>3 DEF Init, PagesExist, Reading
<1> QED BY <1>2, <1>4 DEF TypeInv, SiteKept, Init

\* Marking a cell changes its two statuses and nothing else.
Marked ==
  /\ cell' \in CellRows
  /\ ckpt' \in CkptRows
  /\ \A c \in Cells : cell'[c].page = cell[c].page /\ cell'[c].token = cell[c].token

\* CancelCell and FailCell mark the cell of the worker or, if the update fails, do nothing.
LEMMA MarkCell ==
  ASSUME TypeOK, NEW s \in Workers, NEW status \in CellStatus,
         Mark(cur[s].cell, status) \/ UNCHANGED <<cell, ckpt>>
  PROVE  Marked
<1>1. cur[s].cell \in Cells
  BY DEF TypeOK, Position
<1>2. CASE Mark(cur[s].cell, status)
  BY <1>1, <1>2 DEF TypeOK, Mark, Marked, CellRow, CellRows, CkptRows
<1>3. CASE UNCHANGED <<cell, ckpt>>
  BY <1>3 DEF TypeOK, Marked, CellRow, CellRows, CkptRows
<1> QED BY <1>2, <1>3

\* Every step keeps the types: only the steps of the page loop need more than TypeOK.
LEMMA TypeStep == TypeInv /\ [Next]_vars => TypeInv'
<1> SUFFICES ASSUME TypeInv, [Next]_vars PROVE TypeInv'
  OBVIOUS
<1> USE DEF TypeInv
<1>1. CASE UNCHANGED vars
  BY <1>1 DEF vars, durable, local, TypeOK, PagesExist, SiteKept, InRange, HasMore
<1>2. CASE CancelRun \/ RetryRun
  BY <1>2 DEF CancelRun, RetryRun, local, RunStatus, TypeOK, PagesExist, SiteKept, InRange, HasMore
<1>3. ASSUME NEW s \in Workers, Work(s) \/ Disturb(s) PROVE TypeInv'
  <2> DEFINE c == cur[s].cell
             p == cur[s].page + 1
  <2>a. cell \in CellRows /\ ckpt \in CkptRows /\ pc \in [Workers -> Labels]
    BY DEF TypeOK, CellRow, CellRows, CkptRows
  <2>b. c \in Cells /\ cur[s].page \in Nat /\ cur[s].token \in BOOLEAN /\ p \in Nat
    BY DEF TypeOK, Position
  <2>c. Len(Listing[c]) \in Nat /\ Len(Listing[c]) >= 1
    <3>1. Listing[c] \in Seq(SUBSET Businesses)
      BY <2>b, ConstantsAssumption DEF ConstantsAssumption
    <3>2. Len(Listing[c]) >= 1
      BY <2>b, ConstantsAssumption DEF ConstantsAssumption
    <3> QED BY <3>1, <3>2
  <2> HIDE DEF c, p
  <2>1. CASE LoadRun(s)
    BY <2>1
    DEF LoadRun, durable, local, At, Goto, RunStatus, Labels, Position,
        TypeOK, PagesExist, SiteKept, InRange, HasMore, Reading
  <2>2. CASE MarkRunning(s)
    BY <2>2
    DEF MarkRunning, durable, local, At, Goto, RunStatus, Labels, Position, GridMissing,
        TypeOK, PagesExist, SiteKept, InRange, HasMore, Reading
  <2>3. CASE CreateGrid(s)
    BY <2>3
    DEF CreateGrid, durable, local, At, Goto, RunStatus, Labels, Position,
        TypeOK, PagesExist, SiteKept, InRange, HasMore, Reading
  <2>4. CASE ListCells(s)
    BY <2>4
    DEF ListCells, durable, local, At, Goto, RunStatus, Labels, Position, Snapshot, Unfinished,
        TypeOK, PagesExist, SiteKept, InRange, HasMore, Reading
  <2>5. CASE NextCell(s)
    <3>1. cur' \in [Workers -> Position] /\ todo' \in [Workers -> SUBSET Position]
      BY <2>5 DEF NextCell, TypeOK
    <3>2. /\ pc' \in [Workers -> Labels] /\ pc'[s] \in {"final", "claim"}
          /\ \A w \in Workers \ {s} : pc'[w] = pc[w]
      BY <2>5, <2>a DEF NextCell, Goto, Labels
    <3>3. /\ todo'[s] \subseteq todo[s] /\ (cur'[s] = cur[s] \/ cur'[s] \in todo[s])
          /\ \A w \in Workers \ {s} : cur'[w] = cur[w] /\ todo'[w] = todo[w]
      BY <2>5 DEF NextCell, TypeOK
    <3>4. TypeOK'
      BY <2>5, <3>1, <3>2 DEF NextCell, durable, TypeOK
    <3>5. PagesExist'
      BY <2>5, <3>2, <3>3 DEF NextCell, durable, PagesExist, Reading, InRange, HasMore
    <3> QED BY <2>5, <3>2, <3>4, <3>5 DEF NextCell, SiteKept
  <2>6. CASE ClaimCell(s)
    <3>1. /\ cell' \in CellRows
          /\ \A d \in Cells : cell'[d].page = cell[d].page /\ cell'[d].token = cell[d].token
      BY <2>6, <2>a, <2>b DEF ClaimCell, CellRow, CellRows, CellStatus, c
    <3>2. ckpt' \in CkptRows
      BY <2>6, <2>a, <2>b DEF ClaimCell, CkptRows, CellStatus, c
    <3>3. /\ pc' \in [Workers -> Labels] /\ pc'[s] = "page"
          /\ \A w \in Workers \ {s} : pc'[w] = pc[w]
      BY <2>6, <2>a DEF ClaimCell, Goto, Labels
    <3>4. TypeOK'
      BY <2>6, <3>1, <3>2, <3>3 DEF ClaimCell, local, TypeOK, CellRow, CellRows, CkptRows
    <3>5. PagesExist'
      BY <2>6, <3>1, <3>3 DEF ClaimCell, local, PagesExist, Reading, InRange, HasMore
    <3> QED BY <2>6, <3>3, <3>4, <3>5 DEF ClaimCell, local, SiteKept
  <2>7. CASE FetchPage(s)
    <3>1. HasMore(c, cur[s].page)
      BY <2>7, <2>b, <2>c DEF FetchPage, PageLoopGoesOn, HasMore, PagesExist, InRange, c
    <3>2. left' \in [Workers -> SUBSET Businesses]
      <4>1. Listing[c][cur[s].page + 1] \in SUBSET Businesses
        BY <2>b, <3>1, NextPage
      <4> QED BY <2>7, <4>1 DEF FetchPage, TypeOK, c
    <3>3. /\ pc' \in [Workers -> Labels] /\ pc'[s] \in {"cancel", "items"}
          /\ \A w \in Workers \ {s} : pc'[w] = pc[w]
      BY <2>7, <2>a DEF FetchPage, Goto, Labels
    <3>4. TypeOK'
      BY <2>7, <3>2, <3>3 DEF FetchPage, durable, TypeOK
    <3>5. PagesExist'
      BY <2>7, <3>1, <3>3 DEF FetchPage, durable, PagesExist, Reading, InRange, HasMore, c
    <3> QED BY <2>7, <3>3, <3>4, <3>5 DEF FetchPage, SiteKept
  <2>8. CASE LeavePageLoop(s)
    BY <2>8
    DEF LeavePageLoop, durable, local, At, Goto, RunStatus, Labels, Position,
        TypeOK, PagesExist, SiteKept, InRange, HasMore, Reading
  <2>9. CASE CheckItem(s)
    <3>1. left' \in [Workers -> SUBSET Businesses] /\ item' \in [Workers -> Businesses]
      BY <2>9 DEF CheckItem, Rest, TypeOK
    <3>2. /\ pc' \in [Workers -> Labels] /\ pc[s] = "items" /\ pc'[s] \in {"items", "persist"}
          /\ \A w \in Workers \ {s} : pc'[w] = pc[w]
      BY <2>9, <2>a DEF CheckItem, At, Goto, Labels
    <3>3. \A w \in Workers \ {s} : item'[w] = item[w]
      BY <2>9 DEF CheckItem, TypeOK
    <3>4. TypeOK'
      BY <2>9, <3>1, <3>2 DEF CheckItem, durable, TypeOK
    <3>5. PagesExist'
      BY <2>9, <3>2 DEF CheckItem, durable, PagesExist, Reading, InRange, HasMore
    <3> QED BY <3>2, <3>3, <3>4, <3>5 DEF SiteKept
  <2>10. CASE PersistItem(s)
    <3> DEFINE row  == [business |-> item[s], cell |-> c]
               rows == IF item[s] \in Recorded THEN {} ELSE {row}
    <3>1. row \in [business : Businesses, cell : Cells]
      BY <2>b DEF TypeOK
    <3>2. Cardinality(rows) \in Nat
      <4>1. Cardinality({}) = 0 /\ Cardinality({row}) = 1
        BY FS_EmptySet, FS_Singleton
      <4> QED BY <4>1
    <3>3. events' = events \union rows
          /\ ckpt' = [ckpt EXCEPT ![c] = [status |-> "RUNNING", page |-> p,
                                          items |-> @.items + Cardinality(rows)]]
      BY <2>10 DEF PersistItem, Count, c, p
    <3> HIDE DEF rows
    <3>4. ckpt' \in CkptRows
      BY <3>2, <3>3, <2>a, <2>b DEF CkptRows, CellStatus
    <3>5. events' \subseteq [business : Businesses, cell : Cells]
      BY <3>1, <3>3 DEF TypeOK, rows
    <3>6. /\ pc' \in [Workers -> Labels] /\ pc[s] = "persist"
          /\ pc'[s] = (IF HasSite(s) THEN "analyse" ELSE "items")
          /\ \A w \in Workers \ {s} : pc'[w] = pc[w]
      BY <2>10, <2>a DEF PersistItem, At, Goto, Labels
    <3>7. TypeOK'
      BY <2>10, <3>4, <3>5, <3>6 DEF PersistItem, local, TypeOK, CkptRows
    <3>8. PagesExist'
      BY <2>10, <3>6 DEF PersistItem, local, PagesExist, Reading, InRange, HasMore
    <3> QED BY <2>10, <3>6, <3>7, <3>8 DEF PersistItem, local, HasSite, SiteKept
  <2>11. CASE ScheduleAnalysis(s)
    BY <2>11
    DEF ScheduleAnalysis, durable, local, At, Goto, RunStatus, Labels, Position,
        TypeOK, PagesExist, SiteKept, InRange, HasMore, Reading
  <2>12. CASE FinishPage(s)
    <3>1. HasMore(c, cur[s].page)
      BY <2>12 DEF FinishPage, At, PagesExist, Reading, c
    <3>2. p <= Len(Listing[c]) /\ Cardinality(Listing[c][p]) \in Nat
      <4>1. p \in 1..Len(Listing[c]) /\ Cardinality(Listing[c][p]) \in Nat
        BY <2>b, <3>1, NextPage DEF p
      <4> QED BY <4>1, <2>c
    <3>3. HasMore(c, p) \in BOOLEAN
      BY DEF HasMore
    <3>4. /\ cell' \in CellRows
          /\ cell'[c].page = p /\ cell'[c].token = HasMore(c, p)
          /\ \A d \in Cells \ {c} : cell'[d] = cell[d]
      <4>1. cell' = [cell EXCEPT ![c].page = p, ![c].token = HasMore(c, p),
                                 ![c].found = @ + Cardinality(Listing[c][p])]
        BY <2>12 DEF FinishPage, c, p
      <4>2. PICK r \in CellRow : r = cell[c]
        BY <2>a, <2>b DEF CellRows
      <4>3. PICK f \in Nat : f = r.found + Cardinality(Listing[c][p])
        BY <3>2 DEF CellRow
      <4>4. PICK more \in BOOLEAN : more = HasMore(c, p)
        BY <3>3
      <4>5. cell' = [cell EXCEPT ![c] = [r EXCEPT !.page = p, !.token = more, !.found = f]]
        BY <4>1, <4>2, <4>3, <4>4, <2>a, <2>b DEF CellRows
      <4>6. [r EXCEPT !.page = p, !.token = more, !.found = f] \in CellRow
        BY <2>b DEF CellRow
      <4>7. PICK q \in CellRow :
              /\ q = [r EXCEPT !.page = p, !.token = more, !.found = f]
              /\ q.page = p /\ q.token = more
        BY <2>b, <4>6 DEF CellRow
      <4> QED BY <4>4, <4>5, <4>7, <2>a, <2>b DEF CellRows
    <3>5. ckpt' \in CkptRows
      <4>1. ckpt' = [ckpt EXCEPT ![c].page = p, ![c].status = "RUNNING"]
        BY <2>12 DEF FinishPage, c, p
      <4> QED BY <4>1, <2>a, <2>b DEF CkptRows, CellStatus
    <3>6. /\ cur' \in [Workers -> Position]
          /\ cur'[s].cell = c /\ cur'[s].page = p /\ cur'[s].token = HasMore(c, p)
          /\ \A w \in Workers \ {s} : cur'[w] = cur[w]
      <4>1. cur' = [cur EXCEPT ![s].page = p, ![s].token = HasMore(c, p)]
        BY <2>12 DEF FinishPage, c, p
      <4>2. PICK more \in BOOLEAN : more = HasMore(c, p)
        BY <3>3
      <4>3. cur \in [Workers -> Position]
        BY DEF TypeOK
      <4>4. PICK r \in Position : r = cur[s]
        BY <4>3
      <4>5. [r EXCEPT !.page = p, !.token = more] \in Position
        BY <2>b DEF Position
      <4>6. PICK q \in Position :
              /\ q = [r EXCEPT !.page = p, !.token = more]
              /\ q.cell = r.cell /\ q.page = p /\ q.token = more
        BY <2>b, <4>5 DEF Position
      <4>7. cur' = [cur EXCEPT ![s] = q] /\ r.cell = c
        BY <4>1, <4>2, <4>3, <4>4, <4>6 DEF c
      <4> QED BY <4>2, <4>3, <4>6, <4>7
    <3>7. /\ pc' \in [Workers -> Labels] /\ pc'[s] = "page"
          /\ \A w \in Workers \ {s} : pc'[w] = pc[w]
      BY <2>12, <2>a DEF FinishPage, Goto, Labels
    <3>8. TypeOK'
      BY <2>12, <3>4, <3>5, <3>6, <3>7 DEF FinishPage, TypeOK, CellRow, CellRows, CkptRows
    <3>9. InRange(c, p, HasMore(c, p))
      BY <3>2 DEF InRange
    <3>10. PagesExist'
      <4>1. \A d \in Cells : InRange(d, cell'[d].page, cell'[d].token)
        BY <2>b, <3>4, <3>9 DEF PagesExist
      <4>2. \A w \in Workers : InRange(cur'[w].cell, cur'[w].page, cur'[w].token)
        BY <3>6, <3>9 DEF PagesExist
      <4>3. \A w \in Workers : pc'[w] \in Reading => HasMore(cur'[w].cell, cur'[w].page)
        BY <3>6, <3>7 DEF PagesExist, Reading
      <4> QED BY <2>12, <4>1, <4>2, <4>3 DEF FinishPage, PagesExist, InRange, HasMore
    <3> QED BY <2>12, <3>7, <3>8, <3>10 DEF FinishPage, SiteKept
  <2>13. CASE CloseCell(s)
    BY <2>13
    DEF CloseCell, durable, local, At, Goto, RunStatus, Labels, Position,
        TypeOK, PagesExist, SiteKept, InRange, HasMore, Reading
  <2>14. CASE CompleteCell(s)
    <3>1. /\ cell' \in CellRows
          /\ \A d \in Cells : cell'[d].page = cell[d].page /\ (cell'[d].token => cell[d].token)
      BY <2>14, <2>a, <2>b DEF CompleteCell, CellRow, CellRows, CellStatus, c
    <3>2. ckpt' \in CkptRows
      BY <2>14, <2>a, <2>b DEF CompleteCell, CkptRows, CellStatus, c
    <3>3. /\ pc' \in [Workers -> Labels] /\ pc'[s] = "next"
          /\ \A w \in Workers \ {s} : pc'[w] = pc[w]
      BY <2>14, <2>a DEF CompleteCell, Goto, Labels
    <3>4. TypeOK'
      BY <2>14, <3>1, <3>2, <3>3 DEF CompleteCell, local, TypeOK, CellRow, CellRows, CkptRows
    <3>5. PagesExist'
      BY <2>14, <3>1, <3>3 DEF CompleteCell, local, PagesExist, Reading, InRange, HasMore
    <3> QED BY <2>14, <3>3, <3>4, <3>5 DEF CompleteCell, local, SiteKept
  <2>15. CASE CancelCell(s)
    <3>1. /\ pc' \in [Workers -> Labels] /\ pc'[s] = "idle"
          /\ \A w \in Workers \ {s} : pc'[w] = pc[w]
      BY <2>15, <2>a DEF CancelCell, Goto, Labels
    <3>2. Marked
      BY <2>15, MarkCell DEF CancelCell, CellStatus
    <3>3. TypeOK'
      BY <2>15, <3>1, <3>2 DEF CancelCell, local, TypeOK, Marked, CellRow, CellRows, CkptRows
    <3>4. PagesExist'
      BY <2>15, <3>1, <3>2 DEF CancelCell, local, PagesExist, Reading, InRange, HasMore, Marked
    <3> QED BY <2>15, <3>1, <3>3, <3>4 DEF CancelCell, local, SiteKept
  <2>16. CASE FailRun(s)
    BY <2>16
    DEF FailRun, durable, local, At, Goto, RunStatus, Labels, Position,
        TypeOK, PagesExist, SiteKept, InRange, HasMore, Reading
  <2>17. CASE FinalCheck(s)
    BY <2>17, CompletedSize
    DEF FinalCheck, durable, local, At, Goto, RunStatus, Labels, Position,
        TypeOK, PagesExist, SiteKept, InRange, HasMore, Reading
  <2>18. CASE CommitRun(s)
    BY <2>18
    DEF CommitRun, durable, local, At, Goto, RunStatus, Labels, Position,
        TypeOK, PagesExist, SiteKept, InRange, HasMore, Reading
  <2>19. CASE Deliver(s)
    BY <2>19, ConstantsAssumption
    DEF Deliver, durable, local, At, Goto, RunStatus, Labels, Position,
        TypeOK, PagesExist, SiteKept, InRange, HasMore, Reading, ConstantsAssumption
  <2>20. CASE Crash(s)
    BY <2>20
    DEF Crash, durable, local, At, Goto, RunStatus, Labels, Position,
        TypeOK, PagesExist, SiteKept, InRange, HasMore, Reading
  <2>21. CASE FailCell(s)
    <3>1. /\ pc' \in [Workers -> Labels] /\ pc'[s] = "fail"
          /\ \A w \in Workers \ {s} : pc'[w] = pc[w]
      BY <2>21, <2>a DEF FailCell, Goto, Labels
    <3>2. Marked
      BY <2>21, MarkCell DEF FailCell, CellStatus
    <3>3. TypeOK'
      BY <2>21, <3>1, <3>2 DEF FailCell, local, TypeOK, Marked, CellRow, CellRows, CkptRows
    <3>4. PagesExist'
      BY <2>21, <3>1, <3>2 DEF FailCell, local, PagesExist, Reading, InRange, HasMore, Marked
    <3> QED BY <2>21, <3>1, <3>3, <3>4 DEF FailCell, local, SiteKept
  <2>22. CASE FailOutOfCell(s)
    BY <2>22
    DEF FailOutOfCell, durable, local, At, Goto, RunStatus, Labels, Position, OutOfCell,
        TypeOK, PagesExist, SiteKept, InRange, HasMore, Reading
  <2> QED BY <1>3, <2>1, <2>2, <2>3, <2>4, <2>5, <2>6, <2>7, <2>8, <2>9, <2>10,
            <2>11, <2>12, <2>13, <2>14, <2>15, <2>16, <2>17, <2>18, <2>19, <2>20, <2>21, <2>22
         DEF Work, Disturb
<1> QED BY <1>1, <1>2, <1>3 DEF Next

-----------------------------------------------------------------------------
(* The resume points.                                                      *)

\* A position is sound when the pages before it are recorded and, once the provider gave
\* no further token, everything the cell has to read is.
Sound(c, n, token) == Backed(c, n) /\ (n > 0 /\ ~token => Covered(c))

RowsCovered ==
  \A c \in Cells : /\ Sound(c, cell[c].page, cell[c].token)
                   /\ cell[c].status = "COMPLETED" => Covered(c)

\* What is still owed of the page a worker is reading is in its own hands, and it closes a
\* cell only when nothing is owed.
InHand(s)     == left[s] \union (IF pc[s] = "persist" THEN {item[s]} ELSE {})
PageOwed(s)   == pc[s] \in Reading =>
                   Listing[cur[s].cell][cur[s].page + 1] \subseteq Recorded \union InHand(s)
ClosesWell(s) == pc[s] \in {"close", "complete"} => Covered(cur[s].cell)

PositionsCovered(s) ==
  /\ Sound(cur[s].cell, cur[s].page, cur[s].token)
  /\ \A t \in todo[s] : Sound(t.cell, t.page, t.token)

WorkerCovered(s) == PositionsCovered(s) /\ PageOwed(s) /\ ClosesWell(s)

CoverInv == RowsCovered /\ \A s \in Workers : WorkerCovered(s)

IInv == TypeInv /\ CoverInv

\* The page limit and the last page that exists both bound what has to be read.
LEMMA LastPageBounds ==
  ASSUME NEW c \in Cells
  PROVE  /\ Len(Listing[c]) \in Nat /\ LastPage(c) \in Nat
         /\ LastPage(c) <= Len(Listing[c]) /\ LastPage(c) <= MaxPages
<1>1. Listing[c] \in Seq(SUBSET Businesses)
  BY ConstantsAssumption DEF ConstantsAssumption
<1>2. MaxPages \in Nat
  BY ConstantsAssumption DEF ConstantsAssumption
<1> QED BY <1>1, <1>2 DEF LastPage, HasMore

\* Being past the limit, or past the last page, is being covered.
LEMMA BackedCovers ==
  ASSUME NEW c \in Cells, NEW n \in Nat, Backed(c, n),
         n >= MaxPages \/ ~HasMore(c, n)
  PROVE  Covered(c)
<1>1. MaxPages \in Nat
  BY ConstantsAssumption DEF ConstantsAssumption
<1>2. LastPage(c) <= n
  BY <1>1, LastPageBounds DEF HasMore
<1> QED BY <1>2, LastPageBounds DEF Covered, Backed

\* Only PersistItem touches the events, and it adds to them.
LEMMA RecordedGrows == [Next]_vars => Recorded \subseteq Recorded'
<1> SUFFICES ASSUME [Next]_vars PROVE events \subseteq events'
  BY DEF Recorded
<1>1. CASE UNCHANGED vars
  BY <1>1 DEF vars, durable
<1>2. CASE CancelRun \/ RetryRun
  BY <1>2 DEF CancelRun, RetryRun
<1>3. ASSUME NEW s \in Workers, Work(s) \/ Disturb(s) PROVE events \subseteq events'
  BY <1>3 DEF Work, Disturb, durable, LoadRun, MarkRunning, CreateGrid, ListCells, NextCell,
    ClaimCell, FetchPage, LeavePageLoop, CheckItem, PersistItem, ScheduleAnalysis, FinishPage,
    CloseCell, CompleteCell, CancelCell, FailRun, FinalCheck, CommitRun, Deliver, Crash,
    FailCell, FailOutOfCell
<1> QED BY <1>1, <1>2, <1>3 DEF Next

\* What is recorded stays recorded, so what was backed, covered or sound stays so.
LEMMA SoundKept ==
  ASSUME Recorded \subseteq Recorded'
  PROVE  \A c \in Cells, n \in Nat, token \in BOOLEAN :
           /\ Backed(c, n) => Backed(c, n)'
           /\ Covered(c) => Covered(c)'
           /\ Sound(c, n, token) => Sound(c, n, token)'
<1>1. \A c \in Cells, n \in Nat : Backed(c, n) => Backed(c, n)'
  BY DEF Backed
<1>2. \A c \in Cells : Covered(c) => Covered(c)'
  BY DEF Covered, Backed
<1> QED BY <1>1, <1>2 DEF Sound

\* A step that moves no cell to another page and completes none keeps every row covered.
LEMMA RowsKept ==
  ASSUME TypeOK, RowsCovered, Recorded \subseteq Recorded',
         \A c \in Cells : /\ cell'[c].page = cell[c].page
                          /\ cell'[c].token = cell[c].token
                          /\ cell'[c].status = "COMPLETED" => cell[c].status = "COMPLETED"
  PROVE  RowsCovered'
<1> SUFFICES ASSUME NEW c \in Cells
             PROVE  (/\ Sound(c, cell[c].page, cell[c].token)
                     /\ cell[c].status = "COMPLETED" => Covered(c))'
  BY DEF RowsCovered
<1>1. cell[c].page \in Nat /\ cell[c].token \in BOOLEAN
  BY DEF TypeOK
<1>2. Sound(c, cell[c].page, cell[c].token) /\ (cell[c].status = "COMPLETED" => Covered(c))
  BY DEF RowsCovered
<1> QED BY <1>1, <1>2, SoundKept

\* What TypeOK says of the position of a worker and of those it has yet to reach.
LEMMA PositionsTyped ==
  ASSUME TypeOK, NEW w \in Workers
  PROVE  /\ cur[w] \in Position /\ todo[w] \subseteq Position
         /\ \A t \in Position : t.cell \in Cells /\ t.page \in Nat /\ t.token \in BOOLEAN
BY DEF TypeOK, Position

\* Positions read from rows that were sound stay sound.
LEMMA PositionsKept ==
  ASSUME TypeOK, NEW w \in Workers, PositionsCovered(w), Recorded \subseteq Recorded',
         cur'[w] = cur[w] \/ cur'[w] \in todo[w], todo'[w] \subseteq todo[w]
  PROVE  PositionsCovered(w)'
<1>1. Sound(cur[w].cell, cur[w].page, cur[w].token)'
  BY PositionsTyped, SoundKept DEF PositionsCovered
<1>2. (\A t \in todo[w] : Sound(t.cell, t.page, t.token))'
  <2> SUFFICES ASSUME NEW t \in todo'[w] PROVE Sound(t.cell, t.page, t.token)'
    OBVIOUS
  <2> QED BY PositionsTyped, SoundKept DEF PositionsCovered
<1> QED BY <1>1, <1>2 DEF PositionsCovered

\* A worker that a step leaves alone stays covered while the events only grow.
LEMMA WorkerKept ==
  ASSUME TypeOK, NEW w \in Workers, WorkerCovered(w), Recorded \subseteq Recorded',
         cur'[w] = cur[w], todo'[w] = todo[w], left'[w] = left[w], item'[w] = item[w],
         pc'[w] = pc[w]
  PROVE  WorkerCovered(w)'
<1>1. PositionsCovered(w)'
  BY PositionsKept DEF WorkerCovered
<1>2. PageOwed(w)'
  BY DEF WorkerCovered, PageOwed, InHand
<1>3. ClosesWell(w)'
  BY PositionsTyped, SoundKept DEF WorkerCovered, ClosesWell
<1> QED BY <1>1, <1>2, <1>3 DEF WorkerCovered

\* A worker that neither reads a page nor closes a cell after the step owes nothing.
LEMMA WorkerElsewhere ==
  ASSUME TypeOK, NEW w \in Workers, WorkerCovered(w), Recorded \subseteq Recorded',
         cur'[w] = cur[w] \/ cur'[w] \in todo[w], todo'[w] \subseteq todo[w],
         pc'[w] \notin Reading \union {"close", "complete"}
  PROVE  WorkerCovered(w)'
<1>1. PositionsCovered(w)'
  BY PositionsKept DEF WorkerCovered
<1>2. PageOwed(w)' /\ ClosesWell(w)'
  BY DEF PageOwed, ClosesWell
<1> QED BY <1>1, <1>2 DEF WorkerCovered

\* Nothing has been passed, so nothing has to be recorded yet.
LEMMA CoverInit == Init => CoverInv
<1> SUFFICES ASSUME Init PROVE CoverInv
  OBVIOUS
<1>1. \A c \in Cells : Sound(c, 0, FALSE)
  BY DEF Sound, Backed
<1>2. RowsCovered
  BY <1>1 DEF Init, RowsCovered
<1>3. ASSUME NEW s \in Workers PROVE WorkerCovered(s)
  <2>1. cur[s].cell \in Cells /\ cur[s].page = 0 /\ cur[s].token = FALSE
    <3>1. (CHOOSE c \in Cells : TRUE) \in Cells
      BY ConstantsAssumption DEF ConstantsAssumption
    <3> QED BY <3>1 DEF Init
  <2>2. pc[s] = "idle" /\ todo[s] = {}
    BY DEF Init
  <2> QED BY <1>1, <2>1, <2>2 DEF WorkerCovered, PositionsCovered, PageOwed, ClosesWell, Reading
<1> QED BY <1>2, <1>3 DEF CoverInv

\* A step of s that leaves the rows alone, or only marks a cell without completing it, and
\* takes s out of the page loop.
LEMMA StepElsewhere ==
  ASSUME TypeOK, CoverInv, Recorded \subseteq Recorded', NEW s \in Workers,
         \A c \in Cells : /\ cell'[c].page = cell[c].page
                          /\ cell'[c].token = cell[c].token
                          /\ cell'[c].status = "COMPLETED" => cell[c].status = "COMPLETED",
         UNCHANGED <<todo, cur, left, item>>,
         pc'[s] \notin Reading \union {"close", "complete"},
         \A w \in Workers \ {s} : pc'[w] = pc[w]
  PROVE  CoverInv'
<1>1. RowsCovered'
  BY RowsKept DEF CoverInv
<1>2. ASSUME NEW w \in Workers PROVE WorkerCovered(w)'
  <2>1. CASE w = s
    BY <2>1, WorkerElsewhere DEF CoverInv
  <2>2. CASE w # s
    BY <2>2, WorkerKept DEF CoverInv
  <2> QED BY <2>1, <2>2
<1> QED BY <1>1, <1>2 DEF CoverInv

\* Each step keeps the resume points backed and the completed cells covered.
LEMMA CoverStep == TypeInv /\ CoverInv /\ [Next]_vars => CoverInv'
<1> SUFFICES ASSUME TypeOK, PagesExist, CoverInv, [Next]_vars PROVE CoverInv'
  BY DEF TypeInv
<1>1. Recorded \subseteq Recorded'
  BY RecordedGrows
<1>2. CASE UNCHANGED vars \/ CancelRun \/ RetryRun
  <2>1. UNCHANGED <<cell, todo, cur, left, item, pc>>
    BY <1>2 DEF vars, durable, local, CancelRun, RetryRun
  <2>2. RowsCovered'
    BY <1>1, <2>1, RowsKept DEF CoverInv
  <2>3. \A w \in Workers : WorkerCovered(w)'
    BY <1>1, <2>1, WorkerKept DEF CoverInv
  <2> QED BY <2>2, <2>3 DEF CoverInv
<1>3. ASSUME NEW s \in Workers, Work(s) \/ Disturb(s) PROVE CoverInv'
  <2> DEFINE c == cur[s].cell
             p == cur[s].page + 1
  <2>a. c \in Cells /\ cur[s].page \in Nat /\ cur[s].token \in BOOLEAN /\ p \in Nat
    BY DEF TypeOK, Position
  <2>b. cell \in CellRows /\ pc \in [Workers -> Labels]
    BY DEF TypeOK, CellRow, CellRows
  <2>c. RowsCovered /\ \A w \in Workers : WorkerCovered(w)
    BY DEF CoverInv
  <2> HIDE DEF c, p
  <2>1. CASE \/ LoadRun(s) \/ MarkRunning(s) \/ CreateGrid(s) \/ FailRun(s) \/ FinalCheck(s)
             \/ CommitRun(s) \/ Deliver(s) \/ Crash(s) \/ FailOutOfCell(s)
    <3>1. UNCHANGED <<cell, todo, cur, left, item>>
      BY <2>1 DEF LoadRun, MarkRunning, CreateGrid, FailRun, FinalCheck, CommitRun, Deliver,
        Crash, FailOutOfCell, durable, local
    <3>2. /\ pc'[s] \in {"idle", "load", "mark", "create", "list", "fail", "commit"}
          /\ \A w \in Workers \ {s} : pc'[w] = pc[w]
      BY <2>1, <2>b DEF LoadRun, MarkRunning, CreateGrid, FailRun, FinalCheck, CommitRun,
        Deliver, Crash, FailOutOfCell, Goto
    <3> QED BY <1>1, <3>1, <3>2, StepElsewhere DEF Reading
  <2>2. CASE CancelCell(s) \/ FailCell(s)
    <3>1. UNCHANGED <<todo, cur, left, item>>
      BY <2>2 DEF CancelCell, FailCell, local
    <3>2. pc'[s] \in {"idle", "fail"} /\ \A w \in Workers \ {s} : pc'[w] = pc[w]
      BY <2>2, <2>b DEF CancelCell, FailCell, Goto
    <3>3. cell' \in {cell, [cell EXCEPT ![c].status = "PENDING"],
                     [cell EXCEPT ![c].status = "FAILED"]}
      BY <2>2 DEF CancelCell, FailCell, Mark, c
    <3>4. \A d \in Cells : /\ cell'[d].page = cell[d].page
                           /\ cell'[d].token = cell[d].token
                           /\ cell'[d].status = "COMPLETED" => cell[d].status = "COMPLETED"
      BY <3>3, <2>a, <2>b DEF CellRow, CellRows
    <3> QED BY <1>1, <3>1, <3>2, <3>4, StepElsewhere DEF Reading
  <2>3. CASE ListCells(s)
    <3>1. UNCHANGED <<cell, cur, left, item>>
          /\ \A w \in Workers \ {s} : todo'[w] = todo[w] /\ pc'[w] = pc[w]
      BY <2>3, <2>b DEF ListCells, Goto, durable, TypeOK
    <3>2. pc'[s] = "next" /\ todo'[s] = {Snapshot(d) : d \in Unfinished}
      BY <2>3, <2>b DEF ListCells, Goto, TypeOK
    <3>3. RowsCovered'
      BY <1>1, <2>c, <3>1, RowsKept
    <3>4. (\A t \in todo[s] : Sound(t.cell, t.page, t.token))'
      <4> SUFFICES ASSUME NEW d \in Cells
                   PROVE  Sound(d, cell[d].page, cell[d].token)'
        BY <3>1, <3>2 DEF Snapshot, Unfinished
      <4> QED BY <3>3 DEF RowsCovered
    <3>5. WorkerCovered(s)'
      <4>1. Sound(cur[s].cell, cur[s].page, cur[s].token)'
        BY <1>1, <2>c, <3>1, PositionsTyped, SoundKept DEF WorkerCovered, PositionsCovered
      <4> QED BY <3>2, <3>4, <4>1 DEF WorkerCovered, PositionsCovered, PageOwed, ClosesWell, Reading
    <3>6. \A w \in Workers \ {s} : WorkerCovered(w)'
      BY <1>1, <2>c, <3>1, WorkerKept
    <3> QED BY <3>3, <3>5, <3>6 DEF CoverInv
  <2>4. CASE NextCell(s)
    <3>1. /\ UNCHANGED <<cell, left, item>>
          /\ pc'[s] \in {"final", "claim"} /\ todo'[s] \subseteq todo[s]
          /\ cur'[s] = cur[s] \/ cur'[s] \in todo[s]
      BY <2>4, <2>b DEF NextCell, Goto, durable, TypeOK
    <3>2. \A w \in Workers \ {s} : todo'[w] = todo[w] /\ cur'[w] = cur[w] /\ pc'[w] = pc[w]
      BY <2>4, <2>b DEF NextCell, Goto, TypeOK
    <3>3. RowsCovered'
      BY <1>1, <2>c, <3>1, RowsKept
    <3>4. WorkerCovered(s)'
      BY <1>1, <2>c, <3>1, WorkerElsewhere DEF Reading
    <3>5. \A w \in Workers \ {s} : WorkerCovered(w)'
      BY <1>1, <2>c, <3>1, <3>2, WorkerKept
    <3> QED BY <3>3, <3>4, <3>5 DEF CoverInv
  <2>5. CASE ClaimCell(s)
    <3>1. UNCHANGED <<todo, cur, left, item>> /\ cell' = [cell EXCEPT ![c].status = "RUNNING"]
      BY <2>5 DEF ClaimCell, local, c
    <3>2. pc'[s] = "page" /\ \A w \in Workers \ {s} : pc'[w] = pc[w]
      BY <2>5, <2>b DEF ClaimCell, Goto
    <3>3. \A d \in Cells : /\ cell'[d].page = cell[d].page
                           /\ cell'[d].token = cell[d].token
                           /\ cell'[d].status = "COMPLETED" => cell[d].status = "COMPLETED"
      BY <3>1, <2>a, <2>b DEF CellRow, CellRows
    <3> QED BY <1>1, <3>1, <3>2, <3>3, StepElsewhere DEF Reading
  <2>6. CASE FetchPage(s)
    <3>1. /\ UNCHANGED <<cell, todo, cur, item>>
          /\ \A w \in Workers \ {s} : left'[w] = left[w] /\ pc'[w] = pc[w]
      BY <2>6, <2>b DEF FetchPage, Goto, durable, TypeOK
    <3>2. pc'[s] = "cancel" \/ (pc'[s] = "items" /\ left'[s] = Listing[c][p])
      BY <2>6, <2>b DEF FetchPage, Goto, TypeOK, c, p
    <3>3. RowsCovered'
      BY <1>1, <2>c, <3>1, RowsKept
    <3>4. WorkerCovered(s)'
      <4>1. PositionsCovered(s)'
        BY <1>1, <2>c, <3>1, PositionsKept DEF WorkerCovered
      <4>2. PageOwed(s)' /\ ClosesWell(s)'
        BY <3>1, <3>2 DEF PageOwed, ClosesWell, InHand, Reading, c, p
      <4> QED BY <4>1, <4>2 DEF WorkerCovered
    <3>5. \A w \in Workers \ {s} : WorkerCovered(w)'
      BY <1>1, <2>c, <3>1, WorkerKept
    <3> QED BY <3>3, <3>4, <3>5 DEF CoverInv
  <2>7. CASE LeavePageLoop(s) \/ CloseCell(s)
    <3>1. /\ UNCHANGED <<cell, todo, cur, left, item>>
          /\ \A w \in Workers \ {s} : pc'[w] = pc[w]
      BY <2>7, <2>b DEF LeavePageLoop, CloseCell, Goto, durable, local
    <3>2. pc'[s] \in {"close", "complete", "cancel"}
      BY <2>7, <2>b DEF LeavePageLoop, CloseCell, Goto
    <3>3. Covered(c)
      <4>1. CASE LeavePageLoop(s)
        <5>1. cur[s].page >= MaxPages \/ (cur[s].page > 0 /\ ~cur[s].token)
          <6>1. MaxPages \in Nat
            BY ConstantsAssumption DEF ConstantsAssumption
          <6> QED BY <4>1, <6>1, <2>a DEF LeavePageLoop, PageLoopGoesOn
        <5> QED BY <5>1, <2>a, <2>c, BackedCovers DEF WorkerCovered, PositionsCovered, Sound, c
      <4>2. CASE CloseCell(s)
        BY <4>2, <2>c DEF CloseCell, At, WorkerCovered, ClosesWell, c
      <4> QED BY <2>7, <4>1, <4>2
    <3>4. RowsCovered'
      BY <1>1, <2>c, <3>1, RowsKept
    <3>5. WorkerCovered(s)'
      <4>1. PositionsCovered(s)'
        BY <1>1, <2>c, <3>1, PositionsKept DEF WorkerCovered
      <4>2. Covered(cur[s].cell)'
        BY <1>1, <2>a, <3>1, <3>3, SoundKept DEF c
      <4> QED BY <3>2, <4>1, <4>2 DEF WorkerCovered, PageOwed, ClosesWell, Reading
    <3>6. \A w \in Workers \ {s} : WorkerCovered(w)'
      BY <1>1, <2>c, <3>1, WorkerKept
    <3> QED BY <3>4, <3>5, <3>6 DEF CoverInv
  <2>8. CASE CheckItem(s) \/ PersistItem(s) \/ ScheduleAnalysis(s)
    <3>1. /\ UNCHANGED <<cell, todo, cur>>
          /\ \A w \in Workers \ {s} : left'[w] = left[w] /\ item'[w] = item[w] /\ pc'[w] = pc[w]
      BY <2>8, <2>b DEF CheckItem, PersistItem, ScheduleAnalysis, Goto, durable, local, TypeOK
    <3>2. RowsCovered'
      BY <1>1, <2>c, <3>1, RowsKept
    <3>3. pc[s] \in Reading /\ pc'[s] \in Reading
      BY <2>8, <2>b DEF CheckItem, PersistItem, ScheduleAnalysis, At, Goto, Reading
    <3>4. Recorded \union InHand(s) \subseteq Recorded' \union InHand(s)'
      <4>1. CASE CheckItem(s)
        <5>1. PICK b \in left[s] :
                /\ left'[s] = left[s] \ {b} /\ pc[s] = "items"
                /\ b \in Recorded \/ (pc'[s] = "persist" /\ item'[s] = b)
          BY <4>1, <2>b DEF CheckItem, Rest, At, Goto, TypeOK
        <5> QED BY <1>1, <5>1 DEF InHand
      <4>2. CASE PersistItem(s)
        <5>1. item[s] \in Recorded' /\ left'[s] = left[s]
          <6>1. CASE item[s] \in Recorded
            BY <1>1, <4>2, <6>1 DEF PersistItem, local
          <6>2. CASE item[s] \notin Recorded
            <7>1. [business |-> item[s], cell |-> cur[s].cell] \in events'
              BY <4>2, <6>2 DEF PersistItem
            <7> QED BY <4>2, <7>1 DEF PersistItem, local, Recorded
          <6> QED BY <6>1, <6>2
        <5> QED BY <1>1, <5>1 DEF InHand
      <4>3. CASE ScheduleAnalysis(s)
        BY <1>1, <4>3, <2>b DEF ScheduleAnalysis, At, Goto, local, InHand
      <4> QED BY <2>8, <4>1, <4>2, <4>3
    <3>5. WorkerCovered(s)'
      <4>1. PositionsCovered(s)'
        BY <1>1, <2>c, <3>1, PositionsKept DEF WorkerCovered
      <4>2. PageOwed(s)'
        BY <2>c, <3>1, <3>3, <3>4 DEF WorkerCovered, PageOwed
      <4> QED BY <3>3, <4>1, <4>2 DEF WorkerCovered, ClosesWell, Reading
    <3>6. \A w \in Workers \ {s} : WorkerCovered(w)'
      BY <1>1, <2>c, <3>1, WorkerKept
    <3> QED BY <3>2, <3>5, <3>6 DEF CoverInv
  <2>9. CASE FinishPage(s)
    <3>0. PICK d \in Cells, q \in Nat, more \in BOOLEAN : d = c /\ q = p /\ more = HasMore(c, p)
      <4>1. HasMore(c, p) \in BOOLEAN
        BY DEF HasMore
      <4> QED BY <2>a, <4>1
    <3>1. /\ UNCHANGED <<events, todo, left, item>>
          /\ \A w \in Workers \ {s} : cur'[w] = cur[w] /\ pc'[w] = pc[w]
      BY <2>9, <2>b DEF FinishPage, Goto, TypeOK
    <3>2. pc'[s] = "page" /\ cur'[s].cell = d /\ cur'[s].page = q /\ cur'[s].token = more
      <4>1. pc'[s] = "page" /\ cur' = [cur EXCEPT ![s].page = q, ![s].token = more]
        BY <2>9, <2>b, <3>0 DEF FinishPage, Goto, c, p
      <4>2. cur \in [Workers -> Position]
        BY DEF TypeOK
      <4> QED BY <3>0, <4>1, <4>2 DEF Position, c
    <3>3. /\ cell'[d].page = q /\ cell'[d].token = more
          /\ cell'[d].status = cell[d].status
          /\ \A e \in Cells \ {d} : cell'[e] = cell[e]
      <4>1. cell' = [cell EXCEPT ![d].page = q, ![d].token = more,
                                 ![d].found = @ + Cardinality(Listing[d][q])]
        BY <2>9, <3>0 DEF FinishPage, c, p
      <4> QED BY <4>1, <2>b DEF CellRow, CellRows
    <3>4. Backed(c, p)
      <4>1. Backed(c, cur[s].page)
        BY <2>c DEF WorkerCovered, PositionsCovered, Sound, c
      <4>2. Listing[c][p] \subseteq Recorded
        BY <2>9, <2>c DEF FinishPage, At, PageRead, WorkerCovered, PageOwed, InHand, Reading, c, p
      <4>3. \A k \in 1..p : k \in 1..cur[s].page \/ k = p
        BY <2>a DEF p
      <4> QED BY <4>1, <4>2, <4>3 DEF Backed
    <3>5. Sound(d, q, more)'
      <4>1. Sound(d, q, more)
        BY <3>0, <3>4, BackedCovers DEF Sound
      <4> QED BY <1>1, <4>1, SoundKept
    <3>6. RowsCovered'
      <4> SUFFICES ASSUME NEW e \in Cells
                   PROVE  (/\ Sound(e, cell[e].page, cell[e].token)
                           /\ cell[e].status = "COMPLETED" => Covered(e))'
        BY DEF RowsCovered
      <4>1. cell'[e].status = "COMPLETED" => Covered(e)'
        BY <1>1, <2>c, <3>3, SoundKept DEF RowsCovered
      <4>2. CASE e = d
        BY <3>3, <3>5, <4>1, <4>2
      <4>3. CASE e # d
        <5>1. cell[e].page \in Nat /\ cell[e].token \in BOOLEAN
          BY DEF TypeOK
        <5> QED BY <1>1, <2>c, <3>3, <4>1, <4>3, <5>1, SoundKept DEF RowsCovered
      <4> QED BY <4>2, <4>3
    <3>7. WorkerCovered(s)'
      <4>1. Sound(cur[s].cell, cur[s].page, cur[s].token)'
        BY <3>2, <3>5
      <4>2. (\A t \in todo[s] : Sound(t.cell, t.page, t.token))'
        <5> SUFFICES ASSUME NEW t \in todo[s] PROVE Sound(t.cell, t.page, t.token)'
          BY <3>1
        <5> QED BY <1>1, <2>c, PositionsTyped, SoundKept DEF WorkerCovered, PositionsCovered
      <4> QED BY <3>2, <4>1, <4>2
          DEF WorkerCovered, PositionsCovered, PageOwed, ClosesWell, Reading
    <3>8. \A w \in Workers \ {s} : WorkerCovered(w)'
      BY <1>1, <2>c, <3>1, WorkerKept
    <3> QED BY <3>6, <3>7, <3>8 DEF CoverInv
  <2>10. CASE CompleteCell(s)
    <3>0. PICK d \in Cells : d = c
      BY <2>a
    <3>1. UNCHANGED <<events, todo, cur, left, item>>
          /\ cell' = [cell EXCEPT ![c].status = "COMPLETED", ![c].token = FALSE]
      BY <2>10 DEF CompleteCell, local, c
    <3>2. pc'[s] = "next" /\ \A w \in Workers \ {s} : pc'[w] = pc[w]
      BY <2>10, <2>b DEF CompleteCell, Goto
    <3>3. Covered(d)'
      <4>1. Covered(d)
        BY <2>10, <2>c, <3>0 DEF CompleteCell, At, WorkerCovered, ClosesWell, c
      <4> QED BY <1>1, <4>1, SoundKept
    <3>4. cell'[d].page = cell[d].page /\ \A e \in Cells \ {d} : cell'[e] = cell[e]
      BY <3>0, <3>1, <2>b DEF CellRow, CellRows
    <3>5. RowsCovered'
      <4> SUFFICES ASSUME NEW e \in Cells
                   PROVE  (/\ Sound(e, cell[e].page, cell[e].token)
                           /\ cell[e].status = "COMPLETED" => Covered(e))'
        BY DEF RowsCovered
      <4>1. /\ cell[e].page \in Nat /\ cell[e].token \in BOOLEAN
            /\ Sound(e, cell[e].page, cell[e].token)
        BY <2>c DEF TypeOK, RowsCovered
      <4>2. Backed(e, cell[e].page)
        BY <4>1 DEF Sound
      <4>3. CASE e = d
        <5>1. Backed(e, cell[e].page)'
          BY <1>1, <3>4, <4>1, <4>2, <4>3, SoundKept
        <5> QED BY <3>3, <4>3, <5>1 DEF Sound
      <4>4. CASE e # d
        BY <1>1, <2>c, <3>4, <4>1, <4>4, SoundKept DEF RowsCovered
      <4> QED BY <4>3, <4>4
    <3>6. WorkerCovered(s)'
      BY <1>1, <2>c, <3>1, <3>2, WorkerElsewhere DEF Reading
    <3>7. \A w \in Workers \ {s} : WorkerCovered(w)'
      BY <1>1, <2>c, <3>1, <3>2, WorkerKept
    <3> QED BY <3>5, <3>6, <3>7 DEF CoverInv
  <2> QED BY <1>3, <2>1, <2>2, <2>3, <2>4, <2>5, <2>6, <2>7, <2>8, <2>9, <2>10 DEF Work, Disturb
<1> QED BY <1>2, <1>3 DEF Next

-----------------------------------------------------------------------------
(* The theorems.                                                           *)

\* IInv holds in every reachable state, for every value of the constants.
THEOREM InductiveInvariant == Spec => []IInv
<1>1. Init => IInv
  BY TypeInit, CoverInit DEF IInv
<1>2. IInv /\ [Next]_vars => IInv'
  BY TypeStep, CoverStep DEF IInv
<1> QED BY <1>1, <1>2, PTL DEF Spec

\* The variables keep their types in every step of any number of workers.
THEOREM TypeCorrect == Spec => []TypeOK
<1>1. IInv => TypeOK
  BY DEF IInv, TypeInv
<1> QED BY <1>1, InductiveInvariant, PTL

\* However many workers overlap, stop or restart, the page SearchCell resumes from is
\* never ahead of the discovery events (the page loop of processCell).
THEOREM ResumePointIsBacked == Spec => []ResumePointBacked
<1>1. IInv => ResumePointBacked
  BY DEF IInv, CoverInv, RowsCovered, Sound, ResumePointBacked
<1> QED BY <1>1, InductiveInvariant, PTL

\* A cell marked COMPLETED has every result it had to read recorded.
THEOREM CompletedCellIsCovered == Spec => []CompletedCellCovered
<1>1. IInv => CompletedCellCovered
  BY DEF IInv, CoverInv, RowsCovered, CompletedCellCovered, Completed
<1> QED BY <1>1, InductiveInvariant, PTL

-----------------------------------------------------------------------------
(* processedItems.                                                         *)

EventsOf(c) == {e \in events : e.cell = c}
ItemsInv == IsFiniteSet(events) /\ ProcessedItemsExact

\* An event that is persisted is new, and counted for its own cell.
LEMMA PersistCounts ==
  ASSUME TypeOK, ItemsInv, NEW s \in Workers, PersistItem(s) PROVE ItemsInv'
<1> DEFINE c == cur[s].cell
           row == [business |-> item[s], cell |-> c]
<1>1. c \in Cells
  BY DEF TypeOK, Position
<1>2. ckpt \in CkptRows
  BY DEF TypeOK, CkptRows
<1>3. CASE item[s] \in Recorded
  <2>1. events' = events
    BY <1>3 DEF PersistItem
  <2>2. ckpt' = [ckpt EXCEPT ![c] = [status |-> "RUNNING", page |-> cur[s].page + 1,
                                     items |-> @.items + Cardinality({})]]
    BY <1>3 DEF PersistItem, Count
  <2>3. Cardinality({}) = 0
    BY FS_EmptySet
  <2>4. \A d \in Cells : ckpt'[d].items = ckpt[d].items
    BY <1>1, <1>2, <2>2, <2>3 DEF CkptRows
  <2> QED BY <2>1, <2>4 DEF ItemsInv, ProcessedItemsExact
<1>4. CASE item[s] \notin Recorded
  <2>1. events' = events \union {row}
    BY <1>4 DEF PersistItem
  <2>2. ckpt' = [ckpt EXCEPT ![c] = [status |-> "RUNNING", page |-> cur[s].page + 1,
                                     items |-> @.items + Cardinality({row})]]
    BY <1>4 DEF PersistItem, Count
  <2>3. Cardinality({row}) = 1
    BY FS_Singleton
  <2>4. row \notin events /\ row.cell = c
    BY <1>4 DEF Recorded
  <2> HIDE DEF row
  <2>5. IsFiniteSet(events')
    BY <2>1, FS_AddElement DEF ItemsInv
  <2>6. ASSUME NEW d \in Cells PROVE ckpt'[d].items = Cardinality(EventsOf(d)')
    <3>1. IsFiniteSet(EventsOf(d)) /\ ckpt[d].items = Cardinality(EventsOf(d))
      BY FS_Subset DEF ItemsInv, ProcessedItemsExact, EventsOf
    <3>2. CASE d = c
      <4>1. EventsOf(d)' = EventsOf(d) \union {row} /\ row \notin EventsOf(d)
        BY <2>1, <2>4, <3>2 DEF EventsOf
      <4>2. Cardinality(EventsOf(d)') = Cardinality(EventsOf(d)) + 1
        BY <3>1, <4>1, FS_AddElement
      <4>3. ckpt'[d].items = ckpt[d].items + 1
        BY <1>1, <1>2, <2>2, <2>3, <3>2 DEF CkptRows
      <4> QED BY <3>1, <4>2, <4>3
    <3>3. CASE d # c
      <4>1. EventsOf(d)' = EventsOf(d)
        BY <2>1, <2>4, <3>3 DEF EventsOf
      <4>2. ckpt'[d] = ckpt[d]
        BY <1>1, <1>2, <2>2, <3>3 DEF CkptRows
      <4> QED BY <3>1, <4>1, <4>2
    <3> QED BY <3>2, <3>3
  <2> QED BY <2>5, <2>6 DEF ItemsInv, ProcessedItemsExact, EventsOf
<1> QED BY <1>3, <1>4

\* Every other step leaves the events and the counts alone.
LEMMA ItemsStep == TypeOK /\ ItemsInv /\ [Next]_vars => ItemsInv'
<1> SUFFICES ASSUME TypeOK, ItemsInv, [Next]_vars PROVE ItemsInv'
  OBVIOUS
<1>1. ASSUME events' = events, \A c \in Cells : ckpt'[c].items = ckpt[c].items PROVE ItemsInv'
  BY <1>1 DEF ItemsInv, ProcessedItemsExact
<1>2. CASE UNCHANGED vars \/ CancelRun \/ RetryRun
  BY <1>1, <1>2 DEF vars, durable, CancelRun, RetryRun
<1>3. ASSUME NEW s \in Workers, Work(s) \/ Disturb(s) PROVE ItemsInv'
  <2> DEFINE c == cur[s].cell
  <2>a. c \in Cells /\ ckpt \in CkptRows
    BY DEF TypeOK, Position, CkptRows
  <2>1. CASE \/ LoadRun(s) \/ MarkRunning(s) \/ CreateGrid(s) \/ ListCells(s) \/ NextCell(s)
             \/ FetchPage(s) \/ LeavePageLoop(s) \/ CheckItem(s) \/ ScheduleAnalysis(s)
             \/ CloseCell(s) \/ FailRun(s) \/ FinalCheck(s) \/ CommitRun(s)
             \/ Deliver(s) \/ Crash(s) \/ FailOutOfCell(s)
    BY <1>1, <2>1 DEF LoadRun, MarkRunning, CreateGrid, ListCells, NextCell, FetchPage,
      LeavePageLoop, CheckItem, ScheduleAnalysis, CloseCell, FailRun, FinalCheck, CommitRun,
      Deliver, Crash, FailOutOfCell, durable
  <2>2. CASE ClaimCell(s)
    <3>1. ckpt' = [ckpt EXCEPT ![c].status = "RUNNING",
                     ![c].page = IF ckpt[c].status = "NONE" THEN cur[s].page ELSE @]
      BY <2>2 DEF ClaimCell
    <3>2. events' = events /\ \A d \in Cells : ckpt'[d].items = ckpt[d].items
      BY <2>2, <2>a, <3>1 DEF ClaimCell, CkptRows
    <3> QED BY <1>1, <3>2
  <2>3. CASE FinishPage(s)
    <3>1. ckpt' = [ckpt EXCEPT ![c].page = cur[s].page + 1, ![c].status = "RUNNING"]
      BY <2>3 DEF FinishPage
    <3>2. events' = events /\ \A d \in Cells : ckpt'[d].items = ckpt[d].items
      BY <2>3, <2>a, <3>1 DEF FinishPage, CkptRows
    <3> QED BY <1>1, <3>2
  <2>4. CASE CompleteCell(s) \/ CancelCell(s) \/ FailCell(s)
    <3>1. \/ ckpt' = ckpt
          \/ \E status \in CellStatus : ckpt' = [ckpt EXCEPT ![c].status = status]
      BY <2>4 DEF CompleteCell, CancelCell, FailCell, Mark, CellStatus
    <3>2. events' = events
      BY <2>4 DEF CompleteCell, CancelCell, FailCell
    <3>3. ASSUME NEW status, ckpt' = [ckpt EXCEPT ![c].status = status]
          PROVE  \A d \in Cells : ckpt'[d].items = ckpt[d].items
      BY <2>a, <3>3 DEF CkptRows
    <3> QED BY <1>1, <3>1, <3>2, <3>3
  <2> QED BY <1>3, <2>1, <2>2, <2>3, <2>4, PersistCounts DEF Work, Disturb
<1> QED BY <1>2, <1>3 DEF Next

LEMMA ItemsInit == Init => ItemsInv
<1> SUFFICES ASSUME Init PROVE ItemsInv
  OBVIOUS
<1>1. events = {} /\ \A c \in Cells : ckpt[c].items = 0
  BY DEF Init
<1>2. \A c \in Cells : EventsOf(c) = {}
  BY <1>1 DEF EventsOf
<1> QED BY <1>1, <1>2, FS_EmptySet DEF ItemsInv, ProcessedItemsExact, EventsOf
-----------------------------------------------------------------------------
(* The promise.                                                            *)

InProgress == {"claim", "page", "items", "persist", "analyse", "close", "complete"}

\* What a worker reads is on a page within the limit.
ReadsListed(s) ==
  pc[s] \in Reading =>
    /\ cur[s].page < MaxPages
    /\ left[s] \subseteq Listing[cur[s].cell][cur[s].page + 1]
    /\ pc[s] = "persist" => item[s] \in Listing[cur[s].cell][cur[s].page + 1]

\* A worker leaves no cell behind: each is covered, still to come, or in its hands.
LeavesNone(s) ==
  pc[s] \in InProgress \union {"next"} =>
    \A c \in Cells : \/ Covered(c)
                     \/ \E t \in todo[s] : t.cell = c
                     \/ pc[s] \in InProgress /\ cur[s].cell = c
EndsWell(s) ==
  pc[s] \in {"final", "commit"} => LimitReached \/ \A c \in Cells : Covered(c)

WorkerPromise(s) == ReadsListed(s) /\ LeavesNone(s) /\ EndsWell(s)
PromiseInv == \A s \in Workers : WorkerPromise(s)

LEMMA LimitKept ==
  ASSUME events \subseteq events', IsFiniteSet(events'), LimitReached PROVE LimitReached'
<1>1. IsFiniteSet(events) /\ Cardinality(events) <= Cardinality(events')
  BY FS_Subset
<1>2. Cardinality(events) \in Nat /\ Cardinality(events') \in Nat /\ MaxBusinesses \in Nat
  BY <1>1, FS_CardinalityType, ConstantsAssumption DEF ConstantsAssumption
<1> QED BY <1>1, <1>2 DEF LimitReached

LEMMA EventsGrow == [Next]_vars => events \subseteq events'
<1> SUFFICES ASSUME [Next]_vars PROVE events \subseteq events'
  OBVIOUS
<1>1. CASE UNCHANGED vars
  BY <1>1 DEF vars, durable
<1>2. CASE CancelRun \/ RetryRun
  BY <1>2 DEF CancelRun, RetryRun
<1>3. ASSUME NEW s \in Workers, Work(s) \/ Disturb(s) PROVE events \subseteq events'
  BY <1>3 DEF Work, Disturb, durable, LoadRun, MarkRunning, CreateGrid, ListCells, NextCell,
    ClaimCell, FetchPage, LeavePageLoop, CheckItem, PersistItem, ScheduleAnalysis, FinishPage,
    CloseCell, CompleteCell, CancelCell, FailRun, FinalCheck, CommitRun, Deliver, Crash,
    FailCell, FailOutOfCell
<1> QED BY <1>1, <1>2, <1>3 DEF Next

\* A worker that a step leaves alone.
LEMMA PromiseKeptBy ==
  ASSUME NEW w \in Workers, WorkerPromise(w), events \subseteq events', IsFiniteSet(events'),
         cur'[w] = cur[w], todo'[w] = todo[w], left'[w] = left[w], item'[w] = item[w],
         pc'[w] = pc[w]
  PROVE  WorkerPromise(w)'
<1>1. Recorded \subseteq Recorded'
  BY DEF Recorded
<1>2. \A c \in Cells : Covered(c) => Covered(c)'
  BY <1>1 DEF Covered, Backed
<1>3. ReadsListed(w)'
  BY DEF WorkerPromise, ReadsListed
<1>4. LeavesNone(w)'
  BY <1>2 DEF WorkerPromise, LeavesNone
<1>5. EndsWell(w)'
  BY <1>2, LimitKept DEF WorkerPromise, EndsWell
<1> QED BY <1>3, <1>4, <1>5 DEF WorkerPromise

\* A worker that goes on within its cell.
LEMMA PromiseWithin ==
  ASSUME NEW s \in Workers, WorkerPromise(s), events \subseteq events',
         pc[s] \in InProgress, pc'[s] \in InProgress,
         todo'[s] = todo[s], cur'[s].cell = cur[s].cell, ReadsListed(s)'
  PROVE  WorkerPromise(s)'
<1>1. Recorded \subseteq Recorded'
  BY DEF Recorded
<1>2. \A c \in Cells : Covered(c) => Covered(c)'
  BY <1>1 DEF Covered, Backed
<1>3. LeavesNone(s)'
  BY <1>2 DEF WorkerPromise, LeavesNone
<1>4. EndsWell(s)'
  BY DEF EndsWell, InProgress
<1> QED BY <1>3, <1>4 DEF WorkerPromise

LEMMA PromiseStep ==
  IInv /\ ItemsInv /\ ItemsInv' /\ PromiseInv /\ [Next]_vars => PromiseInv'
<1> SUFFICES ASSUME IInv, ItemsInv', PromiseInv, [Next]_vars PROVE PromiseInv'
  OBVIOUS
<1>1. events \subseteq events' /\ IsFiniteSet(events') /\ Recorded \subseteq Recorded'
  BY EventsGrow, RecordedGrows DEF ItemsInv
<1>2. \A w \in Workers : WorkerPromise(w)
  BY DEF PromiseInv
<1>3. \A c \in Cells : Covered(c) => Covered(c)'
  BY <1>1 DEF Covered, Backed
<1>4. CASE UNCHANGED vars \/ CancelRun \/ RetryRun
  <2>1. UNCHANGED <<todo, cur, left, item, pc>>
    BY <1>4 DEF vars, durable, local, CancelRun, RetryRun
  <2> QED BY <1>1, <1>2, <2>1, PromiseKeptBy DEF PromiseInv
<1>5. ASSUME NEW s \in Workers, Work(s) \/ Disturb(s) PROVE PromiseInv'
  <2>a. /\ pc \in [Workers -> Labels] /\ todo \in [Workers -> SUBSET Position]
        /\ cur \in [Workers -> Position] /\ left \in [Workers -> SUBSET Businesses]
        /\ item \in [Workers -> Businesses]
    BY DEF IInv, TypeInv, TypeOK
  <2>b. cur[s].cell \in Cells /\ cur[s].page \in Nat
    BY <2>a DEF Position
  <2>c. WorkerPromise(s)
    BY <1>2
  <2>1. ASSUME NEW w \in Workers \ {s} PROVE WorkerPromise(w)'
    <3>1. pc'[w] = pc[w]
      BY <1>5, <2>a DEF Work, Disturb, LoadRun, MarkRunning, CreateGrid, ListCells, NextCell,
        ClaimCell, FetchPage, LeavePageLoop, CheckItem, PersistItem, ScheduleAnalysis,
        FinishPage, CloseCell, CompleteCell, CancelCell, FailRun, FinalCheck, CommitRun,
        Deliver, Crash, FailCell, FailOutOfCell, Goto
    <3>2. todo'[w] = todo[w] /\ cur'[w] = cur[w]
      BY <1>5, <2>a DEF Work, Disturb, LoadRun, MarkRunning, CreateGrid, ListCells, NextCell,
        ClaimCell, FetchPage, LeavePageLoop, CheckItem, PersistItem, ScheduleAnalysis,
        FinishPage, CloseCell, CompleteCell, CancelCell, FailRun, FinalCheck, CommitRun,
        Deliver, Crash, FailCell, FailOutOfCell, local
    <3>3. left'[w] = left[w] /\ item'[w] = item[w]
      BY <1>5, <2>a DEF Work, Disturb, LoadRun, MarkRunning, CreateGrid, ListCells, NextCell,
        ClaimCell, FetchPage, LeavePageLoop, CheckItem, PersistItem, ScheduleAnalysis,
        FinishPage, CloseCell, CompleteCell, CancelCell, FailRun, FinalCheck, CommitRun,
        Deliver, Crash, FailCell, FailOutOfCell, local
    <3> QED BY <1>1, <1>2, <3>1, <3>2, <3>3, PromiseKeptBy
  <2>2. WorkerPromise(s)'
    <3>1. ASSUME pc'[s] \in {"idle", "load", "mark", "create", "list", "cancel", "fail"}
          PROVE  WorkerPromise(s)'
      BY <3>1 DEF WorkerPromise, ReadsListed, LeavesNone, EndsWell, Reading, InProgress
    <3>2. CASE \/ LoadRun(s) \/ MarkRunning(s) \/ CreateGrid(s) \/ CancelCell(s) \/ FailRun(s)
               \/ CommitRun(s) \/ Deliver(s) \/ Crash(s) \/ FailCell(s) \/ FailOutOfCell(s)
      BY <2>a, <3>1, <3>2 DEF LoadRun, MarkRunning, CreateGrid, CancelCell, FailRun, CommitRun,
        Deliver, Crash, FailCell, FailOutOfCell, Goto
    <3>3. CASE ListCells(s)
      <4>1. pc'[s] = "next" /\ todo'[s] = {Snapshot(d) : d \in Unfinished}
        BY <2>a, <3>3 DEF ListCells, Goto
      <4>2. ASSUME NEW c \in Cells PROVE Covered(c)' \/ \E t \in todo'[s] : t.cell = c
        <5>1. CASE c \in Unfinished
          <6>1. Snapshot(c) \in todo'[s] /\ Snapshot(c).cell = c
            BY <4>1, <5>1 DEF Snapshot
          <6> QED BY <6>1
        <5>2. CASE c \notin Unfinished
          BY <1>3, <5>2 DEF IInv, CoverInv, RowsCovered, Unfinished
        <5> QED BY <5>1, <5>2
      <4> QED BY <4>1, <4>2 DEF WorkerPromise, ReadsListed, LeavesNone, EndsWell, Reading
    <3>4. CASE NextCell(s)
      <4>1. pc[s] = "next" /\ \A c \in Cells : Covered(c) \/ \E t \in todo[s] : t.cell = c
        BY <2>c, <3>4 DEF NextCell, At, WorkerPromise, LeavesNone, InProgress
      <4>2. CASE (todo[s] = {} \/ LimitReached) /\ Goto(s, "final")
        <5>1. pc'[s] = "final"
          BY <2>a, <4>2 DEF Goto
        <5>2. LimitReached' \/ \A c \in Cells : Covered(c)'
          BY <1>1, <1>3, <4>1, <4>2, LimitKept
        <5> QED BY <5>1, <5>2 DEF WorkerPromise, ReadsListed, LeavesNone, EndsWell, Reading, InProgress
      <4>3. ASSUME NEW t \in todo[s], cur' = [cur EXCEPT ![s] = t],
                   todo' = [todo EXCEPT ![s] = @ \ {t}], Goto(s, "claim")
            PROVE  WorkerPromise(s)'
        <5>1. pc'[s] = "claim" /\ cur'[s] = t /\ todo'[s] = todo[s] \ {t}
          BY <2>a, <4>3 DEF Goto
        <5>2. ASSUME NEW c \in Cells
              PROVE  Covered(c)' \/ (\E u \in todo'[s] : u.cell = c) \/ cur'[s].cell = c
          BY <1>3, <4>1, <5>1
        <5> QED BY <5>1, <5>2 DEF WorkerPromise, ReadsListed, LeavesNone, EndsWell, Reading, InProgress
      <4> QED BY <3>4, <4>2, <4>3 DEF NextCell
    <3>5. CASE ClaimCell(s) \/ LeavePageLoop(s) \/ (CloseCell(s) /\ run # "CANCELLED")
      <4>1. /\ pc[s] \in {"claim", "page", "close"} /\ pc'[s] \in {"page", "close", "complete"}
            /\ todo'[s] = todo[s] /\ cur'[s] = cur[s]
        BY <2>a, <3>5 DEF ClaimCell, LeavePageLoop, CloseCell, At, Goto, local
      <4>2. ReadsListed(s)'
        BY <4>1 DEF ReadsListed, Reading
      <4> QED BY <1>1, <2>c, <4>1, <4>2, PromiseWithin DEF InProgress
    <3>6. CASE CloseCell(s) /\ run = "CANCELLED"
      BY <2>a, <3>1, <3>6 DEF CloseCell, Goto
    <3>7. CASE FetchPage(s)
      <4>1. CASE run = "CANCELLED"
        BY <2>a, <3>1, <3>7, <4>1 DEF FetchPage, Goto
      <4>2. CASE run # "CANCELLED"
        <5>1. /\ pc[s] = "page" /\ pc'[s] = "items" /\ cur[s].page < MaxPages
              /\ todo'[s] = todo[s] /\ cur'[s] = cur[s]
              /\ left'[s] = Listing[cur[s].cell][cur[s].page + 1]
          BY <2>a, <3>7, <4>2 DEF FetchPage, PageLoopGoesOn, At, Goto
        <5>2. ReadsListed(s)'
          BY <5>1 DEF ReadsListed
        <5> QED BY <1>1, <2>c, <5>1, <5>2, PromiseWithin DEF InProgress
      <4> QED BY <4>1, <4>2
    <3>8. CASE CheckItem(s)
      <4>1. PICK b \in left[s] :
              /\ left' = [left EXCEPT ![s] = Rest(s, b)]
              /\ \/ UNCHANGED <<item, pc>>
                 \/ item' = [item EXCEPT ![s] = b] /\ Goto(s, "persist")
        BY <3>8 DEF CheckItem
      <4>2. pc[s] = "items" /\ todo'[s] = todo[s] /\ cur'[s] = cur[s] /\ left'[s] \subseteq left[s]
        BY <2>a, <3>8, <4>1 DEF CheckItem, At, Rest
      <4>3. pc'[s] = "items" \/ (pc'[s] = "persist" /\ item'[s] = b)
        BY <2>a, <4>1, <4>2 DEF Goto
      <4>4. ReadsListed(s)'
        BY <2>c, <4>1, <4>2, <4>3 DEF WorkerPromise, ReadsListed, Reading
      <4> QED BY <1>1, <2>c, <4>2, <4>3, <4>4, PromiseWithin DEF InProgress
    <3>9. CASE PersistItem(s) \/ ScheduleAnalysis(s)
      <4>1. /\ pc[s] \in {"persist", "analyse"} /\ pc'[s] \in {"analyse", "items"}
            /\ todo'[s] = todo[s] /\ cur'[s] = cur[s] /\ left'[s] = left[s]
        BY <2>a, <3>9 DEF PersistItem, ScheduleAnalysis, At, Goto, local
      <4>2. ReadsListed(s)'
        BY <2>c, <4>1 DEF WorkerPromise, ReadsListed, Reading
      <4> QED BY <1>1, <2>c, <4>1, <4>2, PromiseWithin DEF InProgress
    <3>10. CASE FinishPage(s)
      <4>1. pc[s] = "items" /\ pc'[s] = "page" /\ todo'[s] = todo[s] /\ cur'[s].cell = cur[s].cell
        BY <2>a, <3>10 DEF FinishPage, At, Goto, Position
      <4>2. ReadsListed(s)'
        BY <4>1 DEF ReadsListed, Reading
      <4> QED BY <1>1, <2>c, <4>1, <4>2, PromiseWithin DEF InProgress
    <3>11. CASE CompleteCell(s)
      <4>1. /\ pc[s] = "complete" /\ pc'[s] = "next" /\ todo'[s] = todo[s]
        BY <2>a, <3>11 DEF CompleteCell, At, Goto, local
      <4>2. Covered(cur[s].cell)
        BY <4>1 DEF IInv, CoverInv, WorkerCovered, ClosesWell
      <4>3. ASSUME NEW c \in Cells PROVE Covered(c)' \/ \E t \in todo'[s] : t.cell = c
        BY <1>3, <2>c, <4>1, <4>2 DEF WorkerPromise, LeavesNone, InProgress
      <4> QED BY <4>1, <4>3 DEF WorkerPromise, ReadsListed, LeavesNone, EndsWell, Reading
    <3>12. CASE FinalCheck(s)
      <4>1. pc[s] = "final" /\ pc'[s] \in {"idle", "commit"}
        BY <2>a, <3>12 DEF FinalCheck, At, Goto
      <4>2. LimitReached' \/ \A c \in Cells : Covered(c)'
        BY <1>1, <1>3, <2>c, <4>1, LimitKept DEF WorkerPromise, EndsWell
      <4> QED BY <4>1, <4>2 DEF WorkerPromise, ReadsListed, LeavesNone, EndsWell, Reading, InProgress
    <3> QED BY <1>5, <3>2, <3>3, <3>4, <3>5, <3>6, <3>7, <3>8, <3>9, <3>10, <3>11, <3>12
            DEF Work, Disturb
  <2> QED BY <2>1, <2>2 DEF PromiseInv
<1> QED BY <1>4, <1>5 DEF Next

\* A run that has just been queued has no worker.
LEMMA PromiseInit == Init => PromiseInv
BY DEF Init, PromiseInv, WorkerPromise, ReadsListed, LeavesNone, EndsWell, Reading, InProgress

\* processedItems is the number of the cell's events, for any number of workers.
THEOREM ProcessedItemsAreExact == Spec => []ProcessedItemsExact
<1>1. Init => TypeInv /\ ItemsInv
  BY TypeInit, ItemsInit
<1>2. TypeInv /\ ItemsInv /\ [Next]_vars => TypeInv' /\ ItemsInv'
  BY TypeStep, ItemsStep DEF TypeInv
<1>3. ItemsInv => ProcessedItemsExact
  BY DEF ItemsInv
<1> QED BY <1>1, <1>2, <1>3, PTL DEF Spec

\* What the pages up to the limit hold is what the promise wants of the cell.
LEMMA WantedPages ==
  ASSUME NEW c \in Cells
  PROVE  /\ Covered(c) => Promise!Wanted(c) \subseteq Recorded
         /\ \A n \in Nat : n < MaxPages /\ HasMore(c, n) => Listing[c][n + 1] \subseteq Promise!Wanted(c)
<1>1. /\ Len(Listing[c]) \in Nat /\ DOMAIN Listing[c] = 1..Len(Listing[c])
      /\ MaxPages \in Nat
  BY ConstantsAssumption DEF ConstantsAssumption
<1>2. ASSUME Covered(c) PROVE Promise!Wanted(c) \subseteq Recorded
  <2>1. \A q \in DOMAIN Listing[c] : q <= MaxPages => q \in 1..LastPage(c)
    BY <1>1 DEF LastPage, HasMore
  <2> QED BY <1>2, <2>1 DEF Covered, Backed, Promise!Wanted
<1>3. ASSUME NEW n \in Nat, n < MaxPages, HasMore(c, n)
      PROVE  Listing[c][n + 1] \subseteq Promise!Wanted(c)
  <2>1. n + 1 \in DOMAIN Listing[c] /\ n + 1 <= MaxPages
    BY <1>1, <1>3 DEF HasMore
  <2> QED BY <2>1 DEF Promise!Wanted
<1> QED BY <1>2, <1>3

\* Every step is a step of the promise or leaves what it speaks of alone.
LEMMA PromiseImplemented ==
  IInv /\ PromiseInv /\ [Next]_vars => [Promise!Next]_<<events, run>>
<1> SUFFICES ASSUME IInv, PromiseInv, [Next]_vars
             PROVE  Promise!Next \/ UNCHANGED <<events, run>>
  OBVIOUS
<1>1. CASE UNCHANGED vars
  BY <1>1 DEF vars, durable
<1>2. CASE CancelRun \/ RetryRun
  BY <1>2 DEF CancelRun, RetryRun, Promise!Next, Promise!Reopen
<1>3. ASSUME NEW s \in Workers, Work(s) \/ Disturb(s)
      PROVE  Promise!Next \/ UNCHANGED <<events, run>>
  <2>a. WorkerPromise(s) /\ cur[s].cell \in Cells /\ cur[s].page \in Nat /\ item[s] \in Businesses
    BY DEF PromiseInv, IInv, TypeInv, TypeOK, Position
  <2>1. CASE PersistItem(s)
    <3>1. run' = run
      BY <2>1 DEF PersistItem
    <3>2. CASE item[s] \in Recorded
      BY <2>1, <3>1, <3>2 DEF PersistItem
    <3>3. CASE item[s] \notin Recorded
      <4>1. HasMore(cur[s].cell, cur[s].page)
        BY <2>1 DEF PersistItem, At, IInv, TypeInv, PagesExist, Reading
      <4>2. cur[s].page < MaxPages /\ item[s] \in Listing[cur[s].cell][cur[s].page + 1]
        BY <2>1, <2>a DEF PersistItem, At, WorkerPromise, ReadsListed, Reading
      <4>3. item[s] \in Promise!Wanted(cur[s].cell)
        BY <2>a, <4>1, <4>2, WantedPages
      <4>4. item[s] \notin Promise!Attributed
        BY <3>3 DEF Recorded, Promise!Attributed
      <4>5. events' = events \union {[business |-> item[s], cell |-> cur[s].cell]}
        BY <2>1, <3>3 DEF PersistItem
      <4>6. Promise!Attribute(item[s], cur[s].cell)
        BY <3>1, <4>3, <4>4, <4>5 DEF Promise!Attribute
      <4> QED BY <2>a, <4>6 DEF Promise!Next
    <3> QED BY <3>2, <3>3
  <2>2. CASE CommitRun(s)
    <3>1. run' = "COMPLETED" /\ events' = events /\ pc[s] = "commit"
      BY <2>2 DEF CommitRun, At
    <3>2. LimitReached \/ \A c \in Cells : Promise!Wanted(c) \subseteq Recorded
      BY <2>a, <3>1, WantedPages DEF WorkerPromise, EndsWell
    <3>3. Recorded = Promise!Attributed
      BY DEF Recorded, Promise!Attributed
    <3>4. Promise!Cardinality(events) = Cardinality(events)
      BY DEF Promise!Cardinality, Cardinality
    <3>5. Promise!Complete
      BY <3>1, <3>2, <3>3, <3>4 DEF Promise!Complete, LimitReached
    <3> QED BY <3>5 DEF Promise!Next
  <2>3. CASE MarkRunning(s) \/ FailRun(s)
    BY <2>3 DEF MarkRunning, FailRun, Promise!Next, Promise!Reopen
  <2>4. CASE \/ LoadRun(s) \/ CreateGrid(s) \/ ListCells(s) \/ NextCell(s) \/ ClaimCell(s)
             \/ FetchPage(s) \/ LeavePageLoop(s) \/ CheckItem(s) \/ ScheduleAnalysis(s)
             \/ FinishPage(s) \/ CloseCell(s) \/ CompleteCell(s) \/ CancelCell(s)
             \/ FinalCheck(s) \/ Deliver(s) \/ Crash(s) \/ FailCell(s) \/ FailOutOfCell(s)
    BY <2>4 DEF durable, LoadRun, CreateGrid, ListCells, NextCell, ClaimCell, FetchPage,
      LeavePageLoop, CheckItem, ScheduleAnalysis, FinishPage, CloseCell, CompleteCell,
      CancelCell, FinalCheck, Deliver, Crash, FailCell, FailOutOfCell
  <2> QED BY <1>3, <2>1, <2>2, <2>3, <2>4 DEF Work, Disturb
<1> QED BY <1>1, <1>2, <1>3 DEF Next

\* The discovery implements DiscoveryPromise.
THEOREM KeepsPromise == Spec => PromiseKept
<1>1. Init => Promise!Init
  BY DEF Init, Promise!Init
<1>2. Init => ItemsInv /\ PromiseInv
  BY ItemsInit, PromiseInit
<1>3. IInv /\ ItemsInv /\ [Next]_vars => ItemsInv'
  BY ItemsStep DEF IInv, TypeInv
<1>4. Spec => []IInv
  BY InductiveInvariant
<1> QED BY <1>1, <1>2, <1>3, <1>4, PromiseStep, PromiseImplemented, PTL
        DEF Spec, PromiseKept, Promise!Spec

-----------------------------------------------------------------------------
(* One delivery at a time.                                                 *)

Alone == \A s, w \in Workers : s = w

\* A worker that is alone keeps the completed cells out of its list and out of its hands.
Lists(s)  == pc[s] \in InProgress \union {"next"} =>
               /\ \A t \in todo[s] : t.cell \notin Completed
               /\ \A t, u \in todo[s] : t.cell = u.cell => t = u
Holds(s)  == /\ pc[s] \in InProgress \union {"cancel"} => cur[s].cell \notin Completed
             /\ pc[s] \in InProgress => \A t \in todo[s] : t.cell # cur[s].cell
Builds(s) == /\ pc[s] = "create" => ~grid
             /\ pc[s] \in InProgress \union {"list", "next", "cancel", "final", "commit"} => grid
Counts(s) == pc[s] = "commit" => tally[s] = Cardinality(Completed)

Sole(s)   == Lists(s) /\ Holds(s) /\ Builds(s) /\ Counts(s)
SoleInv   == GridDoneExact /\ (~grid => Completed = {}) /\ \A s \in Workers : Sole(s)

LEMMA SoleInit == Init => SoleInv
<1> SUFFICES ASSUME Init PROVE SoleInv
  OBVIOUS
<1>1. Completed = {}
  BY DEF Init, Completed
<1>2. GridDoneExact
  BY <1>1, FS_EmptySet DEF Init, GridDoneExact
<1>3. \A s \in Workers : pc[s] = "idle"
  BY DEF Init
<1> QED BY <1>1, <1>2, <1>3 DEF SoleInv, Sole, Lists, Holds, Builds, Counts, InProgress

Others(s) ==
  \/ LoadRun(s) \/ MarkRunning(s) \/ CreateGrid(s) \/ ListCells(s) \/ NextCell(s)
  \/ ClaimCell(s) \/ FetchPage(s) \/ LeavePageLoop(s) \/ CheckItem(s) \/ PersistItem(s)
  \/ ScheduleAnalysis(s) \/ FinishPage(s) \/ CloseCell(s) \/ CancelCell(s) \/ FailRun(s)
  \/ FinalCheck(s) \/ CommitRun(s) \/ Disturb(s)

\* Only CompleteCell changes what is completed, and it adds the cell in hand.
LEMMA CompletedAdds ==
  ASSUME TypeOK, NEW s \in Workers, CompleteCell(s)
  PROVE  Completed' = Completed \union {cur[s].cell}
<1> DEFINE c == cur[s].cell
<1>1. c \in Cells /\ cell \in CellRows
  BY DEF TypeOK, Position, CellRow, CellRows
<1>2. cell' = [cell EXCEPT ![c].status = "COMPLETED", ![c].token = FALSE]
  BY DEF CompleteCell
<1>3. \A d \in Cells : cell'[d].status = IF d = c THEN "COMPLETED" ELSE cell[d].status
  BY <1>1, <1>2 DEF CellRow, CellRows
<1> QED BY <1>1, <1>3 DEF Completed

LEMMA CompletedStays ==
  ASSUME TypeOK, NEW s \in Workers, Sole(s), Others(s)
  PROVE  Completed' = Completed
<1> DEFINE c == cur[s].cell
<1>1. c \in Cells /\ cell \in CellRows
  BY DEF TypeOK, Position, CellRow, CellRows
<1>2. ASSUME NEW status, status # "COMPLETED", c \notin Completed,
             cell' = [cell EXCEPT ![c].status = status]
      PROVE  Completed' = Completed
  <2>1. \A d \in Cells : cell'[d].status = IF d = c THEN status ELSE cell[d].status
    BY <1>1, <1>2 DEF CellRow, CellRows
  <2> QED BY <1>1, <1>2, <2>1 DEF Completed
<1>3. CASE ClaimCell(s)
  <2>1. pc[s] = "claim" /\ cell' = [cell EXCEPT ![c].status = "RUNNING"]
    BY <1>3 DEF ClaimCell, At
  <2>2. c \notin Completed
    BY <2>1 DEF Sole, Holds, InProgress
  <2> QED BY <1>2, <2>1, <2>2
<1>4. CASE FinishPage(s)
  <2>1. \A d \in Cells : cell'[d].status = cell[d].status
    BY <1>1, <1>4 DEF FinishPage, CellRow, CellRows
  <2> QED BY <2>1 DEF Completed
<1>5. CASE CancelCell(s) \/ FailCell(s)
  <2>1. c \notin Completed
    BY <1>5 DEF CancelCell, FailCell, At, InCell, Sole, Holds, InProgress
  <2>2. \/ cell' = cell
        \/ \E status \in {"PENDING", "FAILED"} : cell' = [cell EXCEPT ![c].status = status]
    BY <1>5 DEF CancelCell, FailCell, Mark
  <2>3. CASE cell' = cell
    BY <2>3 DEF Completed
  <2> QED BY <1>2, <2>1, <2>2, <2>3
<1>6. CASE cell' = cell
  BY <1>6 DEF Completed
<1> QED BY <1>3, <1>4, <1>5, <1>6 DEF Others, Disturb, durable, LoadRun, MarkRunning, CreateGrid,
  ListCells, NextCell, FetchPage, LeavePageLoop, CheckItem, PersistItem, ScheduleAnalysis,
  CloseCell, FailRun, FinalCheck, CommitRun, Deliver, Crash, FailOutOfCell

\* The worker that is alone, through each of its other steps.
LEMMA SoleWorker ==
  ASSUME TypeOK, NEW s \in Workers, Sole(s), Others(s), Completed' = Completed
  PROVE  Sole(s)'
<1>a. /\ pc \in [Workers -> Labels] /\ todo \in [Workers -> SUBSET Position]
      /\ cur \in [Workers -> Position] /\ tally \in [Workers -> Nat]
  BY DEF TypeOK
<1>1. ASSUME pc'[s] \in {"idle", "load", "mark", "fail"} PROVE Sole(s)'
  BY <1>1 DEF Sole, Lists, Holds, Builds, Counts, InProgress
<1>2. CASE \/ LoadRun(s) \/ CancelCell(s) \/ FailRun(s) \/ CommitRun(s) \/ Disturb(s)
  BY <1>a, <1>1, <1>2 DEF LoadRun, CancelCell, FailRun, CommitRun, Disturb, Deliver, Crash,
    FailCell, FailOutOfCell, Goto
<1>3. CASE MarkRunning(s) \/ CreateGrid(s)
  BY <1>a, <1>3 DEF MarkRunning, CreateGrid, GridMissing, Goto, Sole, Lists, Holds, Builds,
    Counts, InProgress
<1>4. CASE ListCells(s)
  <2>1. /\ pc[s] = "list" /\ pc'[s] = "next" /\ grid' = grid
        /\ todo'[s] = {Snapshot(c) : c \in Unfinished}
    BY <1>a, <1>4 DEF ListCells, At, Goto, durable
  <2>2. \A t \in todo'[s] : t.cell \in Unfinished /\ t = Snapshot(t.cell)
    BY <2>1 DEF Snapshot
  <2>3. Lists(s)'
    BY <2>2 DEF Lists, Unfinished, Completed
  <2> QED BY <2>1, <2>3 DEF Sole, Holds, Builds, Counts, InProgress
<1>5. CASE NextCell(s)
  <2>1. /\ pc[s] = "next" /\ grid' = grid /\ grid /\ Lists(s)
    BY <1>5 DEF NextCell, At, durable, Sole, Builds
  <2>2. CASE Goto(s, "final")
    BY <1>a, <2>1, <2>2 DEF Goto, Sole, Lists, Holds, Builds, Counts, InProgress
  <2>3. ASSUME NEW t \in todo[s], cur' = [cur EXCEPT ![s] = t],
               todo' = [todo EXCEPT ![s] = @ \ {t}], Goto(s, "claim")
        PROVE  Sole(s)'
    <3>1. pc'[s] = "claim" /\ cur'[s] = t /\ todo'[s] = todo[s] \ {t}
      BY <1>a, <2>3 DEF Goto
    <3>2. Lists(s)'
      BY <2>1, <3>1 DEF Lists
    <3>3. Holds(s)'
      BY <2>1, <3>1 DEF Lists, Holds
    <3> QED BY <2>1, <3>1, <3>2, <3>3 DEF Sole, Builds, Counts
  <2> QED BY <1>5, <2>2, <2>3 DEF NextCell
<1>6. CASE \/ ClaimCell(s) \/ FetchPage(s) \/ LeavePageLoop(s) \/ CheckItem(s) \/ PersistItem(s)
           \/ ScheduleAnalysis(s) \/ FinishPage(s) \/ CloseCell(s)
  <2>1. pc[s] \in InProgress /\ grid' = grid
    BY <1>6 DEF ClaimCell, FetchPage, LeavePageLoop, CheckItem, PersistItem, ScheduleAnalysis,
      FinishPage, CloseCell, At, InProgress, durable
  <2>2. pc'[s] \in InProgress \union {"cancel"}
    BY <1>a, <1>6 DEF ClaimCell, FetchPage, LeavePageLoop, CheckItem, PersistItem,
      ScheduleAnalysis, FinishPage, CloseCell, At, Goto, InProgress
  <2>3. todo'[s] = todo[s] /\ cur'[s].cell = cur[s].cell
    BY <1>a, <1>6 DEF ClaimCell, FetchPage, LeavePageLoop, CheckItem, PersistItem,
      ScheduleAnalysis, FinishPage, CloseCell, Position, local
  <2> QED BY <2>1, <2>2, <2>3 DEF Sole, Lists, Holds, Builds, Counts, InProgress
<1>7. CASE FinalCheck(s)
  <2>1. /\ pc[s] = "final" /\ pc'[s] \in {"idle", "commit"} /\ grid' = grid
        /\ tally'[s] = Cardinality(Completed)
    BY <1>a, <1>7 DEF FinalCheck, At, Goto, durable
  <2> QED BY <2>1 DEF Sole, Lists, Holds, Builds, Counts, InProgress
<1> QED BY <1>2, <1>3, <1>4, <1>5, <1>6, <1>7 DEF Others

LEMMA SoleStep ==
  ASSUME Alone PROVE TypeOK /\ SoleInv /\ [Next]_vars => SoleInv' /\ Completed \subseteq Completed'
<1> SUFFICES ASSUME TypeOK, SoleInv, [Next]_vars PROVE SoleInv' /\ Completed \subseteq Completed'
  OBVIOUS
<1>1. CASE UNCHANGED vars \/ CancelRun \/ RetryRun
  <2>1. UNCHANGED <<cell, grid, done, todo, cur, tally, pc>>
    BY <1>1 DEF vars, durable, local, CancelRun, RetryRun
  <2> QED BY <2>1 DEF SoleInv, GridDoneExact, Sole, Lists, Holds, Builds, Counts, Completed
<1>2. ASSUME NEW s \in Workers, Work(s) \/ Disturb(s)
      PROVE  SoleInv' /\ Completed \subseteq Completed'
  <2>a. Workers = {s} /\ Sole(s) /\ GridDoneExact /\ (~grid => Completed = {})
    BY DEF Alone, SoleInv
  <2>1. CASE CompleteCell(s)
    <3>1. Completed' = Completed \union {cur[s].cell}
      BY <2>1, CompletedAdds
    <3>2. /\ pc[s] = "complete" /\ pc'[s] = "next" /\ grid' = grid /\ done' = done + 1
          /\ todo'[s] = todo[s]
      BY <2>1 DEF CompleteCell, At, Goto, local, TypeOK
    <3>3. Lists(s) /\ grid /\ cur[s].cell \notin Completed /\ \A t \in todo[s] : t.cell # cur[s].cell
      BY <2>a, <3>2 DEF Sole, Holds, Builds, InProgress
    <3>4. Sole(s)'
      BY <3>1, <3>2, <3>3 DEF Sole, Lists, Holds, Builds, Counts, InProgress
    <3>5. GridDoneExact'
      <4>1. Completed \subseteq Cells
        BY DEF Completed
      <4>2. IsFiniteSet(Completed)
        BY <4>1, ConstantsAssumption, FS_Subset DEF ConstantsAssumption
      <4>3. Cardinality(Completed') = Cardinality(Completed) + 1
        BY <3>1, <3>3, <4>2, FS_AddElement
      <4> QED BY <2>a, <3>2, <4>3 DEF GridDoneExact
    <3> QED BY <2>a, <3>1, <3>2, <3>3, <3>4, <3>5 DEF SoleInv
  <2>2. CASE Others(s)
    <3>1. Completed' = Completed
      BY <2>2, <2>a, CompletedStays
    <3>2. Sole(s)'
      BY <2>2, <2>a, <3>1, SoleWorker
    <3>3. (~grid' => Completed' = {}) /\ GridDoneExact'
      <4>1. CASE CreateGrid(s)
        <5>1. grid' = TRUE /\ done' = 0 /\ ~grid
          BY <2>a, <4>1 DEF CreateGrid, At, Sole, Builds
        <5> QED BY <2>a, <3>1, <5>1, FS_EmptySet DEF GridDoneExact
      <4>2. CASE CommitRun(s)
        BY <2>a, <3>1, <4>2 DEF CommitRun, At, Sole, Counts, GridDoneExact
      <4>3. CASE grid' = grid /\ done' = done
        BY <2>a, <3>1, <4>3 DEF GridDoneExact
      <4> QED BY <2>2, <4>1, <4>2, <4>3 DEF Others, Disturb, durable, LoadRun, MarkRunning,
        ListCells, NextCell, ClaimCell, FetchPage, LeavePageLoop, CheckItem, PersistItem,
        ScheduleAnalysis, FinishPage, CloseCell, CancelCell, FailRun, FinalCheck, Deliver, Crash,
        FailCell, FailOutOfCell
    <3> QED BY <2>a, <3>1, <3>2, <3>3 DEF SoleInv
  <2> QED BY <1>2, <2>1, <2>2 DEF Work, Others
<1> QED BY <1>1, <1>2 DEF Next

\* gridCellsCompleted is the number of completed cells as long as BullMQ hands the job to
\* one worker at a time.
THEOREM GridDoneIsExact == ASSUME Alone PROVE Spec => []GridDoneExact
<1>1. Init => TypeInv /\ SoleInv
  BY TypeInit, SoleInit
<1>2. TypeInv /\ SoleInv /\ [Next]_vars => TypeInv' /\ SoleInv'
  BY TypeStep, SoleStep DEF TypeInv
<1>3. SoleInv => GridDoneExact
  BY DEF SoleInv
<1> QED BY <1>1, <1>2, <1>3, PTL DEF Spec

\* Under the same condition no step, not even a failure, takes a cell out of COMPLETED.
THEOREM CompletedCellsStay == ASSUME Alone PROVE Spec => CompletedCellsNotRedone
<1>1. Init => TypeInv /\ SoleInv
  BY TypeInit, SoleInit
<1>2. TypeInv /\ SoleInv /\ [Next]_vars => TypeInv' /\ SoleInv'
  BY TypeStep, SoleStep DEF TypeInv
<1>3. TypeInv /\ SoleInv /\ [Next]_vars => [Completed \subseteq Completed']_cell
  BY SoleStep DEF TypeInv
<1> QED BY <1>1, <1>2, <1>3, PTL DEF Spec, CompletedCellsNotRedone

-----------------------------------------------------------------------------
(* The sum along the pages.                                                *)

LEMMA LeastNumber ==
  ASSUME NEW T, T \subseteq Nat, T # {}
  PROVE  \E n \in T : \A m \in T : n <= m
<1>1. PICK n \in T : \A m \in T : <<m, n>> \notin OpToRel(<, Nat)
  BY NatLessThanWellFounded, WFMin, Zenon
<1>2. \A m \in T : ~(m < n)
  BY <1>1, Zenon DEF OpToRel
<1> QED BY <1>2

\* Induction, stated for sets.
LEMMA SetInduction ==
  ASSUME NEW A, 0 \in A, \A n \in Nat : n \in A => n + 1 \in A
  PROVE  Nat \subseteq A
<1>1. SUFFICES ASSUME Nat \ A # {} PROVE FALSE
  OBVIOUS
<1>2. PICK n \in Nat \ A : \A m \in Nat \ A : n <= m
  BY <1>1, LeastNumber
<1>3. n - 1 \in Nat /\ n - 1 \in A
  BY <1>2
<1> QED BY <1>2, <1>3

Row(n, before) ==
  [c \in Cells |-> IF n = 0 THEN 0 ELSE Cardinality(Listing[c][n]) + before[c]]

\* A function that satisfies the recursion up to MaxPages exists, ...
LEMMA SumsExist == \E f : f = [n \in 0..MaxPages |-> Row(n, f[n - 1])]
<1> DEFINE A == {k \in Nat : \E f : f = [n \in 0..k |-> Row(n, f[n - 1])]}
<1>1. 0 \in A
  <2> DEFINE f == [n \in 0..0 |-> Row(n, 0)]
  <2>1. Row(0, f[0 - 1]) = Row(0, 0)
    BY DEF Row
  <2>2. f = [n \in 0..0 |-> Row(n, f[n - 1])]
    BY <2>1
  <2> QED BY <2>2
<1>2. ASSUME NEW k \in Nat, k \in A PROVE k + 1 \in A
  <2>1. PICK g : g = [n \in 0..k |-> Row(n, g[n - 1])]
    BY <1>2
  <2> DEFINE f == [n \in 0..k + 1 |-> IF n <= k THEN g[n] ELSE Row(n, g[k])]
  <2>2. ASSUME NEW n \in 0..k + 1 PROVE f[n] = Row(n, f[n - 1])
    <3>1. CASE n = 0
      <4>1. f[n] = Row(0, g[0 - 1])
        BY <2>1, <3>1
      <4> QED BY <3>1, <4>1 DEF Row
    <3>2. CASE n # 0 /\ n <= k
      <4>1. f[n - 1] = g[n - 1] /\ f[n] = g[n] /\ n \in 0..k
        BY <3>2
      <4> QED BY <2>1, <4>1
    <3>3. CASE n = k + 1
      <4>1. f[n - 1] = g[k] /\ f[n] = Row(n, g[k])
        BY <3>3
      <4> QED BY <4>1
    <3> QED BY <3>1, <3>2, <3>3
  <2>3. f = [n \in 0..k + 1 |-> Row(n, f[n - 1])]
    BY <2>2
  <2> HIDE DEF f
  <2>4. \E h : h = [n \in 0..k + 1 |-> Row(n, h[n - 1])]
    BY <2>3
  <2> QED BY <2>4
<1> HIDE DEF A
<1>3. MaxPages \in A
  BY <1>1, <1>2, SetInduction, ConstantsAssumption DEF ConstantsAssumption
<1> QED BY <1>3 DEF A

\* ... so that the one that ResultsUpTo names satisfies it.
LEMMA SumsAreSums ==
  ASSUME NEW c \in Cells
  PROVE  /\ ResultsUpTo[0][c] = 0
         /\ \A n \in 1..MaxPages :
              ResultsUpTo[n][c] = Cardinality(Listing[c][n]) + ResultsUpTo[n - 1][c]
<1>1. ResultsUpTo = [n \in 0..MaxPages |-> Row(n, ResultsUpTo[n - 1])]
  BY SumsExist DEF ResultsUpTo, Row
<1>2. \A n \in 0..MaxPages : ResultsUpTo[n] = Row(n, ResultsUpTo[n - 1])
  <2> DEFINE F == ResultsUpTo
  <2>1. F = [n \in 0..MaxPages |-> Row(n, F[n - 1])]
    BY <1>1
  <2> HIDE DEF F
  <2>2. \A n \in 0..MaxPages : F[n] = Row(n, F[n - 1])
    BY <2>1
  <2> QED BY <2>2 DEF F
<1>3. 0 \in 0..MaxPages /\ \A n \in 1..MaxPages : n \in 0..MaxPages /\ n # 0
  BY ConstantsAssumption DEF ConstantsAssumption
<1>4. \A n \in 0..MaxPages : ResultsUpTo[n][c] =
        IF n = 0 THEN 0 ELSE Cardinality(Listing[c][n]) + ResultsUpTo[n - 1][c]
  BY <1>2 DEF Row
<1> QED BY <1>3, <1>4

\* What a worker that is alone knows of the cells is what their rows say.
PagesCurrent(s) ==
  /\ pc[s] \in InProgress => cur[s].page = cell[cur[s].cell].page
  /\ pc[s] \in Reading => cur[s].page < MaxPages
  /\ pc[s] \in InProgress \union {"next"} => \A t \in todo[s] : t.page = cell[t.cell].page

PagesInv ==
  /\ ResultsFoundExact
  /\ \A c \in Cells : cell[c].page <= MaxPages
  /\ \A s \in Workers : PagesCurrent(s)

LEMMA PagesInit == Init => PagesInv
<1> SUFFICES ASSUME Init PROVE PagesInv
  OBVIOUS
<1>1. \A c \in Cells : cell[c].page = 0 /\ cell[c].found = 0
  BY DEF Init
<1>2. ResultsFoundExact
  BY <1>1, SumsAreSums DEF ResultsFoundExact
<1>3. \A s \in Workers : pc[s] = "idle"
  BY DEF Init
<1> QED BY <1>1, <1>2, <1>3, ConstantsAssumption
        DEF PagesInv, PagesCurrent, InProgress, Reading, ConstantsAssumption

\* Every step but FinishPage leaves the page and the results of each cell.
LEMMA PagesStay ==
  ASSUME TypeOK, NEW s \in Workers, Others(s) \/ CompleteCell(s), ~FinishPage(s)
  PROVE  \A d \in Cells : cell'[d].page = cell[d].page /\ cell'[d].found = cell[d].found
<1>1. cur[s].cell \in Cells /\ cell \in CellRows
  BY DEF TypeOK, Position, CellRow, CellRows
<1>2. ASSUME NEW status, cell' = [cell EXCEPT ![cur[s].cell].status = status]
      PROVE  \A d \in Cells : cell'[d].page = cell[d].page /\ cell'[d].found = cell[d].found
  BY <1>1, <1>2 DEF CellRow, CellRows
<1>3. CASE ClaimCell(s)
  BY <1>2, <1>3 DEF ClaimCell
<1>4. CASE CancelCell(s) \/ FailCell(s)
  BY <1>2, <1>4 DEF CancelCell, FailCell, Mark
<1>5. CASE CompleteCell(s)
  BY <1>1, <1>5 DEF CompleteCell, CellRow, CellRows
<1>6. CASE UNCHANGED cell
  BY <1>6
<1> QED BY <1>3, <1>4, <1>5, <1>6 DEF Others, Disturb, durable, LoadRun, MarkRunning, CreateGrid,
  ListCells, NextCell, FetchPage, LeavePageLoop, CheckItem, PersistItem, ScheduleAnalysis,
  CloseCell, FailRun, FinalCheck, CommitRun, Deliver, Crash, FailOutOfCell

LEMMA PagesWorker ==
  ASSUME TypeOK, NEW s \in Workers, PagesCurrent(s), Others(s) \/ CompleteCell(s), ~FinishPage(s),
         \A d \in Cells : cell'[d].page = cell[d].page
  PROVE  PagesCurrent(s)'
<1>a. /\ pc \in [Workers -> Labels] /\ todo \in [Workers -> SUBSET Position]
      /\ cur \in [Workers -> Position] /\ cur[s].cell \in Cells
      /\ \A t \in todo[s] : t.cell \in Cells
  BY DEF TypeOK, Position
<1>1. ASSUME pc'[s] \notin InProgress \union {"next"} PROVE PagesCurrent(s)'
  BY <1>1 DEF PagesCurrent, InProgress, Reading
<1>2. CASE \/ LoadRun(s) \/ MarkRunning(s) \/ CreateGrid(s) \/ CancelCell(s) \/ FailRun(s)
           \/ FinalCheck(s) \/ CommitRun(s) \/ Disturb(s)
  BY <1>a, <1>1, <1>2 DEF LoadRun, MarkRunning, CreateGrid, CancelCell, FailRun, FinalCheck,
    CommitRun, Disturb, Deliver, Crash, FailCell, FailOutOfCell, Goto, InProgress
<1>3. CASE ListCells(s)
  <2>1. pc'[s] = "next" /\ todo'[s] = {Snapshot(c) : c \in Unfinished}
    BY <1>a, <1>3 DEF ListCells, Goto
  <2>2. \A t \in todo'[s] : t.cell \in Cells /\ t.page = cell[t.cell].page
    BY <2>1 DEF Snapshot, Unfinished
  <2> QED BY <2>1, <2>2 DEF PagesCurrent, InProgress, Reading
<1>4. CASE NextCell(s)
  <2>1. pc[s] = "next"
    BY <1>4 DEF NextCell, At
  <2>2. ASSUME NEW t \in todo[s], cur' = [cur EXCEPT ![s] = t],
               todo' = [todo EXCEPT ![s] = @ \ {t}], Goto(s, "claim")
        PROVE  PagesCurrent(s)'
    <3>1. pc'[s] = "claim" /\ cur'[s] = t /\ todo'[s] = todo[s] \ {t}
      BY <1>a, <2>2 DEF Goto
    <3> QED BY <1>a, <2>1, <3>1 DEF PagesCurrent, InProgress, Reading
  <2>3. CASE Goto(s, "final")
    BY <1>a, <1>1, <2>3 DEF Goto, InProgress
  <2> QED BY <1>4, <2>2, <2>3 DEF NextCell
<1>5. CASE FetchPage(s)
  <2>1. /\ pc[s] = "page" /\ cur'[s] = cur[s] /\ todo'[s] = todo[s]
        /\ cur[s].page < MaxPages /\ pc'[s] \in {"cancel", "items"}
    BY <1>a, <1>5 DEF FetchPage, At, Goto, PageLoopGoesOn
  <2> QED BY <1>a, <2>1 DEF PagesCurrent, InProgress, Reading
<1>6. CASE CheckItem(s) \/ PersistItem(s) \/ ScheduleAnalysis(s)
  <2>1. /\ pc[s] \in Reading /\ pc'[s] \in Reading /\ cur'[s] = cur[s] /\ todo'[s] = todo[s]
    BY <1>a, <1>6 DEF CheckItem, PersistItem, ScheduleAnalysis, At, Goto, Reading, local
  <2> QED BY <1>a, <2>1 DEF PagesCurrent, InProgress, Reading
<1>7. CASE ClaimCell(s) \/ LeavePageLoop(s) \/ CloseCell(s) \/ CompleteCell(s)
  <2>1. /\ pc[s] \in InProgress /\ cur'[s] = cur[s] /\ todo'[s] = todo[s]
        /\ pc'[s] \in {"page", "close", "cancel", "complete", "next"}
    BY <1>a, <1>7 DEF ClaimCell, LeavePageLoop, CloseCell, CompleteCell, At, Goto, InProgress,
      local
  <2> QED BY <1>a, <2>1 DEF PagesCurrent, InProgress, Reading
<1> QED BY <1>2, <1>3, <1>4, <1>5, <1>6, <1>7 DEF Others

\* The page after the one the row counts is added to it, and to the row's position.
LEMMA FinishPageAdds ==
  ASSUME TypeInv, PagesInv, NEW s \in Workers, Holds(s), FinishPage(s)
  PROVE  /\ ResultsFoundExact' /\ \A d \in Cells : cell'[d].page <= MaxPages
         /\ PagesCurrent(s)'
<1> DEFINE c == cur[s].cell
           p == cur[s].page + 1
<1>a. /\ pc \in [Workers -> Labels] /\ todo \in [Workers -> SUBSET Position]
      /\ cur \in [Workers -> Position] /\ cell \in CellRows /\ c \in Cells /\ cur[s].page \in Nat
      /\ \A t \in todo[s] : t.cell \in Cells
  BY DEF TypeInv, TypeOK, Position, CellRow, CellRows
<1>1. /\ pc[s] = "items" /\ pc'[s] = "page" /\ cur'[s].page = p /\ cur'[s].cell = c
      /\ todo'[s] = todo[s]
  BY <1>a DEF FinishPage, At, Goto, Position
<1>2. cell' = [cell EXCEPT ![c].page = p, ![c].token = HasMore(c, p),
                           ![c].found = @ + Cardinality(Listing[c][p])]
  BY DEF FinishPage
<1>3. /\ cell'[c].page = p /\ cell'[c].found = cell[c].found + Cardinality(Listing[c][p])
      /\ \A d \in Cells : d # c => cell'[d] = cell[d]
  BY <1>a, <1>2 DEF CellRow, CellRows
<1>4. cur[s].page = cell[c].page /\ p \in 1..MaxPages
  BY <1>a, <1>1, ConstantsAssumption
  DEF PagesInv, PagesCurrent, InProgress, Reading, ConstantsAssumption
<1>5. cell[c].found \in Nat /\ Cardinality(Listing[c][p]) \in Nat
  <2>1. HasMore(c, cur[s].page)
    BY <1>1 DEF TypeInv, PagesExist, Reading
  <2> QED BY <1>a, <2>1, NextPage DEF CellRow, CellRows
<1>6. ResultsFoundExact'
  <2>1. cell[c].found = ResultsUpTo[p - 1][c]
    BY <1>a, <1>4 DEF PagesInv, ResultsFoundExact
  <2>2. cell'[c].found = ResultsUpTo[p][c]
    BY <1>a, <1>3, <1>4, <1>5, <2>1, SumsAreSums
  <2>3. \A d \in Cells : d # c => cell'[d].found = ResultsUpTo[cell'[d].page][d]
    BY <1>3 DEF PagesInv, ResultsFoundExact
  <2> QED BY <1>3, <2>2, <2>3 DEF ResultsFoundExact
<1>7. \A d \in Cells : cell'[d].page <= MaxPages
  BY <1>3, <1>4 DEF PagesInv
<1>8. PagesCurrent(s)'
  <2>1. \A t \in todo[s] : t.cell # c /\ t.page = cell[t.cell].page
    BY <1>1 DEF Holds, PagesInv, PagesCurrent, InProgress
  <2> QED BY <1>a, <1>1, <1>3, <2>1 DEF PagesCurrent, InProgress, Reading
<1> QED BY <1>6, <1>7, <1>8

LEMMA PagesStep ==
  ASSUME Alone PROVE TypeInv /\ SoleInv /\ PagesInv /\ [Next]_vars => PagesInv'
<1> SUFFICES ASSUME TypeInv, SoleInv, PagesInv, [Next]_vars PROVE PagesInv'
  OBVIOUS
<1>1. CASE UNCHANGED vars \/ CancelRun \/ RetryRun
  <2>1. UNCHANGED <<cell, todo, cur, pc>>
    BY <1>1 DEF vars, durable, local, CancelRun, RetryRun
  <2> QED BY <2>1 DEF PagesInv, ResultsFoundExact, PagesCurrent
<1>2. ASSUME NEW s \in Workers, Work(s) \/ Disturb(s) PROVE PagesInv'
  <2>a. Workers = {s} /\ Holds(s) /\ PagesCurrent(s)
    BY DEF Alone, SoleInv, Sole, PagesInv
  <2>1. CASE FinishPage(s)
    BY <2>a, <2>1, FinishPageAdds DEF PagesInv
  <2>2. CASE ~FinishPage(s)
    <3>1. Others(s) \/ CompleteCell(s)
      BY <1>2 DEF Work, Others
    <3>2. \A d \in Cells : cell'[d].page = cell[d].page /\ cell'[d].found = cell[d].found
      BY <2>2, <3>1, PagesStay DEF TypeInv
    <3>3. PagesCurrent(s)'
      BY <2>2, <2>a, <3>1, <3>2, PagesWorker DEF TypeInv
    <3> QED BY <2>a, <3>2, <3>3 DEF PagesInv, ResultsFoundExact
  <2> QED BY <2>1, <2>2
<1> QED BY <1>1, <1>2 DEF Next

\* Under the same condition resultsFound is the number of results of the pages passed: over
\* restarts and failures no page is skipped or counted twice.
THEOREM ResultsFoundIsExact == ASSUME Alone PROVE Spec => []ResultsFoundExact
<1>1. Init => TypeInv /\ SoleInv /\ PagesInv
  BY TypeInit, SoleInit, PagesInit
<1>2. TypeInv /\ SoleInv /\ PagesInv /\ [Next]_vars => TypeInv' /\ SoleInv' /\ PagesInv'
  BY TypeStep, SoleStep, PagesStep DEF TypeInv
<1>3. PagesInv => ResultsFoundExact
  BY DEF PagesInv
<1> QED BY <1>1, <1>2, <1>3, PTL DEF Spec

-----------------------------------------------------------------------------
(* A delivery comes to its end.                                            *)

\* An upper bound on the steps that a worker at a label still makes before it is idle, from
\* the number of cells it has not reached, the last page it has passed and the number of
\* results left of the one it reads.
PageCost     == 3 * Cardinality(Businesses) + 2
CellCost     == MaxPages * PageCost + 5
PagesLeft(n) == IF n < MaxPages THEN MaxPages - n ELSE 0
Beyond(m)    == 4 + m * CellCost
Listed       == 5 + Cardinality(Cells) * CellCost
InPage(m, n, k) == Beyond(m) + 4 + PagesLeft(n + 1) * PageCost + 3 * k

StepsFrom(label, m, n, k) ==
  CASE label = "idle"     -> 0
    [] label = "fail"     -> 1
    [] label = "cancel"   -> 1
    [] label = "commit"   -> 2
    [] label = "final"    -> 3
    [] label = "next"     -> Beyond(m)
    [] label = "complete" -> Beyond(m) + 1
    [] label = "close"    -> Beyond(m) + 2
    [] label = "page"     -> Beyond(m) + 3 + PagesLeft(n) * PageCost
    [] label = "items"    -> InPage(m, n, k)
    [] label = "analyse"  -> InPage(m, n, k) + 1
    [] label = "persist"  -> InPage(m, n, k) + 2
    [] label = "claim"    -> Beyond(m) + CellCost - 1
    [] label = "list"     -> Listed
    [] label = "create"   -> Listed + 1
    [] label = "mark"     -> Listed + 2
    [] label = "load"     -> Listed + 3

Rank(s) == StepsFrom(pc[s], Cardinality(todo[s]), cur[s].page, Cardinality(left[s]))

Stops(s) == Crash(s) \/ FailCell(s) \/ FailOutOfCell(s)

LEMMA Products ==
  /\ \A m, n \in Nat : m * n \in Nat /\ (m + 1) * n = m * n + n
  /\ \A l, m, n \in Nat : l <= m => l * n <= m * n
  OBVIOUS

LEMMA Costs ==
  /\ Cardinality(Businesses) \in Nat /\ Cardinality(Cells) \in Nat /\ MaxPages \in Nat
  /\ PageCost \in Nat /\ CellCost \in Nat /\ CellCost >= 5 /\ Listed \in Nat /\ Listed >= 5
  /\ \A m \in Nat : Beyond(m) \in Nat /\ Beyond(m) >= 4
  /\ \A n \in Nat : PagesLeft(n) \in Nat /\ PagesLeft(n) * PageCost \in Nat
  /\ \A m, n, k \in Nat : InPage(m, n, k) \in Nat /\ InPage(m, n, k) >= Beyond(m) + 4
<1>1. Cardinality(Businesses) \in Nat /\ Cardinality(Cells) \in Nat /\ MaxPages \in Nat
  BY ConstantsAssumption, FS_CardinalityType DEF ConstantsAssumption
<1>2. PageCost \in Nat
  BY <1>1 DEF PageCost
<1>3. CellCost \in Nat /\ CellCost >= 5
  <2>1. MaxPages * PageCost \in Nat
    BY <1>1, <1>2, Products
  <2> QED BY <2>1 DEF CellCost
<1>4. Listed \in Nat /\ Listed >= 5
  <2>1. Cardinality(Cells) * CellCost \in Nat
    BY <1>1, <1>3, Products
  <2> QED BY <2>1 DEF Listed
<1>5. ASSUME NEW m \in Nat PROVE Beyond(m) \in Nat /\ Beyond(m) >= 4
  <2>1. m * CellCost \in Nat
    BY <1>3, Products
  <2> QED BY <2>1 DEF Beyond
<1>6. ASSUME NEW n \in Nat PROVE PagesLeft(n) \in Nat /\ PagesLeft(n) * PageCost \in Nat
  <2>1. PagesLeft(n) \in Nat
    BY <1>1 DEF PagesLeft
  <2> QED BY <1>2, <2>1, Products
<1>7. ASSUME NEW m \in Nat, NEW n \in Nat, NEW k \in Nat
      PROVE  InPage(m, n, k) \in Nat /\ InPage(m, n, k) >= Beyond(m) + 4
  <2>1. Beyond(m) \in Nat /\ PagesLeft(n + 1) * PageCost \in Nat
    BY <1>5, <1>6
  <2> QED BY <2>1 DEF InPage
<1> QED BY <1>1, <1>2, <1>3, <1>4, <1>5, <1>6, <1>7

\* Whoever is not idle has steps to make.
LEMMA StepsTyped ==
  ASSUME NEW label \in Labels, NEW m \in Nat, NEW n \in Nat, NEW k \in Nat
  PROVE  /\ StepsFrom(label, m, n, k) \in Nat
         /\ StepsFrom(label, m, n, k) = 0 <=> label = "idle"
         /\ label \in InCell \union OutOfCell => StepsFrom(label, m, n, k) > 1
<1> DEFINE b == Beyond(m)
           i == InPage(m, n, k)
           q == PagesLeft(n) * PageCost
<1>1. /\ b \in Nat /\ b >= 4 /\ i \in Nat /\ i >= b + 4 /\ q \in Nat
      /\ CellCost \in Nat /\ CellCost >= 5 /\ Listed \in Nat /\ Listed >= 5
  BY Costs
<1> HIDE DEF b, i, q
<1>2. /\ b + 3 + q \in Nat /\ b + 3 + q > 1 /\ b + CellCost - 1 \in Nat /\ b + CellCost - 1 > 1
      /\ \A j \in {0, 1, 2, 3} : /\ b + j \in Nat /\ b + j > 1 /\ i + j \in Nat /\ i + j > 1
                                 /\ Listed + j \in Nat /\ Listed + j > 1
  BY <1>1
<1> QED BY <1>1, <1>2 DEF b, i, q, StepsFrom, Labels, InCell, OutOfCell

\* Through the grid and the list of cells, ...
LEMMA ToTheList ==
  ASSUME NEW m \in Nat, NEW n \in Nat, NEW k \in Nat, NEW u \in Nat, u <= Cardinality(Cells)
  PROVE  /\ StepsFrom("mark", m, n, k) < StepsFrom("load", m, n, k)
         /\ StepsFrom("create", m, n, k) < StepsFrom("mark", m, n, k)
         /\ StepsFrom("list", m, n, k) < StepsFrom("mark", m, n, k)
         /\ StepsFrom("list", m, n, k) < StepsFrom("create", m, n, k)
         /\ StepsFrom("next", u, n, k) < StepsFrom("list", m, n, k)
<1>1. Listed \in Nat /\ CellCost \in Nat /\ Cardinality(Cells) \in Nat /\ Beyond(u) \in Nat
  BY Costs
<1>2. Beyond(u) < Listed
  <2>1. /\ u * CellCost <= Cardinality(Cells) * CellCost
        /\ u * CellCost \in Nat /\ Cardinality(Cells) * CellCost \in Nat
    BY <1>1, Products
  <2> QED BY <2>1 DEF Beyond, Listed
<1> QED BY <1>1, <1>2 DEF StepsFrom

\* ... from one cell to the next, ...
LEMMA ToTheNext ==
  ASSUME NEW m \in Nat, NEW n \in Nat, NEW k \in Nat, NEW p \in Nat
  PROVE  /\ StepsFrom("claim", m, p, k) < StepsFrom("next", m + 1, n, k)
         /\ StepsFrom("page", m, n, k) < StepsFrom("claim", m, n, k)
         /\ StepsFrom("close", m, n, k) < StepsFrom("page", m, n, k)
         /\ StepsFrom("complete", m, n, k) < StepsFrom("close", m, n, k)
         /\ StepsFrom("next", m, n, k) < StepsFrom("complete", m, n, k)
         /\ StepsFrom("final", m, n, k) < StepsFrom("next", m, n, k)
<1> DEFINE b == Beyond(m)
           q == PagesLeft(n) * PageCost
<1>1. /\ b \in Nat /\ b >= 4 /\ q \in Nat /\ CellCost \in Nat /\ PageCost \in Nat
      /\ MaxPages \in Nat /\ PagesLeft(n) \in Nat
  BY Costs
<1>2. Beyond(m + 1) = b + CellCost
  <2>1. m * CellCost \in Nat /\ (m + 1) * CellCost = m * CellCost + CellCost
    BY <1>1, Products
  <2> QED BY <1>1, <2>1 DEF Beyond
<1>3. q + 5 <= CellCost
  <2>1. PagesLeft(n) <= MaxPages
    BY <1>1 DEF PagesLeft
  <2>2. q <= MaxPages * PageCost /\ MaxPages * PageCost \in Nat
    BY <1>1, <2>1, Products
  <2> QED BY <1>1, <2>2 DEF CellCost
<1> HIDE DEF b, q
<1>4. /\ b + CellCost - 1 < b + CellCost /\ b + 3 + q < b + CellCost - 1 /\ b + 2 < b + 3 + q
      /\ b + 1 < b + 2 /\ b < b + 1 /\ 3 < b
  BY <1>1, <1>3
<1> QED BY <1>2, <1>4 DEF b, q, StepsFrom

\* ... and through a page.
LEMMA ThroughThePage ==
  ASSUME NEW m \in Nat, NEW n \in Nat, NEW k \in Nat, NEW r \in Nat
  PROVE  /\ n < MaxPages /\ r <= Cardinality(Businesses) =>
              StepsFrom("items", m, n, r) < StepsFrom("page", m, n, k)
         /\ r < k => StepsFrom("items", m, n, r) < StepsFrom("items", m, n, k)
         /\ r < k => StepsFrom("persist", m, n, r) < StepsFrom("items", m, n, k)
         /\ StepsFrom("analyse", m, n, k) < StepsFrom("persist", m, n, k)
         /\ StepsFrom("items", m, n, k) < StepsFrom("persist", m, n, k)
         /\ StepsFrom("items", m, n, k) < StepsFrom("analyse", m, n, k)
         /\ StepsFrom("page", m, n + 1, k) < StepsFrom("items", m, n, k)
<1> DEFINE b == Beyond(m)
           q == PagesLeft(n) * PageCost
           q1 == PagesLeft(n + 1) * PageCost
<1>0. n + 1 \in Nat /\ PageCost = 3 * Cardinality(Businesses) + 2
  BY DEF PageCost
<1>1. /\ b \in Nat /\ q \in Nat /\ q1 \in Nat /\ PageCost \in Nat /\ MaxPages \in Nat
      /\ PagesLeft(n) \in Nat /\ PagesLeft(n + 1) \in Nat /\ Cardinality(Businesses) \in Nat
  BY <1>0, Costs
<1>2. n < MaxPages => q = q1 + PageCost
  <2>1. n < MaxPages => PagesLeft(n) = PagesLeft(n + 1) + 1
    BY <1>1 DEF PagesLeft
  <2> QED BY <1>1, <2>1, Products
<1> HIDE DEF b, q, q1
<1>3. /\ n < MaxPages /\ r <= Cardinality(Businesses) => b + 4 + q1 + 3 * r < b + 3 + q
      /\ r < k => /\ b + 4 + q1 + 3 * r < b + 4 + q1 + 3 * k
                  /\ b + 4 + q1 + 3 * r + 2 < b + 4 + q1 + 3 * k
      /\ b + 4 + q1 + 3 * k + 1 < b + 4 + q1 + 3 * k + 2
      /\ b + 4 + q1 + 3 * k < b + 4 + q1 + 3 * k + 2
      /\ b + 4 + q1 + 3 * k < b + 4 + q1 + 3 * k + 1
      /\ b + 3 + q1 < b + 4 + q1 + 3 * k
  BY <1>0, <1>1, <1>2
<1> QED BY <1>3 DEF b, q, q1, StepsFrom, InPage

FiniteLists == \A s \in Workers : IsFiniteSet(todo[s])

LEMMA SnapshotsFinite ==
  LET list == {Snapshot(c) : c \in Unfinished}
  IN  IsFiniteSet(list) /\ Cardinality(list) <= Cardinality(Cells)
<1> DEFINE list == {Snapshot(c) : c \in Unfinished}
           f == [c \in Unfinished |-> Snapshot(c)]
<1>1. Unfinished \subseteq Cells /\ IsFiniteSet(Cells)
  BY ConstantsAssumption DEF Unfinished, ConstantsAssumption
<1>2. /\ IsFiniteSet(Unfinished) /\ Cardinality(Unfinished) <= Cardinality(Cells)
      /\ Cardinality(Unfinished) \in Nat /\ Cardinality(Cells) \in Nat
  BY <1>1, FS_Subset, FS_CardinalityType
<1>3. f \in Surjection(Unfinished, list)
  BY DEF Surjection
<1>4. IsFiniteSet(list) /\ Cardinality(list) <= Cardinality(Unfinished)
  BY <1>2, <1>3, FS_Surjection
<1>5. Cardinality(list) \in Nat
  BY <1>4, FS_CardinalityType
<1> QED BY <1>2, <1>4, <1>5

\* Of the cells in a list one comes first: a worker in its cell loop never waits.
FirstCell(s) ==
  pc[s] = "next" => todo[s] = {} \/ \E t \in todo[s] : \A u \in todo[s] : t.cell <= u.cell

LEMMA FirstCellFound ==
  ASSUME TypeOK, NEW s \in Workers
  PROVE  FirstCell(s)
<1> SUFFICES ASSUME todo[s] # {} PROVE \E t \in todo[s] : \A u \in todo[s] : t.cell <= u.cell
  BY DEF FirstCell
<1> DEFINE numbers == {t.cell : t \in todo[s]}
<1>1. ASSUME NEW t \in todo[s] PROVE t.cell \in Nat
  <2>1. t \in Position
    BY DEF TypeOK
  <2> QED BY <2>1, ConstantsAssumption DEF Position, ConstantsAssumption
<1>2. numbers \subseteq Nat /\ numbers # {}
  BY <1>1
<1>3. PICK n \in numbers : \A m \in numbers : n <= m
  BY <1>2, LeastNumber
<1>4. PICK t \in todo[s] : t.cell = n
  OBVIOUS
<1> QED BY <1>3, <1>4

\* Every step of a worker, and every failure or stop, lowers its rank.
LEMMA StepLowers ==
  ASSUME TypeOK, TypeOK', FiniteLists, NEW s \in Workers, Work(s) \/ Stops(s)
  PROVE  /\ Rank(s)' < Rank(s)
         /\ IsFiniteSet(todo'[s])
<1> DEFINE m == Cardinality(todo[s])
           n == cur[s].page
           k == Cardinality(left[s])
<1>a. /\ pc \in [Workers -> Labels] /\ todo \in [Workers -> SUBSET Position]
      /\ cur \in [Workers -> Position] /\ left \in [Workers -> SUBSET Businesses]
      /\ IsFiniteSet(todo[s]) /\ IsFiniteSet(left[s])
      /\ n \in Nat /\ m \in Nat /\ k \in Nat
  <2>1. left[s] \subseteq Businesses /\ cur[s] \in Position
    BY DEF TypeOK
  <2>2. IsFiniteSet(left[s]) /\ IsFiniteSet(todo[s])
    BY <2>1, ConstantsAssumption, FS_Subset DEF ConstantsAssumption, FiniteLists
  <2> QED BY <2>1, <2>2, FS_CardinalityType DEF TypeOK, Position
<1> HIDE DEF m, n, k
<1>b. Rank(s) = StepsFrom(pc[s], m, n, k)
  BY DEF Rank, m, n, k
\* The steps that change nothing but the label.
<1>1. ASSUME UNCHANGED <<todo[s], cur[s], left[s]>>
      PROVE  Rank(s)' = StepsFrom(pc'[s], m, n, k) /\ IsFiniteSet(todo'[s])
  BY <1>a, <1>1 DEF Rank, m, n, k
<1>2. CASE \/ LoadRun(s) \/ MarkRunning(s) \/ CreateGrid(s) \/ ClaimCell(s) \/ LeavePageLoop(s)
           \/ PersistItem(s) \/ ScheduleAnalysis(s) \/ CloseCell(s) \/ CompleteCell(s)
           \/ CancelCell(s) \/ FailRun(s) \/ FinalCheck(s) \/ CommitRun(s) \/ Stops(s)
  <2>1. UNCHANGED <<todo[s], cur[s], left[s]>>
    BY <1>2 DEF LoadRun, MarkRunning, CreateGrid, ClaimCell, LeavePageLoop, PersistItem,
      ScheduleAnalysis, CloseCell, CompleteCell, CancelCell, FailRun, FinalCheck, CommitRun,
      Stops, Crash, FailCell, FailOutOfCell, local
  <2>2. \/ pc'[s] = "idle" /\ pc[s] # "idle"
        \/ pc'[s] = "fail" /\ pc[s] \in InCell \union OutOfCell
        \/ pc'[s] = "cancel" /\ pc[s] = "close"
        \/ pc'[s] = "commit" /\ pc[s] = "final"
        \/ <<pc[s], pc'[s]>> \in {<<"load", "mark">>, <<"mark", "create">>, <<"mark", "list">>,
             <<"create", "list">>, <<"claim", "page">>, <<"page", "close">>,
             <<"close", "complete">>, <<"complete", "next">>, <<"persist", "analyse">>,
             <<"persist", "items">>, <<"analyse", "items">>}
    BY <1>a, <1>2 DEF LoadRun, MarkRunning, CreateGrid, ClaimCell, LeavePageLoop, PersistItem,
      ScheduleAnalysis, CloseCell, CompleteCell, CancelCell, FailRun, FinalCheck, CommitRun,
      Stops, Crash, FailCell, FailOutOfCell, At, Goto
  <2>3. /\ \A label \in Labels : /\ StepsFrom(label, m, n, k) \in Nat
                                 /\ label # "idle" => StepsFrom(label, m, n, k) # 0
                                 /\ label \in InCell \union OutOfCell => StepsFrom(label, m, n, k) > 1
        /\ StepsFrom("idle", m, n, k) = 0 /\ StepsFrom("fail", m, n, k) = 1
        /\ StepsFrom("cancel", m, n, k) = 1
        /\ StepsFrom("commit", m, n, k) = 2 /\ StepsFrom("final", m, n, k) = 3
    <3>1. /\ StepsFrom("idle", m, n, k) = 0 /\ StepsFrom("fail", m, n, k) = 1
          /\ StepsFrom("cancel", m, n, k) = 1
          /\ StepsFrom("commit", m, n, k) = 2 /\ StepsFrom("final", m, n, k) = 3
      BY DEF StepsFrom
    <3> QED BY <1>a, <3>1, StepsTyped
  <2>4. pc[s] \in Labels /\ "close" \in InCell /\ 0 \in Nat /\ 0 <= Cardinality(Cells)
    BY <1>a, Costs DEF InCell
  <2>5. StepsFrom(pc'[s], m, n, k) < StepsFrom(pc[s], m, n, k)
    <3>1. CASE pc'[s] = "idle" /\ pc[s] # "idle"
      BY <2>3, <2>4, <3>1
    <3>2. CASE \/ pc'[s] = "fail" /\ pc[s] \in InCell \union OutOfCell
               \/ pc'[s] = "cancel" /\ pc[s] = "close"
               \/ pc'[s] = "commit" /\ pc[s] = "final"
      BY <2>3, <2>4, <3>2
    <3>3. CASE <<pc[s], pc'[s]>> \in {<<"load", "mark">>, <<"mark", "create">>,
                 <<"mark", "list">>, <<"create", "list">>}
      BY <1>a, <2>4, <3>3, ToTheList
    <3>4. CASE <<pc[s], pc'[s]>> \in {<<"claim", "page">>, <<"page", "close">>,
                 <<"close", "complete">>, <<"complete", "next">>}
      BY <1>a, <3>4, ToTheNext
    <3>5. CASE <<pc[s], pc'[s]>> \in {<<"persist", "analyse">>, <<"persist", "items">>,
                 <<"analyse", "items">>}
      BY <1>a, <3>5, ThroughThePage
    <3> QED BY <2>2, <3>1, <3>2, <3>3, <3>4, <3>5
  <2> QED BY <1>1, <1>b, <2>1, <2>5
<1>3. CASE ListCells(s)
  <2>1. /\ pc[s] = "list" /\ pc'[s] = "next" /\ cur'[s] = cur[s] /\ left'[s] = left[s]
        /\ todo'[s] = {Snapshot(c) : c \in Unfinished}
    BY <1>a, <1>3 DEF ListCells, At, Goto
  <2>2. IsFiniteSet(todo'[s]) /\ Cardinality(todo'[s]) <= Cardinality(Cells)
    BY <2>1, SnapshotsFinite
  <2>3. Cardinality(todo'[s]) \in Nat
    BY <2>2, FS_CardinalityType
  <2>4. Rank(s)' = StepsFrom("next", Cardinality(todo'[s]), n, k)
    BY <2>1 DEF Rank, n, k
  <2> QED BY <1>a, <1>b, <2>1, <2>2, <2>3, <2>4, ToTheList
<1>4. CASE NextCell(s)
  <2>1. pc[s] = "next" /\ left'[s] = left[s]
    BY <1>4 DEF NextCell, At
  <2>2. CASE Goto(s, "final") /\ UNCHANGED <<todo, cur>>
    BY <1>a, <1>b, <1>1, <2>1, <2>2, ToTheNext DEF Goto
  <2>3. ASSUME NEW t \in todo[s], cur' = [cur EXCEPT ![s] = t],
               todo' = [todo EXCEPT ![s] = @ \ {t}], Goto(s, "claim")
        PROVE  Rank(s)' < Rank(s) /\ IsFiniteSet(todo'[s])
    <3>1. pc'[s] = "claim" /\ cur'[s] = t /\ todo'[s] = todo[s] \ {t} /\ t.page \in Nat
      BY <1>a, <2>3 DEF Goto, Position
    <3>2. IsFiniteSet(todo'[s]) /\ Cardinality(todo'[s]) = m - 1
      BY <1>a, <3>1, FS_RemoveElement DEF m
    <3>3. Cardinality(todo'[s]) \in Nat
      BY <3>2, FS_CardinalityType
    <3>4. m = Cardinality(todo'[s]) + 1
      BY <1>a, <3>2, <3>3
    <3>5. Rank(s)' = StepsFrom("claim", Cardinality(todo'[s]), t.page, k)
      BY <2>1, <3>1 DEF Rank, k
    <3> QED BY <1>a, <1>b, <2>1, <3>1, <3>2, <3>3, <3>4, <3>5, ToTheNext
  <2> QED BY <1>4, <2>2, <2>3 DEF NextCell
<1>5. CASE FetchPage(s)
  <2>1. pc[s] = "page" /\ n < MaxPages /\ UNCHANGED <<todo, cur>>
    BY <1>5 DEF FetchPage, At, PageLoopGoesOn, n
  <2>2. CASE Goto(s, "cancel") /\ UNCHANGED left
    <3>1. StepsFrom("cancel", m, n, k) = 1 /\ StepsFrom("page", m, n, k) > 1
      <4>1. StepsFrom("cancel", m, n, k) = 1
        BY DEF StepsFrom
      <4> QED BY <1>a, <4>1, StepsTyped DEF Labels, InCell
    <3> QED BY <1>a, <1>b, <1>1, <2>1, <2>2, <3>1 DEF Goto
  <2>3. CASE Goto(s, "items")
    <3>1. left'[s] \subseteq Businesses
      BY DEF TypeOK
    <3>2. /\ Cardinality(left'[s]) \in Nat
          /\ Cardinality(left'[s]) <= Cardinality(Businesses)
      BY <3>1, ConstantsAssumption, FS_Subset, FS_CardinalityType DEF ConstantsAssumption
    <3>3. Rank(s)' = StepsFrom("items", m, n, Cardinality(left'[s]))
      BY <1>a, <2>1, <2>3 DEF Rank, Goto, m, n
    <3> QED BY <1>a, <1>b, <2>1, <3>2, <3>3, ThroughThePage
  <2> QED BY <1>5, <2>2, <2>3 DEF FetchPage
<1>6. CASE CheckItem(s)
  <2>1. /\ pc[s] = "items" /\ pc'[s] \in {"items", "persist"} /\ UNCHANGED <<todo, cur>>
    BY <1>a, <1>6 DEF CheckItem, At, Goto
  <2>2. PICK b \in left[s] : left'[s] = left[s] \ {b}
    BY <1>a, <1>6 DEF CheckItem, Rest
  <2>3. IsFiniteSet(left'[s]) /\ Cardinality(left'[s]) = k - 1
    BY <1>a, <2>2, FS_RemoveElement DEF k
  <2>4. Cardinality(left'[s]) \in Nat
    BY <2>3, FS_CardinalityType
  <2>5. Cardinality(left'[s]) < k
    BY <1>a, <2>3
  <2>6. Rank(s)' = StepsFrom(pc'[s], m, n, Cardinality(left'[s]))
    BY <2>1 DEF Rank, m, n
  <2>7. Rank(s)' < Rank(s)
    BY <1>a, <1>b, <2>1, <2>4, <2>5, <2>6, ThroughThePage
  <2> QED BY <1>a, <2>1, <2>7
<1>7. CASE FinishPage(s)
  <2>1. /\ pc[s] = "items" /\ pc'[s] = "page" /\ cur'[s].page = n + 1 /\ UNCHANGED <<todo, left>>
    BY <1>a, <1>7 DEF FinishPage, At, Goto, Position, n
  <2>2. Rank(s)' = StepsFrom("page", m, n + 1, k)
    BY <2>1 DEF Rank, m, k
  <2> QED BY <1>a, <1>b, <2>1, <2>2, ThroughThePage
<1> QED BY <1>2, <1>3, <1>4, <1>5, <1>6, <1>7 DEF Work

\* The others do not touch what it counts.
LEMMA RankElsewhere ==
  ASSUME TypeOK, NEW s \in Workers, NEW w \in Workers \ {s}, Work(w) \/ Disturb(w)
  PROVE  Rank(s)' = Rank(s) /\ todo'[s] = todo[s]
<1>a. /\ pc \in [Workers -> Labels] /\ todo \in [Workers -> SUBSET Position]
      /\ cur \in [Workers -> Position] /\ left \in [Workers -> SUBSET Businesses]
  BY DEF TypeOK
<1>1. pc'[s] = pc[s]
  BY <1>a DEF Work, Disturb, LoadRun, MarkRunning, CreateGrid, ListCells, NextCell, ClaimCell,
    FetchPage, LeavePageLoop, CheckItem, PersistItem, ScheduleAnalysis, FinishPage, CloseCell,
    CompleteCell, CancelCell, FailRun, FinalCheck, CommitRun, Deliver, Crash, FailCell,
    FailOutOfCell, Goto
<1>2. todo'[s] = todo[s] /\ cur'[s] = cur[s] /\ left'[s] = left[s]
  BY <1>a DEF Work, Disturb, LoadRun, MarkRunning, CreateGrid, ListCells, NextCell, ClaimCell,
    FetchPage, LeavePageLoop, CheckItem, PersistItem, ScheduleAnalysis, FinishPage, CloseCell,
    CompleteCell, CancelCell, FailRun, FinalCheck, CommitRun, Deliver, Crash, FailCell,
    FailOutOfCell, local
<1> QED BY <1>1, <1>2 DEF Rank

\* A delivery that goes on ends: a worker has a step until its rank is zero, each step, stop
\* or failure lowers the rank, and nothing but the next delivery raises it.
RankWell(s)  == /\ Rank(s) \in Nat /\ (Rank(s) = 0 <=> pc[s] = "idle")
                /\ FirstCell(s)
RankFalls(s) == /\ Work(s) \/ Stops(s) => Rank(s)' < Rank(s)
                /\ Deliver(s) \/ Rank(s)' < Rank(s) \/ Rank(s)' = Rank(s)

LEMMA RanksWell ==
  ASSUME TypeOK, FiniteLists PROVE \A s \in Workers : RankWell(s)
<1> SUFFICES ASSUME NEW s \in Workers PROVE RankWell(s)
  OBVIOUS
<1>1. /\ pc[s] \in Labels /\ cur[s].page \in Nat /\ Cardinality(todo[s]) \in Nat
      /\ Cardinality(left[s]) \in Nat
  <2>1. left[s] \subseteq Businesses /\ cur[s] \in Position /\ pc[s] \in Labels
    BY DEF TypeOK
  <2>2. IsFiniteSet(left[s]) /\ IsFiniteSet(todo[s])
    BY <2>1, ConstantsAssumption, FS_Subset DEF ConstantsAssumption, FiniteLists
  <2> QED BY <2>1, <2>2, FS_CardinalityType DEF Position
<1>2. Rank(s) \in Nat /\ (Rank(s) = 0 <=> pc[s] = "idle")
  BY <1>1, StepsTyped DEF Rank
<1> QED BY <1>2, FirstCellFound DEF RankWell

LEMMA RanksFall ==
  ASSUME TypeOK, TypeOK', FiniteLists, [Next]_vars
  PROVE  FiniteLists' /\ \A s \in Workers : RankFalls(s)
<1>a. \A s \in Workers : Rank(s) \in Nat
  BY RanksWell DEF RankWell
<1>1. CASE UNCHANGED vars \/ CancelRun \/ RetryRun
  <2>1. UNCHANGED <<pc, todo, cur, left>>
    BY <1>1 DEF vars, local, CancelRun, RetryRun
  <2>2. \A s \in Workers : Rank(s)' = Rank(s)
    BY <2>1 DEF Rank
  <2>3. \A s \in Workers : Work(s) \/ Stops(s) => FALSE
    BY <1>a, <2>2, StepLowers
  <2> QED BY <1>a, <2>1, <2>2, <2>3 DEF FiniteLists, RankFalls
<1>2. ASSUME NEW w \in Workers, Work(w) \/ Disturb(w)
      PROVE  FiniteLists' /\ \A s \in Workers : RankFalls(s)
  <2>1. IsFiniteSet(todo'[w]) /\ (Deliver(w) \/ Rank(w)' < Rank(w))
    <3>1. CASE Deliver(w)
      BY <3>1 DEF Deliver, local, FiniteLists
    <3>2. CASE Work(w) \/ Stops(w)
      BY <3>2, StepLowers
    <3> QED BY <1>2, <3>1, <3>2 DEF Disturb, Stops
  <2>2. \A s \in Workers \ {w} : Rank(s)' = Rank(s) /\ todo'[s] = todo[s]
    BY <1>2, RankElsewhere
  <2>3. FiniteLists'
    BY <2>1, <2>2 DEF FiniteLists
  <2>4. ASSUME NEW s \in Workers PROVE RankFalls(s)
    <3>1. Work(s) \/ Stops(s) => Rank(s)' < Rank(s)
      BY StepLowers
    <3>2. Deliver(s) \/ Rank(s)' < Rank(s) \/ Rank(s)' = Rank(s)
      BY <2>1, <2>2
    <3> QED BY <3>1, <3>2 DEF RankFalls
  <2> QED BY <2>3, <2>4
<1> QED BY <1>1, <1>2 DEF Next

\* What DeliveryEnds says without fairness: whatever the overlaps, no page loop, cell loop or
\* failure path holds the job for more than the steps that the rank counts.
THEOREM DeliveryAdvances ==
  Spec => /\ [](\A s \in Workers : RankWell(s))
          /\ [][\A s \in Workers : RankFalls(s)]_vars
<1>1. Init => TypeInv /\ FiniteLists
  <2>1. Init => FiniteLists
    BY FS_EmptySet DEF Init, FiniteLists
  <2> QED BY <2>1, TypeInit
<1>2. TypeInv /\ FiniteLists /\ [Next]_vars => TypeInv' /\ FiniteLists'
  BY TypeStep, RanksFall DEF TypeInv
<1>3. TypeInv /\ FiniteLists => \A s \in Workers : RankWell(s)
  BY RanksWell DEF TypeInv
<1>4. TypeInv /\ FiniteLists /\ [Next]_vars => [\A s \in Workers : RankFalls(s)]_vars
  BY TypeStep, RanksFall DEF TypeInv
<1> QED BY <1>1, <1>2, <1>3, <1>4, PTL DEF Spec
=============================================================================
