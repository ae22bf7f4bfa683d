-------------------------- MODULE Services_proofs ---------------------------
(***************************************************************************)
(* Four services that share no state, each proved alone.                   *)
(*                                                                         *)
(* The daily budget holds for any number of requests, any limit and any    *)
(* number of days (BudgetExact).  It is not inductive: why the place a     *)
(* request writes is free has to be said too.  It is because the request   *)
(* holds the lock of its day (OneHolder), so that what it read is still    *)
(* the row's value when it writes (FreshRead).                             *)
(*                                                                         *)
(* What a visit of a website returns is about the page it read             *)
(* (ResultIsLastPage), and an export shown as COMPLETED has its file       *)
(* (CompletedHasFile), for any addresses, redirections, page sizes,        *)
(* exports and numbers of rows.                                            *)
(*                                                                         *)
(* A rotated log keeps its lines in order and within its size, and loses   *)
(* only the oldest (LogKept), for any number of processes, histories and   *)
(* lines.  The order and the size are inductive once it is said that who   *)
(* is about to append has seen the log below its size (Slack).  That only  *)
(* the oldest lines go is so until two processes rotate at once: one       *)
(* rotation moves each file into the gap that it has made (InRotation),    *)
(* and the files follow one another but for that gap (Contiguous).         *)
(***************************************************************************)
EXTENDS ProviderBudget, WebsiteVisit, ExportFiles, LogRotation, TLAPS, FiniteSetTheorems

-----------------------------------------------------------------------------
(* The budget.                                                             *)

Holding == {"locked", "write"}

OneHolder ==
  \A c, e \in Consumers : c # e /\ at[c] \in Holding /\ at[e] \in Holding => day[c] # day[e]

FreshRead ==
  \A c \in Consumers : at[c] = "write" => place[c] = used[day[c]] + 1 /\ place[c] <= Limit

BudgetInv == BudgetTypeOK /\ OneHolder /\ FreshRead /\ BudgetExact

\* No row exists and no request has begun.
LEMMA BudgetInitInv == BudgetInit => BudgetInv
<1> SUFFICES ASSUME BudgetInit PROVE BudgetInv
  OBVIOUS
<1>1. BudgetTypeOK
  BY BudgetAssumption DEF BudgetInit, BudgetTypeOK, Days
<1>2. OneHolder /\ FreshRead
  BY DEF BudgetInit, OneHolder, FreshRead, Holding
<1>3. BudgetExact
  BY BudgetAssumption DEF BudgetInit, BudgetExact, Days
<1>4. QED
  BY <1>1, <1>2, <1>3 DEF BudgetInv

\* What the steps of a request write has its type.
LEMMA BudgetTypeNext ==
  ASSUME BudgetTypeOK, [BudgetNext]_budgetVars
  PROVE  BudgetTypeOK'
<1>1. CASE \E c \in Consumers : Ask(c) \/ Lock(c) \/ Refuse(c) \/ Abort(c)
  BY <1>1 DEF BudgetTypeOK, Ask, Lock, Refuse, Abort, Days
<1>2. ASSUME NEW c \in Consumers, ReadUsed(c) \/ CommitUsed(c) PROVE BudgetTypeOK'
  <2>1. CASE ReadUsed(c)
    BY <2>1 DEF BudgetTypeOK, ReadUsed
  <2>2. CASE CommitUsed(c)
    BY <2>2 DEF BudgetTypeOK, CommitUsed
  <2>3. QED
    BY <1>2, <2>1, <2>2
<1>3. ASSUME NEW c \in Consumers, CallProvider(c) PROVE BudgetTypeOK'
  BY <1>3 DEF BudgetTypeOK, CallProvider
<1>4. CASE Midnight
  BY <1>4, BudgetAssumption DEF BudgetTypeOK, Midnight, Days
<1>5. CASE UNCHANGED budgetVars
  BY <1>5 DEF BudgetTypeOK, budgetVars
<1>6. QED
  BY <1>1, <1>2, <1>3, <1>4, <1>5 DEF BudgetNext

\* The advisory lock: a request that gets it finds no other holder of its day, and keeps its
\* day while it holds it.
LEMMA OneHolderNext ==
  ASSUME BudgetTypeOK, OneHolder, [BudgetNext]_budgetVars
  PROVE  OneHolder'
<1>1. ASSUME NEW c \in Consumers, Lock(c) PROVE OneHolder'
  BY <1>1 DEF BudgetTypeOK, OneHolder, Lock, Free, Holding
<1>2. ASSUME NEW c \in Consumers, ReadUsed(c) PROVE OneHolder'
  BY <1>2 DEF BudgetTypeOK, OneHolder, ReadUsed, Holding
<1>3. ASSUME NEW c \in Consumers,
             Ask(c) \/ Refuse(c) \/ CommitUsed(c) \/ CallProvider(c) \/ Abort(c)
      PROVE  OneHolder'
  BY <1>3 DEF BudgetTypeOK, OneHolder, Ask, Refuse, CommitUsed, CallProvider, Abort, Holding
<1>4. CASE Midnight \/ UNCHANGED budgetVars
  BY <1>4 DEF OneHolder, Midnight, budgetVars
<1>5. QED
  BY <1>1, <1>2, <1>3, <1>4 DEF BudgetNext

\* Only a holder writes the row of a day, so that what another holder has read of its own
\* day stays true.
LEMMA FreshReadNext ==
  ASSUME BudgetTypeOK, OneHolder, FreshRead, [BudgetNext]_budgetVars
  PROVE  FreshRead'
<1>1. ASSUME NEW c \in Consumers, ReadUsed(c) PROVE FreshRead'
  BY <1>1, BudgetAssumption DEF BudgetTypeOK, FreshRead, ReadUsed, Days
<1>2. ASSUME NEW c \in Consumers, CommitUsed(c) PROVE FreshRead'
  <2>1. ASSUME NEW e \in Consumers, at'[e] = "write"
        PROVE  e # c /\ at[e] = "write" /\ day'[e] = day[e] /\ place'[e] = place[e]
    BY <1>2, <2>1 DEF BudgetTypeOK, CommitUsed
  <2>2. ASSUME NEW e \in Consumers, at'[e] = "write"
        PROVE  used'[day[e]] = used[day[e]]
    BY <1>2, <2>1, <2>2 DEF BudgetTypeOK, CommitUsed, OneHolder, Holding
  <2>3. QED
    BY <2>1, <2>2 DEF FreshRead
<1>3. ASSUME NEW c \in Consumers, Ask(c) \/ Lock(c) \/ Refuse(c) \/ CallProvider(c) \/ Abort(c)
      PROVE  FreshRead'
  BY <1>3 DEF BudgetTypeOK, FreshRead, Ask, Lock, Refuse, CallProvider, Abort
<1>4. CASE Midnight \/ UNCHANGED budgetVars
  BY <1>4 DEF FreshRead, Midnight, budgetVars
<1>5. QED
  BY <1>1, <1>2, <1>3, <1>4 DEF BudgetNext

\* The commit takes the place after the row's value: within the limit, and no one else's.
LEMMA CommitExact ==
  ASSUME BudgetInv, NEW c \in Consumers, CommitUsed(c)
  PROVE  BudgetExact'
<1>1. BudgetTypeOK /\ FreshRead /\ BudgetExact
  BY DEF BudgetInv
<1>2. /\ day[c] \in Days /\ used[day[c]] \in Nat /\ place[c] = used[day[c]] + 1
      /\ place[c] <= Limit /\ used' = [used EXCEPT ![day[c]] = place[c]]
      /\ at' = [at EXCEPT ![c] = "granted"] /\ UNCHANGED <<day, place, spent>>
  BY <1>1 DEF BudgetTypeOK, FreshRead, CommitUsed
<1>3. \A d \in Days : used'[d] \in Nat /\ used[d] <= used'[d] /\ used'[d] <= Limit
  BY <1>1, <1>2, BudgetAssumption DEF BudgetTypeOK, BudgetExact
<1>4. \A p \in spent' : p[2] \in 1..used'[p[1]]
  BY <1>1, <1>2, <1>3 DEF BudgetTypeOK, BudgetExact
<1>5. \A e \in Consumers : at'[e] = "granted" =>
        /\ place'[e] \in 1..used'[day'[e]] /\ <<day'[e], place'[e]>> \notin spent'
        /\ e # c => place'[e] \in 1..used[day[e]]
  BY <1>1, <1>2, <1>3 DEF BudgetTypeOK, BudgetExact
<1>6. ASSUME NEW b \in Consumers, NEW e \in Consumers \ {b},
             at'[b] = "granted", at'[e] = "granted"
      PROVE  <<day'[e], place'[e]>> # <<day'[b], place'[b]>>
  <2>1. CASE b # c /\ e # c
    BY <1>1, <1>2, <1>6, <2>1 DEF BudgetTypeOK, BudgetExact
  <2>2. CASE e = c
    <3>1. place[b] \in 1..used[day[b]]
      BY <1>5, <1>6, <1>2, <2>2
    <3>2. QED
      BY <1>1, <1>2, <2>2, <3>1 DEF BudgetTypeOK
  <2>3. CASE b = c
    <3>1. place[e] \in 1..used[day[e]]
      BY <1>5, <1>6, <1>2, <2>3
    <3>2. QED
      BY <1>1, <1>2, <2>3, <3>1 DEF BudgetTypeOK
  <2>4. QED
    BY <2>1, <2>2, <2>3
<1>7. QED
  BY <1>3, <1>4, <1>5, <1>6 DEF BudgetExact

\* A request to the provider moves its place from the request to those spent.
LEMMA CallExact ==
  ASSUME BudgetTypeOK, BudgetExact, NEW c \in Consumers, CallProvider(c)
  PROVE  BudgetExact'
<1>1. /\ at[c] = "granted" /\ at' = [at EXCEPT ![c] = "idle"]
      /\ spent' = spent \union {<<day[c], place[c]>>} /\ UNCHANGED <<used, day, place>>
  BY DEF CallProvider
<1>2. \A p \in spent' : p[2] \in 1..used'[p[1]]
  BY <1>1 DEF BudgetExact
<1>3. QED
  BY <1>1, <1>2 DEF BudgetTypeOK, BudgetExact

LEMMA BudgetNextInv == BudgetInv /\ [BudgetNext]_budgetVars => BudgetInv'
<1> SUFFICES ASSUME BudgetInv, [BudgetNext]_budgetVars PROVE BudgetInv'
  OBVIOUS
<1>1. BudgetTypeOK /\ OneHolder /\ FreshRead /\ BudgetExact
  BY DEF BudgetInv
<1>2. BudgetTypeOK' /\ OneHolder' /\ FreshRead'
  BY <1>1, BudgetTypeNext, OneHolderNext, FreshReadNext
<1>3. BudgetExact'
  <2>1. ASSUME NEW c \in Consumers,
               Ask(c) \/ Lock(c) \/ Refuse(c) \/ ReadUsed(c) \/ Abort(c)
        PROVE  BudgetExact'
    BY <1>1, <2>1 DEF BudgetTypeOK, BudgetExact, Ask, Lock, Refuse, ReadUsed, Abort
  <2>2. CASE Midnight \/ UNCHANGED budgetVars
    BY <1>1, <2>2 DEF BudgetExact, Midnight, budgetVars
  <2>3. QED
    BY <1>1, <2>1, <2>2, CommitExact, CallExact DEF BudgetNext
<1>4. QED
  BY <1>2, <1>3 DEF BudgetInv

\* At most Limit requests a day go to the provider, each on a place of its own, however many
\* workers ask, fail and see the day change (database/src/index.ts 23-36).
THEOREM BudgetHolds == BudgetSpec => []BudgetExact
<1>1. BudgetInv => BudgetExact
  BY DEF BudgetInv
<1>2. QED
  BY <1>1, BudgetInitInv, BudgetNextInv, PTL DEF BudgetSpec

-----------------------------------------------------------------------------
(* The visit.                                                              *)

Normal(a) == a.protocol \in {"http", "https"} /\ ~a.fragment

VisitTypeOK ==
  /\ visit \in {"idle", "resolving", "requesting", "answered", "reading", "done", "failed"}
  /\ current \in Address /\ redirects \in Nat /\ received \in 0..MaxBytes
  /\ response.location \in SUBSET Address /\ response.code \in Nat
  /\ requests \in Seq(Address)

\* Where the visit is tells how many requests it has made, and which was the last.
OnTheWay ==
  /\ visit = "idle" => redirects = 0 /\ requests = <<>>
  /\ visit \in {"resolving", "requesting"} =>
       Normal(current) /\ redirects <= MaxRedirects /\ Len(requests) = redirects
  /\ visit \in {"answered", "reading"} =>
       /\ redirects <= MaxRedirects /\ Len(requests) = redirects + 1
       /\ requests[Len(requests)] = current
  /\ visit = "reading" => ~Redirection
  /\ Len(requests) <= MaxRedirects + 1
  /\ \A i \in 1..Len(requests) : Normal(requests[i])

Returned ==
  \A r \in result :
    /\ visit = "done" /\ Len(requests) >= 1 /\ r.url = requests[Len(requests)]
    /\ r.code = response.code /\ ~Redirection
    /\ r.https <=> r.url.protocol = "https"
    /\ r.status = "GOOD" => r.code \in 200..399

VisitInv == VisitTypeOK /\ OnTheWay /\ Returned

LEMMA NormalizedIsNormal ==
  ASSUME NEW a \in Address, Accepted(a)
  PROVE  NormalizedUrl(a) \in Address /\ Normal(NormalizedUrl(a))
  BY DEF Accepted, NormalizedUrl, Address, Normal

LEMMA NormalStays ==
  ASSUME NEW a \in Address, Normal(a)
  PROVE  NormalizedUrl(a) = a
  BY DEF NormalizedUrl, Address, Normal

LEMMA ResolvedTyped ==
  ASSUME NEW a \in Address, current \in Address
  PROVE  Resolved(a) \in Address
  BY DEF Resolved, Address

\* Only an answer, or a redirection that was not followed, is classified as good.
LEMMA GoodIsAnswer ==
  ASSUME NEW code \in Nat, NEW https \in BOOLEAN, NEW score, Class(code, https, score) = "GOOD"
  PROVE  code \in 200..399
<1>1. ~(code < 200 \/ code >= 400)
  BY DEF Class
<1>2. QED
  BY <1>1

LEMMA ReturnFacts ==
  ASSUME response.code \in Nat, Return, NEW r \in result'
  PROVE  /\ r.url = current /\ r.code = response.code
         /\ r.https <=> current.protocol = "https"
         /\ r.status = "GOOD" => r.code \in 200..399
<1> DEFINE safe == current.protocol = "https"
<1>1. safe \in BOOLEAN
  OBVIOUS
<1>2. PICK score : r = [url |-> current, code |-> response.code, https |-> safe,
                        status |-> Class(response.code, safe, score)]
  <2>1. PICK score \in {0, 15, 25, 50} :
          result' = {[url |-> current, code |-> response.code, https |-> safe,
                      status |-> Class(response.code, safe, score)]}
    BY DEF Return
  <2>2. r = [url |-> current, code |-> response.code, https |-> safe,
             status |-> Class(response.code, safe, score)]
    BY <2>1, Zenon
  <2>3. QED
    BY <2>2
<1> HIDE DEF safe
<1>3. r.url = current /\ r.code = response.code
  BY <1>2
<1>4. r.https = safe
  BY <1>2, Zenon
<1>5. r.status = Class(response.code, safe, score)
  BY <1>2, Zenon
<1>6. ASSUME Class(response.code, safe, score) = "GOOD" PROVE response.code \in 200..399
  BY <1>1, <1>6, GoodIsAnswer
<1>7. QED
  BY <1>1, <1>3, <1>4, <1>5, <1>6 DEF safe

LEMMA VisitInitial == VisitInit => VisitInv
  BY VisitAssumption DEF VisitAssumption, VisitInit, VisitInv, VisitTypeOK, OnTheWay, Returned,
     NoResponse, Nothing

LEMMA VisitStep == VisitInv /\ [VisitNext]_visitVars => VisitInv'
<1> SUFFICES ASSUME VisitInv, [VisitNext]_visitVars PROVE VisitInv'
  OBVIOUS
<1> USE VisitAssumption
    DEF VisitAssumption, VisitInv, VisitTypeOK, OnTheWay, Returned, visitVars, Redirection
<1>1. CASE UNCHANGED visitVars
  BY <1>1
<1>2. CASE Fail /\ visit # "done"
  BY <1>2 DEF Fail
<1>3. CASE BeginVisit
  <2>1. CASE Accepted(current)
    <3>1. NormalizedUrl(current) \in Address /\ Normal(NormalizedUrl(current))
      BY <2>1, NormalizedIsNormal
    <3>2. QED
      BY <1>3, <2>1, <3>1 DEF BeginVisit
  <2>2. CASE ~Accepted(current)
    BY <1>2, <1>3, <2>2 DEF BeginVisit
  <2>3. QED
    BY <2>1, <2>2
<1>4. CASE TimerFires
  BY <1>4 DEF TimerFires
<1>5. CASE ResolveHost
  BY <1>2, <1>5 DEF ResolveHost
<1>6. CASE Request
  <2>1. ASSUME visit = "requesting", visit' = "answered", requests' = Append(requests, current),
               response'.location \in SUBSET Address,
               UNCHANGED <<current, redirects, aborted, received, result>>,
               response'.code \in Nat
        PROVE  VisitInv'
    <3>1. /\ requests' \in Seq(Address) /\ Len(requests') = redirects + 1
          /\ requests'[Len(requests')] = current
          /\ \A i \in 1..Len(requests') : i = Len(requests') \/ requests'[i] = requests[i]
      BY <2>1
    <3>2. QED
      BY <2>1, <3>1
  <2>2. QED
    BY <1>2, <1>6, <2>1 DEF Request, Nothing, Codes
<1>7. CASE Follow
  <2>1. ASSUME NEW a \in response.location, Accepted(Resolved(a)), redirects # MaxRedirects,
               visit = "answered", visit' = "resolving",
               current' = NormalizedUrl(Resolved(a)), redirects' = redirects + 1,
               UNCHANGED <<aborted, response, received, requests, result>>
        PROVE  VisitInv'
    <3>1. current' \in Address /\ Normal(current')
      BY <2>1, ResolvedTyped, NormalizedIsNormal
    <3>2. QED
      BY <2>1, <3>1
  <2>2. QED
    BY <1>2, <1>7, <2>1 DEF Follow, LastHop
<1>8. CASE Stay
  BY <1>8 DEF Stay
<1>9. CASE Read
  BY <1>2, <1>9 DEF Read
<1>10. CASE Return
  <2>1. /\ visit = "reading" /\ visit' = "done"
        /\ UNCHANGED <<current, redirects, aborted, response, received, requests>>
    BY <1>10 DEF Return
  <2>2. QED
    BY <1>10, <2>1, ReturnFacts
<1>11. QED
  BY <1>1, <1>3, <1>4, <1>5, <1>6, <1>7, <1>8, <1>9, <1>10 DEF VisitNext

\* A visit makes at most one request more than it may follow redirections, each to a
\* normalised address, and returns the page it read, whatever the redirections and the timer.
THEOREM ReturnsItsPage == VisitSpec => []ResultIsLastPage
<1>1. VisitInv => ResultIsLastPage
  BY NormalStays DEF VisitInv, VisitTypeOK, OnTheWay, Returned, ResultIsLastPage
<1>2. QED
  BY <1>1, VisitInitial, VisitStep, PTL DEF VisitSpec

-----------------------------------------------------------------------------
(* The export.                                                             *)

ExportTypeOK ==
  /\ stock \in Nat
  /\ record \in [Exports -> {"none", "PROCESSING", "COMPLETED", "FAILED"}]
  /\ rowCount \in [Exports -> Nat] /\ found \in [Exports -> Nat]
  /\ writer \in [Exports -> {"idle", "reading", "writing", "renaming", "measuring", "completing",
                             "removing", "failing"}]
  /\ temp \in [Exports -> Nat \union {Absent, Part}]
  /\ placed \in [Exports -> Nat \union {Absent, Part}]
  /\ served \subseteq Exports \X (Nat \union {Absent, Part})

\* What the writer holds in its hands is the file it is about to complete.
InHand ==
  \A e \in Exports :
    /\ writer[e] # "idle" => record[e] = "PROCESSING"
    /\ writer[e] = "renaming" => temp[e] = found[e]
    /\ writer[e] \in {"measuring", "completing"} => placed[e] = found[e]
    /\ writer[e] = "completing" => found[e] <= MaxRows

ExportInv == ExportTypeOK /\ InHand /\ CompletedHasFile

LEMMA ExportInitial == ExportInit => ExportInv
  BY ExportAssumption DEF ExportAssumption, ExportInit, ExportInv, ExportTypeOK, InHand,
     CompletedHasFile

LEMMA ExportStep == ExportInv /\ [ExportNext]_exportVars => ExportInv'
<1> SUFFICES ASSUME ExportInv, [ExportNext]_exportVars PROVE ExportInv'
  OBVIOUS
<1> USE ExportAssumption
    DEF ExportAssumption, ExportInv, ExportTypeOK, InHand, CompletedHasFile, exportVars, Absent,
        Part
<1>1. CASE UNCHANGED exportVars \/ StockChanges
  BY <1>1 DEF StockChanges
<1>2. ASSUME NEW e \in Exports, CreateExport(e) PROVE ExportInv'
  BY <1>2 DEF CreateExport
<1>3. ASSUME NEW e \in Exports, FindRows(e) \/ StartFile(e) \/ FinishFile(e) PROVE ExportInv'
  BY <1>3 DEF FindRows, StartFile, FinishFile
<1>4. ASSUME NEW e \in Exports, Rename(e) PROVE ExportInv'
  BY <1>4 DEF Rename
<1>5. ASSUME NEW e \in Exports, StatFile(e) PROVE ExportInv'
  BY <1>5 DEF StatFile
<1>6. ASSUME NEW e \in Exports, Fault(e) \/ Stop(e) PROVE ExportInv'
  BY <1>6 DEF Fault, Stop
<1>7. ASSUME NEW e \in Exports, Complete(e) PROVE ExportInv'
  BY <1>7 DEF Complete, Escapes
<1>8. ASSUME NEW e \in Exports, RemoveFiles(e) \/ MarkFailed(e) PROVE ExportInv'
  BY <1>8 DEF RemoveFiles, MarkFailed
<1>9. ASSUME NEW e \in Exports, Download(e) PROVE ExportInv'
  BY <1>9 DEF Download
<1>10. QED
  BY <1>1, <1>2, <1>3, <1>4, <1>5, <1>6, <1>7, <1>8, <1>9 DEF ExportNext

\* An export is COMPLETED only with its whole file in place, and stays so: no later failure
\* removes the file, and every download was of such a file.
THEOREM CompletedKeepsFile == ExportSpec => []CompletedHasFile
<1>1. ExportInv => CompletedHasFile
  BY DEF ExportInv
<1>2. QED
  BY <1>1, ExportInitial, ExportStep, PTL DEF ExportSpec

-----------------------------------------------------------------------------
(* The logs.                                                               *)

LogTypeInv ==
  /\ LogTypeOK
  /\ \A i \in Files : i \notin exists => file[i] = <<>>
  /\ \A i \in Files : \A a \in 1..Len(file[i]) : file[i][a] \in 1..lines

InOrder ==
  \A i, j \in Files : \A a \in 1..Len(file[i]), b \in 1..Len(file[j]) :
    i > j \/ (i = j /\ a < b) => file[i][a] < file[j][b]

\* Whoever is about to append has seen the log below its size, or has emptied it.
Appending == {w \in Writers : doing[w] \in {"create", "append"}}
Slack ==
  /\ Len(file[0]) + Cardinality(Appending) <= MaxSize + Cardinality(Writers) - 1
  /\ \A i \in Files : Len(file[i]) <= MaxSize + Cardinality(Writers) - 1

\* The number that a rotation has just left, where no file is.
Gap(w) == IF doing[w] = "create" THEN 0 ELSE index[w] + 1

OneRotation == \A v, w \in Writers : Rotating(v) /\ Rotating(w) => v = w

InRotation ==
  \A w \in Writers :
    /\ doing[w] = "act" => index[w] \in exists
    /\ doing[w] \in {"look", "act"} => Gap(w) \notin exists

AtGap(j) == \E w \in Writers : Rotating(w) /\ j = Gap(w)

\* The files follow one another but for the gap, and the log is among them.
Contiguous ==
  \A j \in Files \ exists : AtGap(j) \/ (j # 0 /\ \A i \in Files : i > j => i \notin exists)

In(n) == \E i \in Files : \E a \in 1..Len(file[i]) : file[i][a] = n

\* Of the lines only the oldest are lost, and only when every history is in use.
OnlyOldest ==
  /\ \A n \in Nat : In(n) => \A m \in n..lines : In(m)
  /\ (\E n \in 1..lines : ~In(n)) => \A j \in Files \ exists : AtGap(j)

Unclashed == clashed \/ (OneRotation /\ InRotation /\ Contiguous /\ OnlyOldest)

LogInv == LogTypeInv /\ InOrder /\ Slack /\ Unclashed

LEMMA NoLines == <<>> \in Seq(Nat) /\ Len(<<>>) = 0 /\ 1..Len(<<>>) = {}
<1>1. <<>> \in Seq(Nat) /\ Len(<<>>) = 0
  OBVIOUS
<1>2. QED
  BY <1>1

LEMMA LogInitInv == LogInit => LogInv
<1> SUFFICES ASSUME LogInit PROVE LogInv
  OBVIOUS
<1>1. /\ MaxFiles \in Nat \ {0} /\ MaxSize \in Nat \ {0}
      /\ IsFiniteSet(Writers) /\ Writers # {} /\ Cardinality(Writers) \in Nat
  BY LogAssumption, FS_CardinalityType DEF LogAssumption
<1>2. \A i \in Files : file[i] = <<>> /\ Len(file[i]) = 0 /\ 1..Len(file[i]) = {}
  BY NoLines DEF LogInit
<1>3. LogTypeInv
  <2>1. LogTypeOK
    <3>1. file \in [Files -> Seq(Nat)]
      BY NoLines DEF LogInit
    <3>2. exists \subseteq Files /\ 0 \in Files
      BY <1>1 DEF LogInit, Files
    <3>3. QED
      BY <3>1, <3>2 DEF LogInit, LogTypeOK
  <2>2. QED
    BY <1>2, <2>1 DEF LogTypeInv
<1>4. InOrder
  BY <1>2 DEF InOrder
<1>5. Slack
  <2>1. Appending = {}
    BY DEF LogInit, Appending
  <2>2. Cardinality(Appending) = 0
    BY <2>1, FS_EmptySet
  <2>3. 0 \in Files
    BY <1>1 DEF Files
  <2>4. QED
    BY <1>1, <1>2, <2>2, <2>3 DEF Slack
<1>6. Unclashed
  <2>1. OneRotation /\ InRotation
    BY DEF LogInit, OneRotation, InRotation, Rotating
  <2>2. Contiguous
    BY DEF LogInit, Contiguous, Files
  <2>3. \A n \in Nat : ~In(n)
    BY <1>2 DEF In
  <2>4. OnlyOldest
    BY <2>3 DEF LogInit, OnlyOldest
  <2>5. QED
    BY <2>1, <2>2, <2>4 DEF Unclashed
<1>7. QED
  BY <1>3, <1>4, <1>5, <1>6 DEF LogInv

LEMMA AppendedLine ==
  ASSUME NEW s \in Seq(Nat), NEW n \in Nat
  PROVE  /\ Append(s, n) \in Seq(Nat) /\ Len(Append(s, n)) = Len(s) + 1
         /\ \A a \in 1..Len(s) : Append(s, n)[a] = s[a]
         /\ Append(s, n)[Len(s) + 1] = n
  OBVIOUS

\* What a step does to the files.
Steady  == UNCHANGED <<file, lines>> /\ exists' \in {exists, exists \union {0}}
Logged(w) ==
  /\ doing[w] = "append" /\ doing' = [doing EXCEPT ![w] = "idle"]
  /\ exists' = exists \union {0} /\ lines' = lines + 1
  /\ file' = [file EXCEPT ![0] = Append(@, lines + 1)]

LEMMA LogSteps ==
  ASSUME LogTypeInv, NEW w \in Writers,
         StatSize(w) \/ LookFor(w) \/ Move(w) \/ Gone(w) \/ OpenLog(w) \/ AppendLine(w)
  PROVE  \/ Steady
         \/ Delete /\ MaxFiles \in exists /\ UNCHANGED lines
         \/ \E i \in Files : i < MaxFiles /\ i \in exists /\ Shift(i) /\ UNCHANGED lines
         \/ Logged(w)
<1>1. CASE StatSize(w) \/ LookFor(w)
  BY <1>1 DEF StatSize, LookFor, Steady
<1>2. CASE Gone(w) \/ OpenLog(w)
  BY <1>2 DEF Gone, OpenLog, Steady
<1>3. CASE Move(w)
  <2>1. index[w] \in Files /\ index[w] \in exists /\ UNCHANGED lines
    BY <1>3 DEF Move, LogTypeInv, LogTypeOK
  <2>2. CASE index[w] = MaxFiles
    BY <1>3, <2>1, <2>2 DEF Move
  <2>3. CASE index[w] # MaxFiles
    BY <1>3, <2>1, <2>3, LogAssumption DEF Move, Files, LogAssumption
  <2>4. QED
    BY <2>2, <2>3
<1>4. CASE AppendLine(w)
  BY <1>4 DEF AppendLine, Logged, Goes
<1>5. QED
  BY <1>1, <1>2, <1>3, <1>4

\* The lines of each file after the step, in terms of those before.
LEMMA Shifted ==
  ASSUME LogTypeInv, NEW i \in Files, i < MaxFiles, Shift(i)
  PROVE  /\ file' \in [Files -> Seq(Nat)]
         /\ i + 1 \in Files /\ file'[i + 1] = file[i] /\ i + 1 # i
         /\ file'[i] = <<>> /\ Len(file'[i]) = 0 /\ 1..Len(file'[i]) = {}
         /\ \A j \in Files : j # i /\ j # i + 1 => file'[j] = file[j]
<1>1. i + 1 \in Files /\ i + 1 # i
  BY LogAssumption DEF Files, LogAssumption
<1>2. file \in [Files -> Seq(Nat)] /\ <<>> \in Seq(Nat)
  BY NoLines DEF LogTypeInv, LogTypeOK
<1>3. file' = [file EXCEPT ![i + 1] = file[i], ![i] = <<>>]
  BY DEF Shift, Older
<1>4. file'[i] = <<>>
  BY <1>1, <1>2, <1>3
<1>5. QED
  BY <1>1, <1>2, <1>3, <1>4, NoLines

LEMMA Deleted ==
  ASSUME LogTypeInv, Delete
  PROVE  /\ file' \in [Files -> Seq(Nat)] /\ MaxFiles \in Files
         /\ file'[MaxFiles] = <<>> /\ Len(file'[MaxFiles]) = 0 /\ 1..Len(file'[MaxFiles]) = {}
         /\ \A j \in Files : j # MaxFiles => file'[j] = file[j]
<1>1. MaxFiles \in Files
  BY LogAssumption DEF Files, LogAssumption
<1>2. file \in [Files -> Seq(Nat)] /\ <<>> \in Seq(Nat)
  BY NoLines DEF LogTypeInv, LogTypeOK
<1>3. file'[MaxFiles] = <<>>
  BY <1>1, <1>2 DEF Delete
<1>4. QED
  BY <1>1, <1>2, <1>3, NoLines DEF Delete

LEMMA LoggedFiles ==
  ASSUME LogTypeInv, NEW w \in Writers, Logged(w)
  PROVE  /\ file' \in [Files -> Seq(Nat)] /\ 0 \in Files /\ lines' = lines + 1 /\ lines \in Nat
         /\ file[0] \in Seq(Nat) /\ Len(file[0]) \in Nat
         /\ Len(file'[0]) = Len(file[0]) + 1
         /\ \A a \in 1..Len(file[0]) : file'[0][a] = file[0][a]
         /\ file'[0][Len(file[0]) + 1] = lines + 1
         /\ \A j \in Files : j # 0 => file'[j] = file[j]
<1>1. 0 \in Files /\ lines \in Nat /\ file \in [Files -> Seq(Nat)]
  BY LogAssumption DEF LogTypeInv, LogTypeOK, Files, LogAssumption
<1>2. file[0] \in Seq(Nat) /\ lines + 1 \in Nat
  BY <1>1
<1>3. file' = [file EXCEPT ![0] = Append(@, lines + 1)] /\ lines' = lines + 1
  BY DEF Logged
<1>4. file'[0] = Append(file[0], lines + 1)
  BY <1>1, <1>3
<1>5. QED
  BY <1>1, <1>2, <1>3, <1>4, AppendedLine

-----------------------------------------------------------------------------
LEMMA LogTypeNext ==
  ASSUME LogTypeInv, [LogNext]_logVars
  PROVE  LogTypeInv'
<1>1. CASE UNCHANGED logVars
  BY <1>1 DEF logVars, LogTypeInv, LogTypeOK
<1>2. ASSUME NEW w \in Writers,
             StatSize(w) \/ LookFor(w) \/ Move(w) \/ Gone(w) \/ OpenLog(w) \/ AppendLine(w)
      PROVE  LogTypeInv'
  <2>1. /\ doing' \in [Writers -> {"idle", "look", "act", "create", "append"}]
        /\ index' \in [Writers -> Files] /\ clashed' \in BOOLEAN
    <3>0. /\ doing \in [Writers -> {"idle", "look", "act", "create", "append"}]
          /\ index \in [Writers -> Files] /\ clashed \in BOOLEAN
          /\ 0 \in Files /\ MaxFiles \in Files
      BY LogAssumption DEF LogAssumption, LogTypeInv, LogTypeOK, Files
    <3>1. CASE StatSize(w) /\ MustRotate
      <4>1. /\ doing' = [doing EXCEPT ![w] = "look"] /\ index' = [index EXCEPT ![w] = MaxFiles]
            /\ clashed' \in BOOLEAN
        BY <3>1 DEF StatSize, Goes
      <4>2. QED
        BY <3>0, <4>1
    <3>2. CASE StatSize(w) /\ ~MustRotate
      BY <3>0, <3>2 DEF StatSize, Goes
    <3>3. CASE Down(w) /\ UNCHANGED clashed
      <4>1. index[w] # 0 => index[w] - 1 \in Files
        BY <3>0 DEF Files
      <4>2. QED
        BY <3>0, <3>3, <4>1 DEF Down, Goes
    <3>4. CASE (LookFor(w) /\ index[w] \in exists)
               \/ Gone(w) \/ OpenLog(w) \/ AppendLine(w)
      BY <3>0, <3>4 DEF LookFor, Gone, OpenLog, AppendLine, Goes
    <3>5. (LookFor(w) /\ index[w] \notin exists) \/ Move(w) => Down(w) /\ UNCHANGED clashed
      BY DEF LookFor, Move
    <3>6. QED
      BY <1>2, <3>1, <3>2, <3>3, <3>4, <3>5
  <2>2. /\ exists' \subseteq Files /\ file' \in [Files -> Seq(Nat)] /\ lines' \in Nat
        /\ \A i \in Files : i \notin exists' => file'[i] = <<>>
        /\ \A i \in Files : \A a \in 1..Len(file'[i]) : file'[i][a] \in 1..lines'
    <3>0. /\ exists \subseteq Files /\ file \in [Files -> Seq(Nat)] /\ lines \in Nat /\ 0 \in Files
          /\ \A i \in Files : i \notin exists => file[i] = <<>>
          /\ \A i \in Files : \A a \in 1..Len(file[i]) : file[i][a] \in 1..lines
      BY LogAssumption DEF LogTypeInv, LogTypeOK, Files, LogAssumption
    <3>1. CASE Steady
      BY <3>0, <3>1 DEF Steady
    <3>2. CASE Delete /\ MaxFiles \in exists /\ UNCHANGED lines
      <4>1. exists' = exists \ {MaxFiles}
        BY <3>2 DEF Delete
      <4>2. /\ file' \in [Files -> Seq(Nat)] /\ lines' = lines
            /\ file'[MaxFiles] = <<>> /\ 1..Len(file'[MaxFiles]) = {}
            /\ \A j \in Files : j # MaxFiles => file'[j] = file[j]
        BY <3>2, Deleted
      <4>3. QED
        BY <3>0, <4>1, <4>2
    <3>3. ASSUME NEW i \in Files, i < MaxFiles, i \in exists, Shift(i), UNCHANGED lines
          PROVE  /\ exists' \subseteq Files /\ file' \in [Files -> Seq(Nat)] /\ lines' \in Nat
                 /\ \A j \in Files : j \notin exists' => file'[j] = <<>>
                 /\ \A j \in Files : \A a \in 1..Len(file'[j]) : file'[j][a] \in 1..lines'
      <4>1. exists' = (exists \ {i}) \union {i + 1}
        BY <3>3 DEF Shift, Older
      <4>2. /\ file' \in [Files -> Seq(Nat)]
            /\ i + 1 \in Files /\ file'[i + 1] = file[i] /\ lines' = lines
            /\ file'[i] = <<>> /\ 1..Len(file'[i]) = {}
            /\ \A j \in Files : j # i /\ j # i + 1 => file'[j] = file[j]
        BY <3>3, Shifted
      <4>3. QED
        <5>1. exists' \subseteq Files /\ \A j \in Files : j \notin exists' => file'[j] = <<>>
          BY <3>0, <4>1, <4>2
        <5>2. ASSUME NEW j \in Files, NEW a \in 1..Len(file'[j])
              PROVE  file'[j][a] \in 1..lines'
          <6>1. CASE j = i + 1
            BY <3>0, <3>3, <4>2, <6>1
          <6>2. CASE j # i + 1
            BY <3>0, <4>2, <6>2
          <6>3. QED
            BY <6>1, <6>2
        <5>3. QED
          BY <3>0, <4>2, <5>1, <5>2
    <3>4. CASE Logged(w)
      <4>1. exists' = exists \union {0}
        BY <3>4 DEF Logged
      <4>2. /\ file' \in [Files -> Seq(Nat)] /\ lines' = lines + 1
            /\ Len(file[0]) \in Nat /\ Len(file'[0]) = Len(file[0]) + 1
            /\ \A a \in 1..Len(file[0]) : file'[0][a] = file[0][a]
            /\ file'[0][Len(file[0]) + 1] = lines + 1
            /\ \A j \in Files : j # 0 => file'[j] = file[j]
        BY <3>4, LoggedFiles
      <4>3. \A a \in 1..Len(file'[0]) : file'[0][a] \in 1..lines'
        <5> SUFFICES ASSUME NEW a \in 1..Len(file'[0]) PROVE file'[0][a] \in 1..lines'
          OBVIOUS
        <5>1. CASE a = Len(file[0]) + 1
          BY <3>0, <4>2, <5>1
        <5>2. CASE a # Len(file[0]) + 1
          <6>1. a \in 1..Len(file[0])
            BY <4>2, <5>2
          <6>2. file'[0][a] \in 1..lines
            BY <3>0, <4>2, <6>1
          <6>3. QED
            BY <3>0, <4>2, <6>2
        <5>3. QED
          BY <5>1, <5>2
      <4>4. ASSUME NEW j \in Files, NEW a \in 1..Len(file'[j])
            PROVE  file'[j][a] \in 1..lines'
        <5>1. CASE j = 0
          BY <4>3, <5>1
        <5>2. CASE j # 0
          <6>1. file'[j][a] \in 1..lines
            BY <3>0, <4>2, <5>2
          <6>2. QED
            BY <3>0, <4>2, <6>1
        <5>3. QED
          BY <5>1, <5>2
      <4>5. exists' \subseteq Files /\ \A j \in Files : j \notin exists' => file'[j] = <<>>
        BY <3>0, <4>1, <4>2
      <4>6. QED
        BY <3>0, <4>2, <4>4, <4>5
    <3>5. QED
      BY <1>2, <3>1, <3>2, <3>3, <3>4, LogSteps
  <2>3. QED
    BY <2>1, <2>2 DEF LogTypeInv, LogTypeOK
<1>3. QED
  BY <1>1, <1>2 DEF LogNext

LEMMA OrderNext ==
  ASSUME LogTypeInv, InOrder, [LogNext]_logVars
  PROVE  InOrder'
<1>0. Files \subseteq Nat /\ 0 \in Files
  BY LogAssumption DEF Files, LogAssumption
<1>1. CASE UNCHANGED logVars
  BY <1>1 DEF logVars, InOrder
<1>2. ASSUME NEW w \in Writers,
             StatSize(w) \/ LookFor(w) \/ Move(w) \/ Gone(w) \/ OpenLog(w) \/ AppendLine(w)
      PROVE  InOrder'
  <2>1. CASE Steady
    BY <2>1 DEF Steady, InOrder
  <2>2. CASE Delete
    <3>1. /\ 1..Len(file'[MaxFiles]) = {}
          /\ \A j \in Files : j # MaxFiles => file'[j] = file[j]
      BY <2>2, Deleted
    <3> SUFFICES ASSUME NEW j \in Files, NEW k \in Files,
                        NEW a \in 1..Len(file'[j]), NEW b \in 1..Len(file'[k]),
                        j > k \/ (j = k /\ a < b)
                 PROVE  file'[j][a] < file'[k][b]
      BY DEF InOrder
    <3>2. file'[j] = file[j] /\ file'[k] = file[k]
      BY <3>1
    <3>3. QED
      BY <3>2 DEF InOrder
  <2>3. ASSUME NEW i \in Files, i < MaxFiles, Shift(i)
        PROVE  InOrder'
    <3>1. /\ i + 1 \in Files /\ file'[i + 1] = file[i] /\ 1..Len(file'[i]) = {}
          /\ \A j \in Files : j # i /\ j # i + 1 => file'[j] = file[j]
      BY <2>3, Shifted
    <3> SUFFICES ASSUME NEW j \in Files, NEW k \in Files,
                        NEW a \in 1..Len(file'[j]), NEW b \in 1..Len(file'[k]),
                        j > k \/ (j = k /\ a < b)
                 PROVE  file'[j][a] < file'[k][b]
      BY DEF InOrder
    <3>2. j # i /\ k # i
      BY <3>1
    <3>3. CASE j = i + 1 /\ k = i + 1
      <4>1. a < b /\ a \in 1..Len(file[i]) /\ b \in 1..Len(file[i])
        BY <1>0, <3>1, <3>3
      <4>2. file[i][a] < file[i][b]
        BY <4>1 DEF InOrder
      <4>3. QED
        BY <3>1, <3>3, <4>2
    <3>4. CASE j = i + 1 /\ k # i + 1
      <4>1. k < i
        BY <1>0, <3>2, <3>4
      <4>2. QED
        BY <1>0, <3>1, <3>2, <3>4, <4>1 DEF InOrder
    <3>5. CASE j # i + 1 /\ k = i + 1
      <4>1. j > i
        BY <1>0, <3>5
      <4>2. QED
        BY <1>0, <3>1, <3>2, <3>5, <4>1 DEF InOrder
    <3>6. CASE j # i + 1 /\ k # i + 1
      BY <3>1, <3>2, <3>6 DEF InOrder
    <3>7. QED
      BY <3>3, <3>4, <3>5, <3>6
  <2>4. CASE Logged(w)
    <3>1. /\ lines \in Nat /\ Len(file[0]) \in Nat /\ Len(file'[0]) = Len(file[0]) + 1
          /\ \A a \in 1..Len(file[0]) : file'[0][a] = file[0][a]
          /\ file'[0][Len(file[0]) + 1] = lines + 1
          /\ \A j \in Files : j # 0 => file'[j] = file[j]
      BY <2>4, LoggedFiles
    <3>2. \A i \in Files : \A a \in 1..Len(file[i]) : file[i][a] \in 1..lines
      BY DEF LogTypeInv
    <3> SUFFICES ASSUME NEW j \in Files, NEW k \in Files,
                        NEW a \in 1..Len(file'[j]), NEW b \in 1..Len(file'[k]),
                        j > k \/ (j = k /\ a < b)
                 PROVE  file'[j][a] < file'[k][b]
      BY DEF InOrder
    <3>3. a \in 1..Len(file[j]) /\ file'[j][a] = file[j][a]
      <4>1. CASE j = 0
        BY <1>0, <3>1, <4>1
      <4>2. CASE j # 0
        BY <3>1, <4>2
      <4>3. QED
        BY <4>1, <4>2
    <3>4. CASE k = 0 /\ b = Len(file[0]) + 1
      BY <3>1, <3>2, <3>3, <3>4
    <3>5. CASE ~(k = 0 /\ b = Len(file[0]) + 1)
      <4>1. b \in 1..Len(file[k]) /\ file'[k][b] = file[k][b]
        BY <3>1, <3>5
      <4>2. QED
        BY <3>3, <4>1 DEF InOrder
    <3>6. QED
      BY <3>4, <3>5
  <2>5. QED
    BY <1>2, <2>1, <2>2, <2>3, <2>4, LogSteps
<1>3. QED
  BY <1>1, <1>2 DEF LogNext

-----------------------------------------------------------------------------
LEMMA AppendingFinite ==
  ASSUME NEW set \in SUBSET Writers
  PROVE  /\ IsFiniteSet(set) /\ Cardinality(set) \in Nat
         /\ Cardinality(Writers) \in Nat /\ Cardinality(set) <= Cardinality(Writers)
  BY LogAssumption, FS_Subset, FS_CardinalityType DEF LogAssumption

LEMMA SlackNext ==
  ASSUME LogTypeInv, LogTypeInv', Slack, [LogNext]_logVars
  PROVE  Slack'
<1>0. /\ MaxSize \in Nat \ {0} /\ 0 \in Files /\ Cardinality(Writers) \in Nat \ {0}
      /\ \A i \in Files : Len(file[i]) \in Nat
      /\ IsFiniteSet(Appending) /\ IsFiniteSet(Appending')
      /\ Cardinality(Appending) \in Nat /\ Cardinality(Appending') \in Nat
      /\ Cardinality(Appending) <= Cardinality(Writers)
      /\ Cardinality(Appending') <= Cardinality(Writers)
  <2>1. MaxSize \in Nat \ {0} /\ MaxFiles \in Nat /\ IsFiniteSet(Writers) /\ Writers # {}
    BY LogAssumption DEF LogAssumption
  <2>2. Appending \in SUBSET Writers /\ Appending' \in SUBSET Writers
    BY DEF Appending
  <2>3. Cardinality(Writers) # 0
    BY <2>1, FS_EmptySet
  <2>4. \A i \in Files : Len(file[i]) \in Nat
    BY DEF LogTypeInv, LogTypeOK
  <2>5. QED
    BY <2>1, <2>2, <2>3, <2>4, AppendingFinite DEF Files
<1>1. CASE UNCHANGED logVars
  BY <1>1 DEF logVars, Slack, Appending
<1>2. ASSUME NEW w \in Writers,
             StatSize(w) \/ LookFor(w) \/ Move(w) \/ Gone(w) \/ OpenLog(w) \/ AppendLine(w)
      PROVE  Slack'
  <2>0. doing \in [Writers -> {"idle", "look", "act", "create", "append"}]
    BY DEF LogTypeInv, LogTypeOK
  <2>1. ASSUME file'[0] = file[0], Cardinality(Appending') <= Cardinality(Appending)
        PROVE  Len(file'[0]) + Cardinality(Appending') <= MaxSize + Cardinality(Writers) - 1
    BY <1>0, <2>1 DEF Slack
  <2>2. ASSUME Len(file'[0]) <= MaxSize - 1
        PROVE  Len(file'[0]) + Cardinality(Appending') <= MaxSize + Cardinality(Writers) - 1
    <3>1. Len(file'[0]) \in Nat
      BY <1>0 DEF LogTypeInv, LogTypeOK
    <3>2. QED
      BY <1>0, <2>2, <3>1
  <2>3. \A set \in SUBSET Appending : Cardinality(set) <= Cardinality(Appending)
    BY <1>0, FS_Subset
  <2>4. Len(file'[0]) + Cardinality(Appending') <= MaxSize + Cardinality(Writers) - 1
    <3>1. CASE StatSize(w)
      <4>1. CASE MustRotate
        <5>1. file' = file /\ Appending' \subseteq Appending
          BY <2>0, <3>1, <4>1 DEF StatSize, Goes, Appending
        <5>2. QED
          BY <2>1, <2>3, <5>1
      <4>2. CASE ~MustRotate
        <5>1. file' = file
          BY <3>1 DEF StatSize
        <5>2. Len(file[0]) <= MaxSize - 1
          <6>1. CASE 0 \in exists
            BY <1>0, <4>2, <6>1 DEF MustRotate, Size
          <6>2. CASE 0 \notin exists
            BY <1>0, <6>2 DEF LogTypeInv
          <6>3. QED
            BY <6>1, <6>2
        <5>3. QED
          BY <2>2, <5>1, <5>2
      <4>3. QED
        BY <4>1, <4>2
    <3>2. CASE LookFor(w)
      <4>1. file' = file
        BY <3>2 DEF LookFor
      <4>2. CASE index[w] = 0 /\ 0 \notin exists
        <5>1. Len(file[0]) = 0
          BY <1>0, <4>2 DEF LogTypeInv
        <5>2. QED
          BY <1>0, <2>2, <4>1, <5>1
      <4>3. CASE ~(index[w] = 0 /\ 0 \notin exists)
        <5>1. doing' = [doing EXCEPT ![w] = "act"] \/ doing' = [doing EXCEPT ![w] = "look"]
          BY <3>2, <4>3 DEF LookFor, Down, Goes
        <5>2. Appending' \subseteq Appending
          BY <2>0, <5>1 DEF Appending
        <5>3. QED
          BY <2>1, <2>3, <4>1, <5>2
      <4>4. QED
        BY <4>2, <4>3
    <3>3. CASE Move(w)
      <4>1. CASE index[w] = 0
        <5>1. Shift(0)
          BY <3>3, <4>1, LogAssumption DEF Move, LogAssumption
        <5>2. file'[0] = <<>>
          BY <1>0, <5>1, Shifted, LogAssumption DEF LogAssumption
        <5>3. QED
          BY <1>0, <2>2, <5>2
      <4>2. CASE index[w] # 0
        <5>1. doing' = [doing EXCEPT ![w] = "look"]
          BY <3>3, <4>2 DEF Move, Down, Goes
        <5>2. Appending' \subseteq Appending
          BY <2>0, <5>1 DEF Appending
        <5>3. index[w] \in Files /\ index[w] >= 1
          BY <4>2, LogAssumption DEF LogTypeInv, LogTypeOK, Files, LogAssumption
        <5>4. file'[0] = file[0]
          <6>1. CASE index[w] = MaxFiles
            BY <1>0, <3>3, <5>3, <6>1, Deleted DEF Move
          <6>2. CASE index[w] # MaxFiles
            <7>1. Shift(index[w]) /\ index[w] < MaxFiles
              BY <3>3, <5>3, <6>2, LogAssumption DEF Move, Files, LogAssumption
            <7>2. 0 # index[w] /\ 0 # index[w] + 1
              BY <5>3 DEF Files
            <7>3. QED
              BY <1>0, <5>3, <7>1, <7>2, Shifted
          <6>3. QED
            BY <6>1, <6>2
        <5>5. QED
          BY <2>1, <2>3, <5>2, <5>4
      <4>3. QED
        BY <4>1, <4>2
    <3>4. CASE Gone(w) \/ OpenLog(w)
      <4>1. file' = file /\ Appending' \subseteq Appending
        BY <2>0, <3>4 DEF Gone, OpenLog, Goes, Appending
      <4>2. QED
        BY <2>1, <2>3, <4>1
    <3>5. CASE AppendLine(w)
      <4>1. w \in Appending /\ Appending' = Appending \ {w}
        BY <2>0, <3>5 DEF AppendLine, Goes, Appending
      <4>2. Cardinality(Appending') = Cardinality(Appending) - 1
        BY <1>0, <4>1, FS_RemoveElement
      <4>3. Logged(w)
        BY <3>5 DEF AppendLine, Logged, Goes
      <4>4. Len(file'[0]) = Len(file[0]) + 1
        BY <4>3, LoggedFiles
      <4>5. QED
        BY <1>0, <4>2, <4>4 DEF Slack
    <3>6. QED
      BY <1>2, <3>1, <3>2, <3>3, <3>4, <3>5
  <2>5. ASSUME NEW i \in Files
        PROVE  Len(file'[i]) <= MaxSize + Cardinality(Writers) - 1
    <3>0. \A j \in Files : Len(file[j]) <= MaxSize + Cardinality(Writers) - 1
      BY DEF Slack
    <3>1. CASE i = 0
      <4>1. Len(file'[0]) \in Nat
        BY <1>0 DEF LogTypeInv, LogTypeOK
      <4>2. QED
        BY <1>0, <2>4, <3>1, <4>1
    <3>2. CASE i # 0
      <4>1. CASE Steady
        BY <3>0, <4>1 DEF Steady
      <4>2. CASE Delete
        <5>1. Len(file'[MaxFiles]) = 0 /\ \A j \in Files : j # MaxFiles => file'[j] = file[j]
          BY <4>2, Deleted
        <5>2. QED
          BY <1>0, <3>0, <5>1
      <4>3. ASSUME NEW k \in Files, k < MaxFiles, Shift(k)
            PROVE  Len(file'[i]) <= MaxSize + Cardinality(Writers) - 1
        <5>1. /\ file'[k + 1] = file[k] /\ Len(file'[k]) = 0
              /\ \A j \in Files : j # k /\ j # k + 1 => file'[j] = file[j]
          BY <4>3, Shifted
        <5>2. QED
          BY <1>0, <3>0, <5>1
      <4>4. CASE Logged(w)
        BY <3>0, <3>2, <4>4, LoggedFiles
      <4>5. QED
        BY <1>2, <4>1, <4>2, <4>3, <4>4, LogSteps
    <3>3. QED
      BY <3>1, <3>2
  <2>6. QED
    BY <2>4, <2>5 DEF Slack
<1>3. QED
  BY <1>1, <1>2 DEF LogNext

-----------------------------------------------------------------------------
(* The lines there are.                                                    *)

LEMMA InShifted ==
  ASSUME LogTypeInv, NEW i \in Files, i < MaxFiles, i + 1 \notin exists, Shift(i)
  PROVE  \A n \in Nat : In(n)' <=> In(n)
<1>1. /\ i + 1 \in Files /\ file'[i + 1] = file[i] /\ 1..Len(file'[i]) = {}
      /\ \A j \in Files : j # i /\ j # i + 1 => file'[j] = file[j]
  BY Shifted
<1>2. file[i + 1] = <<>>
  BY <1>1 DEF LogTypeInv
<1>3. 1..Len(file[i + 1]) = {}
  BY <1>2, NoLines
<1> SUFFICES ASSUME NEW n \in Nat PROVE In(n)' <=> In(n)
  OBVIOUS
<1>4. ASSUME In(n) PROVE In(n)'
  <2>1. PICK j \in Files, a \in Int : a \in 1..Len(file[j]) /\ file[j][a] = n
    BY <1>4 DEF In
  <2>2. CASE j = i
    <3>1. a \in 1..Len(file'[i + 1]) /\ file'[i + 1][a] = n
      BY <1>1, <2>1, <2>2
    <3>2. QED
      BY <1>1, <3>1 DEF In
  <2>3. CASE j # i
    <3>1. file'[j] = file[j]
      BY <1>1, <1>3, <2>1, <2>3
    <3>2. QED
      BY <2>1, <3>1 DEF In
  <2>4. QED
    BY <2>2, <2>3
<1>5. ASSUME In(n)' PROVE In(n)
  <2>1. PICK j \in Files, a \in Int : a \in 1..Len(file'[j]) /\ file'[j][a] = n
    BY <1>5 DEF In
  <2>2. CASE j = i + 1
    BY <1>1, <2>1, <2>2 DEF In
  <2>3. CASE j # i + 1
    <3>1. file'[j] = file[j]
      BY <1>1, <2>1, <2>3
    <3>2. QED
      BY <2>1, <3>1 DEF In
  <2>4. QED
    BY <2>2, <2>3
<1>6. QED
  BY <1>4, <1>5

\* What is deleted is older than everything that stays.
LEMMA InDeleted ==
  ASSUME LogTypeInv, InOrder, Delete, NEW n \in Nat, NEW m \in Nat, n <= m, In(n)', In(m)
  PROVE  In(m)'
<1>1. /\ 1..Len(file'[MaxFiles]) = {} /\ MaxFiles \in Files
      /\ \A j \in Files : j # MaxFiles => file'[j] = file[j]
  BY Deleted
<1>2. PICK i \in Files, a \in Int : a \in 1..Len(file'[i]) /\ file'[i][a] = n
  BY DEF In
<1>3. i # MaxFiles /\ file'[i] = file[i]
  BY <1>1, <1>2
<1>4. PICK j \in Files, b \in Int : b \in 1..Len(file[j]) /\ file[j][b] = m
  BY DEF In
<1>5. j # MaxFiles
  <2>1. SUFFICES ASSUME j = MaxFiles PROVE FALSE
    OBVIOUS
  <2>2. j > i
    BY <1>3, <2>1, LogAssumption DEF Files, LogAssumption
  <2>3. file[j][b] < file[i][a]
    BY <1>2, <1>3, <1>4, <2>2 DEF InOrder
  <2>4. QED
    BY <1>2, <1>3, <1>4, <2>3
<1>6. QED
  BY <1>1, <1>4, <1>5 DEF In

LEMMA InLogged ==
  ASSUME LogTypeInv, NEW w \in Writers, Logged(w)
  PROVE  \A n \in Nat : In(n)' <=> In(n) \/ n = lines + 1
<1>1. /\ 0 \in Files /\ Len(file[0]) \in Nat /\ Len(file'[0]) = Len(file[0]) + 1
      /\ \A a \in 1..Len(file[0]) : file'[0][a] = file[0][a]
      /\ file'[0][Len(file[0]) + 1] = lines + 1
      /\ \A j \in Files : j # 0 => file'[j] = file[j]
  BY LoggedFiles
<1> SUFFICES ASSUME NEW n \in Nat PROVE In(n)' <=> In(n) \/ n = lines + 1
  OBVIOUS
<1>2. ASSUME In(n) PROVE In(n)'
  <2>1. PICK j \in Files, a \in Int : a \in 1..Len(file[j]) /\ file[j][a] = n
    BY <1>2 DEF In
  <2>2. CASE j = 0
    <3>1. a \in 1..Len(file'[0]) /\ file'[0][a] = n
      BY <1>1, <2>1, <2>2
    <3>2. QED
      BY <1>1, <3>1 DEF In
  <2>3. CASE j # 0
    <3>1. file'[j] = file[j]
      BY <1>1, <2>3
    <3>2. QED
      BY <2>1, <3>1 DEF In
  <2>4. QED
    BY <2>2, <2>3
<1>3. ASSUME n = lines + 1 PROVE In(n)'
  <2>1. Len(file[0]) + 1 \in 1..Len(file'[0])
    BY <1>1
  <2>2. QED
    BY <1>1, <1>3, <2>1 DEF In
<1>4. ASSUME In(n)' PROVE In(n) \/ n = lines + 1
  <2>1. PICK j \in Files, a \in Int : a \in 1..Len(file'[j]) /\ file'[j][a] = n
    BY <1>4 DEF In
  <2>2. CASE j = 0
    <3>1. CASE a = Len(file[0]) + 1
      BY <1>1, <2>1, <2>2, <3>1
    <3>2. CASE a # Len(file[0]) + 1
      <4>1. a \in 1..Len(file[0]) /\ file[0][a] = n
        BY <1>1, <2>1, <2>2, <3>2
      <4>2. QED
        BY <1>1, <4>1 DEF In
    <3>3. QED
      BY <3>1, <3>2
  <2>3. CASE j # 0
    <3>1. file'[j] = file[j]
      BY <1>1, <2>3
    <3>2. QED
      BY <2>1, <3>1 DEF In
  <2>4. QED
    BY <2>2, <2>3
<1>5. QED
  BY <1>2, <1>3, <1>4

-----------------------------------------------------------------------------
(* As long as no two processes have rotated at once.                       *)

Lost == \E n \in 1..lines : ~In(n)
Full == \A j \in Files \ exists : AtGap(j)

LEMMA StepUnclashed ==
  ASSUME LogInv, NEW w \in Writers, ~clashed, ~clashed',
         StatSize(w) \/ LookFor(w) \/ Move(w) \/ Gone(w) \/ OpenLog(w) \/ AppendLine(w)
  PROVE  OneRotation' /\ InRotation' /\ Contiguous' /\ OnlyOldest'
<1>1. /\ MaxFiles \in Nat \ {0} /\ Files = 0..MaxFiles /\ 0 \in Files /\ MaxFiles \in Files
      /\ exists \subseteq Files
      /\ doing \in [Writers -> {"idle", "look", "act", "create", "append"}]
      /\ index \in [Writers -> Files] /\ lines \in Nat
  BY LogAssumption DEF LogInv, LogTypeInv, LogTypeOK, Files, LogAssumption
<1>2. /\ LogTypeInv /\ InOrder /\ OneRotation /\ InRotation /\ Contiguous
      /\ \A n \in Nat : In(n) => \A m \in n..lines : In(m)
      /\ Lost => Full
  BY DEF LogInv, Unclashed, OnlyOldest, Lost, Full
<1>3. SUFFICES OneRotation' /\ InRotation' /\ Contiguous'
               /\ (\A n \in Nat : In(n)' => \A m \in n..lines' : In(m)')
               /\ (Lost' => Full')
  BY DEF OnlyOldest, Lost, Full
\* Where no line moves.
<1>4. ASSUME Steady
      PROVE  /\ \A n \in Nat : In(n)' => \A m \in n..lines' : In(m)'
             /\ Lost' <=> Lost
  BY <1>1, <1>2, <1>4 DEF Steady, In, Lost
<1>5. CASE StatSize(w) /\ ~MustRotate
  <2>1. /\ doing[w] = "idle" /\ doing' = [doing EXCEPT ![w] = "append"]
        /\ UNCHANGED <<exists, file, lines, index>>
    BY <1>5 DEF StatSize, Goes
  <2>2. \A v \in Writers : (Rotating(v)' <=> Rotating(v)) /\ (Rotating(v) => Gap(v)' = Gap(v))
    BY <1>1, <2>1 DEF Rotating, Gap
  <2>3. \A j \in Files : AtGap(j)' <=> AtGap(j)
    BY <2>2 DEF AtGap
  <2>4. OneRotation'
    BY <1>2, <2>2 DEF OneRotation
  <2>5. InRotation'
    BY <1>1, <1>2, <2>1 DEF InRotation, Gap
  <2>6. Contiguous'
    BY <1>2, <2>1, <2>3 DEF Contiguous
  <2>7. Lost' => Full'
    BY <1>2, <1>4, <2>1, <2>3 DEF Full, Steady
  <2>8. QED
    BY <1>4, <2>1, <2>4, <2>5, <2>6, <2>7 DEF Steady
<1>6. CASE StatSize(w) /\ MustRotate
  <2>1. /\ doing[w] = "idle" /\ doing' = [doing EXCEPT ![w] = "look"]
        /\ index' = [index EXCEPT ![w] = MaxFiles] /\ UNCHANGED <<exists, file, lines>>
        /\ \A v \in Writers : ~Rotating(v)
    BY <1>6 DEF StatSize, Goes
  <2>2. \A v \in Writers : Rotating(v)' <=> v = w
    BY <1>1, <2>1 DEF Rotating
  <2>3. \A j \in Files : ~AtGap(j)
    BY <2>1 DEF AtGap
  <2>4. OneRotation'
    BY <2>2 DEF OneRotation
  <2>5. InRotation'
    BY <1>1, <1>2, <2>1, <2>2 DEF InRotation, Gap, Rotating
  <2>6. Contiguous'
    BY <1>2, <2>1, <2>3 DEF Contiguous
  <2>7. Lost' => Full'
    BY <1>2, <1>4, <2>1, <2>3 DEF Full, Steady
  <2>8. QED
    BY <1>4, <2>1, <2>4, <2>5, <2>6, <2>7 DEF Steady
<1>7. CASE LookFor(w) /\ index[w] \in exists
  <2>1. /\ doing[w] = "look" /\ doing' = [doing EXCEPT ![w] = "act"]
        /\ UNCHANGED <<exists, file, lines, index>>
    BY <1>7 DEF LookFor, Goes
  <2>2. \A v \in Writers : (Rotating(v)' <=> Rotating(v)) /\ (Rotating(v) => Gap(v)' = Gap(v))
    BY <1>1, <2>1 DEF Rotating, Gap
  <2>3. \A j \in Files : AtGap(j)' <=> AtGap(j)
    BY <2>2 DEF AtGap
  <2>4. OneRotation'
    BY <1>2, <2>2 DEF OneRotation
  <2>5. InRotation'
    BY <1>1, <1>2, <1>7, <2>1 DEF InRotation, Gap
  <2>6. Contiguous'
    BY <1>2, <2>1, <2>3 DEF Contiguous
  <2>7. Lost' => Full'
    BY <1>2, <1>4, <2>1, <2>3 DEF Full, Steady
  <2>8. QED
    BY <1>4, <2>1, <2>4, <2>5, <2>6, <2>7 DEF Steady
\* The others are steps of the rotation, and no other process is in one.
<1>8. ASSUME Rotating(w), doing' = [doing EXCEPT ![w] = "look"] \/ doing' = [doing EXCEPT ![w] = "create"]
             \/ doing' = [doing EXCEPT ![w] = "append"] \/ doing' = [doing EXCEPT ![w] = "idle"]
      PROVE  /\ OneRotation' /\ \A v \in Writers : (Rotating(v) <=> v = w) /\ (Rotating(v)' => v = w)
             /\ \A j \in Files : AtGap(j) <=> j = Gap(w)
             /\ \A j \in Files : AtGap(j)' <=> Rotating(w)' /\ j = Gap(w)'
  <2>1. \A v \in Writers : (Rotating(v) <=> v = w) /\ (Rotating(v)' => v = w)
    BY <1>1, <1>2, <1>8 DEF OneRotation, Rotating
  <2>2. QED
    BY <1>8, <2>1 DEF OneRotation, AtGap
<1>9. CASE LookFor(w) /\ index[w] \notin exists
  <2> DEFINE k == index[w]
  <2>1. /\ doing[w] = "look" /\ Rotating(w) /\ k \in Files /\ UNCHANGED <<exists, file, lines>>
        /\ Gap(w) = k + 1
    BY <1>1, <1>9 DEF LookFor, Rotating, Gap
  <2>2. Down(w)
    BY <1>9 DEF LookFor
  <2>3. /\ \A v \in Writers : Rotating(v) <=> v = w
        /\ \A j \in Files : AtGap(j) <=> j = k + 1
    BY <1>8, <2>1, <2>2 DEF Down, Goes
  <2>4. k # 0 /\ \A i \in Files : i > k => i \notin exists
    <3>1. ~AtGap(k)
      BY <1>1, <2>1, <2>3
    <3>2. QED
      BY <1>2, <1>9, <2>1, <3>1 DEF Contiguous
  <2>5. doing' = [doing EXCEPT ![w] = "look"] /\ index' = [index EXCEPT ![w] = k - 1]
    BY <2>2, <2>4 DEF Down, Goes
  <2>6. k - 1 \in Files /\ index'[w] = k - 1 /\ doing'[w] = "look"
    BY <1>1, <2>1, <2>4, <2>5
  <2>7. Gap(w)' = k /\ Rotating(w)'
    BY <1>1, <2>6 DEF Gap, Rotating
  <2>8. OneRotation' /\ \A j \in Files : AtGap(j)' <=> j = k
    BY <1>8, <2>1, <2>5, <2>7
  <2>9. InRotation'
    <3> SUFFICES ASSUME NEW v \in Writers
                 PROVE  /\ doing'[v] = "act" => index'[v] \in exists'
                        /\ doing'[v] \in {"look", "act"} => Gap(v)' \notin exists'
      BY DEF InRotation
    <3>1. CASE v = w
      BY <1>9, <2>1, <2>6, <2>7, <3>1
    <3>2. CASE v # w
      <4>1. doing'[v] \notin {"look", "act"}
        BY <1>1, <2>3, <2>5, <3>2 DEF Rotating
      <4>2. QED
        BY <4>1
    <3>3. QED
      BY <3>1, <3>2
  <2>10. Contiguous'
    <3> SUFFICES ASSUME NEW j \in Files \ exists', j # k
                 PROVE  j # 0 /\ \A i \in Files : i > j => i \notin exists'
      BY <2>8 DEF Contiguous
    <3>1. CASE j = k + 1
      BY <1>1, <2>1, <2>4, <3>1
    <3>2. CASE j # k + 1
      BY <1>2, <2>1, <2>3, <3>2 DEF Contiguous
    <3>3. QED
      BY <3>1, <3>2
  <2>11. ~Lost
    <3>1. ~Full
      BY <1>1, <1>9, <2>1, <2>3 DEF Full
    <3>2. QED
      BY <1>2, <3>1
  <2>12. QED
    BY <1>4, <2>1, <2>8, <2>9, <2>10, <2>11 DEF Steady
<1>10. CASE Move(w)
  <2> DEFINE k == index[w]
  <2>1. /\ doing[w] = "act" /\ Rotating(w) /\ k \in Files /\ k \in exists /\ UNCHANGED lines
        /\ Gap(w) = k + 1 /\ Down(w) /\ k + 1 \notin exists
    BY <1>1, <1>2, <1>10 DEF Move, Rotating, Gap, InRotation
  <2>2. /\ doing' = [doing EXCEPT ![w] = IF k = 0 THEN "create" ELSE "look"]
        /\ index' = [index EXCEPT ![w] = IF k = 0 THEN 0 ELSE k - 1]
    BY <1>1, <2>1 DEF Down, Goes
  <2>3. Gap(w)' = k /\ Rotating(w)' /\ k \in Int
    BY <1>1, <2>1, <2>2 DEF Gap, Rotating
  <2>4. /\ OneRotation' /\ \A v \in Writers : Rotating(v)' => v = w
        /\ \A j \in Files : AtGap(j) <=> j = k + 1
        /\ \A j \in Files : AtGap(j)' <=> j = k
    BY <1>8, <2>1, <2>2, <2>3
  <2>5. /\ exists' = IF k = MaxFiles THEN exists \ {k} ELSE (exists \ {k}) \union {k + 1}
    BY <1>10, <2>1 DEF Move, Delete, Shift, Older
  <2>6. k \notin exists'
    BY <2>3, <2>5
  <2>7. InRotation'
    <3> SUFFICES ASSUME NEW v \in Writers
                 PROVE  /\ doing'[v] = "act" => index'[v] \in exists'
                        /\ doing'[v] \in {"look", "act"} => Gap(v)' \notin exists'
      BY DEF InRotation
    <3>1. CASE v = w
      BY <1>1, <2>2, <2>3, <2>6, <3>1
    <3>2. CASE v # w
      <4>1. doing'[v] \notin {"look", "act"}
        BY <2>4, <3>2 DEF Rotating
      <4>2. QED
        BY <4>1
    <3>3. QED
      BY <3>1, <3>2
  <2>8. Contiguous'
    <3> SUFFICES ASSUME NEW j \in Files \ exists', j # k
                 PROVE  j # 0 /\ \A i \in Files : i > j => i \notin exists'
      BY <2>4 DEF Contiguous
    <3>1. j \notin exists /\ j # k + 1
      <4>1. CASE k = MaxFiles
        BY <1>1, <2>5, <4>1
      <4>2. CASE k # MaxFiles
        BY <2>5, <4>2
      <4>3. QED
        BY <4>1, <4>2
    <3>2. j # 0 /\ \A i \in Files : i > j => i \notin exists
      BY <1>2, <2>4, <3>1 DEF Contiguous
    <3>3. k < j
      BY <1>1, <2>1, <3>2
    <3>4. j > k + 1
      BY <1>1, <2>1, <3>1, <3>3
    <3>5. QED
      BY <1>1, <2>1, <2>5, <3>2, <3>4
  <2>9. CASE k = MaxFiles
    <3>1. Delete
      BY <1>10, <2>9 DEF Move
    <3>2. \A n \in Nat : In(n)' => \A m \in n..lines' : In(m)'
      <4> SUFFICES ASSUME NEW n \in Nat, In(n)', NEW m \in n..lines PROVE In(m)'
        BY <2>1
      <4>1. In(n)
        <5>1. PICK i \in Files, a \in Int : a \in 1..Len(file'[i]) /\ file'[i][a] = n
          BY DEF In
        <5>2. file'[i] = file[i]
          BY <1>2, <3>1, <5>1, Deleted
        <5>3. QED
          BY <5>1, <5>2 DEF In
      <4>2. In(m) /\ m \in Nat /\ n <= m
        BY <1>1, <1>2, <4>1
      <4>3. QED
        BY <1>2, <3>1, <4>2, InDeleted
    <3>3. Full'
      <4> SUFFICES ASSUME NEW j \in Files \ exists', j # MaxFiles PROVE FALSE
        BY <2>4, <2>9 DEF Full
      <4>1. j \notin exists /\ j < MaxFiles
        BY <1>1, <2>5, <2>9
      <4>2. ~AtGap(j)
        BY <1>1, <2>4, <2>9, <4>1
      <4>3. QED
        BY <1>1, <1>2, <2>1, <2>9, <4>1, <4>2 DEF Contiguous
    <3>4. QED
      BY <2>4, <2>7, <2>8, <3>2, <3>3
  <2>10. CASE k # MaxFiles
    <3>1. Shift(k) /\ k < MaxFiles
      BY <1>1, <1>10, <2>1, <2>10 DEF Move
    <3>2. \A n \in Nat : In(n)' <=> In(n)
      BY <1>2, <2>1, <3>1, InShifted
    <3>3. \A n \in Nat : In(n)' => \A m \in n..lines' : In(m)'
      <4> SUFFICES ASSUME NEW n \in Nat, In(n)', NEW m \in n..lines PROVE In(m)'
        BY <2>1
      <4>1. m \in Nat /\ In(m)
        BY <1>1, <1>2, <3>2
      <4>2. QED
        BY <3>2, <4>1
    <3>4. Lost' => Lost
      BY <1>1, <2>1, <3>2 DEF Lost
    <3>5. Full => Full'
      BY <2>4, <2>5, <2>10 DEF Full
    <3>6. QED
      BY <1>2, <2>4, <2>7, <2>8, <3>3, <3>4, <3>5
  <2>11. QED
    BY <2>9, <2>10
<1>11. CASE Gone(w)
  BY <1>2, <1>11 DEF Gone, InRotation
<1>12. CASE OpenLog(w)
  <2>1. /\ doing[w] = "create" /\ exists' = exists \union {0}
        /\ doing' = [doing EXCEPT ![w] = "append"] /\ UNCHANGED <<file, lines, index>>
        /\ Rotating(w) /\ Gap(w) = 0
    BY <1>12 DEF OpenLog, Goes, Rotating, Gap
  <2>2. ~Rotating(w)'
    BY <1>1, <2>1 DEF Rotating
  <2>3. /\ OneRotation' /\ \A v \in Writers : ~Rotating(v)'
        /\ \A j \in Files : AtGap(j) <=> j = 0
    BY <1>8, <2>1, <2>2
  <2>4. InRotation'
    BY <2>3 DEF InRotation, Rotating
  <2>5. Contiguous'
    <3> SUFFICES ASSUME NEW j \in Files \ exists'
                 PROVE  j # 0 /\ \A i \in Files : i > j => i \notin exists'
      BY DEF Contiguous
    <3>1. j # 0 /\ j \notin exists
      BY <2>1
    <3>2. \A i \in Files : i > j => i \notin exists
      BY <1>2, <2>3, <3>1 DEF Contiguous
    <3>3. QED
      BY <1>1, <2>1, <3>1, <3>2
  <2>6. Full => Full'
    BY <2>1, <2>3 DEF Full
  <2>7. Steady
    BY <2>1 DEF Steady
  <2>8. QED
    BY <1>2, <1>4, <2>3, <2>4, <2>5, <2>6, <2>7
<1>13. CASE AppendLine(w)
  <2>1. /\ doing[w] = "append" /\ exists' = exists \union {0} /\ lines' = lines + 1
        /\ doing' = [doing EXCEPT ![w] = "idle"] /\ UNCHANGED index
    BY <1>13 DEF AppendLine, Goes
  <2>2. \A v \in Writers : (Rotating(v)' <=> Rotating(v)) /\ (Rotating(v) => Gap(v)' = Gap(v))
    BY <1>1, <2>1 DEF Rotating, Gap
  <2>3. \A j \in Files : AtGap(j)' <=> AtGap(j)
    BY <2>2 DEF AtGap
  <2>4. OneRotation'
    BY <1>2, <2>2 DEF OneRotation
  <2>5. InRotation'
    <3> SUFFICES ASSUME NEW v \in Writers, Rotating(v)'
                 PROVE  /\ doing'[v] = "act" => index'[v] \in exists'
                        /\ doing'[v] \in {"look", "act"} => Gap(v)' \notin exists'
      BY DEF InRotation, Rotating
    <3>1. doing'[v] = doing[v] /\ index'[v] = index[v] /\ Gap(v)' = Gap(v)
      BY <1>1, <2>1, <2>2 DEF Rotating
    <3>2. doing[v] \in {"look", "act"} => Gap(v) # 0
      BY <1>1 DEF Gap
    <3>3. QED
      BY <1>2, <2>1, <3>1, <3>2 DEF InRotation
  <2>6. Contiguous'
    <3> SUFFICES ASSUME NEW j \in Files \ exists', ~AtGap(j)
                 PROVE  j # 0 /\ \A i \in Files : i > j => i \notin exists'
      BY <2>3 DEF Contiguous
    <3>1. j # 0 /\ j \notin exists
      BY <2>1
    <3>2. \A i \in Files : i > j => i \notin exists
      BY <1>2, <3>1 DEF Contiguous
    <3>3. QED
      BY <1>1, <2>1, <3>1, <3>2
  <2>7. \A n \in Nat : In(n)' <=> In(n) \/ n = lines + 1
    <3>1. Logged(w)
      BY <1>13 DEF AppendLine, Logged, Goes
    <3>2. QED
      BY <1>2, <3>1, InLogged
  <2>8. \A n \in Nat : In(n)' => \A m \in n..lines' : In(m)'
    <3> SUFFICES ASSUME NEW n \in Nat, In(n)', NEW m \in n..lines + 1 PROVE In(m)'
      BY <2>1
    <3>1. m \in Nat
      BY <1>1
    <3>2. CASE m = lines + 1
      BY <2>7, <3>1, <3>2
    <3>3. CASE m # lines + 1
      <4>1. In(n) /\ m \in n..lines
        BY <1>1, <2>7, <3>3
      <4>2. QED
        BY <1>2, <2>7, <3>1, <4>1
    <3>4. QED
      BY <3>2, <3>3
  <2>9. Lost' => Lost
    <3> SUFFICES ASSUME NEW n \in 1..lines', ~In(n)' PROVE Lost
      BY DEF Lost
    <3>1. n \in 1..lines /\ ~In(n)
      BY <1>1, <2>1, <2>7
    <3>2. QED
      BY <3>1 DEF Lost
  <2>10. Full => Full'
    BY <2>1, <2>3 DEF Full
  <2>11. QED
    BY <1>2, <2>4, <2>5, <2>6, <2>8, <2>9, <2>10
<1>14. QED
  BY <1>5, <1>6, <1>7, <1>9, <1>10, <1>11, <1>12, <1>13

LEMMA LogNextInv == LogInv /\ [LogNext]_logVars => LogInv'
<1> SUFFICES ASSUME LogInv, [LogNext]_logVars PROVE LogInv'
  OBVIOUS
<1>1. LogTypeInv' /\ InOrder' /\ Slack'
  BY LogTypeNext, OrderNext, SlackNext DEF LogInv
<1>2. Unclashed'
  <2>1. CASE UNCHANGED logVars
    BY <2>1 DEF logVars, LogInv, Unclashed, OneRotation, InRotation, Contiguous, OnlyOldest, AtGap,
       Gap, Rotating, In
  <2>2. ASSUME NEW w \in Writers, ~clashed',
               StatSize(w) \/ LookFor(w) \/ Move(w) \/ Gone(w) \/ OpenLog(w) \/ AppendLine(w)
        PROVE  OneRotation' /\ InRotation' /\ Contiguous' /\ OnlyOldest'
    <3>1. ~clashed
      BY <2>2 DEF StatSize, LookFor, Move, Gone, OpenLog, AppendLine
    <3>2. QED
      BY <2>2, <3>1, StepUnclashed
  <2>3. QED
    BY <2>1, <2>2 DEF LogNext, Unclashed
<1>3. QED
  BY <1>1, <1>2 DEF LogInv

\* Whatever the interleaving of any number of processes, the lines stay in order over the
\* files, no file exceeds its size by more than a line for each other process, and until two
\* processes rotate at once only the oldest lines go, when every history is in use.
THEOREM LogIsKept == LogSpec => []LogKept
<1>1. LogInv => LogKept
  <2> SUFFICES ASSUME LogInv PROVE LogKept
    OBVIOUS
  <2>1. \A i \in Files : DOMAIN file[i] = 1..Len(file[i]) /\ Len(file[i]) \in Nat
    BY DEF LogInv, LogTypeInv, LogTypeOK
  <2>2. \A i, j \in Files : \A a \in DOMAIN file[i], b \in DOMAIN file[j] :
          i > j \/ (i = j /\ a < b) => file[i][a] < file[j][b]
    BY <2>1 DEF LogInv, InOrder
  <2>3. \A i \in Files : Len(file[i]) <= MaxSize + Cardinality(Writers) - 1
    BY DEF LogInv, Slack
  <2>4. \A n \in 1..lines : n \in Kept <=> In(n)
    <3>1. MaxSize \in Nat /\ Cardinality(Writers) \in Nat
      BY LogAssumption, FS_CardinalityType DEF LogAssumption
    <3>2. \A i \in Files : \A j \in 1..Len(file[i]) : j \in 1..MaxSize + Cardinality(Writers)
      BY <2>1, <2>3, <3>1
    <3>3. QED
      BY <2>1, <3>2 DEF Kept, In
  <2>5. ASSUME ~clashed
        PROVE  /\ \A n \in Kept : n..lines \subseteq Kept
               /\ Kept = 1..lines \/ exists = Files \/ \E w \in Writers : Rotating(w)
    <3>1. OnlyOldest /\ lines \in Nat /\ exists \subseteq Files
      BY <2>5 DEF LogInv, Unclashed, LogTypeInv, LogTypeOK
    <3>2. \A n \in Kept : n..lines \subseteq Kept
      <4> SUFFICES ASSUME NEW n \in Kept, NEW m \in n..lines PROVE m \in Kept
        OBVIOUS
      <4>1. n \in 1..lines
        BY DEF Kept
      <4>2. In(m) /\ m \in 1..lines
        BY <2>4, <3>1, <4>1 DEF OnlyOldest
      <4>3. QED
        BY <2>4, <4>2
    <3>3. Kept \subseteq 1..lines
      BY DEF Kept
    <3>4. CASE \E n \in 1..lines : ~In(n)
      <4>1. \A j \in Files \ exists : \E w \in Writers : Rotating(w)
        BY <3>1, <3>4 DEF OnlyOldest, AtGap
      <4>2. QED
        BY <3>1, <3>2, <4>1
    <3>5. CASE \A n \in 1..lines : In(n)
      BY <2>4, <3>2, <3>3, <3>5
    <3>6. QED
      BY <3>4, <3>5
  <2>6. QED
    BY <2>2, <2>3, <2>5 DEF LogKept
<1>2. QED
  BY <1>1, LogInitInv, LogNextInv, PTL DEF LogSpec
=============================================================================
