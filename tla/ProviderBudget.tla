--------------------------- MODULE ProviderBudget ---------------------------
(***************************************************************************)
(* The daily budget of requests to a paid provider (Google Places).  Each  *)
(* request of a worker first counts itself in a SystemSetting row of the   *)
(* day, in a transaction that takes an advisory lock on the row's key: the *)
(* row is read and written back, so only the lock keeps two requests from  *)
(* taking the same place in the budget.                                    *)
(*                                                                         *)
(* A request keeps the place it got: the day and the value of used that    *)
(* consumeProviderBudget returned.  Days are numbers.  Unlocked is a       *)
(* faulty variant of the operator defined after it; no action uses it.     *)
(***************************************************************************)
EXTENDS Integers

CONSTANTS
  Consumers,   \* the requests in progress at the same time, in every worker
  Limit,       \* GOOGLE_PLACES_DAILY_REQUEST_LIMIT, at least 1
  LastDay      \* bound on the days

ASSUME BudgetAssumption == Limit \in Nat \ {0} /\ LastDay \in Nat

VARIABLES
  today,
  used,    \* the SystemSetting row of each day
  at,      \* where each request is
  day,     \* the day it computed before its transaction
  place,   \* the value of used it wrote
  spent    \* the places of the requests that were sent to the provider

budgetVars == <<today, used, at, day, place, spent>>

Days == 0..LastDay

BudgetTypeOK ==
  /\ today \in Days /\ used \in [Days -> Nat]
  /\ at \in [Consumers -> {"idle", "locking", "locked", "write", "granted"}]
  /\ day \in [Consumers -> Days] /\ place \in [Consumers -> Nat]
  /\ spent \subseteq Days \X Nat

BudgetInit ==
  /\ today = 0 /\ used = [d \in Days |-> 0] /\ at = [c \in Consumers |-> "idle"]
  /\ day = [c \in Consumers |-> 0] /\ place = [c \in Consumers |-> 0] /\ spent = {}

Ask(c) ==
  /\ at[c] = "idle" /\ at' = [at EXCEPT ![c] = "locking"] /\ day' = [day EXCEPT ![c] = today]
  /\ UNCHANGED <<today, used, place, spent>>

Unlocked(d) == d \in Days
Free(d)     == \A c \in Consumers : at[c] \in {"locked", "write"} => day[c] # d

Lock(c) ==
  /\ at[c] = "locking" /\ Free(day[c]) /\ at' = [at EXCEPT ![c] = "locked"]
  /\ UNCHANGED <<today, used, day, place, spent>>

\* The budget is exhausted: the transaction and the caller fail.
Refuse(c) ==
  /\ at[c] = "locked" /\ used[day[c]] >= Limit /\ at' = [at EXCEPT ![c] = "idle"]
  /\ UNCHANGED <<today, used, day, place, spent>>

ReadUsed(c) ==
  /\ at[c] = "locked" /\ used[day[c]] < Limit /\ at' = [at EXCEPT ![c] = "write"]
  /\ place' = [place EXCEPT ![c] = used[day[c]] + 1]
  /\ UNCHANGED <<today, used, day, spent>>

\* The upsert and the commit, which frees the lock.
CommitUsed(c) ==
  /\ at[c] = "write" /\ at' = [at EXCEPT ![c] = "granted"]
  /\ used' = [used EXCEPT ![day[c]] = place[c]]
  /\ UNCHANGED <<today, day, place, spent>>

CallProvider(c) ==
  /\ at[c] = "granted" /\ at' = [at EXCEPT ![c] = "idle"]
  /\ spent' = spent \union {<<day[c], place[c]>>}
  /\ UNCHANGED <<today, used, day, place>>

\* The transaction is rolled back, or the worker dies before or after it.
Abort(c) ==
  /\ at[c] # "idle" /\ at' = [at EXCEPT ![c] = "idle"]
  /\ UNCHANGED <<today, used, day, place, spent>>

Midnight == today < LastDay /\ today' = today + 1 /\ UNCHANGED <<used, at, day, place, spent>>

BudgetNext ==
  \/ \E c \in Consumers : \/ Ask(c) \/ Lock(c) \/ Refuse(c) \/ ReadUsed(c)
                          \/ CommitUsed(c) \/ CallProvider(c) \/ Abort(c)
  \/ Midnight

BudgetSpec == BudgetInit /\ [][BudgetNext]_budgetVars

-----------------------------------------------------------------------------
(* Property.                                                               *)

\* No day's counter passes the limit, and no two requests to the provider are ever sent on
\* the same place in the budget: a day has at most Limit requests, whatever the workers,
\* the failures and the change of day during a transaction (database/src/index.ts 23-36).
BudgetExact ==
  /\ \A d \in Days : used[d] <= Limit
  /\ \A p \in spent : p[2] \in 1..used[p[1]]
  /\ \A c \in Consumers : at[c] = "granted" =>
       /\ place[c] \in 1..used[day[c]] /\ <<day[c], place[c]>> \notin spent
       /\ \A e \in Consumers \ {c} :
            at[e] = "granted" => <<day[e], place[e]>> # <<day[c], place[c]>>
=============================================================================
