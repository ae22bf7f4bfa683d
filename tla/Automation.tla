----------------------------- MODULE Automation -----------------------------
(***************************************************************************)
(* What starts work by itself, and what stops it: the schedules, the       *)
(* autopilot and its limits, the automation setting with its emergency     *)
(* stop, and the ticks of the scheduler that read them.  setInterval does  *)
(* not wait for a tick to end, so several overlap; the API's handlers read *)
(* a row and write it back in two steps.                                   *)
(*                                                                         *)
(* The runs that are started, their jobs and the other phases of a tick    *)
(* are in ProspectingRun, Campaign, WebsiteAnalysis and InsightBatch.      *)
(* Here a run is the row of an autopilot run, with the two facts the       *)
(* limits count.  Time is a counter; a day and a month are a number of     *)
(* units; time zones and daylight saving are left out.                     *)
(*                                                                         *)
(* RandomKey, AtMost and OnlyResume are faulty variants of the operator    *)
(* defined after them; no action uses them.                                *)
(***************************************************************************)
EXTENDS Integers, Sequences, FiniteSets

CONSTANTS
  Schedules, Targets, Ticks, Clients,
  Kind,          \* scheduleType: ONCE, PERIODIC (DAILY, WEEKLY, MONTHLY) or CRON
  Period,        \* the time between two occurrences
  Configs,       \* the values of autopilotConfig the operator saves
  DefaultDelay,  \* defaultAutopilotConfig.delaySeconds
  Day, Month,    \* their length
  MaxTime,       \* bound on the clock
  MaxEvents      \* bound on the operator's changes and the scheduler's failures, together

ASSUME AutomationAssumption ==
  /\ Kind \in [Schedules -> {"ONCE", "PERIODIC", "CRON"}]
  /\ Configs # {}
  /\ Configs \subseteq [concurrent : Nat \ {0}, delay : Nat, daily : Nat \ {0},
                        monthly : Nat \ {0}]
  /\ Period \in Nat \ {0} /\ DefaultDelay \in Nat \ {0} /\ Day \in Nat \ {0}
  /\ Month \in Nat \ {0} /\ Month % Day = 0
  /\ MaxTime \in Nat /\ MaxEvents \in Nat
  /\ IsFiniteSet(Ticks) /\ Ticks # {}

VARIABLES
  clock,
  setting,   \* SystemSetting automation: paused, autopilot
  config,    \* SystemSetting autopilotConfig
  held,      \* the BullMQ queues that are paused: emergency() knows "work" only
  schedule,  \* Schedule: row (none, row, gone), enabled, nextRunAt
  keys,      \* the idempotency keys of the scheduled runs
  made,      \* how many runs each occurrence of a schedule has started
  target,    \* AutopilotTarget: row, enabled, lastDispatchedAt
  auto,      \* the runs of the autopilot: target, createdAt, active, retried
  phase,     \* where each tick is
  due,       \* the schedules a tick listed and has not handled, with their nextRunAt
  since,     \* now of dispatchAutopilot
  chosen,    \* the target a tick is about to start
  seen,      \* paused, as reconcile read it
  request,   \* the request each client of the API has in progress
  events

tables    == <<schedule, keys, made, target, auto>>
ticking == <<phase, due, since, chosen, seen>>
autoVars == <<clock, setting, config, held, tables, ticking, request, events>>

Null     == -1
NoTarget == "no target"
Waiting  == [kind |-> "none"]
Queues   == {"work", "insights"}
Times    == 0..MaxTime+Period

AutomationInit ==
  /\ clock = 0 /\ setting = [paused |-> FALSE, autopilot |-> FALSE] /\ config \in Configs
  /\ held = {} /\ keys = {}
  /\ schedule = [s \in Schedules |-> [row |-> "none", enabled |-> FALSE, next |-> Null]]
  /\ made = [s \in Schedules |-> [t \in Times |-> 0]]
  /\ target = [g \in Targets |-> [row |-> "none", enabled |-> FALSE, last |-> Null]]
  /\ auto = <<>>
  /\ phase = [k \in Ticks |-> "idle"] /\ due = [k \in Ticks |-> {}]
  /\ since = [k \in Ticks |-> 0] /\ chosen = [k \in Ticks |-> NoTarget]
  /\ seen = [k \in Ticks |-> FALSE]
  /\ request = [c \in Clients |-> Waiting] /\ events = 0

Event == events < MaxEvents /\ events' = events + 1

-----------------------------------------------------------------------------
(* Schedules (service.ts 107-126).                                         *)

\* The first occurrence after an instant; DAILY, WEEKLY and MONTHLY keep the anchor's phase.
NextOccurrence(s, from, anchor) ==
  CASE Kind[s] = "ONCE"     -> Null
    [] Kind[s] = "PERIODIC" -> from + Period - ((from - anchor) % Period)
    [] Kind[s] = "CRON"     -> from + Period - (from % Period)

\* normalizeSchedule refuses a single run in the past.
Accepts(s, next) == Kind[s] = "ONCE" => next > clock
Normalized(s, next) ==
  IF Kind[s] = "CRON" \/ next <= clock THEN NextOccurrence(s, clock, next) ELSE next

CreateSchedule(s) ==
  /\ schedule[s].row = "none"
  /\ \E next \in 0..MaxTime :
       /\ Accepts(s, next)
       /\ schedule' = [schedule EXCEPT ![s] =
                         [row |-> "row", enabled |-> TRUE, next |-> Normalized(s, next)]]
  /\ UNCHANGED <<clock, setting, config, held, keys, made, target, auto, ticking, request, events>>

ReadSchedule(c, s) ==
  /\ Event /\ request[c] = Waiting /\ schedule[s].row = "row" /\ schedule[s].next # Null
  /\ Accepts(s, schedule[s].next)
  /\ \E on \in BOOLEAN :
       request' = [request EXCEPT ![c] = [kind |-> "schedule", of |-> s, enabled |-> on,
                                          next |-> Normalized(s, schedule[s].next)]]
  /\ UNCHANGED <<clock, setting, config, held, tables, ticking>>

WriteSchedule(c) ==
  /\ request[c].kind = "schedule" /\ request' = [request EXCEPT ![c] = Waiting]
  /\ LET s == request[c].of IN
       schedule' = IF schedule[s].row = "row"
                   THEN [schedule EXCEPT ![s].enabled = request[c].enabled,
                                         ![s].next = request[c].next]
                   ELSE schedule
  /\ UNCHANGED <<clock, setting, config, held, keys, made, target, auto, ticking, events>>

DeleteSchedule(s) ==
  /\ Event /\ schedule[s].row = "row" /\ schedule' = [schedule EXCEPT ![s].row = "gone"]
  /\ UNCHANGED <<clock, setting, config, held, keys, made, target, auto, ticking, request>>

-----------------------------------------------------------------------------
(* Targets and limits of the autopilot, and its runs.                      *)

SaveTarget(g) ==
  /\ target[g].row \in {"none", "row"}
  /\ IF target[g].row = "none" THEN UNCHANGED events ELSE Event
  /\ \E on \in BOOLEAN :
       /\ target[g].enabled # on
       /\ target' = [target EXCEPT ![g].row = "row", ![g].enabled = on]
  /\ UNCHANGED <<clock, setting, config, held, schedule, keys, made, auto, ticking, request>>

\* The runs of a deleted target lose it, and no longer count.
DeleteTarget(g) ==
  /\ Event /\ target[g].row = "row" /\ target' = [target EXCEPT ![g].row = "gone"]
  /\ auto' = [i \in DOMAIN auto |->
                IF auto[i].of = g THEN [auto[i] EXCEPT !.of = NoTarget] ELSE auto[i]]
  /\ UNCHANGED <<clock, setting, config, held, schedule, keys, made, ticking, request>>

SaveConfig ==
  /\ Event /\ config' \in Configs \ {config}
  /\ UNCHANGED <<clock, setting, held, tables, ticking, request>>

RunEnds(i) ==
  /\ auto[i].active /\ auto' = [auto EXCEPT ![i].active = FALSE]
  /\ UNCHANGED <<clock, setting, config, held, schedule, keys, made, target, ticking, request,
                 events>>

RetryRun(i) ==
  /\ Event /\ ~auto[i].active
  /\ auto' = [auto EXCEPT ![i].active = TRUE, ![i].retried = TRUE]
  /\ UNCHANGED <<clock, setting, config, held, schedule, keys, made, target, ticking, request>>

-----------------------------------------------------------------------------
(* The emergency stop and the switches (service.ts emergency).             *)

Switches == {"stop", "resume", "autopilot-on", "autopilot-off"}
Switched(value, action) ==
  CASE action = "stop"          -> [value EXCEPT !.paused = TRUE]
    [] action = "resume"        -> [value EXCEPT !.paused = FALSE]
    [] action = "autopilot-on"  -> [value EXCEPT !.autopilot = TRUE]
    [] action = "autopilot-off" -> [value EXCEPT !.autopilot = FALSE]

ReadSetting(c) ==
  /\ Event /\ request[c] = Waiting
  /\ \E action \in Switches :
       request' = [request EXCEPT ![c] = [kind |-> "setting", action |-> action,
                                          value |-> Switched(setting, action)]]
  /\ UNCHANGED <<clock, setting, config, held, tables, ticking>>

WriteSetting(c) ==
  /\ request[c].kind = "setting" /\ setting' = request[c].value
  /\ request' = [request EXCEPT ![c] = [kind |-> "queues", action |-> request[c].action]]
  /\ UNCHANGED <<clock, config, held, tables, ticking, events>>

\* The three queues it knows, one after the other.
SetQueues(c) ==
  /\ request[c].kind = "queues" /\ request' = [request EXCEPT ![c] = Waiting]
  /\ held' = CASE request[c].action = "stop"   -> held \union {"work"}
               [] request[c].action = "resume" -> held \ {"work"}
               [] OTHER -> held
  /\ UNCHANGED <<clock, setting, config, tables, ticking, events>>

-----------------------------------------------------------------------------
(* A tick of the scheduler.                                                *)

At(k, where) == phase[k] = where
GoTo(k, where) == phase' = [phase EXCEPT ![k] = where]

\* What a tick has read goes with it.
Forget(ks) ==
  /\ phase' = [k \in Ticks |-> IF k \in ks THEN "idle" ELSE phase[k]]
  /\ due' = [k \in Ticks |-> IF k \in ks THEN {} ELSE due[k]]
  /\ since' = [k \in Ticks |-> IF k \in ks THEN 0 ELSE since[k]]
  /\ chosen' = [k \in Ticks |-> IF k \in ks THEN NoTarget ELSE chosen[k]]
  /\ seen' = [k \in Ticks |-> IF k \in ks THEN FALSE ELSE seen[k]]

\* dispatchSchedules reads the setting and lists what is due.
StartTick(k) ==
  /\ At(k, "idle") /\ GoTo(k, "schedules")
  /\ due' = [due EXCEPT ![k] =
               IF setting.paused THEN {}
               ELSE {<<s, schedule[s].next>> : s \in {x \in Schedules :
                       /\ schedule[x].row = "row" /\ schedule[x].enabled
                       /\ schedule[x].next \in 0..clock}}]
  /\ UNCHANGED <<clock, setting, config, held, tables, since, chosen, seen, request, events>>

RandomKey(s, next) == <<s, Cardinality(keys)>>
Key(s, next)       == <<s, next>>

\* One transaction: it writes what follows from the row as it was listed.
DispatchSchedule(k, s, next) ==
  /\ At(k, "schedules") /\ <<s, next>> \in due[k] /\ schedule[s].row = "row"
  /\ due' = [due EXCEPT ![k] = @ \ {<<s, next>>}]
  /\ IF Key(s, next) \in keys THEN UNCHANGED <<schedule, keys, made>>
     ELSE /\ keys' = keys \union {Key(s, next)}
          /\ made' = [made EXCEPT ![s][next] = @ + 1]
          /\ schedule' = [schedule EXCEPT ![s].next = NextOccurrence(s, next, next),
                                          ![s].enabled = Kind[s] # "ONCE"]
  /\ UNCHANGED <<clock, setting, config, held, target, auto, phase, since, chosen, seen, request,
                 events>>

\* The run exists, or the update finds no row and the transaction and the tick fail.
DispatchDeleted(k, s, next) ==
  /\ At(k, "schedules") /\ <<s, next>> \in due[k] /\ schedule[s].row = "gone"
  /\ IF Key(s, next) \in keys
     THEN due' = [due EXCEPT ![k] = @ \ {<<s, next>>}] /\ UNCHANGED <<phase, since, chosen, seen>>
     ELSE Forget({k})
  /\ UNCHANGED <<clock, setting, config, held, tables, request, events>>

ReadAutomation(k) ==
  /\ At(k, "schedules") /\ due[k] = {}
  /\ IF setting.autopilot /\ ~setting.paused
     THEN GoTo(k, "count") /\ since' = [since EXCEPT ![k] = clock]
     ELSE GoTo(k, "setting") /\ UNCHANGED since
  /\ UNCHANGED <<clock, setting, config, held, tables, due, chosen, seen, request, events>>

\* parseAutopilotConfig takes a delay of zero, which may be saved, for no delay at all.
Delay == IF config.delay > 0 THEN config.delay ELSE DefaultDelay

Counted  == {i \in DOMAIN auto : auto[i].of # NoTarget}
Running  == {i \in Counted : auto[i].active}
StartOf(span, now)   == now - (now % span)
CreatedIn(span, now) == {i \in Counted : auto[i].at >= StartOf(span, now)}

AtMost(set, limit) == Cardinality(set) <= limit
Below(set, limit)  == Cardinality(set) < limit

ShouldDispatch(now) ==
  /\ Below(Running, config.concurrent)
  /\ Below(CreatedIn(Day, now), config.daily)
  /\ Below(CreatedIn(Month, now), config.monthly)
  /\ \A i \in Counted : now - auto[i].at >= Delay

\* The configuration and the four queries, taken as one step.
CountRuns(k) ==
  /\ At(k, "count") /\ GoTo(k, IF ShouldDispatch(since[k]) THEN "pick" ELSE "setting")
  /\ UNCHANGED <<clock, setting, config, held, tables, due, since, chosen, seen, request, events>>

Candidates == {g \in Targets : /\ target[g].row = "row" /\ target[g].enabled
                               /\ \A i \in Running : auto[i].of # g}
Oldest(g)  == \A h \in Candidates : target[g].last <= target[h].last

PickTarget(k) ==
  /\ At(k, "pick")
  /\ \/ /\ Candidates = {} /\ GoTo(k, "setting") /\ UNCHANGED chosen
     \/ \E g \in Candidates :
          Oldest(g) /\ chosen' = [chosen EXCEPT ![k] = g] /\ GoTo(k, "create")
  /\ UNCHANGED <<clock, setting, config, held, tables, due, since, seen, request, events>>

\* The transaction fails, and the tick with it, when the target has been deleted.
CreateRun(k) ==
  /\ At(k, "create")
  /\ LET g == chosen[k] IN
       IF target[g].row = "row"
       THEN /\ auto' = Append(auto, [of |-> g, at |-> clock, active |-> TRUE, retried |-> FALSE])
            /\ target' = [target EXCEPT ![g].last = since[k]]
            /\ chosen' = [chosen EXCEPT ![k] = NoTarget] /\ GoTo(k, "setting")
            /\ UNCHANGED <<due, since, seen>>
       ELSE UNCHANGED <<auto, target>> /\ Forget({k})
  /\ UNCHANGED <<clock, setting, config, held, schedule, keys, made, request, events>>

\* reconcile: the setting is read before the queues are told.
ReadPaused(k) ==
  /\ At(k, "setting") /\ seen' = [seen EXCEPT ![k] = setting.paused] /\ GoTo(k, "sync")
  /\ UNCHANGED <<clock, setting, config, held, tables, due, since, chosen, request, events>>

OnlyResume(paused) == IF paused THEN held ELSE {}
Synced(paused)     == IF paused THEN Queues ELSE {}

SyncQueues(k) ==
  /\ At(k, "sync") /\ held' = Synced(seen[k]) /\ Forget({k})
  /\ UNCHANGED <<clock, setting, config, tables, request, events>>

\* A query fails in one tick, or the process stops and starts again.
TickFails(k) ==
  /\ Event /\ phase[k] # "idle" /\ Forget({k})
  /\ UNCHANGED <<clock, setting, config, held, tables, request>>
Restart ==
  /\ Event /\ (\E k \in Ticks : phase[k] # "idle") /\ Forget(Ticks)
  /\ UNCHANGED <<clock, setting, config, held, tables, request>>

TimePasses ==
  /\ clock < MaxTime /\ clock' = clock + 1
  /\ UNCHANGED <<setting, config, held, tables, ticking, request, events>>

-----------------------------------------------------------------------------
Handle(k) ==
  \/ \E s \in Schedules, next \in Times :
       DispatchSchedule(k, s, next) \/ DispatchDeleted(k, s, next)
  \/ ReadAutomation(k) \/ CountRuns(k) \/ PickTarget(k) \/ CreateRun(k)
  \/ ReadPaused(k) \/ SyncQueues(k)

AutomationNext ==
  \/ \E s \in Schedules : CreateSchedule(s) \/ DeleteSchedule(s)
  \/ \E g \in Targets : SaveTarget(g) \/ DeleteTarget(g)
  \/ SaveConfig
  \/ \E i \in DOMAIN auto : RunEnds(i) \/ RetryRun(i)
  \/ \E c \in Clients : \/ \E s \in Schedules : ReadSchedule(c, s)
                        \/ WriteSchedule(c) \/ ReadSetting(c) \/ WriteSetting(c) \/ SetQueues(c)
  \/ \E k \in Ticks : StartTick(k) \/ Handle(k) \/ TickFails(k)
  \/ Restart
  \/ TimePasses

\* The timer starts a tick again and again, and Node goes on with what is pending.
AutomationFairness == \A k \in Ticks : WF_autoVars(StartTick(k)) /\ WF_autoVars(Handle(k))

AutomationSpec == AutomationInit /\ [][AutomationNext]_autoVars /\ AutomationFairness

-----------------------------------------------------------------------------
(* Properties.                                                             *)

\* An occurrence of a schedule starts at most one run, although overlapping ticks list it
\* together and updateSchedule may write back a nextRunAt that has been dispatched since
\* (scheduler/main.ts 11, service.ts 108).
OccurrenceOnce == \A s \in Schedules, t \in Times : made[s][t] <= 1

\* The limits of the autopilot are counted before the run is created, in no common
\* transaction: each tick that overlaps may go one beyond them, and no more.  A run whose
\* target was deleted is not counted, and a retried run is the operator's
\* (autopilot.ts 15-23, shared/src/index.ts 232-238).
QuotasHold ==
  LET over == Cardinality(Ticks) - 1
      Within(set, limit) == \E c \in Configs : Cardinality(set) <= limit[c] + over
  IN /\ Within({i \in Running : ~auto[i].retried}, [c \in Configs |-> c.concurrent])
     /\ \A now \in 0..clock :
          /\ Within({i \in Counted : auto[i].at \div Day = now \div Day},
                    [c \in Configs |-> c.daily])
          /\ Within({i \in Counted : auto[i].at \div Month = now \div Month},
                    [c \in Configs |-> c.monthly])

\* When the emergency stop stays, every queue ends up paused and stays so, the insight
\* queue that emergency() does not know included, whatever a late "resume" or a tick that
\* read the setting before the stop still does (service.ts 279, reconciliation.ts 18-20).
StopTakesHold == <>[](setting.paused) => <>[](held = Queues)
=============================================================================
