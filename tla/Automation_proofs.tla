-------------------------- MODULE Automation_proofs -------------------------
(***************************************************************************)
(* Two safety properties of what the scheduler starts by itself, for any   *)
(* schedules, targets, configurations and overlapping ticks.               *)
(*                                                                         *)
(* OccurrenceOnce follows from the keys alone: an occurrence has started a *)
(* run exactly when its key is taken.                                      *)
(*                                                                         *)
(* QuotasHold needs the ticks that have counted and not yet created their  *)
(* run (Pending): what exists and what they may still create stays below a *)
(* limit and the number of ticks (Room).  Only a count of the present day  *)
(* bounds it; a day that is over has no pending run any more.              *)
(***************************************************************************)
EXTENDS Automation, FiniteSetTheorems, TLAPS

-----------------------------------------------------------------------------
(* An occurrence starts one run.                                           *)

OnceInv ==
  /\ made \in [Schedules -> [Times -> Nat]]
  /\ \A s \in Schedules, t \in Times :
       /\ <<s, t>> \in keys => made[s][t] = 1
       /\ <<s, t>> \notin keys => made[s][t] = 0

LEMMA OnceInit == AutomationInit => OnceInv
  BY DEF AutomationInit, OnceInv

LEMMA OnceDispatch ==
  ASSUME OnceInv, NEW k \in Ticks, NEW s \in Schedules, NEW next \in Times,
         DispatchSchedule(k, s, next)
  PROVE  OnceInv'
<1>1. CASE <<s, next>> \in keys
  <2>1. UNCHANGED <<keys, made>>
    BY <1>1 DEF DispatchSchedule, Key
  <2>2. QED
    BY <2>1 DEF OnceInv
<1>2. CASE <<s, next>> \notin keys
  <2>1. keys' = keys \union {<<s, next>>} /\ made' = [made EXCEPT ![s][next] = @ + 1]
    BY <1>2 DEF DispatchSchedule, Key
  <2>2. made' \in [Schedules -> [Times -> Nat]]
    BY <2>1 DEF OnceInv
  <2>3. ASSUME NEW z \in Schedules, NEW t \in Times
        PROVE  made'[z][t] = IF z = s /\ t = next THEN made[z][t] + 1 ELSE made[z][t]
    BY <2>1 DEF OnceInv
  <2>4. ASSUME NEW z \in Schedules, NEW t \in Times
        PROVE  <<z, t>> \in keys' <=> <<z, t>> \in keys \/ (z = s /\ t = next)
    BY <2>1
  <2>5. QED
    BY <1>2, <2>2, <2>3, <2>4 DEF OnceInv
<1>3. QED
  BY <1>1, <1>2

LEMMA OnceStep == OnceInv /\ [AutomationNext]_autoVars => OnceInv'
<1> SUFFICES ASSUME OnceInv, [AutomationNext]_autoVars PROVE OnceInv'
  OBVIOUS
<1>1. CASE UNCHANGED <<keys, made>>
  BY <1>1 DEF OnceInv
<1>2. ASSUME NEW s \in Schedules, CreateSchedule(s) \/ DeleteSchedule(s) PROVE OnceInv'
  BY <1>1, <1>2 DEF CreateSchedule, DeleteSchedule
<1>3. ASSUME NEW g \in Targets, SaveTarget(g) \/ DeleteTarget(g) PROVE OnceInv'
  BY <1>1, <1>3 DEF SaveTarget, DeleteTarget
<1>4. ASSUME NEW i, RunEnds(i) \/ RetryRun(i) PROVE OnceInv'
  BY <1>1, <1>4 DEF RunEnds, RetryRun
<1>5. ASSUME NEW c \in Clients, NEW s \in Schedules, ReadSchedule(c, s) PROVE OnceInv'
  BY <1>1, <1>5 DEF ReadSchedule, tables
<1>6. ASSUME NEW c \in Clients,
             WriteSchedule(c) \/ ReadSetting(c) \/ WriteSetting(c) \/ SetQueues(c)
      PROVE  OnceInv'
  BY <1>1, <1>6 DEF WriteSchedule, ReadSetting, WriteSetting, SetQueues, tables
<1>7. ASSUME NEW k \in Ticks, StartTick(k) \/ TickFails(k) PROVE OnceInv'
  BY <1>1, <1>7 DEF StartTick, TickFails, tables
<1>8. ASSUME NEW k \in Ticks, NEW s \in Schedules, NEW next \in Times,
             DispatchDeleted(k, s, next)
      PROVE  OnceInv'
  BY <1>1, <1>8 DEF DispatchDeleted, tables
<1>9. ASSUME NEW k \in Ticks,
             \/ ReadAutomation(k) \/ CountRuns(k) \/ PickTarget(k) \/ CreateRun(k)
             \/ ReadPaused(k) \/ SyncQueues(k)
      PROVE  OnceInv'
  BY <1>1, <1>9 DEF ReadAutomation, CountRuns, PickTarget, CreateRun, ReadPaused, SyncQueues,
     tables
<1>10. CASE SaveConfig \/ Restart \/ TimePasses \/ UNCHANGED autoVars
  BY <1>1, <1>10 DEF SaveConfig, Restart, TimePasses, autoVars, tables
<1>11. QED
  BY <1>2, <1>3, <1>4, <1>5, <1>6, <1>7, <1>8, <1>9, <1>10, OnceDispatch
     DEF AutomationNext, Handle

\* However ticks overlap and whatever the operator writes back, an occurrence of a schedule
\* starts at most one run.
THEOREM RunsOnce == AutomationSpec => []OccurrenceOnce
<1>1. ASSUME OnceInv PROVE OccurrenceOnce
  <2>1. ASSUME NEW s \in Schedules, NEW t \in Times PROVE made[s][t] <= 1
    <3>1. made[s][t] = 1 \/ made[s][t] = 0
      BY <1>1 DEF OnceInv
    <3>2. QED
      BY <3>1
  <2>2. QED
    BY <2>1 DEF OccurrenceOnce
<1>2. QED
  BY <1>1, OnceInit, OnceStep, PTL DEF AutomationSpec

-----------------------------------------------------------------------------
(* The limits of the autopilot.                                            *)

Places == {"idle", "schedules", "count", "pick", "create", "setting", "sync"}
Run    == [of : Targets \union {NoTarget}, at : Nat, active : BOOLEAN, retried : BOOLEAN]

TicksType ==
  /\ clock \in Nat /\ config \in Configs
  /\ phase \in [Ticks -> Places]
  /\ since \in [Ticks -> Nat] /\ \A k \in Ticks : since[k] <= clock
  /\ chosen \in [Ticks -> Targets \union {NoTarget}]
RunsType == auto \in Seq(Run) /\ \A i \in DOMAIN auto : auto[i].at <= clock

Concurrent == [c \in Configs |-> c.concurrent]
Daily      == [c \in Configs |-> c.daily]
Monthly    == [c \in Configs |-> c.monthly]

\* The ticks that may still create a run, the runs the operator has not retried, and those
\* of a day or a month.
Pending          == {k \in Ticks : phase[k] \in {"pick", "create"}}
Automatic        == {i \in Running : ~auto[i].retried}
InSpan(span, now) == {i \in Counted : auto[i].at \div span = now \div span}

Kept(set, limit) == \E c \in Configs : Cardinality(set) <= limit[c] + (Cardinality(Ticks) - 1)
Room(set, pending, limit) ==
  \E c \in Configs : Cardinality(set) + Cardinality(pending) <= limit[c] - 1 + Cardinality(Ticks)

SpanInv(span, limit) ==
  /\ Room(InSpan(span, clock), Pending, limit)
  /\ \A now \in 0..clock : Kept(InSpan(span, now), limit)

QuotaInv ==
  /\ TicksType /\ RunsType
  /\ Room(Automatic, Pending, Concurrent)
  /\ SpanInv(Day, Daily) /\ SpanInv(Month, Monthly)

Limits == [Configs -> Nat \ {0}]

LEMMA LimitsType == Concurrent \in Limits /\ Daily \in Limits /\ Monthly \in Limits
  BY AutomationAssumption DEF Concurrent, Daily, Monthly, Limits

LEMMA TicksFinite == IsFiniteSet(Ticks) /\ Cardinality(Ticks) \in Nat
  BY AutomationAssumption, FS_CardinalityType

LEMMA PendingFinite ==
  /\ IsFiniteSet(Pending) /\ Cardinality(Pending) \in Nat
  /\ Cardinality(Pending) <= Cardinality(Ticks)
<1>1. Pending \subseteq Ticks
  BY DEF Pending
<1>2. QED
  BY <1>1, TicksFinite, FS_Subset, FS_CardinalityType

LEMMA CountedFinite == RunsType => IsFiniteSet(Counted)
<1> SUFFICES ASSUME RunsType PROVE IsFiniteSet(Counted)
  OBVIOUS
<1>1. DOMAIN auto = 1..Len(auto) /\ Len(auto) \in Nat
  BY DEF RunsType
<1>2. IsFiniteSet(1..Len(auto))
  BY <1>1, FS_Interval
<1>3. Counted \subseteq 1..Len(auto)
  BY <1>1 DEF Counted
<1>4. QED
  BY <1>2, <1>3, FS_Subset

\* Fewer runs and fewer pending ticks leave room; a set with room has kept its limit.
LEMMA FewerKept ==
  ASSUME NEW A, IsFiniteSet(A), NEW B \in SUBSET A, NEW limit \in Limits, Kept(A, limit)
  PROVE  Kept(B, limit)
<1>1. PICK c \in Configs : Cardinality(A) <= limit[c] + (Cardinality(Ticks) - 1)
  BY DEF Kept
<1>2. Cardinality(B) <= Cardinality(A) /\ Cardinality(A) \in Nat /\ Cardinality(B) \in Nat
  BY FS_Subset, FS_CardinalityType
<1>3. limit[c] \in Nat
  BY DEF Limits
<1>4. Cardinality(B) <= limit[c] + (Cardinality(Ticks) - 1)
  BY <1>1, <1>2, <1>3, TicksFinite
<1>5. QED
  BY <1>4 DEF Kept

LEMMA FewerRoom ==
  ASSUME NEW A, IsFiniteSet(A), NEW B \in SUBSET A, NEW P, IsFiniteSet(P), NEW Q \in SUBSET P,
         NEW limit \in Limits, Room(A, P, limit)
  PROVE  Room(B, Q, limit)
<1>1. PICK c \in Configs : Cardinality(A) + Cardinality(P) <= limit[c] - 1 + Cardinality(Ticks)
  BY DEF Room
<1>2. Cardinality(B) <= Cardinality(A) /\ Cardinality(A) \in Nat /\ Cardinality(B) \in Nat
  BY FS_Subset, FS_CardinalityType
<1>3. Cardinality(Q) <= Cardinality(P) /\ Cardinality(P) \in Nat /\ Cardinality(Q) \in Nat
  BY FS_Subset, FS_CardinalityType
<1>4. limit[c] \in Nat
  BY DEF Limits
<1>5. Cardinality(B) + Cardinality(Q) <= limit[c] - 1 + Cardinality(Ticks)
  BY <1>1, <1>2, <1>3, <1>4, TicksFinite
<1>6. QED
  BY <1>5 DEF Room

LEMMA RoomKept ==
  ASSUME NEW A, IsFiniteSet(A), NEW P, IsFiniteSet(P), NEW limit \in Limits, Room(A, P, limit)
  PROVE  Kept(A, limit)
<1>1. PICK c \in Configs : Cardinality(A) + Cardinality(P) <= limit[c] - 1 + Cardinality(Ticks)
  BY DEF Room
<1>2. Cardinality(A) \in Nat /\ Cardinality(P) \in Nat /\ limit[c] \in Nat
  BY FS_CardinalityType DEF Limits
<1>3. Cardinality(A) <= limit[c] + (Cardinality(Ticks) - 1)
  BY <1>1, <1>2, TicksFinite
<1>4. QED
  BY <1>3 DEF Kept

\* A count below a limit leaves room for every tick, and an empty set does.
LEMMA CountRoom ==
  ASSUME NEW A, IsFiniteSet(A), NEW B \in SUBSET A, NEW P \in SUBSET Ticks,
         NEW limit \in Limits, NEW c \in Configs, Cardinality(A) < limit[c]
  PROVE  Room(B, P, limit)
<1>1. Cardinality(B) <= Cardinality(A) /\ Cardinality(A) \in Nat /\ Cardinality(B) \in Nat
  BY FS_Subset, FS_CardinalityType
<1>2. Cardinality(P) <= Cardinality(Ticks) /\ Cardinality(P) \in Nat
  BY TicksFinite, FS_Subset, FS_CardinalityType
<1>3. limit[c] \in Nat
  BY DEF Limits
<1>4. Cardinality(B) + Cardinality(P) <= limit[c] - 1 + Cardinality(Ticks)
  BY <1>1, <1>2, <1>3, TicksFinite
<1>5. QED
  BY <1>4 DEF Room

LEMMA EmptyRoom ==
  ASSUME NEW P \in SUBSET Ticks, NEW limit \in Limits PROVE Room({}, P, limit)
<1>1. PICK c \in Configs : TRUE
  BY AutomationAssumption
<1>2. Cardinality({}) = 0 /\ IsFiniteSet({})
  BY FS_EmptySet
<1>3. limit[c] \in Nat \ {0}
  BY DEF Limits
<1>4. QED
  BY <1>1, <1>2, <1>3, CountRoom

\* A run that takes the place of the tick that created it.
LEMMA CreateRoom ==
  ASSUME NEW A, IsFiniteSet(A), NEW n, n \notin A, NEW B \in SUBSET (A \union {n}),
         NEW P, IsFiniteSet(P), NEW k \in P, NEW limit \in Limits, Room(A, P, limit)
  PROVE  Room(B, P \ {k}, limit)
<1>1. PICK c \in Configs : Cardinality(A) + Cardinality(P) <= limit[c] - 1 + Cardinality(Ticks)
  BY DEF Room
<1>2. IsFiniteSet(A \union {n}) /\ Cardinality(A \union {n}) = Cardinality(A) + 1
  BY FS_AddElement
<1>3. Cardinality(B) <= Cardinality(A) + 1 /\ Cardinality(A) \in Nat /\ Cardinality(B) \in Nat
  BY <1>2, FS_Subset, FS_CardinalityType
<1>4. IsFiniteSet(P \ {k}) /\ Cardinality(P \ {k}) = Cardinality(P) - 1
  BY FS_RemoveElement
<1>5. Cardinality(P) \in Nat /\ limit[c] \in Nat
  BY FS_CardinalityType DEF Limits
<1>6. Cardinality(B) + Cardinality(P \ {k}) <= limit[c] - 1 + Cardinality(Ticks)
  BY <1>1, <1>3, <1>4, <1>5, TicksFinite
<1>7. QED
  BY <1>6 DEF Room

-----------------------------------------------------------------------------
(* Runs of a day or a month.                                               *)

LEMMA DivMonotone ==
  ASSUME NEW span \in Nat \ {0}, NEW a \in Nat, NEW b \in Nat, a <= b
  PROVE  a \div span <= b \div span
  OBVIOUS

LEMMA AtType ==
  ASSUME RunsType, NEW i \in Counted
  PROVE  i \in DOMAIN auto /\ auto[i].at \in Nat /\ auto[i].at <= clock
<1>1. i \in DOMAIN auto
  BY DEF Counted
<1>2. auto[i] \in Run /\ auto[i].at <= clock
  BY <1>1 DEF RunsType
<1>3. auto[i].at \in Nat
  BY <1>2 DEF Run
<1>4. QED
  BY <1>1, <1>2, <1>3

\* What counts in the present day or month was created after it began.
LEMMA InSpanCreated ==
  ASSUME TicksType, RunsType, NEW span \in Nat \ {0}, NEW now \in Nat, now <= clock
  PROVE  InSpan(span, clock) \subseteq CreatedIn(span, now)
<1> SUFFICES ASSUME NEW i \in InSpan(span, clock) PROVE i \in CreatedIn(span, now)
  OBVIOUS
<1> DEFINE at == auto[i].at
<1>1. i \in Counted /\ at \div span = clock \div span
  BY DEF InSpan
<1>2. at \in Nat /\ clock \in Nat
  BY <1>1, AtType DEF TicksType
<1>3. now \div span <= clock \div span
  BY <1>2, DivMonotone
<1>4. at >= now - (now % span)
  <2> HIDE DEF at
  <2>1. at = span * (at \div span) + (at % span) /\ at % span \in Nat /\ at \div span \in Nat
    BY <1>2
  <2>2. now = span * (now \div span) + (now % span) /\ now \div span \in Nat
    OBVIOUS
  <2>3. span * (now \div span) <= span * (at \div span)
    <3>1. ASSUME NEW p \in Nat, NEW q \in Nat, p <= q PROVE span * p <= span * q
      BY <3>1
    <3>2. now \div span <= at \div span
      BY <1>1, <1>3 DEF at
    <3>3. QED
      BY <2>1, <2>2, <3>1, <3>2
  <2>4. span * (now \div span) \in Nat /\ span * (at \div span) \in Nat /\ now % span \in Nat
    BY <2>1, <2>2
  <2>5. QED
    BY <2>1, <2>2, <2>3, <2>4
<1>5. QED
  BY <1>1, <1>4 DEF CreatedIn, StartOf

LEMMA InSpanFinite ==
  ASSUME RunsType, NEW span, NEW now PROVE IsFiniteSet(InSpan(span, now))
  BY CountedFinite, FS_Subset DEF InSpan

\* Steps that create no run, count no run and take no time.
Fewer ==
  /\ clock' = clock /\ Pending' \subseteq Pending /\ Counted' \subseteq Counted
  /\ \A i \in Counted' : auto'[i].at = auto[i].at

LEMMA SpanFewer ==
  ASSUME TicksType, RunsType, NEW span, NEW limit \in Limits, SpanInv(span, limit), Fewer
  PROVE  SpanInv(span, limit)'
<1>1. ASSUME NEW now PROVE InSpan(span, now)' \subseteq InSpan(span, now)
  BY DEF Fewer, InSpan
<1>2. Room(InSpan(span, clock), Pending, limit)'
  <2>1. InSpan(span, clock)' \subseteq InSpan(span, clock)
    BY DEF Fewer, InSpan
  <2>2. QED
    BY <2>1, FewerRoom, InSpanFinite, PendingFinite DEF SpanInv, Fewer
<1>3. ASSUME NEW now \in 0..clock PROVE Kept(InSpan(span, now)', limit)
  BY <1>1, FewerKept, InSpanFinite DEF SpanInv
<1>4. QED
  BY <1>2, <1>3 DEF SpanInv, Fewer

\* A new day or month begins with no run in it.
LEMMA SpanTime ==
  ASSUME TicksType, RunsType, NEW span \in Nat \ {0}, NEW limit \in Limits,
         SpanInv(span, limit), clock' = clock + 1, UNCHANGED <<auto, phase>>
  PROVE  SpanInv(span, limit)'
<1>1. clock \in Nat /\ clock' \in Nat
  BY DEF TicksType
<1>2. Counted' = Counted /\ Pending' = Pending
  BY DEF Counted, Pending
<1>3. ASSUME NEW now PROVE InSpan(span, now)' = InSpan(span, now)
  BY <1>2 DEF InSpan
<1>4. InSpan(span, clock)' = InSpan(span, clock')
  BY <1>2 DEF InSpan
<1>5. Room(InSpan(span, clock'), Pending, limit)
  <2>1. CASE clock' \div span = clock \div span
    <3>1. InSpan(span, clock') = InSpan(span, clock)
      BY <2>1 DEF InSpan
    <3>2. QED
      BY <3>1 DEF SpanInv
  <2>2. CASE clock' \div span # clock \div span
    <3>1. ASSUME NEW i \in Counted PROVE auto[i].at \div span # clock' \div span
      <4>1. auto[i].at \in Nat /\ auto[i].at <= clock
        BY AtType
      <4>2. auto[i].at \div span <= clock \div span
        BY <1>1, <4>1, DivMonotone
      <4>3. clock \div span <= clock' \div span
        BY <1>1, DivMonotone
      <4>4. clock \div span \in Int /\ clock' \div span \in Int /\ auto[i].at \div span \in Int
        BY <1>1, <4>1
      <4>5. QED
        BY <2>2, <4>2, <4>3, <4>4
    <3>2. InSpan(span, clock') = {}
      BY <3>1 DEF InSpan
    <3>3. Pending \in SUBSET Ticks
      BY DEF Pending
    <3>4. QED
      BY <3>2, <3>3, EmptyRoom
  <2>3. QED
    BY <2>1, <2>2
<1>6. Room(InSpan(span, clock), Pending, limit)'
  BY <1>2, <1>4, <1>5
<1>7. Kept(InSpan(span, clock'), limit)
  BY <1>5, RoomKept, InSpanFinite, PendingFinite
<1>8. ASSUME NEW now \in 0..clock' PROVE Kept(InSpan(span, now)', limit)
  <2>1. now \in 0..clock \/ now = clock'
    BY <1>1
  <2>2. CASE now \in 0..clock
    BY <1>3, <2>2 DEF SpanInv
  <2>3. CASE now = clock'
    BY <1>3, <1>7, <2>3
  <2>4. QED
    BY <2>1, <2>2, <2>3
<1>9. QED
  BY <1>6, <1>8 DEF SpanInv

\* A count below the limit leaves room for the tick that made it.
LEMMA SpanCount ==
  ASSUME TicksType, RunsType, NEW span \in Nat \ {0}, NEW limit \in Limits,
         SpanInv(span, limit), UNCHANGED <<clock, auto>>, Pending' \subseteq Ticks,
         NEW k \in Ticks, Below(CreatedIn(span, since[k]), limit[config])
  PROVE  SpanInv(span, limit)'
<1>1. Counted' = Counted
  BY DEF Counted
<1>2. ASSUME NEW now PROVE InSpan(span, now)' = InSpan(span, now)
  BY <1>1 DEF InSpan
<1>3. InSpan(span, clock)' = InSpan(span, clock)
  BY <1>1 DEF InSpan
<1>4. since[k] \in Nat /\ since[k] <= clock /\ config \in Configs
  BY DEF TicksType
<1>5. InSpan(span, clock) \subseteq CreatedIn(span, since[k])
  BY <1>4, InSpanCreated
<1>6. IsFiniteSet(CreatedIn(span, since[k]))
  BY CountedFinite, FS_Subset DEF CreatedIn
<1>7. Cardinality(CreatedIn(span, since[k])) < limit[config]
  BY DEF Below
<1>8. Room(InSpan(span, clock), Pending', limit)
  BY <1>4, <1>5, <1>6, <1>7, CountRoom
<1>9. QED
  BY <1>2, <1>3, <1>8 DEF SpanInv

\* The tick that has created its run is pending no longer.
LEMMA SpanCreate ==
  ASSUME TicksType, RunsType, NEW span \in Nat \ {0}, NEW limit \in Limits,
         SpanInv(span, limit), RunsType', NEW k \in Pending, Pending' = Pending \ {k},
         NEW new \in Run, auto' = Append(auto, new), new.at = clock, UNCHANGED clock
  PROVE  SpanInv(span, limit)'
<1> DEFINE n == Len(auto) + 1
<1>1. n \notin DOMAIN auto /\ DOMAIN auto' = DOMAIN auto \union {n} /\ auto'[n] = new
  BY DEF RunsType
<1>2. \A i \in DOMAIN auto : auto'[i] = auto[i]
  BY DEF RunsType
<1> HIDE DEF n
<1>3. Counted' \subseteq Counted \union {n} /\ n \notin Counted
  BY <1>1, <1>2 DEF Counted
<1>4. ASSUME NEW now PROVE InSpan(span, now)' \subseteq InSpan(span, now) \union {n}
  BY <1>2, <1>3 DEF InSpan, Counted
<1>5. n \notin InSpan(span, clock)
  BY <1>3 DEF InSpan
<1>6. InSpan(span, clock)' \subseteq InSpan(span, clock) \union {n}
  BY <1>2, <1>3 DEF InSpan, Counted
<1>7. Room(InSpan(span, clock)', Pending', limit)
  BY <1>5, <1>6, CreateRoom, InSpanFinite, PendingFinite DEF SpanInv
<1>8. Kept(InSpan(span, clock)', limit)
  <2>1. IsFiniteSet(InSpan(span, clock) \union {n})
    BY InSpanFinite, FS_AddElement
  <2>2. IsFiniteSet(InSpan(span, clock)')
    BY <1>6, <2>1, FS_Subset
  <2>3. IsFiniteSet(Pending')
    BY PendingFinite, FS_Subset
  <2>4. QED
    BY <1>7, <2>2, <2>3, RoomKept
<1>9. ASSUME NEW now \in 0..clock PROVE Kept(InSpan(span, now)', limit)
  <2>1. CASE now \div span = clock \div span
    <3>1. InSpan(span, now)' = InSpan(span, clock)'
      BY <2>1 DEF InSpan
    <3>2. QED
      BY <1>8, <3>1
  <2>2. CASE now \div span # clock \div span
    <3>1. InSpan(span, now)' \subseteq InSpan(span, now)
      BY <1>1, <1>2, <1>3, <2>2 DEF InSpan, Counted
    <3>2. QED
      BY <3>1, FewerKept, InSpanFinite DEF SpanInv
  <2>3. QED
    BY <2>1, <2>2
<1>10. QED
  BY <1>7, <1>9 DEF SpanInv

-----------------------------------------------------------------------------
(* Each step keeps the limits.                                             *)

LEMMA SpansType == Day \in Nat \ {0} /\ Month \in Nat \ {0}
  BY AutomationAssumption

LEMMA QuotaFewer ==
  ASSUME QuotaInv, TicksType', RunsType', Fewer, Automatic' \subseteq Automatic
  PROVE  QuotaInv'
<1>1. SpanInv(Day, Daily)' /\ SpanInv(Month, Monthly)'
  BY SpanFewer, LimitsType DEF QuotaInv
<1>2. IsFiniteSet(Automatic)
  BY CountedFinite, FS_Subset DEF QuotaInv, Automatic, Running
<1>3. Room(Automatic', Pending', Concurrent)
  BY <1>2, FewerRoom, PendingFinite, LimitsType DEF QuotaInv, Fewer
<1>4. QED
  BY <1>1, <1>3 DEF QuotaInv

\* Steps that leave the clock and the runs alone.
LEMMA QuotaFrame ==
  ASSUME QuotaInv, UNCHANGED <<clock, auto>>, config' \in Configs, Pending' \subseteq Pending,
         phase' \in [Ticks -> Places], chosen' \in [Ticks -> Targets \union {NoTarget}],
         since' \in [Ticks -> Nat], \A k \in Ticks : since'[k] <= clock
  PROVE  QuotaInv'
<1>1. TicksType' /\ RunsType'
  BY DEF QuotaInv, TicksType, RunsType
<1>2. Fewer /\ Automatic' \subseteq Automatic
  BY DEF Fewer, Automatic, Running, Counted
<1>3. QED
  BY <1>1, <1>2, QuotaFewer

LEMMA QuotaSame ==
  ASSUME QuotaInv, UNCHANGED <<clock, auto, phase, since, chosen>>, config' \in Configs
  PROVE  QuotaInv'
  BY QuotaFrame DEF QuotaInv, TicksType, Pending

LEMMA QuotaForget ==
  ASSUME QuotaInv, NEW ks \in SUBSET Ticks, Forget(ks), UNCHANGED <<clock, auto, config>>
  PROVE  QuotaInv'
<1>1. /\ phase' \in [Ticks -> Places] /\ chosen' \in [Ticks -> Targets \union {NoTarget}]
      /\ since' \in [Ticks -> Nat] /\ \A k \in Ticks : since'[k] <= clock
  BY DEF QuotaInv, TicksType, Forget, Places
<1>2. Pending' \subseteq Pending
  BY DEF Forget, Pending
<1>3. QED
  BY <1>1, <1>2, QuotaFrame DEF QuotaInv, TicksType

\* A tick goes on, with or without a target it has chosen.
LEMMA QuotaGo ==
  ASSUME QuotaInv, NEW k \in Ticks, NEW where \in Places, GoTo(k, where),
         where \in {"pick", "create"} => k \in Pending,
         UNCHANGED <<clock, auto, config, since>>,
         chosen' \in [Ticks -> Targets \union {NoTarget}]
  PROVE  QuotaInv'
<1>1. phase' \in [Ticks -> Places]
  BY DEF QuotaInv, TicksType, GoTo
<1>2. Pending' \subseteq Pending
  BY DEF QuotaInv, TicksType, GoTo, Pending
<1>3. QED
  BY <1>1, <1>2, QuotaFrame DEF QuotaInv, TicksType

LEMMA QuotaRead ==
  ASSUME QuotaInv, NEW k \in Ticks, ReadAutomation(k) PROVE QuotaInv'
<1>1. CASE setting.autopilot /\ ~setting.paused
  <2>1. phase' = [phase EXCEPT ![k] = "count"] /\ since' = [since EXCEPT ![k] = clock]
    BY <1>1 DEF ReadAutomation, GoTo
  <2>2. UNCHANGED <<clock, auto, config, chosen>>
    BY DEF ReadAutomation, tables
  <2>3. /\ phase' \in [Ticks -> Places] /\ since' \in [Ticks -> Nat]
        /\ \A j \in Ticks : since'[j] <= clock
    BY <2>1 DEF QuotaInv, TicksType, Places
  <2>4. Pending' \subseteq Pending
    BY <2>1 DEF QuotaInv, TicksType, Pending
  <2>5. QED
    BY <2>2, <2>3, <2>4, QuotaFrame DEF QuotaInv, TicksType
<1>2. CASE ~(setting.autopilot /\ ~setting.paused)
  <2>1. GoTo(k, "setting") /\ UNCHANGED <<clock, auto, config, since, chosen>>
    BY <1>2 DEF ReadAutomation, tables
  <2>2. QED
    BY <2>1, QuotaGo DEF QuotaInv, TicksType, Places
<1>3. QED
  BY <1>1, <1>2

LEMMA QuotaCount ==
  ASSUME QuotaInv, NEW k \in Ticks, CountRuns(k) PROVE QuotaInv'
<1>1. UNCHANGED <<clock, auto, config, since, chosen>>
  BY DEF CountRuns, tables
<1>2. CASE ~ShouldDispatch(since[k])
  <2>1. GoTo(k, "setting")
    BY <1>2 DEF CountRuns
  <2>2. QED
    BY <1>1, <2>1, QuotaGo DEF QuotaInv, TicksType, Places
<1>3. CASE ShouldDispatch(since[k])
  <2>1. phase' = [phase EXCEPT ![k] = "pick"]
    BY <1>3 DEF CountRuns, GoTo
  <2>2. TicksType' /\ RunsType' /\ Pending' \subseteq Ticks
    BY <1>1, <2>1 DEF QuotaInv, TicksType, RunsType, Places, Pending
  <2>3. config \in Configs /\ Concurrent[config] = config.concurrent
        /\ Daily[config] = config.daily /\ Monthly[config] = config.monthly
    BY DEF QuotaInv, TicksType, Concurrent, Daily, Monthly
  <2>4. /\ Below(Running, Concurrent[config])
        /\ Below(CreatedIn(Day, since[k]), Daily[config])
        /\ Below(CreatedIn(Month, since[k]), Monthly[config])
    BY <1>3, <2>3 DEF ShouldDispatch
  <2>5. SpanInv(Day, Daily)' /\ SpanInv(Month, Monthly)'
    BY <1>1, <2>2, <2>4, SpanCount, SpansType, LimitsType DEF QuotaInv
  <2>6. Room(Automatic', Pending', Concurrent)
    <3>1. Automatic' = Automatic
      BY <1>1 DEF Automatic, Running, Counted
    <3>2. Automatic \subseteq Running
      BY DEF Automatic
    <3>3. IsFiniteSet(Running)
      BY CountedFinite, FS_Subset DEF QuotaInv, Running
    <3>4. Cardinality(Running) < Concurrent[config]
      BY <2>4 DEF Below
    <3>5. Room(Automatic, Pending', Concurrent)
      BY <2>2, <2>3, <3>2, <3>3, <3>4, CountRoom, LimitsType
    <3>6. QED
      BY <3>1, <3>5
  <2>7. QED
    BY <2>2, <2>5, <2>6 DEF QuotaInv
<1>4. QED
  BY <1>2, <1>3

LEMMA QuotaPick ==
  ASSUME QuotaInv, NEW k \in Ticks, PickTarget(k) PROVE QuotaInv'
<1>1. UNCHANGED <<clock, auto, config, since>> /\ k \in Pending
  BY DEF PickTarget, tables, At, Pending
<1>2. CASE GoTo(k, "setting") /\ UNCHANGED chosen
  BY <1>1, <1>2, QuotaGo DEF QuotaInv, TicksType, Places
<1>3. ASSUME NEW g \in Candidates, chosen' = [chosen EXCEPT ![k] = g], GoTo(k, "create")
      PROVE  QuotaInv'
  <2>1. chosen' \in [Ticks -> Targets \union {NoTarget}]
    BY <1>3 DEF QuotaInv, TicksType, Candidates
  <2>2. QED
    BY <1>1, <1>3, <2>1, QuotaGo DEF Places
<1>4. QED
  BY <1>2, <1>3 DEF PickTarget

LEMMA QuotaCreate ==
  ASSUME QuotaInv, NEW k \in Ticks, CreateRun(k) PROVE QuotaInv'
<1> DEFINE g == chosen[k]
           new == [of |-> g, at |-> clock, active |-> TRUE, retried |-> FALSE]
<1>1. CASE target[g].row # "row"
  BY <1>1, QuotaForget DEF CreateRun
<1>2. CASE target[g].row = "row"
  <2>1. auto' = Append(auto, new)
    BY <1>2 DEF CreateRun
  <2>2. chosen' = [chosen EXCEPT ![k] = NoTarget] /\ phase' = [phase EXCEPT ![k] = "setting"]
    BY <1>2 DEF CreateRun, GoTo
  <2>3. UNCHANGED <<clock, config, since>> /\ k \in Pending
    BY <1>2 DEF CreateRun, At, Pending
  <2>4. new \in Run /\ new.at = clock
    BY DEF QuotaInv, TicksType, Run
  <2>5. TicksType'
    BY <2>2, <2>3 DEF QuotaInv, TicksType, Places
  <2>6. Pending' = Pending \ {k}
    BY <2>2 DEF QuotaInv, TicksType, Pending
  <2> HIDE DEF new
  <2>7. RunsType'
    <3>1. auto' \in Seq(Run)
      BY <2>1, <2>4 DEF QuotaInv, RunsType
    <3>2. ASSUME NEW i \in DOMAIN auto' PROVE auto'[i].at <= clock
      <4>1. CASE i \in DOMAIN auto
        BY <2>1, <2>4, <4>1 DEF QuotaInv, RunsType
      <4>2. CASE i \notin DOMAIN auto
        <5>1. auto'[i] = new
          BY <2>1, <2>4, <3>2, <4>2 DEF QuotaInv, RunsType
        <5>2. QED
          BY <2>4, <5>1 DEF QuotaInv, TicksType
      <4>3. QED
        BY <4>1, <4>2
    <3>3. QED
      BY <2>3, <3>1, <3>2 DEF RunsType
  <2>8. SpanInv(Day, Daily)' /\ SpanInv(Month, Monthly)'
    BY <2>1, <2>3, <2>4, <2>6, <2>7, SpanCreate, SpansType, LimitsType DEF QuotaInv
  <2>9. Room(Automatic', Pending', Concurrent)
    <3> DEFINE n == Len(auto) + 1
    <3>1. n \notin DOMAIN auto /\ DOMAIN auto' = DOMAIN auto \union {n}
      BY <2>1, <2>4 DEF QuotaInv, RunsType
    <3>2. \A i \in DOMAIN auto : auto'[i] = auto[i]
      BY <2>1, <2>4 DEF QuotaInv, RunsType
    <3> HIDE DEF n
    <3>3. Automatic' \subseteq Automatic \union {n} /\ n \notin Automatic
      BY <3>1, <3>2 DEF Automatic, Running, Counted
    <3>4. IsFiniteSet(Automatic)
      BY CountedFinite, FS_Subset DEF QuotaInv, Automatic, Running
    <3>5. QED
      BY <2>3, <2>6, <3>3, <3>4, CreateRoom, PendingFinite, LimitsType DEF QuotaInv
  <2>10. QED
    BY <2>5, <2>7, <2>8, <2>9 DEF QuotaInv
<1>3. QED
  BY <1>1, <1>2

\* Steps of the runs.
LEMMA QuotaRuns ==
  ASSUME QuotaInv, auto' \in Seq(Run), DOMAIN auto' = DOMAIN auto,
         \A i \in DOMAIN auto : auto'[i].at = auto[i].at,
         \A i \in DOMAIN auto : auto'[i].of # NoTarget => auto[i].of # NoTarget,
         \A i \in DOMAIN auto : auto'[i].active /\ ~auto'[i].retried
                                  => auto[i].active /\ ~auto[i].retried,
         UNCHANGED <<clock, config, phase, since, chosen>>
  PROVE  QuotaInv'
<1>1. TicksType' /\ RunsType'
  BY DEF QuotaInv, TicksType, RunsType
<1>2. Counted' \subseteq Counted /\ Automatic' \subseteq Automatic
  BY DEF Counted, Running, Automatic
<1>3. Fewer
  BY <1>2 DEF Fewer, Pending, Counted
<1>4. QED
  BY <1>1, <1>2, <1>3, QuotaFewer

LEMMA QuotaDeleteTarget ==
  ASSUME QuotaInv, NEW g \in Targets, DeleteTarget(g) PROVE QuotaInv'
<1>1. auto \in Seq(Run) /\ \A i \in DOMAIN auto : auto[i] \in Run
  BY DEF QuotaInv, RunsType
<1>2. auto' = [i \in DOMAIN auto |->
                 IF auto[i].of = g THEN [auto[i] EXCEPT !.of = NoTarget] ELSE auto[i]]
  BY DEF DeleteTarget
<1>3. ASSUME NEW r \in Run
      PROVE  LET q == [r EXCEPT !.of = NoTarget] IN
             /\ q \in Run /\ q.of = NoTarget /\ q.at = r.at /\ q.active = r.active
             /\ q.retried = r.retried
  BY DEF Run
<1>4. ASSUME NEW i \in DOMAIN auto
      PROVE  /\ auto'[i] \in Run /\ auto'[i].at = auto[i].at
             /\ auto'[i].active = auto[i].active /\ auto'[i].retried = auto[i].retried
             /\ auto'[i].of # NoTarget => auto[i].of # NoTarget
  <2>1. CASE auto[i].of = g
    <3>1. auto'[i] = [auto[i] EXCEPT !.of = NoTarget]
      BY <1>2, <2>1
    <3>2. QED
      BY <1>1, <1>3, <3>1
  <2>2. CASE auto[i].of # g
    <3>1. auto'[i] = auto[i]
      BY <1>2, <2>2
    <3>2. QED
      BY <1>1, <3>1
  <2>3. QED
    BY <2>1, <2>2
<1>5. DOMAIN auto' = DOMAIN auto /\ auto' \in Seq(Run)
  BY <1>1, <1>2, <1>4
<1>6. UNCHANGED <<clock, config, phase, since, chosen>>
  BY DEF DeleteTarget, ticking
<1>7. QED
  BY <1>4, <1>5, <1>6, QuotaRuns

LEMMA QuotaRunChanges ==
  ASSUME QuotaInv, NEW i \in DOMAIN auto, RunEnds(i) \/ RetryRun(i) PROVE QuotaInv'
<1>1. auto \in Seq(Run) /\ auto[i] \in Run
  BY DEF QuotaInv, RunsType
<1>2. PICK r \in Run :
        /\ auto' = [auto EXCEPT ![i] = r] /\ r.of = auto[i].of /\ r.at = auto[i].at
        /\ r.active => r.retried
  <2>1. CASE RunEnds(i)
    <3>1. auto' = [auto EXCEPT ![i] = [auto[i] EXCEPT !.active = FALSE]]
      BY <2>1 DEF RunEnds
    <3>2. [auto[i] EXCEPT !.active = FALSE] \in Run
      BY <1>1 DEF Run
    <3>3. QED
      BY <1>1, <3>1, <3>2 DEF Run
  <2>2. CASE RetryRun(i)
    <3>1. auto' = [auto EXCEPT ![i] = [auto[i] EXCEPT !.active = TRUE, !.retried = TRUE]]
      BY <2>2 DEF RetryRun
    <3>2. [auto[i] EXCEPT !.active = TRUE, !.retried = TRUE] \in Run
      BY <1>1 DEF Run
    <3>3. QED
      BY <1>1, <3>1, <3>2 DEF Run
  <2>3. QED
    BY <2>1, <2>2
<1>3. auto' \in Seq(Run) /\ DOMAIN auto' = DOMAIN auto
  BY <1>1, <1>2
<1>4. ASSUME NEW j \in DOMAIN auto
      PROVE  /\ auto'[j].at = auto[j].at /\ auto'[j].of = auto[j].of
             /\ auto'[j].active /\ ~auto'[j].retried => auto[j].active /\ ~auto[j].retried
  <2>1. CASE j = i
    BY <1>1, <1>2, <2>1
  <2>2. CASE j # i
    BY <1>1, <1>2, <2>2
  <2>3. QED
    BY <2>1, <2>2
<1>5. UNCHANGED <<clock, config, phase, since, chosen>>
  BY DEF RunEnds, RetryRun, ticking
<1>6. QED
  BY <1>3, <1>4, <1>5, QuotaRuns

LEMMA QuotaTime ==
  ASSUME QuotaInv, TimePasses PROVE QuotaInv'
<1>1. clock' = clock + 1 /\ UNCHANGED <<auto, config, phase, since, chosen>>
  BY DEF TimePasses, tables, ticking
<1>2. TicksType' /\ RunsType'
  <2>1. TicksType'
    BY <1>1 DEF QuotaInv, TicksType
  <2>2. ASSUME NEW i \in DOMAIN auto PROVE auto[i].at <= clock + 1
    <3>1. auto[i] \in Run /\ auto[i].at <= clock
      BY DEF QuotaInv, RunsType
    <3>2. auto[i].at \in Nat
      BY <3>1 DEF Run
    <3>3. QED
      BY <3>1, <3>2 DEF QuotaInv, TicksType
  <2>3. QED
    BY <1>1, <2>1, <2>2 DEF QuotaInv, RunsType
<1>3. SpanInv(Day, Daily)' /\ SpanInv(Month, Monthly)'
  BY <1>1, SpanTime, SpansType, LimitsType DEF QuotaInv
<1>4. Automatic' = Automatic /\ Pending' = Pending
  BY <1>1 DEF Automatic, Running, Counted, Pending
<1>5. QED
  BY <1>2, <1>3, <1>4 DEF QuotaInv

LEMMA QuotaStep == QuotaInv /\ [AutomationNext]_autoVars => QuotaInv'
<1> SUFFICES ASSUME QuotaInv, [AutomationNext]_autoVars PROVE QuotaInv'
  OBVIOUS
<1>0. config \in Configs
  BY DEF QuotaInv, TicksType
<1>1. CASE UNCHANGED <<clock, auto, phase, since, chosen, config>>
  BY <1>0, <1>1, QuotaSame
<1>2. ASSUME NEW s \in Schedules, CreateSchedule(s) \/ DeleteSchedule(s) PROVE QuotaInv'
  BY <1>1, <1>2 DEF CreateSchedule, DeleteSchedule, ticking
<1>3. ASSUME NEW g \in Targets, SaveTarget(g) PROVE QuotaInv'
  BY <1>1, <1>3 DEF SaveTarget, ticking
<1>4. CASE SaveConfig
  BY <1>4, QuotaSame DEF SaveConfig, ticking, tables
<1>5. ASSUME NEW c \in Clients, NEW s \in Schedules, ReadSchedule(c, s) PROVE QuotaInv'
  BY <1>1, <1>5 DEF ReadSchedule, tables, ticking
<1>6. ASSUME NEW c \in Clients,
             WriteSchedule(c) \/ ReadSetting(c) \/ WriteSetting(c) \/ SetQueues(c)
      PROVE  QuotaInv'
  BY <1>1, <1>6 DEF WriteSchedule, ReadSetting, WriteSetting, SetQueues, tables, ticking
<1>7. ASSUME NEW k \in Ticks, StartTick(k) \/ ReadPaused(k) PROVE QuotaInv'
  <2>1. UNCHANGED <<clock, auto, config, since, chosen>>
    BY <1>7 DEF StartTick, ReadPaused, tables
  <2>2. GoTo(k, "schedules") \/ GoTo(k, "sync")
    BY <1>7 DEF StartTick, ReadPaused
  <2>3. QED
    BY <2>1, <2>2, QuotaGo DEF QuotaInv, TicksType, Places
<1>8. ASSUME NEW k \in Ticks, NEW s \in Schedules, NEW next \in Times, DispatchSchedule(k, s, next)
      PROVE  QuotaInv'
  BY <1>1, <1>8 DEF DispatchSchedule
<1>9. ASSUME NEW k \in Ticks, NEW s \in Schedules, NEW next \in Times, DispatchDeleted(k, s, next)
      PROVE  QuotaInv'
  <2>1. CASE Key(s, next) \in keys
    BY <1>1, <1>9, <2>1 DEF DispatchDeleted, tables
  <2>2. CASE Key(s, next) \notin keys
    BY <1>9, <2>2, QuotaForget DEF DispatchDeleted, tables
  <2>3. QED
    BY <2>1, <2>2
<1>10. ASSUME NEW k \in Ticks, SyncQueues(k) \/ TickFails(k) PROVE QuotaInv'
  BY <1>10, QuotaForget DEF SyncQueues, TickFails, tables
<1>11. CASE Restart
  BY <1>11, QuotaForget DEF Restart, tables
<1>12. CASE UNCHANGED autoVars
  BY <1>1, <1>12 DEF autoVars, tables, ticking
<1>13. QED
  BY <1>2, <1>3, <1>4, <1>5, <1>6, <1>7, <1>8, <1>9, <1>10, <1>11, <1>12, QuotaRead, QuotaCount,
     QuotaPick, QuotaCreate, QuotaDeleteTarget, QuotaRunChanges, QuotaTime
     DEF AutomationNext, Handle

LEMMA QuotaInit == AutomationInit => QuotaInv
<1> SUFFICES ASSUME AutomationInit PROVE QuotaInv
  OBVIOUS
<1>1. TicksType
  BY DEF AutomationInit, TicksType, Places
<1>2. RunsType
  BY DEF AutomationInit, RunsType
<1>3. Counted = {} /\ Automatic = {} /\ Pending \in SUBSET Ticks
  BY DEF AutomationInit, Counted, Automatic, Running, Pending
<1>4. ASSUME NEW span, NEW now PROVE InSpan(span, now) = {}
  BY <1>3 DEF InSpan
<1>5. ASSUME NEW limit \in Limits
      PROVE  Room({}, Pending, limit) /\ Kept({}, limit)
  BY <1>3, EmptyRoom, RoomKept, FS_EmptySet, PendingFinite
<1>6. Room(Automatic, Pending, Concurrent)
  BY <1>3, <1>5, LimitsType
<1>7. ASSUME NEW span, NEW limit \in Limits PROVE SpanInv(span, limit)
  BY <1>4, <1>5 DEF SpanInv
<1>8. QED
  BY <1>1, <1>2, <1>6, <1>7, LimitsType DEF QuotaInv

LEMMA QuotaMeans == QuotaInv => QuotasHold
<1> SUFFICES ASSUME QuotaInv PROVE QuotasHold
  OBVIOUS
<1>1. Kept(Automatic, Concurrent)
  <2>1. IsFiniteSet(Automatic)
    BY CountedFinite, FS_Subset DEF QuotaInv, Automatic, Running
  <2>2. QED
    BY <2>1, RoomKept, PendingFinite, LimitsType DEF QuotaInv
<1>2. \A now \in 0..clock : Kept(InSpan(Day, now), Daily) /\ Kept(InSpan(Month, now), Monthly)
  BY DEF QuotaInv, SpanInv
<1>3. QED
  BY <1>1, <1>2 DEF QuotasHold, Kept, Automatic, InSpan, Concurrent, Daily, Monthly

\* Whatever the operator saves meanwhile, the runs the autopilot has going, and those of any
\* day or month, exceed a limit by at most the ticks that overlap, less one.
THEOREM QuotasAlwaysHold == AutomationSpec => []QuotasHold
  BY QuotaInit, QuotaStep, QuotaMeans, PTL DEF AutomationSpec
=============================================================================
