-------------------------- MODULE Campaign_proofs --------------------------
(***************************************************************************)
(* Safety of the campaigns, for any campaigns, leads, shared phones and    *)
(* limits, and any number of requests and faults: type correctness, each   *)
(* message is handed over once (AtMostOnce) and stays out once recorded    *)
(* (SentStaysOut), a phone that opted out gets one message at most         *)
(* (OptOutHeld), a stop lets one delivery go on (StopOneDelivery) and the  *)
(* limits of an hour and a day hold (LimitsHold).                          *)
(*                                                                         *)
(* They rest on one fact, that a single delivery runs at a time: what it   *)
(* has checked about the message in its hands stays true until its next    *)
(* step, because no one else sends.  Each section says in an invariant     *)
(* what that is.                                                           *)
(***************************************************************************)
EXTENDS Campaign, TLAPS, FiniteSetTheorems

Sending == {"decide", "send", "update"}

-----------------------------------------------------------------------------
(* Type correctness.                                                       *)

LEMMA TypeInit == Init => TypeOK
<1> SUFFICES ASSUME Init PROVE TypeOK
  OBVIOUS
<1> USE ConstantsAssumption DEF Init, ConstantsAssumption
<1>1. /\ campaign \in [Campaigns -> {"NONE"}] /\ msg \in [Messages -> {"NONE"}]
      /\ age \in [Messages -> {Unsent}] /\ barredBy \in [Phones -> {NoLead}]
  OBVIOUS
<1>2. hour \in 0..DayHours-1 /\ requests \in 0..MaxRequests /\ faults \in 0..MaxFaults
  OBVIOUS
<1>3. base \in [Campaigns -> {"none"}] /\ later \in [Campaigns -> Nat]
  OBVIOUS
<1>4. sends \in [Messages -> Nat] /\ sentBarred \in [Phones -> Nat]
  OBVIOUS
<1>5. paused \in BOOLEAN /\ told \in BOOLEAN
  BY Zenon
<1>6. QED
  BY <1>1, <1>2, <1>3, <1>4, <1>5 DEF TypeOK, Idle

\* A request or a fault is counted up to its bound, and the others leave the counts.
LEMMA CountTypes ==
  ASSUME TypeOK, Request \/ Fault \/ UNCHANGED count
  PROVE  requests' \in 0..MaxRequests /\ faults' \in 0..MaxFaults
  BY ConstantsAssumption DEF TypeOK, Request, Fault, count, ConstantsAssumption

\* The templates, the emergency stop, the clock and the end of the API's process.
LEMMA SettingTypes ==
  ASSUME TypeOK, \/ CreateTemplate \/ DeleteTemplate \/ SubmitTemplate \/ SyncTemplate
                 \/ Emergency \/ HourPasses \/ ApiCrash
  PROVE  TypeOK'
<1> USE DEF TypeOK, Message, Idle, data, jobs, worker, past
<1>1. requests' \in 0..MaxRequests /\ faults' \in 0..MaxFaults
  BY CountTypes DEF CreateTemplate, DeleteTemplate, SubmitTemplate, SyncTemplate, Emergency,
     HourPasses, ApiCrash
<1>2. CASE CreateTemplate \/ DeleteTemplate \/ SubmitTemplate \/ SyncTemplate
  BY <1>1, <1>2 DEF CreateTemplate, DeleteTemplate, SubmitTemplate, SyncTemplate, OnlyTemplate
<1>3. CASE Emergency
  <2>1. paused' \in BOOLEAN /\ told' \in BOOLEAN
    BY Zenon, <1>3 DEF Emergency
  <2>2. QED
    BY <1>1, <1>3, <2>1 DEF Emergency
<1>4. CASE HourPasses
  BY <1>1, <1>4, ConstantsAssumption DEF HourPasses, Unsent, ConstantsAssumption
<1>5. CASE ApiCrash
  BY <1>1, <1>5 DEF ApiCrash
<1>6. QED
  BY <1>2, <1>3, <1>4, <1>5

\* The campaigns.
LEMMA CampaignTypes ==
  ASSUME TypeOK, NEW c \in Campaigns, CreateCampaign(c) \/ ScheduleMessages(c) \/ ApiStep(c)
  PROVE  TypeOK'
<1> USE DEF TypeOK, Message, Idle, data, jobs, worker, past
<1>1. requests' \in 0..MaxRequests /\ faults' \in 0..MaxFaults
  BY CountTypes DEF CreateCampaign, ScheduleMessages, ApiStep, ScheduleCampaign, ScheduleJob
<1>2. CASE CreateCampaign(c)
  BY <1>1, <1>2 DEF CreateCampaign, SetCampaign
<1>3. CASE ScheduleMessages(c)
  BY <1>1, <1>3 DEF ScheduleMessages, Open
<1>4. CASE ScheduleCampaign(c)
  BY <1>1, <1>4 DEF ScheduleCampaign, SetCampaign
<1>5. CASE ScheduleJob(c)
  BY <1>1, <1>5 DEF ScheduleJob, AddBase
<1>6. QED
  BY <1>2, <1>3, <1>4, <1>5 DEF ApiStep

\* The provider's callbacks.
LEMMA CallbackTypes ==
  ASSUME TypeOK, NEW m \in Messages, NEW status \in Callbacks, StatusCallback(m, status)
  PROVE  TypeOK'
<1>1. requests' \in 0..MaxRequests /\ faults' \in 0..MaxFaults
  BY CountTypes DEF StatusCallback
<1>2. QED
  BY <1>1 DEF StatusCallback, Mapped, TypeOK, Message, Sent, jobs, worker, past

\* The answers of the leads.
LEMMA LeadTypes ==
  ASSUME TypeOK, NEW l \in Leads, NEW optOut \in BOOLEAN,
         LeadStatus(l) \/ InboundMessage(l, optOut)
  PROVE  TypeOK'
<1> USE DEF TypeOK, Message, Open, Sent, jobs, worker, past
<1>1. requests' \in 0..MaxRequests /\ faults' \in 0..MaxFaults
  BY CountTypes DEF LeadStatus, InboundMessage
<1>2. CASE LeadStatus(l)
  <2>1. barredBy' \in [Phones -> Leads \union {NoLead}]
    BY <1>2 DEF LeadStatus, Bar
  <2>2. QED
    BY <1>1, <1>2, <2>1 DEF LeadStatus
<1>3. CASE InboundMessage(l, optOut)
  <2>1. msg' \in [Messages -> Open \union Sent \union {"NONE", "REPLIED", "FAILED", "BLOCKED"}]
    BY <1>3 DEF InboundMessage, Replied
  <2>2. barredBy' \in [Phones -> Leads \union {NoLead}]
    BY <1>3 DEF InboundMessage, Bar
  <2>3. QED
    BY <1>1, <1>3, <2>1, <2>2 DEF InboundMessage
<1>4. QED
  BY <1>2, <1>3

\* The end of a delivery gives its job back, if it still has one.
LEMMA BackTypes ==
  ASSUME TypeOK, BackToQueue, at # "idle"
  PROVE  /\ base' \in [Campaigns -> {"none", "wait", "active", "completed", "failed"}]
         /\ later' \in [Campaigns -> Nat]
  BY DEF BackToQueue, TypeOK, jobs

\* The message in the worker's hands is one, with a phone.
LEMMA InHand ==
  ASSUME TypeOK, at \in Sending
  PROVE  Message \in Messages /\ cur \in Leads /\ PhoneOf[cur] \in Phones
  BY ConstantsAssumption DEF TypeOK, Sending, Messages, Message, ConstantsAssumption

LEMMA SendTypes == ASSUME TypeOK, Send PROVE TypeOK'
<1>1. requests' \in 0..MaxRequests /\ faults' \in 0..MaxFaults
  BY CountTypes DEF Send
<1>2. sends' \in [Messages -> Nat]
  BY InHand DEF TypeOK, Send, Deliver, past, Sending
<1>3. sentBarred' \in [Phones -> Nat]
  BY InHand DEF TypeOK, Send, Deliver, past, Sending
<1>4. sentPaused' \in Nat
  BY DEF TypeOK, Send, Deliver, past
<1>5. told' \in BOOLEAN
  BY Zenon DEF TypeOK, Send, Deliver, past
<1>6. QED
  BY <1>1, <1>2, <1>3, <1>4, <1>5 DEF Send, Goto, Leave, TypeOK, data, jobs, Message

LEMMA PickTypes ==
  ASSUME TypeOK, NEW c \in Campaigns, NEW kind \in {"base", "later"}, Pick(c, kind)
  PROVE  TypeOK'
<1>1. base' \in [Campaigns -> {"none", "wait", "active", "completed", "failed"}]
  BY DEF TypeOK, Pick
<1>2. later' \in [Campaigns -> Nat]
  BY DEF TypeOK, Pick
<1>3. QED
  BY <1>1, <1>2 DEF Pick, TypeOK, Message, data, past, count

\* The steps of a delivery.
LEMMA WorkerTypes == ASSUME TypeOK, WorkerStep \/ WorkerCrash PROVE TypeOK'
<1> USE DEF TypeOK, Message, data, past
<1>1. requests' \in 0..MaxRequests /\ faults' \in 0..MaxFaults
  BY CountTypes DEF WorkerStep, Load, MarkRunning, ListMessages, NextMessage, Complete, Decide,
     Defer, Send, MarkSent, Ack, Nack, WorkerCrash
<1>2. CASE Load \/ ListMessages
  <2>1. CASE Load
    BY <1>1, <2>1 DEF Load, Goto, jobs
  <2>2. CASE ListMessages
    BY <1>1, <2>2, ConstantsAssumption DEF ListMessages, OpenMessages, jobs, ConstantsAssumption
  <2>3. QED
    BY <1>2, <2>1, <2>2
<1>3. CASE MarkRunning
  BY <1>1, <1>3 DEF MarkRunning, Goto, SetCampaign, jobs
<1>4. CASE NextMessage
  BY <1>1, <1>4, ConstantsAssumption DEF NextMessage, Messages, jobs, ConstantsAssumption
<1>5. CASE Complete
  BY <1>1, <1>5 DEF Complete, Goto, SetCampaign, jobs
<1>6. CASE Decide
  BY <1>1, <1>6 DEF Decide, Goto, Leave, SetCampaign, Open, jobs
<1>7. CASE Defer
  BY <1>1, <1>7 DEF Defer, Goto
<1>8. CASE MarkSent
  BY <1>1, <1>8, ConstantsAssumption DEF MarkSent, Sent, jobs, ConstantsAssumption
<1>9. CASE Ack
  BY <1>1, <1>9 DEF Ack, EndDelivery
<1>10. CASE Nack \/ WorkerCrash
  BY <1>1, <1>10, BackTypes DEF Nack, WorkerCrash, EndDelivery
<1>11. QED
  BY <1>2, <1>3, <1>4, <1>5, <1>6, <1>7, <1>8, <1>9, <1>10, SendTypes DEF WorkerStep

\* The reconciliation.
LEMMA QueueTypes ==
  ASSUME TypeOK, NEW c \in Campaigns, FindDurable(c) \/ FindOrphan(c) \/ TickStep(c)
  PROVE  TypeOK'
<1> USE DEF TypeOK, Message, Idle, data, worker, past
<1>1. requests' \in 0..MaxRequests /\ faults' \in 0..MaxFaults
  BY CountTypes DEF FindDurable, FindOrphan, TickStep, AddMissing, DropOrphan
<1>2. CASE FindDurable(c) \/ FindOrphan(c)
  BY <1>1, <1>2 DEF FindDurable, FindOrphan, jobs
<1>3. CASE AddMissing(c)
  BY <1>1, <1>3 DEF AddMissing, AddBase
<1>4. CASE DropOrphan(c)
  BY <1>1, <1>4 DEF DropOrphan
<1>5. QED
  BY <1>2, <1>3, <1>4 DEF TickStep

LEMMA TypeNext == TypeOK /\ [Next]_vars => TypeOK'
<1> SUFFICES ASSUME TypeOK, [Next]_vars PROVE TypeOK'
  OBVIOUS
<1>1. CASE UNCHANGED vars
  BY <1>1 DEF TypeOK, Message, vars, data, jobs, worker, past, count
<1>2. CASE RedisLoss
  BY <1>2, CountTypes DEF RedisLoss, TypeOK, Message, data, past
<1>3. CASE Ask
  BY <1>3, SettingTypes, CampaignTypes, CallbackTypes, LeadTypes DEF Ask
<1>4. QED
  BY <1>1, <1>2, <1>3, SettingTypes, CampaignTypes, PickTypes, WorkerTypes, QueueTypes DEF Next

\* Every variable keeps its type, and the worker only ever handles a message of its campaign.
THEOREM TypeCorrect == Spec => []TypeOK
  BY TypeInit, TypeNext, PTL DEF Spec

-----------------------------------------------------------------------------
(* Everyone but the worker, the clock and the emergency stop.              *)

\* The others send nothing, free no phone, and give a message an open status only when it has
\* none.
Aside ==
  /\ UNCHANGED <<age, sends, sentBarred, sentPaused, told, paused, at, of, todo, cur>>
  /\ faults <= faults'
  /\ \A p \in Phones : barredBy[p] # NoLead => barredBy'[p] # NoLead
  /\ \A m \in Messages : \/ msg'[m] = msg[m]
                         \/ msg[m] = "NONE" /\ msg'[m] = "PENDING"
                         \/ msg'[m] \in Sent \union {"REPLIED", "FAILED"}

LEMMA OthersAside ==
  ASSUME TypeOK, [Next]_vars
  PROVE  \/ Aside \/ Emergency \/ HourPasses \/ WorkerStep \/ WorkerCrash
         \/ \E c \in Campaigns, kind \in {"base", "later"} : Pick(c, kind)
<1> USE DEF Aside, data, jobs, worker, past, count, Request, Fault
<1>1. faults \in Nat
  BY ConstantsAssumption DEF TypeOK, ConstantsAssumption
<1>2. CASE CreateTemplate \/ DeleteTemplate \/ SubmitTemplate \/ SyncTemplate
  BY <1>1, <1>2 DEF CreateTemplate, DeleteTemplate, SubmitTemplate, SyncTemplate, OnlyTemplate
<1>3. ASSUME NEW c \in Campaigns, CreateCampaign(c) \/ ScheduleMessages(c) PROVE Aside
  BY <1>1, <1>3 DEF CreateCampaign, SetCampaign, ScheduleMessages, TypeOK
<1>4. ASSUME NEW c \in Campaigns, ApiStep(c) PROVE Aside
  BY <1>1, <1>4 DEF ApiStep, ScheduleCampaign, SetCampaign, ScheduleJob
<1>5. ASSUME NEW l \in Leads, LeadStatus(l) PROVE Aside
  BY <1>1, <1>5, ConstantsAssumption DEF LeadStatus, Bar, TypeOK, ConstantsAssumption
<1>6. ASSUME NEW l \in Leads, NEW optOut \in BOOLEAN, InboundMessage(l, optOut) PROVE Aside
  <2>1. \A p \in Phones : barredBy[p] # NoLead => barredBy'[p] # NoLead
    BY <1>6, ConstantsAssumption DEF InboundMessage, Bar, TypeOK, ConstantsAssumption
  <2>2. \A m \in Messages : msg'[m] = msg[m] \/ msg'[m] = "REPLIED"
    BY <1>6 DEF InboundMessage, Replied, TypeOK
  <2>3. QED
    BY <1>1, <1>6, <2>1, <2>2 DEF InboundMessage
<1>7. ASSUME NEW m \in Messages, NEW status \in Callbacks, StatusCallback(m, status) PROVE Aside
  BY <1>1, <1>7 DEF StatusCallback, Mapped, Sent, TypeOK
<1>8. CASE ApiCrash \/ RedisLoss
  BY <1>1, <1>8 DEF ApiCrash, RedisLoss
<1>9. ASSUME NEW c \in Campaigns, FindDurable(c) \/ FindOrphan(c) \/ TickStep(c) PROVE Aside
  BY <1>1, <1>9 DEF FindDurable, FindOrphan, TickStep, AddMissing, DropOrphan
<1>10. CASE UNCHANGED vars
  BY <1>1, <1>10 DEF vars
<1>11. QED
  BY <1>2, <1>3, <1>4, <1>5, <1>6, <1>7, <1>8, <1>9, <1>10 DEF Next, Ask

-----------------------------------------------------------------------------
(* A message is handed over once.                                          *)

\* What waits to be sent has never been recorded: the open messages, those of the delivery's
\* list and the one in its hands.
NotRecorded ==
  /\ \A m \in Messages : msg[m] \in Open \union {"NONE"} => age[m] = Unsent
  /\ at \in {"next"} \union Sending => \A l \in todo : age[<<of, l>>] = Unsent
  /\ at \in Sending => cur \notin todo /\ age[Message] = Unsent

\* Each handing over is recorded, about to be, or costs a fault.
Accounted ==
  \A m \in Messages :
    /\ sends[m] <= 1 + faults
    /\ age[m] = Unsent /\ ~(at = "update" /\ Message = m) => sends[m] <= faults

LEMMA NotRecordedNext ==
  ASSUME TypeOK, NotRecorded, [Next]_vars
  PROVE  NotRecorded'
<1> USE DEF NotRecorded, Message, Open, Sent, Unsent, Sending
<1>1. CASE Aside
  BY <1>1 DEF Aside, TypeOK
<1>2. CASE Emergency
  BY <1>2 DEF Emergency, worker
<1>3. CASE HourPasses
  BY <1>3, InHand DEF HourPasses, worker, TypeOK, Messages
<1>4. CASE WorkerCrash \/ Ack \/ Nack
  BY <1>4 DEF WorkerCrash, Ack, Nack, EndDelivery, data
<1>5. CASE \E c \in Campaigns, kind \in {"base", "later"} : Pick(c, kind)
  BY <1>5 DEF Pick, data
<1>6. CASE Load \/ MarkRunning \/ Complete \/ Defer
  BY <1>6 DEF Load, MarkRunning, Complete, Defer, Goto, SetCampaign, data
<1>7. CASE ListMessages
  BY <1>7, ConstantsAssumption DEF ListMessages, OpenMessages, data, TypeOK, Messages,
     ConstantsAssumption
<1>8. CASE NextMessage
  BY <1>8, ConstantsAssumption DEF NextMessage, TypeOK, Messages, ConstantsAssumption
<1>9. CASE Decide
  <2>1. UNCHANGED age /\ \A m \in Messages : msg'[m] = msg[m] \/ msg[m] \in Open
    BY <1>9 DEF Decide, Requeued, SetCampaign, TypeOK
  <2>2. \/ at' = "send" /\ UNCHANGED <<of, todo, cur>>
        \/ at' = "defer"
    BY <1>9 DEF Decide, Goto, Leave
  <2>3. at = "decide"
    BY <1>9 DEF Decide
  <2>4. QED
    BY <2>1, <2>2, <2>3
<1>10. CASE Send
  BY <1>10 DEF Send, Goto, Leave, data
<1>11. CASE MarkSent
  BY <1>11, InHand DEF MarkSent, TypeOK, Messages
<1>12. QED
  BY <1>1, <1>2, <1>3, <1>4, <1>5, <1>6, <1>7, <1>8, <1>9, <1>10, <1>11, OthersAside DEF WorkerStep

LEMMA AccountedNext ==
  ASSUME TypeOK, NotRecorded, Accounted, [Next]_vars
  PROVE  Accounted'
<1> USE DEF Accounted, Message, Unsent
<1>1. \A m \in Messages : sends[m] \in Nat
  BY DEF TypeOK
<1>2. faults \in Nat /\ faults' \in Nat
  BY TypeNext, ConstantsAssumption DEF TypeOK, ConstantsAssumption
<1>3. CASE Aside
  BY <1>1, <1>2, <1>3 DEF Aside
<1>4. CASE Emergency
  BY <1>4 DEF Emergency, Request, worker
<1>5. CASE HourPasses
  BY <1>5 DEF HourPasses, count, worker, past, TypeOK
<1>6. CASE WorkerCrash
  BY <1>1, <1>2, <1>6 DEF WorkerCrash, EndDelivery, Fault, data
<1>7. CASE Ack \/ Nack
  BY <1>7 DEF Ack, Nack, EndDelivery, count, data
<1>8. CASE \E c \in Campaigns, kind \in {"base", "later"} : Pick(c, kind)
  BY <1>8 DEF Pick, data, past, count
<1>9. CASE Load \/ MarkRunning \/ ListMessages \/ Complete \/ Defer
  BY <1>9 DEF Load, MarkRunning, ListMessages, Complete, Defer, Goto, SetCampaign, data, past, count
<1>10. CASE NextMessage \/ Decide
  BY <1>10 DEF NextMessage, Decide, Goto, Leave, SetCampaign, past, count
<1>11. CASE Send
  <2>1. Message \in Messages /\ age[Message] = Unsent /\ at = "send"
    BY <1>11, InHand DEF Send, NotRecorded, Sending
  <2>2. CASE Deliver /\ Goto("update") /\ UNCHANGED count
    BY <1>1, <1>2, <1>11, <2>1, <2>2 DEF Send, Deliver, Goto, data, count, TypeOK
  <2>3. CASE UNCHANGED past /\ Leave("nack") /\ UNCHANGED count
    BY <1>11, <2>1, <2>3 DEF Send, Leave, data, past, count
  <2>4. CASE Deliver /\ Leave("nack") /\ Fault
    BY <1>1, <1>2, <1>11, <2>1, <2>4 DEF Send, Deliver, Leave, Fault, data, TypeOK
  <2>5. QED
    BY <1>11, <2>2, <2>3, <2>4 DEF Send
<1>12. CASE MarkSent
  BY <1>1, <1>2, <1>12 DEF MarkSent, past, count, TypeOK
<1>13. QED
  BY <1>3, <1>4, <1>5, <1>6, <1>7, <1>8, <1>9, <1>10, <1>11, <1>12, OthersAside DEF WorkerStep

LEMMA OnceInit == Init => NotRecorded /\ Accounted
  BY ConstantsAssumption DEF Init, NotRecorded, Accounted, Sending, ConstantsAssumption

\* However often campaigns are rescheduled, deferred, rebuilt or delivered twice, a message is
\* handed to the provider once, and once more for each fault (worker/src/main.ts 187-211).
THEOREM SentOnce == Spec => []AtMostOnce
<1>1. Accounted => AtMostOnce
  BY DEF Accounted, AtMostOnce
<1>2. QED
  BY <1>1, TypeInit, TypeNext, OnceInit, NotRecordedNext, AccountedNext, PTL DEF Spec

\* A recorded message is never open again, nor blocked: no step opens it, and the delivery
\* blocks only what its list holds.
LEMMA StaysOutStep ==
  ASSUME TypeOK, NotRecorded, [Next]_vars, NEW m \in Messages, age[m] # Unsent
  PROVE  msg'[m] \notin Open \union {"BLOCKED"} \/ msg'[m] = msg[m]
<1> USE DEF NotRecorded, Open, Sent
<1>1. CASE Aside
  BY <1>1 DEF Aside
<1>2. CASE NextMessage
  BY <1>2 DEF NextMessage, TypeOK
<1>3. CASE Decide
  BY <1>3 DEF Decide, Requeued, SetCampaign, TypeOK
<1>4. CASE MarkSent
  BY <1>4 DEF MarkSent, TypeOK
<1>5. CASE Emergency \/ HourPasses \/ WorkerCrash
  BY <1>5 DEF Emergency, HourPasses, WorkerCrash, data
<1>6. CASE \E c \in Campaigns, kind \in {"base", "later"} : Pick(c, kind)
  BY <1>6 DEF Pick, data
<1>7. CASE \/ Load \/ MarkRunning \/ ListMessages \/ Complete \/ Defer \/ Send \/ Ack \/ Nack
  BY <1>7 DEF Load, MarkRunning, ListMessages, Complete, Defer, Send, Ack, Nack, data
<1>8. QED
  BY <1>1, <1>2, <1>3, <1>4, <1>5, <1>6, <1>7, OthersAside DEF WorkerStep

NotBlocked == \A m \in Messages : msg[m] \in Open \union {"BLOCKED"} => age[m] = Unsent

LEMMA NotBlockedNext ==
  ASSUME TypeOK, NotRecorded, NotBlocked, [Next]_vars
  PROVE  NotBlocked'
<1> SUFFICES ASSUME NEW m \in Messages, msg'[m] \in Open \union {"BLOCKED"}
             PROVE  age'[m] = Unsent
  BY DEF NotBlocked
<1>1. age[m] = Unsent
  BY StaysOutStep DEF NotBlocked
<1> USE <1>1
<1>2. CASE Aside
  BY <1>2 DEF Aside
<1>3. CASE HourPasses
  BY <1>3 DEF HourPasses
<1>4. CASE MarkSent
  BY <1>4 DEF MarkSent, TypeOK, Open
<1>5. CASE Emergency \/ WorkerCrash
  BY <1>5 DEF Emergency, WorkerCrash, data
<1>6. CASE \E c \in Campaigns, kind \in {"base", "later"} : Pick(c, kind)
  BY <1>6 DEF Pick, data
<1>7. CASE \/ Load \/ MarkRunning \/ ListMessages \/ NextMessage \/ Complete \/ Decide \/ Defer
           \/ Send \/ Ack \/ Nack
  BY <1>7 DEF Load, MarkRunning, ListMessages, NextMessage, Complete, Decide, Defer, Send, Ack,
     Nack, SetCampaign, data
<1>8. QED
  BY <1>2, <1>3, <1>4, <1>5, <1>6, <1>7, OthersAside DEF WorkerStep

\* What was recorded as sent is never queued or blocked again, so that no later delivery lists
\* it (worker/src/main.ts 187-211, service.ts 233-277).
THEOREM StaysOut == Spec => SentStaysOut
<1>1. Init => NotBlocked
  BY DEF Init, NotBlocked
<1>2. ASSUME TypeOK, NotRecorded, NotBlocked, [Next]_vars
      PROVE  [\A m \in Messages : age[m] # Unsent => msg'[m] \notin Open \union {"BLOCKED"}]_msg
  BY <1>2, StaysOutStep DEF NotBlocked
<1>3. QED
  BY <1>1, <1>2, TypeInit, TypeNext, OnceInit, NotRecordedNext, NotBlockedNext, PTL
     DEF Spec, SentStaysOut

-----------------------------------------------------------------------------
(* A phone that opted out.                                                 *)

\* A phone that is not barred has had no message while it was, and neither has that of the
\* message that has passed the check.
OnceBarred ==
  /\ OptOutHeld
  /\ \A p \in Phones : barredBy[p] = NoLead => sentBarred[p] = 0
  /\ at \in {"decide", "send"} => sentBarred[PhoneOf[cur]] = 0

LEMMA OnceBarredNext ==
  ASSUME TypeOK, OnceBarred, [Next]_vars
  PROVE  OnceBarred'
<1> USE DEF OnceBarred, OptOutHeld
<1>1. CASE Aside
  BY <1>1 DEF Aside
<1>2. CASE Emergency \/ HourPasses
  BY <1>2 DEF Emergency, HourPasses, worker, past
<1>3. CASE WorkerCrash \/ Ack \/ Nack
  BY <1>3 DEF WorkerCrash, Ack, Nack, EndDelivery, data
<1>4. CASE \E c \in Campaigns, kind \in {"base", "later"} : Pick(c, kind)
  BY <1>4 DEF Pick, data, past
<1>5. CASE Load \/ MarkRunning \/ ListMessages \/ Complete \/ Defer \/ MarkSent
  BY <1>5 DEF Load, MarkRunning, ListMessages, Complete, Defer, MarkSent, Goto, SetCampaign, data,
     past
<1>6. CASE NextMessage
  BY <1>6, ConstantsAssumption DEF NextMessage, Suppressed, past, TypeOK, ConstantsAssumption
<1>7. CASE Decide
  BY <1>7 DEF Decide, Goto, Leave, SetCampaign, past
<1>8. CASE Send
  <2>1. PhoneOf[cur] \in Phones /\ sentBarred[PhoneOf[cur]] = 0
    BY <1>8, InHand DEF Send, Sending
  <2>2. UNCHANGED barredBy /\ at' \in {"update", "nack"}
    BY <1>8 DEF Send, Goto, Leave, data
  <2>3. CASE Deliver
    BY <2>1, <2>2, <2>3 DEF Deliver, TypeOK
  <2>4. CASE UNCHANGED past
    BY <2>2, <2>4 DEF past
  <2>5. QED
    BY <1>8, <2>3, <2>4 DEF Send
<1>9. QED
  BY <1>1, <1>2, <1>3, <1>4, <1>5, <1>6, <1>7, <1>8, OthersAside DEF WorkerStep

\* A phone that opted out is sent at most the message that had passed the check, through
\* whichever lead or campaign (worker/src/main.ts 190-209, service.ts 61).
THEOREM OptOut == Spec => []OptOutHeld
<1>1. Init => OnceBarred
  BY DEF Init, OnceBarred, OptOutHeld
<1>2. OnceBarred => OptOutHeld
  BY DEF OnceBarred
<1>3. QED
  BY <1>1, <1>2, TypeInit, TypeNext, OnceBarredNext, PTL DEF Spec

-----------------------------------------------------------------------------
(* The emergency stop.                                                     *)

\* A delivery past its start that has not sent during the present stop is the only one that
\* may, and before a stop none has.
OneSender ==
  /\ StopOneDelivery
  /\ ~paused => sentPaused = 0
  /\ ~told /\ at \in {"mark", "list", "next"} \union Sending => sentPaused = 0

LEMMA OneSenderNext ==
  ASSUME TypeOK, OneSender, [Next]_vars
  PROVE  OneSender'
<1> USE DEF OneSender, StopOneDelivery, Sending
<1>1. CASE Aside
  BY <1>1 DEF Aside
<1>2. CASE Emergency
  BY <1>2 DEF Emergency
<1>3. CASE HourPasses
  BY <1>3 DEF HourPasses, worker, past
<1>4. CASE WorkerCrash \/ Ack \/ Nack
  BY <1>4 DEF WorkerCrash, Ack, Nack, EndDelivery, data
<1>5. CASE \E c \in Campaigns, kind \in {"base", "later"} : Pick(c, kind)
  BY <1>5 DEF Pick, data, past
<1>6. CASE Load
  BY <1>6 DEF Load, Goto, Startable, data, past
<1>7. CASE MarkRunning \/ ListMessages \/ Complete \/ Defer \/ MarkSent
  BY <1>7 DEF MarkRunning, ListMessages, Complete, Defer, MarkSent, Goto, SetCampaign, data, past
<1>8. CASE NextMessage \/ Decide
  BY <1>8 DEF NextMessage, Decide, Goto, Leave, SetCampaign, past
<1>9. CASE Send
  <2>1. sentPaused \in Nat /\ at = "send" /\ UNCHANGED paused
    BY <1>9 DEF Send, data, TypeOK
  <2>2. CASE Deliver
    <3>1. told' <=> (told \/ paused)
      BY <2>2, Zenon DEF Deliver
    <3>2. CASE paused /\ ~told
      BY <2>1, <2>2, <3>1, <3>2 DEF Deliver
    <3>3. CASE ~(paused /\ ~told)
      <4>1. sentPaused' = sentPaused
        BY <2>1, <2>2, <3>3 DEF Deliver
      <4>2. QED
        BY <2>1, <3>1, <3>3, <4>1
    <3>4. QED
      BY <3>2, <3>3
  <2>3. CASE UNCHANGED past /\ Leave("nack")
    BY <2>1, <2>3 DEF Leave, past
  <2>4. QED
    BY <1>9, <2>2, <2>3 DEF Send
<1>10. QED
  BY <1>1, <1>2, <1>3, <1>4, <1>5, <1>6, <1>7, <1>8, <1>9, OthersAside DEF WorkerStep

\* During an emergency stop only the delivery that was running when it came sends
\* (worker/src/main.ts 181).
THEOREM StopHolds == Spec => []StopOneDelivery
<1>1. Init => OneSender
  BY DEF Init, OneSender, StopOneDelivery
<1>2. OneSender => StopOneDelivery
  BY DEF OneSender
<1>3. QED
  BY <1>1, <1>2, TypeInit, TypeNext, OneSenderNext, PTL DEF Spec

-----------------------------------------------------------------------------
(* The limits of an hour and a day.                                        *)

\* Between the decision and the record there is room for one message more.
RoomLeft ==
  /\ LimitsHold
  /\ at \in {"send", "update"} => SentWithin(1) < PerHour /\ SentWithin(DayHours) < PerDay

LEMMA MessagesFinite == IsFiniteSet(Messages)
<1>1. IsFiniteSet(Campaigns \X Leads)
  BY FS_Product, ConstantsAssumption DEF ConstantsAssumption
<1>2. QED
  BY <1>1, FS_Subset DEF Messages

\* What is counted over a period is a finite set.
LEMMA CountNat ==
  ASSUME NEW h \in Nat
  PROVE  /\ IsFiniteSet({m \in Messages : age[m] \in 0..h})
         /\ SentWithin(h) \in Nat
<1>1. IsFiniteSet({m \in Messages : age[m] \in 0..h})
  BY MessagesFinite, FS_Subset
<1>2. QED
  BY <1>1, FS_CardinalityType DEF SentWithin

\* As time passes, messages only leave the period.
LEMMA CountAges ==
  ASSUME TypeOK, HourPasses, NEW h \in Nat
  PROVE  SentWithin(h)' <= SentWithin(h)
<1>1. ASSUME NEW m \in Messages, age'[m] \in 0..h PROVE age[m] \in 0..h
  BY <1>1, ConstantsAssumption DEF HourPasses, TypeOK, Unsent, ConstantsAssumption
<1>2. {m \in Messages : age'[m] \in 0..h} \subseteq {m \in Messages : age[m] \in 0..h}
  BY <1>1
<1>3. QED
  BY <1>2, CountNat, FS_Subset DEF SentWithin

\* The SENT update adds one message.
LEMMA CountRecords ==
  ASSUME TypeOK, MarkSent, NEW h \in Nat
  PROVE  SentWithin(h)' <= SentWithin(h) + 1
<1> DEFINE was  == {m \in Messages : age[m] \in 0..h}
           more == was \union {Message}
<1>1. \A m \in Messages : m # Message => age'[m] = age[m]
  BY DEF MarkSent, TypeOK
<1>2. {m \in Messages : age'[m] \in 0..h} \subseteq more
  BY <1>1
<1>3. IsFiniteSet(was) /\ Cardinality(was) \in Nat
  BY CountNat, FS_CardinalityType
<1>4. IsFiniteSet(more) /\ Cardinality(more) <= Cardinality(was) + 1
  BY <1>3, FS_AddElement
<1>5. Cardinality({m \in Messages : age'[m] \in 0..h}) <= Cardinality(more)
  BY <1>2, <1>4, FS_Subset
<1>6. IsFiniteSet({m \in Messages : age'[m] \in 0..h})
  BY MessagesFinite, FS_Subset
<1>7. Cardinality({m \in Messages : age'[m] \in 0..h}) \in Nat /\ Cardinality(more) \in Nat
  BY <1>4, <1>6, FS_CardinalityType
<1>8. QED
  BY <1>3, <1>4, <1>5, <1>7 DEF SentWithin

LEMMA CountSame ==
  ASSUME UNCHANGED age, NEW h \in Nat
  PROVE  SentWithin(h)' = SentWithin(h)
  BY DEF SentWithin

LEMMA RoomLeftNext ==
  ASSUME TypeOK, RoomLeft, [Next]_vars
  PROVE  RoomLeft'
<1> USE DEF RoomLeft, LimitsHold
<1>1. 1 \in Nat /\ DayHours \in Nat /\ PerHour \in Nat /\ PerDay \in Nat
  BY ConstantsAssumption DEF ConstantsAssumption
<1>2. SentWithin(1) \in Nat /\ SentWithin(DayHours) \in Nat
  BY <1>1, CountNat
<1>3. ASSUME UNCHANGED age, at' \in {"send", "update"} => at \in {"send", "update"}
      PROVE  RoomLeft'
  BY <1>1, <1>3, CountSame
<1>4. CASE Aside
  BY <1>3, <1>4 DEF Aside
<1>5. CASE Emergency
  BY <1>3, <1>5 DEF Emergency, worker
<1>6. CASE HourPasses
  <2>1. SentWithin(1)' <= SentWithin(1) /\ SentWithin(DayHours)' <= SentWithin(DayHours)
    BY <1>1, <1>6, CountAges
  <2>2. SentWithin(1)' \in Nat /\ SentWithin(DayHours)' \in Nat
    <3>1. ASSUME NEW h \in Nat PROVE SentWithin(h)' \in Nat
      <4>1. IsFiniteSet({m \in Messages : age'[m] \in 0..h})
        BY MessagesFinite, FS_Subset
      <4>2. QED
        BY <4>1, FS_CardinalityType DEF SentWithin
    <3>2. QED
      BY <1>1, <3>1
  <2>3. UNCHANGED at
    BY <1>6 DEF HourPasses, worker
  <2>4. QED
    BY <1>1, <1>2, <2>1, <2>2, <2>3
<1>7. CASE WorkerCrash \/ Ack \/ Nack
  BY <1>3, <1>7 DEF WorkerCrash, Ack, Nack, EndDelivery, data
<1>8. CASE \E c \in Campaigns, kind \in {"base", "later"} : Pick(c, kind)
  BY <1>3, <1>8 DEF Pick, data
<1>9. CASE Load \/ MarkRunning \/ ListMessages \/ Complete \/ Defer
  BY <1>3, <1>9 DEF Load, MarkRunning, ListMessages, Complete, Defer, Goto, SetCampaign, data
<1>10. CASE NextMessage
  BY <1>3, <1>10 DEF NextMessage
<1>11. CASE Decide
  <2>1. UNCHANGED age
    BY <1>11 DEF Decide, SetCampaign
  <2>2. CASE Allowed
    BY <1>1, <2>1, <2>2, CountSame DEF Allowed, Below
  <2>3. CASE ~Allowed
    BY <1>3, <1>11, <2>1, <2>3 DEF Decide, Leave
  <2>4. QED
    BY <2>2, <2>3
<1>12. CASE Send
  BY <1>3, <1>12 DEF Send, data
<1>13. CASE MarkSent
  <2>1. /\ at = "update" /\ at' = "next"
        /\ SentWithin(1)' <= SentWithin(1) + 1 /\ SentWithin(DayHours)' <= SentWithin(DayHours) + 1
    BY <1>1, <1>13, CountRecords DEF MarkSent
  <2>2. SentWithin(1)' \in Nat /\ SentWithin(DayHours)' \in Nat
    <3>1. ASSUME NEW h \in Nat PROVE SentWithin(h)' \in Nat
      <4>1. IsFiniteSet({m \in Messages : age'[m] \in 0..h})
        BY MessagesFinite, FS_Subset
      <4>2. QED
        BY <4>1, FS_CardinalityType DEF SentWithin
    <3>2. QED
      BY <1>1, <3>1
  <2>3. QED
    BY <1>1, <1>2, <2>1, <2>2
<1>14. QED
  BY <1>4, <1>5, <1>6, <1>7, <1>8, <1>9, <1>10, <1>11, <1>12, <1>13, OthersAside DEF WorkerStep

LEMMA RoomLeftInit == Init => RoomLeft
<1> SUFFICES ASSUME Init PROVE RoomLeft
  OBVIOUS
<1>1. ASSUME NEW h \in Nat PROVE SentWithin(h) = 0
  <2>1. {m \in Messages : age[m] \in 0..h} = {}
    BY DEF Init, Unsent
  <2>2. QED
    BY <2>1, FS_EmptySet DEF SentWithin
<1>2. QED
  BY <1>1, ConstantsAssumption DEF Init, RoomLeft, LimitsHold, ConstantsAssumption

\* Whatever campaigns share the limits and however their deliveries are interrupted, no hour
\* and no day holds more recorded messages than allowed (worker/src/main.ts 192-211).
THEOREM Limits == Spec => []LimitsHold
<1>1. RoomLeft => LimitsHold
  BY DEF RoomLeft
<1>2. QED
  BY <1>1, TypeInit, TypeNext, RoomLeftInit, RoomLeftNext, PTL DEF Spec

=============================================================================
