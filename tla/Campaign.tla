------------------------------ MODULE Campaign ------------------------------
(***************************************************************************)
(* WhatsApp campaigns: the template's approval, the API that schedules a   *)
(* campaign, the single campaign worker, the sending limits, the           *)
(* provider's callbacks, the answers of the leads and the suppression list *)
(* they lead to, and the reconciliation of the campaign queue.             *)
(*                                                                         *)
(* Time advances by hours: a message keeps the age of its sentAt.  The     *)
(* delay of a job is left out (a delayed job may be picked at once: the    *)
(* worker decides again), and so is the pause of the BullMQ queue (between *)
(* the two writes of emergency(), or after a scheduler tick has applied an *)
(* older setting, the queue does deliver).  Any failed attempt may be the  *)
(* last of the five.  A webhook call is one step, and of a lead's status   *)
(* only what DO_NOT_CONTACT does to its phone is kept.                     *)
(*                                                                         *)
(* AnyStatus, Accepted, EveryMessage, NamedInList, AtMost, RequeueAll and  *)
(* OnlyRunning are faulty variants of the operator defined after them; no  *)
(* action uses them.                                                       *)
(***************************************************************************)
EXTENDS Integers, FiniteSets

CONSTANTS
  Campaigns, Leads, Phones,
  PhoneOf,        \* the normalized phone of each lead; two leads may share one
  Target,         \* the leads with a phone that match the filter of each campaign
  PerHour, PerDay,          \* CAMPAIGN_MESSAGES_PER_HOUR, CAMPAIGN_MESSAGES_PER_DAY
  StartHour, EndHour,       \* CAMPAIGN_ALLOWED_START_HOUR, CAMPAIGN_ALLOWED_END_HOUR
  DayHours,       \* hours in a day
  AutoSend,       \* AUTO_SEND_CAMPAIGNS, or DRY_RUN
  Callbacks,      \* the statuses the provider reports, known or not
  MaxRequests,    \* bound on the operator's and the provider's calls once there is a campaign
  MaxFaults       \* bound on crashes, lost answers and losses of Redis

NoLead     == "no lead"
NoCampaign == "no campaign"

ASSUME ConstantsAssumption ==
  /\ NoLead \notin Leads /\ NoCampaign \notin Campaigns
  /\ PhoneOf \in [Leads -> Phones] /\ Target \in [Campaigns -> SUBSET Leads]
  /\ IsFiniteSet(Campaigns) /\ IsFiniteSet(Leads)
  /\ PerHour \in Nat \ {0} /\ PerDay \in Nat \ {0} /\ DayHours \in Nat \ {0}
  /\ StartHour \in 0..DayHours-1 /\ EndHour \in 0..DayHours-1
  /\ AutoSend \in BOOLEAN /\ MaxRequests \in Nat /\ MaxFaults \in Nat

VARIABLES
  template,   \* MessageTemplate.status; REFUSED is PENDING or REJECTED
  paused,     \* SystemSetting automation.paused
  campaign,   \* Campaign.status
  msg,        \* CampaignMessage.status
  age,        \* hours since its sentAt, up to DayHours + 1
  barredBy,   \* ContactSuppression: the lead whose row bars the phone
  hour,       \* hour of the day
  base,       \* the BullMQ job campaign-<id>
  later,      \* how many deferred jobs campaign-<id>-<time> wait
  at, of, by, \* the worker: where it is, its campaign, the kind of its job
  todo, cur,  \* the leads whose messages are left, the one being handled
  api, tick,  \* the step and campaign of the schedule request and of the reconciliation
  sends,      \* how often each message was handed to the provider
  sentBarred, \* how often a phone got a message after it was barred
  sentPaused, \* how many deliveries have sent during the present emergency stop
  told,       \* the present delivery is counted in sentPaused
  requests, faults

data   == <<template, paused, campaign, msg, age, barredBy, hour>>
jobs   == <<base, later>>
worker == <<at, of, by, todo, cur>>
past   == <<sends, sentBarred, sentPaused, told>>
count  == <<requests, faults>>
vars   == <<data, jobs, worker, api, tick, past, count>>

Messages   == {m \in Campaigns \X Leads : m[2] \in Target[m[1]]}
Idle       == <<"idle", NoCampaign>>
Unsent     == -1
Open       == {"PENDING", "QUEUED"}
Sent       == {"SENT", "DELIVERED", "READ"}
Message    == <<of, cur>>  \* the message the worker handles
HasOpen(c) == \E m \in Messages : m[1] = c /\ msg[m] \in Open

TypeOK ==
  /\ template \in {"NONE", "DRAFT", "REFUSED", "APPROVED"} /\ paused \in BOOLEAN
  /\ campaign \in [Campaigns -> {"NONE", "DRAFT", "SCHEDULED", "RUNNING", "COMPLETED"}]
  /\ msg \in [Messages -> Open \union Sent \union {"NONE", "REPLIED", "FAILED", "BLOCKED"}]
  /\ age \in [Messages -> {Unsent} \union 0..DayHours+1]
  /\ barredBy \in [Phones -> Leads \union {NoLead}] /\ hour \in 0..DayHours-1
  /\ base \in [Campaigns -> {"none", "wait", "active", "completed", "failed"}]
  /\ later \in [Campaigns -> Nat]
  /\ at \in {"idle", "load", "mark", "list", "next", "decide", "defer", "send", "update", "ack",
             "nack"}
  /\ of \in Campaigns \union {NoCampaign} /\ by \in {"none", "base", "later", "lost"}
  /\ at # "idle" => of \in Campaigns
  /\ todo \subseteq Leads /\ cur \in Leads \union {NoLead}
  /\ at \in {"next", "decide", "send", "update"} => todo \subseteq Target[of]
  /\ at \notin {"next", "decide", "send", "update"} => todo = {}
  /\ at \in {"decide", "send", "update"} => Message \in Messages
  /\ api \in {Idle} \union {"created", "add"} \X Campaigns
  /\ tick \in {Idle} \union {"add", "drop"} \X Campaigns
  /\ sends \in [Messages -> Nat] /\ sentBarred \in [Phones -> Nat]
  /\ sentPaused \in Nat /\ told \in BOOLEAN /\ requests \in 0..MaxRequests
  /\ faults \in 0..MaxFaults

Init ==
  /\ template = "NONE" /\ paused = FALSE
  /\ campaign = [c \in Campaigns |-> "NONE"]
  /\ msg = [m \in Messages |-> "NONE"] /\ age = [m \in Messages |-> Unsent]
  /\ barredBy = [p \in Phones |-> NoLead] /\ hour = 0
  /\ base = [c \in Campaigns |-> "none"] /\ later = [c \in Campaigns |-> 0]
  /\ at = "idle" /\ of = NoCampaign /\ by = "none" /\ todo = {} /\ cur = NoLead
  /\ api = Idle /\ tick = Idle
  /\ sends = [m \in Messages |-> 0] /\ sentBarred = [p \in Phones |-> 0]
  /\ sentPaused = 0 /\ told = FALSE /\ requests = 0 /\ faults = 0

Request == requests < MaxRequests /\ requests' = requests + 1 /\ UNCHANGED faults
Fault   == faults < MaxFaults /\ faults' = faults + 1 /\ UNCHANGED requests

-----------------------------------------------------------------------------
(* Templates and campaigns (service.ts).                                   *)

OnlyTemplate(status) ==
  /\ template' = status
  /\ UNCHANGED <<paused, campaign, msg, age, barredBy, hour, jobs, worker, api, tick, past>>

CreateTemplate == template = "NONE" /\ OnlyTemplate("DRAFT") /\ UNCHANGED count
DeleteTemplate ==
  /\ template # "NONE" /\ \A c \in Campaigns : campaign[c] = "NONE"
  /\ OnlyTemplate("NONE") /\ UNCHANGED count

\* Without credentials the demo provider approves at once.
SubmitTemplate ==
  /\ template \in {"DRAFT", "REFUSED"} /\ UNCHANGED count
  /\ \E status \in {"REFUSED", "APPROVED"} : OnlyTemplate(status)

\* The provider may withdraw an approval.
SyncTemplate ==
  /\ Request /\ template \in {"REFUSED", "APPROVED"}
  /\ \E status \in {"REFUSED", "APPROVED"} : OnlyTemplate(status)

SetCampaign(c, status) ==
  /\ campaign' = [campaign EXCEPT ![c] = status]
  /\ UNCHANGED <<template, paused, age, barredBy, hour>>

CreateCampaign(c) ==
  /\ campaign[c] = "NONE" /\ template = "APPROVED"
  /\ SetCampaign(c, "DRAFT")
  /\ UNCHANGED <<msg, jobs, worker, api, tick, past, count>>

\* The filter leaves out the leads that a suppression names; a lead that shares a barred
\* phone with one of them gets its message, which the worker blocks.
Eligible(c) == {l \in Target[c] : \A p \in Phones : barredBy[p] # l}

\* An existing message is left alone, whatever its status.
ScheduleMessages(c) ==
  /\ Request /\ api = Idle /\ campaign[c] # "NONE" /\ Eligible(c) # {}
  /\ msg' = [m \in Messages |->
               IF m[1] = c /\ m[2] \in Eligible(c) /\ msg[m] = "NONE" THEN "PENDING" ELSE msg[m]]
  /\ api' = <<"created", c>>
  /\ UNCHANGED <<template, paused, campaign, age, barredBy, hour, jobs, worker, tick,
                 past>>

ScheduleCampaign(c) ==
  /\ api = <<"created", c>>
  /\ SetCampaign(c, "SCHEDULED")
  /\ api' = <<"add", c>>
  /\ UNCHANGED <<msg, jobs, worker, tick, past, count>>

\* add() with an existing jobId leaves the existing job alone, a finished one included.
AddBase(c) == base' = [base EXCEPT ![c] = IF @ = "none" THEN "wait" ELSE @]

ScheduleJob(c) ==
  /\ api = <<"add", c>>
  /\ AddBase(c)
  /\ api' = Idle
  /\ UNCHANGED <<data, later, worker, tick, past, count>>

ApiCrash ==
  /\ api # Idle /\ Fault
  /\ api' = Idle
  /\ UNCHANGED <<data, jobs, worker, tick, past>>

\* emergency("stop") and emergency("resume"); a new stop begins a new count.
Emergency ==
  /\ Request /\ paused' = ~paused
  /\ sentPaused' = 0 /\ told' = FALSE
  /\ UNCHANGED <<template, campaign, msg, age, barredBy, hour, jobs, worker, api, tick,
                 sends, sentBarred>>

HourPasses ==
  /\ hour' = (hour + 1) % DayHours
  /\ age' = [m \in Messages |->
               IF age[m] = Unsent \/ age[m] > DayHours THEN age[m] ELSE age[m] + 1]
  /\ UNCHANGED <<template, paused, campaign, msg, barredBy, jobs, worker, api, tick,
                 past, count>>

-----------------------------------------------------------------------------
(* The webhook and the lead's status (service.ts).                         *)

AnyStatus(status) == TRUE
Mapped(status)    == status \in {"SENT", "DELIVERED", "READ", "FAILED"}

\* applyWhatsAppStatus: updateMany by providerMessageId, which the SENT update writes; in
\* whatever order, and however often, the provider calls.
StatusCallback(m, status) ==
  /\ Request /\ age[m] # Unsent /\ Mapped(status)
  /\ msg' = [msg EXCEPT ![m] = status]
  /\ UNCHANGED <<template, paused, campaign, age, barredBy, hour, jobs, worker, api,
                 tick, past>>

\* leadStatus(): DO_NOT_CONTACT bars the phone; the row of an earlier lead stays.
Bar(l) == barredBy' = [barredBy EXCEPT ![PhoneOf[l]] = IF @ = NoLead THEN l ELSE @]

LeadStatus(l) ==
  /\ Request /\ Bar(l)
  /\ UNCHANGED <<template, paused, campaign, msg, age, hour, jobs, worker, api, tick, past>>

\* The message of the lead that was sent last becomes REPLIED.
Replied(l) ==
  LET open == {m \in Messages : m[2] = l /\ msg[m] \in Sent}
  IN \/ open = {} /\ UNCHANGED msg
     \/ \E m \in open : /\ \A n \in open : age[m] <= age[n]
                       /\ msg' = [msg EXCEPT ![m] = "REPLIED"]

\* findFirst by the phone: any lead with the phone may be the one.
InboundMessage(l, optOut) ==
  /\ Request /\ Replied(l)
  /\ IF optOut THEN Bar(l) ELSE UNCHANGED barredBy
  /\ UNCHANGED <<template, paused, campaign, age, hour, jobs, worker, api, tick, past>>

-----------------------------------------------------------------------------
(* The worker: processCampaign (worker/main.ts).                           *)

Goto(label) == at' = label /\ UNCHANGED <<of, by, todo, cur>>
Leave(label) == at' = label /\ todo' = {} /\ cur' = NoLead /\ UNCHANGED <<of, by>>

Pick(c, kind) ==
  /\ at = "idle"
  /\ \/ kind = "base" /\ base[c] = "wait"
        /\ base' = [base EXCEPT ![c] = "active"] /\ UNCHANGED later
     \/ kind = "later" /\ later[c] > 0
        /\ later' = [later EXCEPT ![c] = @ - 1] /\ UNCHANGED base
  /\ at' = "load" /\ of' = c /\ by' = kind /\ UNCHANGED <<todo, cur>>
  /\ UNCHANGED <<data, api, tick, past, count>>

\* The template and the emergency stop are read once per delivery.
Accepted  == template = "APPROVED" /\ AutoSend
Startable == template = "APPROVED" /\ AutoSend /\ ~paused

Load ==
  /\ at = "load"
  /\ Goto(IF Startable THEN "mark" ELSE "nack")
  /\ UNCHANGED <<data, jobs, api, tick, past, count>>

MarkRunning ==
  /\ at = "mark"
  /\ SetCampaign(of, "RUNNING") /\ Goto("list")
  /\ UNCHANGED <<msg, jobs, api, tick, past, count>>

EveryMessage(c) == {l \in Target[c] : msg[<<c, l>>] # "NONE"}
OpenMessages(c) == {l \in Target[c] : msg[<<c, l>>] \in Open}

ListMessages ==
  /\ at = "list"
  /\ todo' = OpenMessages(of) /\ at' = "next"
  /\ UNCHANGED <<of, by, cur, data, jobs, api, tick, past, count>>

\* The suppression list is consulted for each message, by its phone.
NamedInList(l) == \E p \in Phones : barredBy[p] = l
Suppressed(l)  == barredBy[PhoneOf[l]] # NoLead

NextMessage ==
  /\ at = "next" /\ \E l \in todo :
       /\ todo' = todo \ {l} /\ UNCHANGED <<of, by>>
       /\ IF Suppressed(l)
            THEN /\ msg' = [msg EXCEPT ![<<of, l>>] = "BLOCKED"]
                 /\ UNCHANGED <<at, cur>>
            ELSE /\ at' = "decide" /\ cur' = l
                 /\ UNCHANGED msg
  /\ UNCHANGED <<template, paused, campaign, age, barredBy, hour, jobs, api, tick,
                 past, count>>

Complete ==
  /\ at = "next" /\ todo = {}
  /\ SetCampaign(of, "COMPLETED") /\ Goto("ack")
  /\ UNCHANGED <<msg, jobs, api, tick, past, count>>

\* campaignDispatchDecision: the window of hours, then the two counts over sentAt.
InWindow ==
  \/ StartHour = EndHour
  \/ StartHour < EndHour /\ hour \in StartHour..EndHour-1
  \/ StartHour > EndHour /\ (hour >= StartHour \/ hour < EndHour)

SentWithin(hours) == Cardinality({m \in Messages : age[m] \in 0..hours})
AtMost(n, limit)  == n <= limit
Below(n, limit)   == n < limit
Allowed == InWindow /\ Below(SentWithin(DayHours), PerDay) /\ Below(SentWithin(1), PerHour)

RequeueAll(m) == m[1] = of /\ msg[m] # "NONE"
Requeued(m)   == m[1] = of /\ msg[m] \in Open

Decide ==
  /\ at = "decide"
  /\ IF Allowed
       THEN Goto("send") /\ UNCHANGED <<msg, campaign, template, paused, age, barredBy, hour>>
       ELSE /\ Leave("defer") /\ SetCampaign(of, "SCHEDULED")
            /\ msg' = [m \in Messages |-> IF Requeued(m) THEN "QUEUED" ELSE msg[m]]
  /\ UNCHANGED <<jobs, api, tick, past, count>>

\* The deferred job is named after its time, so it never meets an existing one.
Defer ==
  /\ at = "defer"
  /\ later' = [later EXCEPT ![of] = @ + 1] /\ Goto("ack")
  /\ UNCHANGED <<data, base, api, tick, past, count>>

Deliver ==
  /\ sends' = [sends EXCEPT ![Message] = @ + 1]
  /\ sentBarred' = [sentBarred EXCEPT ![PhoneOf[cur]] =
                       @ + IF barredBy[PhoneOf[cur]] # NoLead THEN 1 ELSE 0]
  /\ sentPaused' = sentPaused + IF paused /\ ~told THEN 1 ELSE 0
  /\ told' = (told \/ paused)

\* The provider accepts; or refuses; or accepts and its answer is lost.
Send ==
  /\ at = "send"
  /\ \/ Deliver /\ Goto("update") /\ UNCHANGED count
     \/ UNCHANGED past /\ Leave("nack") /\ UNCHANGED count
     \/ Deliver /\ Leave("nack") /\ Fault
  /\ UNCHANGED <<data, jobs, api, tick>>

MarkSent ==
  /\ at = "update"
  /\ msg' = [msg EXCEPT ![Message] = "SENT"] /\ age' = [age EXCEPT ![Message] = 0]
  /\ at' = "next" /\ cur' = NoLead /\ UNCHANGED <<of, by, todo>>
  /\ UNCHANGED <<template, paused, campaign, barredBy, hour, jobs, api, tick, past, count>>

EndDelivery ==
  /\ at' = "idle" /\ of' = NoCampaign /\ by' = "none" /\ todo' = {} /\ cur' = NoLead
  /\ told' = FALSE /\ UNCHANGED <<sends, sentBarred, sentPaused>>

\* A completed job is kept (removeOnComplete: 500) and keeps its id.
Ack ==
  /\ at = "ack" /\ EndDelivery
  /\ base' = IF by = "base" THEN [base EXCEPT ![of] = "completed"] ELSE base
  /\ UNCHANGED <<data, later, api, tick, count>>

\* Another attempt, or none left.
BackToQueue ==
  \/ by = "base" /\ UNCHANGED later
     /\ \E state \in {"wait", "failed"} : base' = [base EXCEPT ![of] = state]
  \/ by = "later" /\ UNCHANGED base
     /\ \E again \in 0..1 : later' = [later EXCEPT ![of] = @ + again]
  \/ by = "lost" /\ UNCHANGED jobs

Nack ==
  /\ at = "nack" /\ EndDelivery /\ BackToQueue
  /\ UNCHANGED <<data, api, tick, count>>

\* The worker stops anywhere; BullMQ finds its job stalled and hands it out again.
WorkerCrash ==
  /\ at # "idle" /\ Fault /\ EndDelivery /\ BackToQueue
  /\ UNCHANGED <<data, api, tick>>

RedisLoss ==
  /\ Fault
  /\ base' = [c \in Campaigns |-> "none"] /\ later' = [c \in Campaigns |-> 0]
  /\ by' = IF at = "idle" THEN by ELSE "lost"
  /\ UNCHANGED <<data, at, of, todo, cur, api, tick, past>>

-----------------------------------------------------------------------------
(* rebuildCampaignQueue (reconciliation.ts).                               *)

\* A RUNNING campaign counts as stale from its last update on, worked on or not.
OnlyRunning(c)   == campaign[c] = "RUNNING"
Recoverable(c)   == campaign[c] \in {"SCHEDULED", "RUNNING"}

FindDurable(c) ==
  /\ tick = Idle /\ Recoverable(c) /\ HasOpen(c) /\ base[c] = "none"
  /\ tick' = <<"add", c>>
  /\ UNCHANGED <<data, jobs, worker, api, past, count>>

AddMissing(c) ==
  /\ tick = <<"add", c>> /\ AddBase(c)
  /\ tick' = Idle
  /\ UNCHANGED <<data, later, worker, api, past, count>>

\* The waiting, deferred and failed jobs of a campaign that was COMPLETED when it was read.
FindOrphan(c) ==
  /\ tick = Idle /\ campaign[c] = "COMPLETED" /\ (base[c] \in {"wait", "failed"} \/ later[c] > 0)
  /\ tick' = <<"drop", c>>
  /\ UNCHANGED <<data, jobs, worker, api, past, count>>

DropOrphan(c) ==
  /\ tick = <<"drop", c>>
  /\ base' = [base EXCEPT ![c] = IF @ \in {"wait", "failed"} THEN "none" ELSE @]
  /\ later' = [later EXCEPT ![c] = 0]
  /\ tick' = Idle
  /\ UNCHANGED <<data, worker, api, past, count>>

-----------------------------------------------------------------------------
ApiStep(c)  == ScheduleCampaign(c) \/ ScheduleJob(c)
TickStep(c) == AddMissing(c) \/ DropOrphan(c)
WorkerStep ==
  \/ Load \/ MarkRunning \/ ListMessages \/ NextMessage \/ Complete \/ Decide \/ Defer \/ Send
  \/ MarkSent \/ Ack \/ Nack

Ask ==
  \/ CreateTemplate \/ DeleteTemplate \/ SubmitTemplate \/ SyncTemplate \/ Emergency
  \/ \E c \in Campaigns : CreateCampaign(c) \/ ScheduleMessages(c)
  \/ \E l \in Leads : LeadStatus(l) \/ \E optOut \in BOOLEAN : InboundMessage(l, optOut)
  \/ \E m \in Messages, status \in Callbacks : StatusCallback(m, status)

Next ==
  \/ Ask \/ HourPasses \/ WorkerStep \/ ApiCrash \/ WorkerCrash \/ RedisLoss
  \/ \E c \in Campaigns :
       \/ ApiStep(c) \/ FindDurable(c) \/ FindOrphan(c) \/ TickStep(c)
       \/ \E kind \in {"base", "later"} : Pick(c, kind)

Spec == Init /\ [][Next]_vars

\* The worker and an accepted request keep going; the reconciliation looks at every campaign
\* in each tick, and BullMQ serves its jobs in turn.  Requests, callbacks, faults and the
\* hours are never owed.
Fairness ==
  /\ WF_vars(WorkerStep)
  /\ \A c \in Campaigns :
       /\ WF_vars(ApiStep(c)) /\ WF_vars(TickStep(c)) /\ SF_vars(FindDurable(c))
       /\ \A kind \in {"base", "later"} : SF_vars(Pick(c, kind))

FairSpec == Spec /\ Fairness

-----------------------------------------------------------------------------
(* Properties.                                                             *)

\* Whatever campaigns share the limits, and however their deliveries are interrupted, no
\* hour and no day holds more recorded messages than CAMPAIGN_MESSAGES_PER_HOUR and
\* CAMPAIGN_MESSAGES_PER_DAY allow.
LimitsHold == SentWithin(1) <= PerHour /\ SentWithin(DayHours) <= PerDay

\* A message is handed to the provider once, and once more for each crash or lost answer
\* between the handing over and its SENT update: rescheduling, deferral, rebuilt jobs and
\* duplicate jobs never repeat it.
AtMostOnce == \A m \in Messages : sends[m] <= 1 + faults

\* A phone that opted out gets at most the message that had passed the check, through
\* whichever lead or campaign it is reached.
OptOutHeld == \A p \in Phones : sentBarred[p] <= 1

\* The emergency stop is read once per delivery, so the delivery that runs when it comes may
\* go on; no other one sends before the resume.
StopOneDelivery == sentPaused <= 1

\* A message the provider has accepted and the worker has recorded is not queued or blocked
\* again, so later deliveries leave it out.
SentStaysOut ==
  [][\A m \in Messages : age[m] # Unsent => msg'[m] \notin Open \union {"BLOCKED"}]_msg

\* A scheduled or interrupted campaign with messages left is delivered again, after a crash
\* and after the loss of Redis; unless its only job has ended and is kept (which hides it
\* from the rebuild), or the stop or the template forbid it.
Held(c) ==
  \/ base[c] \in {"completed", "failed"} /\ later[c] = 0
  \/ ~Startable
CampaignResumes ==
  \A c \in Campaigns :
    campaign[c] \in {"SCHEDULED", "RUNNING"} /\ HasOpen(c)
      ~> (of = c /\ at = "list") \/ Held(c) \/ ~HasOpen(c) \/ campaign[c] = "COMPLETED"
=============================================================================
