SPECIFICATION FairSpec
CONSTANTS
  c1 = c1
  l1 = l1
  l2 = l2
  p1 = p1
  Campaigns = {c1}
  Leads = {l1, l2}
  Phones = {p1}
  PhoneOf <- OnePhone
  Target <- OneTarget
  PerHour = 1
  PerDay = 1
  StartHour = 0
  EndHour = 1
  DayHours = 2
  AutoSend = TRUE
  Callbacks = {"SENT", "DELIVERED", "PLAYED"}
  MaxRequests = 2
  MaxFaults = 1
INVARIANTS TypeOK LimitsHold   
PROPERTIES SentStaysOut CampaignResumes
