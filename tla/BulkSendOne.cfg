SPECIFICATION MCFairSpec
CONSTANTS
  Sms = {s1}
  Phone = {p1, p2}
  Blocked = {}
  Joining = {}
  Dispatch = {d1}
  NoSms = NoSms
  NoPhone = NoPhone
  BatchSize = 1
  DispatchRetries = 1
  BatchRetries = 1
  Opening = {1, 4}
  Prices = {1}
  Segments = {1}
  Outcomes = {"success", "permanent", "transient", "lost_reply"}
  Reports = {"submitted", "delivered"}
  Edits = {}
  MaxClicks = 1
  MaxFaults = 0
  MaxEdits = 0
  MaxRefreshes = 0
  MaxOptOuts = 2
INVARIANTS
  SettledInFull
  ChargedForAccepted
  EveryCopyExplained
  FinalisedMeansAttempted
  SentMeansSentToAll
PROPERTIES
  SendsComplete
