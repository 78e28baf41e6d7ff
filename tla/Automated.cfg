SPECIFICATION MCSpec
CONSTANTS
  Automation = {a1, a2}
  Writer = {v1, v2}
  Firing = {f1}
  NoTask = NoTask
  Missing = Missing
  Created <- Fresh
  Changes <- Sent
  MaxUpdates = 4
  DispatchRetries = 1
  MaxAutomationFaults = 1
  Sms = {s1, s2}
  Contact = {c1, c2}
  Phone = {p1}
  Worker = {w1, w2}
  None = None
  Opening = {3}
  Prices = {1, 2}
  Outcomes = {"success", "permanent", "transient", "lost_reply"}
  MaxDisturbances = 2
  MaxWork = 5
SYMMETRY NameSymmetry
CHECK_DEADLOCK FALSE
INVARIANTS
  ScheduleAgrees
  OneCopyPerSend
  ReservationExplained
  RegisteredOnce
