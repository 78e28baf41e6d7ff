SPECIFICATION MCSpec
CONSTANTS
  Sms = {s1, s2}
  Phone = {p1, p2, p3}
  Blocked = {p3}
  Joining = {p2, p3}
  Dispatch = {d1, d2}
  NoSms = NoSms
  NoPhone = NoPhone
  BatchSize = 2
  DispatchRetries = 1
  BatchRetries = 1
  Opening = {6, 8}
  Prices = {1}
  Segments = {2}
  Outcomes = {"success", "permanent", "transient"}
  Reports = {}
  Edits = {}
  MaxClicks = 1
  MaxFaults = 0
  MaxEdits = 0
  MaxRefreshes = 0
  MaxOptOuts = 1
SYMMETRY TaskSymmetry
INVARIANTS
  NoSendSpendsAnothersReservation
  BlockedNeverQueued
  CostsAtMostReserved
