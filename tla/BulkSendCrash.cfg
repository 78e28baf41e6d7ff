SPECIFICATION MCSpec
CONSTANTS
  Sms = {s1}
  Phone = {p1, p2}
  Blocked = {}
  Joining = {}
  Dispatch = {d1}
  NoSms = NoSms
  NoPhone = NoPhone
  BatchSize = 2
  DispatchRetries = 1
  BatchRetries = 1
  Opening = {4}
  Prices = {1}
  Segments = {1}
  Outcomes = {"success"}
  Reports = {}
  Edits = {}
  MaxClicks = 1
  MaxFaults = 1
  MaxEdits = 0
  MaxRefreshes = 0
  MaxOptOuts = 0
SYMMETRY TaskSymmetry
INVARIANTS
  AcceptedAtMostOnce
