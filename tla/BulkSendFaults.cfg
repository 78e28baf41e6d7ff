SPECIFICATION MCSpec
CONSTANTS
  Sms = {s1}
  Phone = {p1, p2}
  Blocked = {}
  Joining = {}
  Dispatch = {d1, d2}
  NoSms = NoSms
  NoPhone = NoPhone
  BatchSize = 1
  DispatchRetries = 1
  BatchRetries = 1
  Opening = {1, 4}
  Prices = {1}
  Segments = {1}
  Outcomes = {"success", "transient"}
  Reports = {}
  Edits = {}
  MaxClicks = 2
  MaxFaults = 1
  MaxEdits = 0
  MaxRefreshes = 0
  MaxOptOuts = 0
SYMMETRY TaskSymmetry
INVARIANTS
  Solvent
  CopiesBounded
  NothingStaysReserved
