SPECIFICATION MCSpec
CONSTANTS
  Sms = {s1}
  Phone = {p1, p2}
  Blocked = {}
  Joining = {}
  Dispatch = {d1, d2}
  NoSms = NoSms
  NoPhone = NoPhone
  BatchSize = 2
  DispatchRetries = 1
  BatchRetries = 1
  Opening = {5}
  Prices = {0, 1}
  Segments = {1, 2}
  Outcomes = {"success", "permanent"}
  Reports = {}
  Edits = {"draft", "cancelled"}
  MaxClicks = 2
  MaxFaults = 0
  MaxEdits = 1
  MaxRefreshes = 1
  MaxOptOuts = 0
SYMMETRY TaskSymmetry
INVARIANTS
  DebitedUnlessRepriced
PROPERTIES
  AccountSpec
