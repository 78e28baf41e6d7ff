SPECIFICATION MCSpec
CONSTANTS
  Contact = {c1, c2}
  Phone = {p1, p2}
  NoPhone = NoPhone
  Segment = {g1}
  Worker = {w1, w2}
  None = None
  Writes = {"subscribed"}
  Lengths = {0}
  MaxRequests = 4
  Customer = {k1, k2}
  PageCount = 2
  PageOf <- OnFirstPage
  Topics = {"create", "update", "delete"}
  MaxChanges = 2
  MaxRepeats = 1
SYMMETRY NameSymmetry
INVARIANTS
  LengthExact
  SettledMeansLinked
  LinkAgrees
  SilencedStaysSilent
