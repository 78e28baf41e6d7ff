SPECIFICATION FairSpec
CONSTANTS
  Product = {p1}
  Variant = {v}
  Media = {m}
  Active = Active
  PageCount = 2
  PageOf <- OnFirstPage
  Worker = {w1, w2}
  None = None
  MaxChanges = 2
  MaxFaults = 1
INVARIANTS
  TypeOK
  SettledMeansMirrored
  ListedIsOneFetch
  RefusedOnlyOnceHandled
PROPERTIES
  ChangesArrive
