SPECIFICATION FairSpec
CONSTANTS
  Order = {o1}
  Event = {e1, e2, e3}
  Worker = {w1, w2}
  None = None
  MaxFaults = 1
INVARIANTS
  TypeOK
  EventLogAgrees
  CreditedOnce
  OnlyPaidIsCredited
  SettledMeansCredited
PROPERTIES
  PaidIsAnswered
