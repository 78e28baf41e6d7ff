SPECIFICATION MCFairSpec
CONSTANTS
  Worker = {w1, w2}
  Amount = {1, 2}
  NoWorker = NoWorker
  MaxBooked = 1
INVARIANTS
  LedgerAgrees
  Solvent
PROPERTIES
  AccountSpec
  CallsReturn
