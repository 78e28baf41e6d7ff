SPECIFICATION Spec
CONSTANTS
  Recipient = {r1}
  Handler = {h1, h2, h3}
  Block = {"Click"}
  None = None
  Fates = {"delivered", "undeliverable"}
  Patches <- ClientPatches
  MaxRequests = 4
  MaxFaults = 1
SYMMETRY NameSymmetry
CHECK_DEADLOCK FALSE
INVARIANTS
  StatusHasItsEvent
PROPERTIES
  OnlyWholeSavesForget
