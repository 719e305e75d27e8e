SPECIFICATION Spec
CONSTANTS
  Kinds = {"atq"}
  RingLen = 4
  MaxActive = 8
  WordMod = 16
  Restarts = FALSE
INVARIANT ProcessInOrder
