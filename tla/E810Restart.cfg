SPECIFICATION Spec
CONSTANTS
  Kinds = {"rx"}
  RingLen = 8
  MaxActive = 5
  WordMod = 16
  Restarts = TRUE
INVARIANT ReadsPublished
