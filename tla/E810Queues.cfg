SPECIFICATION FairSpec
CONSTANTS
  Kinds = {"atq", "rx", "tx"}
  RingLen = 8
  MaxActive = 4
  WordMod = 16
  Restarts = FALSE
INVARIANTS TypeOK WindowConsecutive ReadsPublished SegmentsInOrder NothingForgotten
PROPERTIES InOrderConsumer CallReturns
