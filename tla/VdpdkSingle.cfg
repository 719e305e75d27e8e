\* One device, one rx and one tx thread, one rx queue.
SPECIFICATION FairSpec
CONSTANTS
  NumDevs = 1
  SharingThresh = 2
  NumRxQueues = 1
  Iova = {i1, i2}
  Vaddr = {v1}
  NULL = NULL
  BurstSize = 1
  MaxStarts = 2
  MaxDescs = 1
INVARIANTS TypeOK NoStaleRing
PROPERTIES NoChangeWhilePolling QueueKept RequestServed ThreadsJoin
