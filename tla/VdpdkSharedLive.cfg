\* Two devices polled by one rx and one tx thread, with strong fairness.
SPECIFICATION StrongSpec
CONSTANTS
  NumDevs = 2
  SharingThresh = 1
  NumRxQueues = 1
  Iova = {i1}
  Vaddr = {v1}
  NULL = NULL
  BurstSize = 1
  MaxStarts = 0
  MaxDescs = 0
PROPERTY RequestServed
CHECK_DEADLOCK FALSE
