SPECIFICATION Spec
CONSTANTS
  Queues = {0}
  Contexts = {c1, c2}
  NULL = NULL
  WordMod = 16
  NumDescs = 2
  FirstNode = 3
  SqLens = {2, 4}
  HeadMod = 3
  MaxElems = 2
  MaxNode = 4
  MaxCommands = 3
  MaxAdds = 2
  MaxPosts = 3
  MaxCqps = 2
INVARIANTS TypeOK StatusTellsEnabled TxRingIsAdded RecentNodeFound RequestsCompleted
