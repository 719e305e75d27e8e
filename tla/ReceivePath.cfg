SPECIFICATION Spec
CONSTANTS
  NumVms = 2
  MAX_QUEUES_PER_VM = 2
  BURST_SIZE = 1
  Mediated = {0}
  RssVms = {0}
  MaybeE1000 = {1}
  Etypes = {e1}
  RuleQueues = {0, 2, 3}
  IdMod = 8
  MaxPackets = 2
  MaxRules = 1
INVARIANTS TypeOK NoDuplicates FreedOnce RightQueue
PROPERTIES InjectedHandled
