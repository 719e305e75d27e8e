SPECIFICATION Spec
CONSTANTS
  NumVms = 3
  Polled = {0, 2}
INVARIANTS TypeOK DevicesUsable FailureReported
PROPERTY SignalTerminates
CHECK_DEADLOCK FALSE
