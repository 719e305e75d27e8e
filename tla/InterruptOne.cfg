SPECIFICATION Spec
CONSTANTS
  MaxDelay = 4
  Sources = {"rx"}
INVARIANT TypeOK
PROPERTIES EventsReported NeverPostponed CoalescesWithScheduled
