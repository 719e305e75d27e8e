SPECIFICATION Spec
CONSTANTS
  MaxDelay = 4
  Sources = {"rx", "runner"}
PROPERTY CoalescesWithScheduled
