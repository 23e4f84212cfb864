CONSTANTS
  p1 = p1
  p2 = p2
  Producers <- TwoProducers
  Batch = 2
  Budget = 2
  Nodes <- MCNodes
SPECIFICATION Spec
CHECK_DEADLOCK FALSE
INVARIANTS
  NoLostWakeup
  PendingExact
PROPERTIES
  ServedInOrder
