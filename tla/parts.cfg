SPECIFICATION Spec
CHECK_DEADLOCK FALSE
INVARIANTS
  
  
  TxNotForgotten
  ChainsExact
  
  ReassembledWhole
  QueuesCurrent
  DeadlinesCovered
  
  MirrorFollows
