CONSTANTS
  r1 = r1
  r2 = r2
  t1 = t1
  t2 = t2
  Reqs <- TwoReqs
  Waiters <- TwoWaiters
  NumWorkers = 2
  MinComplete <- OneAndTwo
  MaxComplete <- AllTwo
  Timed <- None
  Interrupted <- None
  Home <- TwoThenOne
  Mobile <- None
SPECIFICATION Spec
CHECK_DEADLOCK FALSE
PROPERTIES
  ClosedWaitersReturn
