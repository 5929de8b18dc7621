SPECIFICATION Spec
CONSTANTS
  Plans <- SmallPlans
  Runs <- InOrder
  Threads = 2
  JobBuffer = 2
  PendingBuffer = 1
  MaxRetries = 2
INVARIANTS TypeOK CloseIsLast Accounting
PROPERTIES ImplementsSearch RunEnds
