SPECIFICATION Spec
CONSTANTS
  Goroutine = {g1, g2, g3, g4}
  Permits = 2
  MaxCalls = 6
  Strays = 0
  QueueSize = 2
INVARIANTS TypeOK AtMostN
PROPERTIES ImplementsSemaphore Settles
CHECK_DEADLOCK FALSE
