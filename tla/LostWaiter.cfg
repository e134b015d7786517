SPECIFICATION LockfreeSpec
CONSTANTS
  Goroutine = {g1, g2, g3, g4}
  Permits = 2
  MaxCalls = 5
  Strays = 0
  QueueSize = 2
PROPERTIES WakesOneWaiter
CHECK_DEADLOCK FALSE
