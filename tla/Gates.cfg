SPECIFICATION Spec
CONSTANTS
  Goroutine = {g1, g2, g3}
  MaxCalls = 7
  N = 2
  MaxRounds = 3
  Epochs = 2
INVARIANTS TypeOK Together PermitsMatch NoPanic RunsOnce
PROPERTIES NoEarlyWait Settles
CHECK_DEADLOCK FALSE
