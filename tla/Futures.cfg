SPECIFICATION Spec
CONSTANTS
  Goroutine = {g1, g2}
  Worker = {w1, w2}
  Promise = {p1, p2}
  MaxTasks = 3
  MaxGets = 2
INVARIANTS TypeOK RunsOnce WorkConserving
PROPERTIES ReadsResult Settles
CHECK_DEADLOCK FALSE
