SPECIFICATION Spec
CONSTANTS
  Goroutine = {g1, g2, g3}
  MaxCalls = 5
  Node = {n1, n2, n3, n4, n5}
  Nil = nil
  First = g1
  Second = g2
INVARIANTS TypeOK MutualExclusion NoLostWakeup
PROPERTIES ImplementsLock LockReturns
CHECK_DEADLOCK FALSE
