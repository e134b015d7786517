SPECIFICATION Spec
CONSTANTS
  Goroutine = {g1, g2}
  MaxCalls = 2
  Node = {n1, n2, n3}
  Nil = nil
INVARIANT PairedUnlockSafe
CHECK_DEADLOCK FALSE
