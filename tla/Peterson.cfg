SPECIFICATION Spec
CONSTANTS
  Goroutine = {g1, g2}
  MaxCalls = 2
  First = g1
  Second = g2
  Buffered = TRUE
INVARIANT MutualExclusion
CHECK_DEADLOCK FALSE
