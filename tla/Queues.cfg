SPECIFICATION Spec
CONSTANTS
  Goroutine = {g1, g2, g3}
  MaxCalls = 4
  Size = 2
  Modulus = 16
  Starts = {15}
  Producer = g1
  Consumer = g2
INVARIANTS TypeOK PlaceExclusive
PROPERTIES ImplementsQueue CallsReturn
CHECK_DEADLOCK FALSE
