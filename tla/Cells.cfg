SPECIFICATION Spec
CONSTANTS
  Goroutine = {g1, g2}
  MaxWrites = 3
  MaxReads = 2
  Key = {k1, k2, k3, k4}
  Val = {1, 2}
  HeadNode = HeadNode
  TailNode = TailNode
  Nil = Nil
  MaxCap = 3
  MaxInterval = 3
  MaxElapsed = 12
  MaxCalls = 4
INVARIANTS TypeOK MirrorsRecency AsIfEager
PROPERTIES ReadsWhole Settles
CHECK_DEADLOCK FALSE
