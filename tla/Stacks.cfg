SPECIFICATION FamilySpec
CONSTANTS
  Goroutine = {g1, g2, g3}
  MaxCalls = 4
  Node = {n1, n2, n3, n4}
  Nil = nil
  Slot = {s1}
  Op = {o1, o2, o3}
  Attempts = 1
  PusherMayStall = FALSE
INVARIANTS FamilyTypeOK ExchangeSafe
PROPERTIES Linearizable CallsReturn
CHECK_DEADLOCK FALSE
