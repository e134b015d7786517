SPECIFICATION FamilySpec
CONSTANTS
  Goroutine = {g1, g2, g3}
  MaxCalls = 3
  Node = {n1, n2, n3, n4}
  Nil = nil
  Slot = {s1}
  Op = {o1, o2, o3}
  Attempts = 1
  PusherMayStall = TRUE
PROPERTY Linearizable
CHECK_DEADLOCK FALSE
