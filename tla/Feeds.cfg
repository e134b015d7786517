SPECIFICATION Spec
CONSTANTS
  Size = 2
  MaxValues = 6
  Emitter = {e1, e2}
  Subscriber = {s1, s2}
  Topic = {t1, t2}
  MaxEmits = 2
INVARIANTS TypeOK Conserved DeliveredOnce
PROPERTY Settles
CHECK_DEADLOCK FALSE
