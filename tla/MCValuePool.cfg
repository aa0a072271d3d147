SPECIFICATION Spec
CONSTANTS
  Threads = {t1, t2}
  Slots = {s1, s2}
  Values = {v1, v2, v3}
  Empty = Empty
  Closed = Closed
  NoSlot = NoSlot
  Nobody = Nobody
  MaxAttempts = 2
INVARIANTS
  TypeOK
  Exclusive
  NoLeak
  NoStrandedValue
  SlotsMatchPolicy
PROPERTIES
  CallsReturn
  ImplementsTransfer
