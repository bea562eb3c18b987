SPECIFICATION Spec
CONSTANTS
  Threads = {t1, t2}
  Keys = {a, b}
  Seconds = 1
  MaxSize = 1
  MaxTime = 2
  MaxClears = 1
INVARIANTS
  TypeOK
  ReturnedIsFresh
  SizeIsBounded
PROPERTIES
  EveryCallEnds
