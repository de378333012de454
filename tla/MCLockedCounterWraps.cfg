SPECIFICATION Spec
CONSTANTS
  t1 = t1
  t2 = t2
  Threads = {t1, t2}
  MaxInt = 1
  Settings <- NearTheEnd
INVARIANTS
  IdsIncrease
