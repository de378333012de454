SPECIFICATION FairSpec
CONSTANTS
  t1 = t1
  t2 = t2
  Threads = {t1, t2}
  MaxInt = 1
  Settings <- Around
INVARIANTS
  TypeOK
  IdsIncreaseOrPanic
  AdvanceReaches
PROPERTIES
  PoisonIsFinal
  EveryMethodEnds
  Atomic
  GeneratorAndClock
