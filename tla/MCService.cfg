SPECIFICATION Spec
CONSTANTS
  h1 = h1
  h2 = h2
  t1 = t1
  t2 = t2
  Handles = {h1, h2}
  Threads = {t1, t2}
  Requests <- AllCalls
  MaxUserId = 2
  MaxTweetId = 2
  MaxTime = 1
SYMMETRY Symmetry
INVARIANTS
  TypeOK
  NoOrphans
  UniqueTweetIds
  UniqueUserIds
  NoTweetLost
  AckedIsStored
  RealTimeOrder
PROPERTIES
  AppendOnly
  ContractsMet
  OnlyAnswersChange
  Linearizable
