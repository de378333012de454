SPECIFICATION ServerSpec
CONSTANTS
  a1 = a1
  h1 = h1
  h2 = h2
  t1 = t1
  BadItem = BadItem
  Handles = {h1, h2}
  Threads = {t1}
  Requests <- Writers
  MaxUserId = 2
  MaxTweetId = 2
  MaxTime = 1
  Admins = {a1}
  Quiet = {"snapshot_state", "load_state"}
  HandMade = {}
  MaxArchive = 1
  Main = t1
  Demo <- SmallDemo
  Uploads <- HandWritten
INVARIANTS
  ServerTypeOK
  IdsContinueAfterLoad
  RealTimeOrder
  SeedServed
  SnapshotsLoad
  StableSnapshots
PROPERTIES
  LoadRestores
  LoadsAreAtomic
