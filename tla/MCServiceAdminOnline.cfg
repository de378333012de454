SPECIFICATION FairAdminSpec
CONSTANTS
  a1 = a1
  h1 = h1
  h2 = h2
  t1 = t1
  Handles = {h1, h2}
  Threads = {t1}
  Requests <- Writers
  MaxUserId = 2
  MaxTweetId = 1
  MaxTime = 0
  Admins = {a1}
  Quiet = {}
  HandMade = {}
  MaxArchive = 1
INVARIANTS
  NoOrphans
PROPERTIES
  EveryCallAnswered
