SPECIFICATION WebSpec
CONSTANTS
  b1 = b1
  h1 = h1
  h2 = h2
  t1 = t1
  t2 = t2
  Handles = {h1, h2}
  Threads = {t1, t2}
  Requests = {}
  MaxUserId = 2
  MaxTweetId = 2
  MaxTime = 0
  Browsers = {b1}
  Forms <- Everyday
  PageLimit = 1
  k1 = k1
  k2 = k2
  NoKey = NoKey
  Keys = {k1, k2}
  Unreadable = {}
  MaxBoot = 1
SYMMETRY Symmetry
INVARIANTS
  WebTypeOK
  NoOrphans
  PagesAreFresh
  UnfollowsAreHonoured
PROPERTIES
  
  HandlersLinearizable
