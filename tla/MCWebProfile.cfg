SPECIFICATION WebSpec
CONSTANTS
  b1 = b1
  h1 = h1
  h2 = h2
  t1 = t1
  Handles = {h1, h2}
  Threads = {t1}
  Requests = {}
  MaxUserId = 2
  MaxTweetId = 2
  MaxTime = 0
  Browsers = {b1}
  Forms <- Visits
  PageLimit = 1
  k1 = k1
  NoKey = NoKey
  Keys = {k1}
  Unreadable = {}
  MaxBoot = 0
INVARIANT
  ProfileShowsOwn
