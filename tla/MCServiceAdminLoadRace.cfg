SPECIFICATION AdminSpec
CONSTANTS
  a1 = a1
  h1 = h1
  t1 = t1
  Handles = {h1}
  Threads = {t1}
  Requests <- Posters
  MaxUserId = 1
  MaxTweetId = 2
  MaxTime = 0
  Admins = {a1}
  Quiet = {"snapshot_state", "load_start"}
  HandMade = {}
  MaxArchive = 1
INVARIANTS
  NoTwinTweets
