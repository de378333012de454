SPECIFICATION Spec
CONSTANTS
  h1 = h1
  t1 = t1
  t2 = t2
  Handles = {h1}
  Threads = {t1, t2}
  Requests <- RacingPosts
  MaxUserId = 1
  MaxTweetId = 2
  MaxTime = 0
INVARIANTS
  PerAuthorMonotonic
