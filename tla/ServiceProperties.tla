------------------------- MODULE ServiceProperties --------------------------
(***************************************************************************)
(* What the service promises whatever its threads interleave.              *)
(***************************************************************************)
EXTENDS Service

\* the threads holding an id of their own that is not in the store yet
Drawn(op) == {t \in Threads : req[t].op = op /\ pc[t] \in
                {"put_user", "now", "put_tweet"}}

TweetSlots == Slots(Handles)

\* F4, F6, F9: every follow edge joins two different registered users, and
\* every tweet is in the list of its author, a registered user.
\* put_follow and put_tweet look the users up under the lock they write
\* under, whatever has_user said earlier.
NoOrphans ==
  /\ \A f \in Handles : \A g \in follows[f] : f # g /\ HasUser(f) /\ HasUser(g)
  /\ \A s \in TweetSlots : TweetAt(s).author = s[1] /\ HasUser(s[1])

\* F8: no two tweets ever share an id, be they stored, or drawn by a thread
\* between next_id and put_tweet; the generator is past all of them.
UniqueTweetIds ==
  /\ \A r, s \in TweetSlots : TweetAt(r).id = TweetAt(s).id => r = s
  /\ \A t, u \in Drawn("post_tweet") : draft[t].id = draft[u].id => t = u
  /\ \A s \in TweetSlots : TweetAt(s).id \in 1..tweet_ids
  /\ \A t \in Drawn("post_tweet") :
       /\ draft[t].id \in 1..tweet_ids
       /\ \A s \in TweetSlots : TweetAt(s).id # draft[t].id

\* F8 for users: two handles never share an id, and none waits to be stored
\* twice, however many create_user calls race.
UniqueUserIds ==
  /\ \A h, g \in Handles : HasUser(h) /\ users[h] = users[g] => h = g
  /\ \A h \in Handles : users[h] <= user_ids
  /\ \A t \in Drawn("create_user") :
       /\ draft[t].id \in 1..user_ids
       /\ \A h \in Handles : users[h] # draft[t].id
       /\ \A u \in Drawn("create_user") : draft[t].id = draft[u].id => t = u

\* Every tweet id issued is in the store or in the hands of the thread about
\* to store it: post_tweet draws an id only after has_user, users are never
\* removed, so put_tweet cannot fail and no posted tweet is lost.
NoTweetLost ==
  1..tweet_ids \subseteq {TweetAt(s).id : s \in TweetSlots}
                           \cup {draft[t].id : t \in Drawn("post_tweet")}

\* A create_user or post_tweet that returned Ok described what is stored: the
\* handle is registered with the id of the answer (so of two racing calls
\* for one handle at most one returns Ok), and the tweet is in its
\* author's list.
AckedIsStored ==
  \A t \in Threads : pc[t] = "done" /\ resp[t] = "ok" =>
    /\ req[t].op = "create_user" => users[req[t].who] = draft[t].id
    /\ req[t].op = "post_tweet" => TweetOf(t) \in StoredTweets

\* F2, F7, F8 together: a tweet posted by a call that began when another was
\* already stored sorts above it in every timeline, and its time lies
\* within the call.
RealTimeOrder ==
  \A t \in Threads : At(t, "done", "post_tweet") /\ resp[t] = "ok" =>
    /\ draft[t].created_at \in began[t].time..now
    /\ \A w \in began[t].tweets : Newer(TweetOf(t), w)

\* "Per-author append-only list, in insertion order", and users stay as they
\* were registered: a step adds at most one tweet, at the end of its author's
\* list, and never changes or removes a registration.
AppendOnly ==
  [][/\ \A h \in Handles : HasUser(h) => users'[h] = users[h]
     /\ \A h \in Handles :
          \/ by_author'[h] = by_author[h]
          \/ /\ Len(by_author'[h]) = Len(by_author[h]) + 1
             /\ SubSeq(by_author'[h], 1, Len(by_author[h])) = by_author[h]
    ]_vars

\* "Per-author monotonicity for tweet IDs follows because all tweets share the
\* same generator": the list of an author, kept in insertion order, has
\* growing ids.
PerAuthorMonotonic ==
  \A h \in Handles : \A i, j \in DOMAIN by_author[h] :
    i < j => by_author[h][i].id < by_author[h][j].id
=============================================================================
