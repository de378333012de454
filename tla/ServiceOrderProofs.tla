-------------------------- MODULE ServiceOrderProofs --------------------------
(***************************************************************************)
(* Proofs, for any handles, threads, calls and bounds, that the service    *)
(* loses nothing it was given and keeps the order calls were made in.      *)
(***************************************************************************)
EXTENDS ServiceProofs

-----------------------------------------------------------------------------
(* The store only grows.                                                   *)

StoreGrows ==
  /\ \A h \in Handles : HasUser(h) => users'[h] = users[h]
  /\ \A s \in TweetSlots : s \in TweetSlots' /\ TweetAt(s)' = TweetAt(s)

LEMMA GrowsUnchanged ==
  ASSUME UNCHANGED <<users, by_author>> PROVE StoreGrows
  BY DEF StoreGrows, TweetSlots, Slots, TweetAt

LEMMA GrowsPutUser ==
  ASSUME StoreTypeOK, NEW h \in Handles, NEW id, NEW result,
         PutUser(h, id, result)
  PROVE  StoreGrows
<1>1. CASE UNCHANGED storeVars
  BY <1>1, GrowsUnchanged DEF storeVars
<1>2. CASE /\ ~HasUser(h) /\ users' = [users EXCEPT ![h] = id]
           /\ UNCHANGED by_author
  BY <1>2 DEF StoreGrows, StoreTypeOK, HasUser, TweetSlots, Slots, TweetAt
<1> QED  BY <1>1, <1>2 DEF PutUser

LEMMA GrowsPutTweet ==
  ASSUME StoreTypeOK, NEW w \in Tweet, NEW result, PutTweet(w, result)
  PROVE  /\ StoreGrows
         /\ \A s \in TweetSlots' : s \in TweetSlots \/ TweetAt(s)' = w
         /\ HasUser(w.author) => \E s \in TweetSlots' : TweetAt(s)' = w
<1>1. CASE ~HasUser(w.author) /\ UNCHANGED storeVars
  BY <1>1, GrowsUnchanged DEF storeVars, TweetSlots, Slots
<1>2. CASE /\ by_author' = [by_author EXCEPT ![w.author] = Append(@, w)]
           /\ UNCHANGED users
  <2> DEFINE new == <<w.author, Len(by_author[w.author]) + 1>>
  <2>1. PICK n : n = new
    OBVIOUS
  <2>2. /\ n \in TweetSlots' /\ TweetAt(n)' = w
        /\ \A s \in TweetSlots : s \in TweetSlots' /\ TweetAt(s)' = TweetAt(s)
        /\ \A s \in TweetSlots' : s \in TweetSlots \/ s = n
    BY <1>2, <2>1, PutTweetSlots DEF TweetSlots
  <2> QED  BY <1>2, <2>2 DEF StoreGrows
<1> QED  BY <1>1, <1>2 DEF PutTweet

LEMMA TweetOfType ==
  ASSUME TypeInv, NEW t \in Threads, pc[t] # "idle" PROVE TweetOf(t) \in Tweet
  BY DEF TypeInv, TypeOK, ControlOK, Request, TweetOf, Tweet

LEMMA StoreStep ==
  ASSUME TypeInv, [AnyNext]_vars PROVE StoreGrows
<1>1. ASSUME NEW t \in Threads, Step(t) PROVE StoreGrows
  <2>1. /\ StoreTypeOK
        /\ pc[t] # "idle" => req[t].who \in Handles
    BY DEF TypeInv, TypeOK, ControlOK, Request
  <2>2. CASE CreateUserPut(t)
    BY <2>1, <2>2, GrowsPutUser DEF CreateUserPut
  <2>3. CASE PostTweetPut(t)
    BY <2>1, <2>3, GrowsPutTweet, TweetOfType DEF PostTweetPut
  <2>4. CASE CreateUserNextId(t) \/ FollowPut(t) \/ UnfollowDelete(t)
             \/ PostTweetNextId(t) \/ PostTweetNow(t) \/ Reads(t)
    BY <2>4, GrowsUnchanged
       DEF CreateUserNextId, FollowPut, UnfollowDelete, PostTweetNextId,
           PostTweetNow, Reads, PutFollow, DeleteFollow, storeVars
  <2> QED  BY <1>1, <2>2, <2>3, <2>4, StepKinds
<1> QED
  BY <1>1, GrowsUnchanged DEF AnyNext, Tick, Call, Return, vars, storeVars

\* what StoreGrows says of the tweets as a set
LEMMA StoredTweetsGrow ==
  ASSUME StoreGrows PROVE StoredTweets \subseteq StoredTweets'
<1>1. ASSUME NEW s \in TweetSlots PROVE TweetAt(s) \in StoredTweets'
  <2>1. s \in Slots(Handles)' /\ TweetAt(s)' = TweetAt(s)
    BY DEF StoreGrows, TweetSlots
  <2> QED  BY <2>1 DEF StoredTweets
<1> QED  BY <1>1 DEF StoredTweets, TweetSlots

\* which step stores a tweet, and which steps answer a call that stores
LEMMA OnlyPutTweet ==
  ASSUME TypeInv, NEW t \in Threads, Step(t), ~PostTweetPut(t)
  PROVE  UNCHANGED by_author
  BY StepKinds
     DEF CreateUserNextId, CreateUserPut, FollowPut, UnfollowDelete,
         PostTweetNextId, PostTweetNow, Reads, PutUser, PutFollow,
         DeleteFollow, storeVars

LEMMA StepOp ==
  ASSUME TypeInv, NEW t \in Threads, Step(t)
  PROVE  req'[t] = req[t] /\ pc[t] # "idle"
  BY DEF Step, CreateUserBlank, CreateUserNextId, CreateUserPut, HasUserRead,
         FollowSelf, FollowPut, UnfollowUnknown, UnfollowFromKnown,
         UnfollowToKnown, UnfollowDelete, PostTweetBlank, PostTweetUnknown,
         PostTweetKnown, PostTweetNextId, PostTweetNow, PostTweetPut,
         HomeTimelineRead, Answer, Respond, Goto, At

LEMMA OkByPut ==
  ASSUME TypeInv, NEW t \in Threads, Step(t),
         pc'[t] = "done", resp'[t] = "ok"
  PROVE  /\ req[t].op = "create_user" => CreateUserPut(t)
         /\ req[t].op = "post_tweet" => PostTweetPut(t)
<1>1. ASSUME NEW result, Answer(t, result) PROVE result = "ok"
  BY <1>1 DEF Answer, Respond, TypeInv, TypeOK
<1>2. ASSUME NEW label, Goto(t, label) PROVE label = "done"
  BY <1>2 DEF Goto, TypeInv, TypeOK
<1>3. /\ pc[t] = "put_user" => req[t].op = "create_user"
      /\ pc[t] = "put_tweet" => req[t].op = "post_tweet"
      /\ pc[t] \in {"unfollow_to", "delete_follow"} => req[t].op = "unfollow"
  BY DEF TypeInv, ControlOK, OpOf, Labels
<1>4. ~CreateUserBlank(t) /\ ~CreateUserNextId(t)
  BY <1>1, <1>2 DEF CreateUserBlank, CreateUserNextId
<1>5. ~UnfollowUnknown(t) /\ ~UnfollowFromKnown(t) /\ ~UnfollowToKnown(t)
  BY <1>1, <1>2, UnfollowUnknownAt DEF UnfollowFromKnown, UnfollowToKnown
<1>6. /\ ~PostTweetBlank(t) /\ ~PostTweetUnknown(t) /\ ~PostTweetKnown(t)
      /\ ~PostTweetNextId(t) /\ ~PostTweetNow(t)
  BY <1>1, <1>2 DEF PostTweetBlank, PostTweetUnknown, PostTweetKnown,
                    PostTweetNextId, PostTweetNow
<1>7. CASE HasUserRead(t) \/ FollowSelf(t) \/ FollowPut(t)
           \/ HomeTimelineRead(t)
  BY <1>7 DEF HasUserRead, FollowSelf, FollowPut, HomeTimelineRead, At
<1>8. CASE CreateUserPut(t) \/ UnfollowDelete(t) \/ PostTweetPut(t)
  BY <1>3, <1>8 DEF CreateUserPut, UnfollowDelete, PostTweetPut
<1> QED  BY <1>4, <1>5, <1>6, <1>7, <1>8 DEF Step

-----------------------------------------------------------------------------
(* What a step does to one thread's call.                                  *)

Still(u) ==
  /\ pc'[u] = pc[u] /\ req'[u] = req[u] /\ draft'[u] = draft[u]
  /\ resp'[u] = resp[u] /\ began'[u] = began[u]

LEMMA ThreadStep ==
  ASSUME TypeInv, [AnyNext]_vars, NEW u \in Threads
  PROVE  \/ Still(u) \/ Step(u)
         \/ Return(u) /\ pc'[u] = "idle"
         \/ \E r \in Request : Call(u, r) /\ pc'[u] = "called"
<1> USE DEF TypeInv, TypeOK
<1>1. CASE UNCHANGED vars \/ Tick
  BY <1>1 DEF vars, Tick, threadVars, Still
<1>2. ASSUME NEW t \in Threads, u # t,
             Step(t) \/ Return(t) \/ \E r \in Request : Call(t, r)
      PROVE  Still(u)
  BY <1>2, StepLocal DEF Local, Return, Call, Still
<1>3. /\ Return(u) => pc'[u] = "idle"
      /\ \A r \in Request : Call(u, r) => pc'[u] = "called"
  BY DEF Return, Call
<1> QED  BY <1>1, <1>2, <1>3 DEF AnyNext

-----------------------------------------------------------------------------
(* No drawn id is lost.                                                    *)

\* A post past has_user has a registered author, since no user is removed.
PosterKnown ==
  \A t \in Threads : pc[t] \in {"next_id", "now", "put_tweet"} =>
    HasUser(req[t].who)

LEMMA PosterKnownStep ==
  ASSUME TypeInv, PosterKnown, [AnyNext]_vars PROVE PosterKnown'
<1>1. \A h \in Handles : HasUser(h) => HasUser(h)'
  BY StoreStep DEF StoreGrows, HasUser
<1>2. ASSUME NEW u \in Threads, pc'[u] \in {"next_id", "now", "put_tweet"}
      PROVE  /\ req'[u] = req[u] /\ req[u].who \in Handles
             /\ HasUser(req[u].who)
  <2> USE DEF TypeInv, TypeOK
  <2>1. pc[u] # "idle" => req[u].who \in Handles
    BY DEF ControlOK, Request
  <2>2. CASE Still(u)
    BY <1>2, <2>1, <2>2 DEF PosterKnown, Still
  <2>3. CASE Step(u)
    <3>1. CASE PostTweetKnown(u) \/ PostTweetNextId(u) \/ PostTweetNow(u)
      BY <2>1, <3>1 DEF PostTweetKnown, PostTweetNextId, PostTweetNow, Goto,
                        PosterKnown, At
    <3>2. ~\E result : Respond(u, result)
      BY <1>2 DEF Respond
    <3>3. ASSUME NEW label, Goto(u, label) PROVE label = pc'[u]
      BY <3>3 DEF Goto
    <3> QED
      BY <1>2, <2>3, <3>1, <3>2, <3>3
         DEF Step, CreateUserBlank, CreateUserNextId, CreateUserPut,
             HasUserRead, FollowSelf, FollowPut, UnfollowUnknown,
             UnfollowFromKnown, UnfollowToKnown, UnfollowDelete,
             PostTweetBlank, PostTweetUnknown, PostTweetPut, HomeTimelineRead,
             Answer
  <2> QED  BY <1>2, <2>2, <2>3, ThreadStep
<1> QED  BY <1>1, <1>2 DEF PosterKnown, HasUser

\* A drawn id is either still in the hands of its thread, or it was stored.
LEMMA DrawnStep ==
  ASSUME TypeInv, PosterKnown, [AnyNext]_vars, NEW u \in Drawn("post_tweet")
  PROVE  \/ u \in Drawn("post_tweet")' /\ draft'[u].id = draft[u].id
         \/ \E s \in TweetSlots' : TweetAt(s)'.id = draft[u].id
<1> USE DEF TypeInv, TypeOK
<1>1. /\ u \in Threads /\ req[u].op = "post_tweet"
      /\ pc[u] \in {"now", "put_tweet"}
  BY DEF Drawn, ControlOK, OpOf, Labels
<1>2. CASE Still(u)
  BY <1>1, <1>2 DEF Still, Drawn
<1>3. CASE PostTweetNow(u)
  BY <1>1, <1>3 DEF PostTweetNow, Goto, Drawn
<1>4. CASE PostTweetPut(u)
  <2>1. PICK result \in Results : PutTweet(TweetOf(u), result)
    BY <1>4 DEF PostTweetPut
  <2>2. TweetOf(u) \in Tweet /\ HasUser(TweetOf(u).author)
    BY <1>1, <1>4, TweetOfType DEF PostTweetPut, PosterKnown, TweetOf
  <2>3. \E s \in TweetSlots' : TweetAt(s)' = TweetOf(u)
    BY <2>1, <2>2, GrowsPutTweet
  <2>4. TweetOf(u).id = draft[u].id
    BY DEF TweetOf
  <2> QED  BY <2>3, <2>4
<1>5. CASE Step(u)
  BY <1>1, <1>3, <1>4, <1>5
     DEF Step, CreateUserBlank, CreateUserNextId, CreateUserPut, HasUserRead,
         FollowSelf, FollowPut, UnfollowUnknown, UnfollowFromKnown,
         UnfollowToKnown, UnfollowDelete, PostTweetBlank, PostTweetUnknown,
         PostTweetKnown, PostTweetNextId, HomeTimelineRead, At
<1>6. ~Return(u) /\ ~\E r \in Request : Call(u, r)
  BY <1>1 DEF Return, Call
<1> QED  BY <1>1, <1>2, <1>5, <1>6, ThreadStep

\* the counter moves only when a thread takes the new id
LEMMA CounterStep ==
  ASSUME TypeInv, [AnyNext]_vars
  PROVE  \/ tweet_ids' = tweet_ids
         \/ /\ tweet_ids' = tweet_ids + 1
            /\ \E t \in Drawn("post_tweet")' : draft'[t].id = tweet_ids + 1
<1>1. ASSUME NEW t \in Threads, PostTweetNextId(t)
      PROVE  /\ tweet_ids' = tweet_ids + 1
             /\ t \in Drawn("post_tweet")' /\ draft'[t].id = tweet_ids + 1
  BY <1>1 DEF PostTweetNextId, TweetIds!NextId, Goto, Drawn, TypeInv, TypeOK,
              ControlOK, OpOf, Labels
<1>2. ASSUME NEW t \in Threads, Step(t), ~PostTweetNextId(t)
      PROVE  tweet_ids' = tweet_ids
  BY <1>2, StepKinds DEF CreateUserNextId, CreateUserPut, FollowPut,
     UnfollowDelete, PostTweetNow, PostTweetPut, Reads
<1>3. CASE \E t \in Threads : PostTweetNextId(t)
  BY <1>1, <1>3
<1>4. CASE ~\E t \in Threads : PostTweetNextId(t)
  BY <1>2, <1>4 DEF AnyNext, Tick, Call, Return, vars
<1> QED  BY <1>3, <1>4

LEMMA NoTweetLostStep ==
  ASSUME TypeInv, PosterKnown, NoTweetLost, [AnyNext]_vars PROVE NoTweetLost'
<1>1. ASSUME NEW id \in 1..tweet_ids
      PROVE  \/ \E s \in TweetSlots' : TweetAt(s)'.id = id
             \/ \E u \in Drawn("post_tweet")' : draft'[u].id = id
  <2>1. CASE \E s \in TweetSlots : TweetAt(s).id = id
    BY <2>1, StoreStep DEF StoreGrows
  <2>2. CASE \E u \in Drawn("post_tweet") : draft[u].id = id
    BY <2>2, DrawnStep
  <2> QED  BY <2>1, <2>2 DEF NoTweetLost
<1>2. ASSUME NEW id \in 1..tweet_ids'
      PROVE  \/ \E s \in TweetSlots' : TweetAt(s)'.id = id
             \/ \E u \in Drawn("post_tweet")' : draft'[u].id = id
  <2>1. \/ id \in 1..tweet_ids
        \/ id = tweet_ids + 1 /\ tweet_ids' = tweet_ids + 1
    BY CounterStep DEF TypeInv, TypeOK
  <2>2. CASE id = tweet_ids + 1 /\ tweet_ids' = tweet_ids + 1
    <3>1. tweet_ids' # tweet_ids
      BY <2>2 DEF TypeInv, TypeOK
    <3> QED  BY <2>2, <3>1, CounterStep
  <2> QED  BY <1>1, <2>1, <2>2
<1> QED  BY <1>2 DEF NoTweetLost

\* No posted tweet is lost: every id the generator issued is stored or about to
\* be, for put_tweet cannot fail in a post whose has_user succeeded.
THEOREM TweetsNotLost == Spec => []NoTweetLost
<1>1. Init => NoTweetLost /\ PosterKnown
  BY DEF Init, TweetIds!Init, NoTweetLost, PosterKnown
<1>2. TypeInv /\ (NoTweetLost /\ PosterKnown) /\ [Next]_vars
        => NoTweetLost' /\ PosterKnown'
  BY NoTweetLostStep, PosterKnownStep, AnyRequest
<1>3. Spec => []TypeInv
  BY TypeCorrect, PTL DEF TypeInv
<1> QED  BY <1>1, <1>2, <1>3, PTL DEF Spec

-----------------------------------------------------------------------------
(* What was answered is what is stored.                                    *)

\* AckedIsStored, with an id that is not NoUser: the handle of the answer is
\* registered, so that no later put_user can replace it.
Acked(t) ==
  pc[t] = "done" /\ resp[t] = "ok" =>
    /\ req[t].op = "create_user" =>
         users[req[t].who] = draft[t].id /\ draft[t].id # NoUser
    /\ req[t].op = "post_tweet" => TweetOf(t) \in StoredTweets

AckedInv == \A t \in Threads : Acked(t)

LEMMA AckedCreate ==
  ASSUME TypeInv, UniqueUserIds, NEW t \in Threads, CreateUserPut(t),
         resp'[t] = "ok"
  PROVE  users'[req[t].who] = draft'[t].id /\ draft'[t].id # NoUser
<1>1. PICK result \in Results :
        PutUser(req[t].who, draft[t].id, result) /\ Respond(t, result)
  BY DEF CreateUserPut
<1>2. result = "ok" /\ draft'[t] = draft[t]
  BY <1>1 DEF Respond, TypeInv, TypeOK
<1>3. /\ t \in Drawn("create_user") /\ req[t].who \in Handles
      /\ users \in [Handles -> Nat]
  BY DEF CreateUserPut, Drawn, TypeInv, TypeOK, StoreTypeOK, ControlOK, OpOf,
         Labels, Request
<1> QED  BY <1>1, <1>2, <1>3 DEF PutUser, UniqueUserIds, NoUser

LEMMA AckedPost ==
  ASSUME TypeInv, NEW t \in Threads, PostTweetPut(t), resp'[t] = "ok"
  PROVE  TweetOf(t)' \in StoredTweets'
<1>1. PICK result \in Results :
        PutTweet(TweetOf(t), result) /\ Respond(t, result)
  BY DEF PostTweetPut
<1>2. result = "ok" /\ TweetOf(t)' = TweetOf(t)
  BY <1>1 DEF Respond, TypeInv, TypeOK, TweetOf
<1>3. TweetOf(t) \in Tweet /\ HasUser(TweetOf(t).author)
  BY <1>1, <1>2, TweetOfType DEF PostTweetPut, PutTweet
<1>4. \E s \in TweetSlots' : TweetAt(s)' = TweetOf(t)
  BY <1>1, <1>3, GrowsPutTweet DEF TypeInv, TypeOK
<1> QED  BY <1>2, <1>4 DEF StoredTweets, TweetSlots

LEMMA AckedStep ==
  ASSUME TypeInv, UniqueUserIds, AckedInv, [AnyNext]_vars PROVE AckedInv'
<1> SUFFICES ASSUME NEW t \in Threads, pc'[t] = "done", resp'[t] = "ok"
             PROVE  /\ req'[t].op = "create_user" =>
                         /\ users'[req'[t].who] = draft'[t].id
                         /\ draft'[t].id # NoUser
                    /\ req'[t].op = "post_tweet" =>
                         TweetOf(t)' \in StoredTweets'
  BY DEF AckedInv, Acked
<1>1. CASE Still(t)
  <2>1. TweetOf(t)' = TweetOf(t)
    BY <1>1 DEF Still, TweetOf
  <2>2. req[t].who \in Handles
    BY <1>1 DEF Still, TypeInv, TypeOK, ControlOK, Request
  <2>3. StoreGrows /\ StoredTweets \subseteq StoredTweets'
    BY StoreStep, StoredTweetsGrow
  <2> QED  BY <1>1, <2>1, <2>2, <2>3
           DEF Still, AckedInv, Acked, StoreGrows, HasUser
<1>2. CASE Step(t)
  <2>1. req'[t] = req[t]
    BY <1>2, StepOp
  <2> QED  BY <1>2, <2>1, OkByPut, AckedCreate, AckedPost
<1> QED  BY <1>1, <1>2, ThreadStep

\* Of two racing create_user calls for one handle at most one answers Ok, and
\* what an Ok answer says stays true while its caller holds it.
THEOREM AcknowledgedIsStored == Spec => []AckedIsStored
<1>1. Init => AckedInv
  BY DEF Init, AckedInv, Acked
<1>2. TypeInv /\ UniqueUserIds /\ AckedInv /\ [Next]_vars => AckedInv'
  BY AckedStep, AnyRequest
<1>3. AckedInv => AckedIsStored
  BY DEF AckedInv, Acked, AckedIsStored
<1>4. Spec => []TypeInv
  BY TypeCorrect, PTL DEF TypeInv
<1> QED  BY <1>1, <1>2, <1>3, <1>4, UserIdsUnique, PTL DEF Spec

-----------------------------------------------------------------------------
(* Timelines respect real time.                                            *)

\* no stored tweet is of the future
TimesPast == \A s \in TweetSlots : TweetAt(s).created_at <= now

\* a post that has its id, or has answered Ok with it
HasId(t) == \/ pc[t] \in {"now", "put_tweet"}
            \/ pc[t] = "done" /\ resp[t] = "ok"

\* a post that has read the clock
HasTime(t) == \/ pc[t] = "put_tweet"
              \/ pc[t] = "done" /\ resp[t] = "ok"

\* How a post stands to the tweets stored when it was called.
PostOrder(t) ==
  req[t].op = "post_tweet" /\ pc[t] # "idle" =>
    /\ began[t].time <= now
    /\ \A w \in began[t].tweets :
         w.created_at <= began[t].time /\ w.id <= tweet_ids
    /\ HasId(t) => \A w \in began[t].tweets : w.id < draft[t].id
    /\ HasTime(t) => draft[t].created_at \in began[t].time..now

OrderInv == TimesPast /\ \A t \in Threads : PostOrder(t)

LEMMA CountersGrow ==
  ASSUME TypeInv, [AnyNext]_vars
  PROVE  /\ now \in Nat /\ now' \in Nat /\ now <= now'
         /\ tweet_ids \in Nat /\ tweet_ids' \in Nat /\ tweet_ids <= tweet_ids'
<1>1. now' = now \/ now' = now + 1
  <2>1. ASSUME NEW t \in Threads, Step(t) PROVE now' = now
    BY <2>1, StepKinds DEF CreateUserNextId, CreateUserPut, FollowPut,
       UnfollowDelete, PostTweetNextId, PostTweetNow, PostTweetPut, Reads
  <2> QED  BY <2>1 DEF AnyNext, Tick, Clock!Tick, Call, Return, vars
<1>2. now \in Nat /\ tweet_ids \in Nat
  BY DEF TypeInv, TypeOK
<1> QED  BY <1>1, <1>2, CounterStep

LEMMA TimesPastStep ==
  ASSUME TypeInv, OrderInv, [AnyNext]_vars PROVE TimesPast'
<1>1. ASSUME NEW s \in TweetSlots
      PROVE  TweetAt(s)' = TweetAt(s) /\ TweetAt(s).created_at \in Nat
  <2>1. TweetAt(s) \in Tweet
    BY StoredTweetsType DEF StoredTweets, TweetSlots, TypeInv, TypeOK
  <2> QED  BY <2>1, StoreStep DEF StoreGrows, Tweet
<1>2. ASSUME NEW s \in TweetSlots', s \notin TweetSlots
      PROVE  \E t \in Threads : PostTweetPut(t) /\ TweetAt(s)' = TweetOf(t)
  <2>1. by_author' # by_author
    BY <1>2 DEF TweetSlots, Slots
  <2>2. PICK t \in Threads : PostTweetPut(t)
    BY <2>1, OnlyPutTweet DEF AnyNext, Tick, Call, Return, vars, storeVars
  <2>3. PICK result \in Results : PutTweet(TweetOf(t), result)
    BY <2>2 DEF PostTweetPut
  <2>4. TweetOf(t) \in Tweet
    BY <2>2, TweetOfType DEF PostTweetPut
  <2> QED  BY <1>2, <2>2, <2>3, <2>4, GrowsPutTweet DEF TypeInv, TypeOK
<1>3. ASSUME NEW t \in Threads, PostTweetPut(t)
      PROVE  TweetOf(t).created_at \in Nat /\ TweetOf(t).created_at <= now
  <2>1. req[t].op = "post_tweet" /\ pc[t] = "put_tweet"
    BY <1>3 DEF PostTweetPut, TypeInv, TypeOK, ControlOK, OpOf, Labels
  <2>2. draft[t].created_at \in began[t].time..now
    BY <2>1 DEF OrderInv, PostOrder, HasTime
  <2> QED  BY <2>2 DEF TweetOf, TypeInv, TypeOK
<1>4. ASSUME NEW s \in TweetSlots' PROVE TweetAt(s)'.created_at <= now'
  <2>1. CASE s \in TweetSlots
    BY <1>1, <2>1, CountersGrow DEF TimesPast, OrderInv
  <2>2. CASE s \notin TweetSlots
    BY <1>2, <1>3, <2>2, CountersGrow
  <2> QED  BY <2>1, <2>2
<1> QED  BY <1>4 DEF TimesPast

\* a call sees only tweets that are older and have smaller ids
LEMMA PostOrderCall ==
  ASSUME TypeInv, UniqueTweetIds, TimesPast, NEW t \in Threads,
         NEW r \in Request, Call(t, r)
  PROVE  PostOrder(t)'
<1>1. /\ pc'[t] = "called" /\ req'[t] = r /\ now' = now
      /\ tweet_ids' = tweet_ids
      /\ r.op = "post_tweet" =>
           began'[t] = [time |-> now, tweets |-> StoredTweets]
  BY DEF Call, TypeInv, TypeOK
<1>2. \A w \in StoredTweets : w.created_at <= now /\ w.id <= tweet_ids
  BY DEF StoredTweets, TimesPast, UniqueTweetIds, TweetSlots, TypeInv, TypeOK
<1>3. now <= now
  BY DEF TypeInv, TypeOK
<1> QED  BY <1>1, <1>2, <1>3 DEF PostOrder, HasId, HasTime

\* the counters may move on below a post
LEMMA PostOrderKept ==
  ASSUME TypeInv, [AnyNext]_vars, NEW t \in Threads, PostOrder(t),
         pc[t] # "idle", req'[t] = req[t], began'[t] = began[t],
         HasId(t)' =>
           \A w \in began[t].tweets : w.id < draft'[t].id,
         HasTime(t)' =>
           draft'[t].created_at \in Nat /\ began[t].time <= draft'[t].created_at
           /\ draft'[t].created_at <= now
  PROVE  PostOrder(t)'
<1> SUFFICES ASSUME req[t].op = "post_tweet"
             PROVE  /\ began[t].time <= now'
                    /\ \A w \in began[t].tweets :
                         w.created_at <= began[t].time /\ w.id <= tweet_ids'
                    /\ HasTime(t)' =>
                         draft'[t].created_at \in began[t].time..now'
  BY DEF PostOrder
<1>1. /\ began[t].time \in Nat
      /\ \A w \in began[t].tweets : w.id \in Nat
  BY DEF TypeInv, TypeOK, Tweet
<1>2. /\ began[t].time <= now
      /\ \A w \in began[t].tweets :
           w.created_at <= began[t].time /\ w.id <= tweet_ids
  BY DEF PostOrder
<1>3. began[t].time <= now'
  BY <1>1, <1>2, CountersGrow
<1>4. \A w \in began[t].tweets : w.id <= tweet_ids'
  BY <1>1, <1>2, CountersGrow
<1>5. HasTime(t)' => draft'[t].created_at \in began[t].time..now'
  BY <1>1, CountersGrow
<1> QED  BY <1>2, <1>3, <1>4, <1>5

LEMMA PostOrderStill ==
  ASSUME TypeInv, [AnyNext]_vars, NEW t \in Threads, PostOrder(t), Still(t)
  PROVE  PostOrder(t)'
<1>1. CASE req[t].op = "post_tweet" /\ pc[t] # "idle"
  <2>1. /\ HasId(t)' = HasId(t) /\ HasTime(t)' = HasTime(t)
        /\ draft'[t] = draft[t]
    BY DEF Still, HasId, HasTime
  <2>2. began[t].time \in Nat /\ draft[t].created_at \in Nat
    BY DEF TypeInv, TypeOK
  <2>3. now \in Nat
    BY DEF TypeInv, TypeOK
  <2>4. HasId(t) => \A w \in began[t].tweets : w.id < draft[t].id
    BY <1>1 DEF PostOrder
  <2>5. HasTime(t) => began[t].time <= draft[t].created_at
                     /\ draft[t].created_at <= now
    BY <1>1, <2>2, <2>3 DEF PostOrder
  <2> QED  BY <1>1, <2>1, <2>2, <2>4, <2>5, PostOrderKept DEF Still
<1>2. CASE ~(req[t].op = "post_tweet" /\ pc[t] # "idle")
  BY <1>2 DEF Still, PostOrder
<1> QED  BY <1>1, <1>2

LEMMA PostOrderStep ==
  ASSUME TypeInv, NEW t \in Threads, PostOrder(t), Step(t),
         req[t].op = "post_tweet", pc[t] # "idle"
  PROVE  PostOrder(t)'
<1> USE DEF TypeInv, TypeOK
<1>1. [AnyNext]_vars
  BY DEF AnyNext
<1>2. /\ began[t].time \in Nat /\ began[t].time <= now
      /\ now \in Nat /\ tweet_ids \in Nat /\ draft[t].created_at \in Nat
      /\ \A w \in began[t].tweets : w.id \in Nat /\ w.id <= tweet_ids
  BY DEF PostOrder, Tweet
<1>3. CASE PostTweetNextId(t)
  <2>1. /\ req' = req /\ began' = began /\ pc'[t] = "now"
        /\ draft'[t].id = tweet_ids + 1
    BY <1>3 DEF PostTweetNextId, TweetIds!NextId, Goto
  <2> QED  BY <1>1, <1>2, <2>1, PostOrderKept DEF HasTime
<1>4. CASE PostTweetNow(t)
  <2>1. /\ req' = req /\ began' = began /\ pc'[t] = "put_tweet"
        /\ pc[t] = "now" /\ draft'[t].id = draft[t].id
        /\ draft'[t].created_at = now
    BY <1>4 DEF PostTweetNow, Clock!Now, Goto
  <2>2. \A w \in began[t].tweets : w.id < draft[t].id
    BY <2>1 DEF PostOrder, HasId
  <2> QED  BY <1>1, <1>2, <2>1, <2>2, PostOrderKept
<1>5. CASE PostTweetPut(t)
  <2>1. PICK result \in Results : Respond(t, result)
    BY <1>5 DEF PostTweetPut
  <2>2. /\ req' = req /\ began' = began /\ pc[t] = "put_tweet"
        /\ pc'[t] = "done" /\ resp'[t] = result
        /\ result = "ok" => draft'[t] = draft[t]
    BY <1>5, <2>1 DEF PostTweetPut, Respond
  <2>3. /\ \A w \in began[t].tweets : w.id < draft[t].id
        /\ draft[t].created_at \in began[t].time..now
    BY <2>2 DEF PostOrder, HasId, HasTime
  <2> QED  BY <1>1, <1>2, <2>2, <2>3, PostOrderKept DEF HasId, HasTime
<1>6. CASE ~PostTweetNextId(t) /\ ~PostTweetNow(t) /\ ~PostTweetPut(t)
  <2>1. ~(pc'[t] = "done" /\ resp'[t] = "ok")
    BY <1>6, OkByPut
  <2>2. /\ req' = req /\ began' = began
        /\ pc'[t] \notin {"now", "put_tweet"}
    <3>1. CASE \E result : Respond(t, result)
      BY <3>1 DEF Respond
    <3>2. CASE CreateUserNextId(t) \/ UnfollowFromKnown(t)
               \/ UnfollowToKnown(t) \/ PostTweetKnown(t)
      BY <3>2 DEF CreateUserNextId, UnfollowFromKnown, UnfollowToKnown,
                  PostTweetKnown, Goto
    <3> QED
      BY <1>6, <3>1, <3>2
         DEF Step, CreateUserBlank, CreateUserPut, HasUserRead, FollowSelf,
             FollowPut, UnfollowUnknown, UnfollowDelete, PostTweetBlank,
             PostTweetUnknown, HomeTimelineRead, Answer
  <2> QED  BY <1>1, <2>1, <2>2, PostOrderKept DEF HasId, HasTime
<1> QED  BY <1>3, <1>4, <1>5, <1>6

LEMMA OrderStep ==
  ASSUME TypeInv, UniqueTweetIds, OrderInv, [AnyNext]_vars PROVE OrderInv'
<1>1. ASSUME NEW t \in Threads PROVE PostOrder(t)'
  <2>1. CASE Still(t)
    BY <2>1, PostOrderStill DEF OrderInv
  <2>2. CASE Step(t) /\ req[t].op = "post_tweet" /\ pc[t] # "idle"
    BY <2>2, PostOrderStep DEF OrderInv
  <2>3. CASE Step(t) /\ ~(req[t].op = "post_tweet" /\ pc[t] # "idle")
    BY <2>3, StepOp DEF PostOrder
  <2>4. ASSUME NEW r \in Request, Call(t, r) PROVE PostOrder(t)'
    BY <2>4, PostOrderCall DEF OrderInv
  <2>5. CASE pc'[t] = "idle"
    BY <2>5 DEF PostOrder
  <2> QED  BY <2>1, <2>2, <2>3, <2>4, <2>5, ThreadStep
<1> QED  BY <1>1, TimesPastStep DEF OrderInv

LEMMA OrderShows == ASSUME TypeInv, OrderInv PROVE RealTimeOrder
<1> SUFFICES ASSUME NEW t \in Threads, At(t, "done", "post_tweet"),
                    resp[t] = "ok"
             PROVE  /\ draft[t].created_at \in began[t].time..now
                    /\ \A w \in began[t].tweets : Newer(TweetOf(t), w)
  BY DEF RealTimeOrder
<1>1. /\ draft[t].created_at \in began[t].time..now
      /\ \A w \in began[t].tweets :
           w.created_at <= began[t].time /\ w.id < draft[t].id
  BY DEF OrderInv, PostOrder, HasId, HasTime, At
<1>2. /\ began[t].time \in Nat /\ draft[t].created_at \in Nat
      /\ draft[t].id \in Nat
      /\ \A w \in began[t].tweets : w.created_at \in Nat /\ w.id \in Nat
  BY DEF TypeInv, TypeOK, Tweet
<1> QED  BY <1>1, <1>2 DEF Newer, TweetOf

\* F2 with F7 and F8: a tweet sorts above every tweet that was stored when its
\* post was called, and bears a time at which the post was running.
THEOREM TimelinesFollowTime == Spec => []RealTimeOrder
<1>1. Init => OrderInv
  BY DEF Init, StoreInit, OrderInv, TimesPast, TweetSlots, Slots, PostOrder
<1>2. TypeInv /\ UniqueTweetIds /\ OrderInv /\ [Next]_vars => OrderInv'
  BY OrderStep, AnyRequest
<1>3. TypeInv /\ OrderInv => RealTimeOrder
  BY OrderShows
<1>4. Spec => []TypeInv
  BY TypeCorrect, PTL DEF TypeInv
<1> QED  BY <1>1, <1>2, <1>3, <1>4, TweetIdsUnique, PTL DEF Spec

-----------------------------------------------------------------------------
(* What a step may never do.                                               *)

LEMMA AppendPutTweet ==
  ASSUME StoreTypeOK, NEW w \in Tweet, NEW h \in Handles,
         by_author' = [by_author EXCEPT ![w.author] = Append(@, w)]
  PROVE  \/ by_author'[h] = by_author[h]
         \/ /\ Len(by_author'[h]) = Len(by_author[h]) + 1
            /\ SubSeq(by_author'[h], 1, Len(by_author[h])) = by_author[h]
<1>1. CASE h # w.author
  BY <1>1 DEF StoreTypeOK
<1>2. CASE h = w.author
  <2>1. by_author[h] \in Seq(Tweet) /\ by_author'[h] = Append(by_author[h], w)
    BY <1>2 DEF StoreTypeOK
  <2> QED  BY <2>1
<1> QED  BY <1>1, <1>2

\* A list of tweets only grows at its end, and a registration is for ever.
THEOREM OnlyAppends == Spec => AppendOnly
<1> DEFINE Appends ==
      /\ \A h \in Handles : HasUser(h) => users'[h] = users[h]
      /\ \A h \in Handles :
           \/ by_author'[h] = by_author[h]
           \/ /\ Len(by_author'[h]) = Len(by_author[h]) + 1
              /\ SubSeq(by_author'[h], 1, Len(by_author[h])) = by_author[h]
<1>1. TypeInv /\ [Next]_vars => Appends
  <2> SUFFICES ASSUME TypeInv, [Next]_vars PROVE Appends
    OBVIOUS
  <2>1. \A h \in Handles : HasUser(h) => users'[h] = users[h]
    BY StoreStep, AnyRequest DEF StoreGrows
  <2>2. CASE by_author' = by_author
    BY <2>1, <2>2
  <2>3. ASSUME NEW t \in Threads, PostTweetPut(t), by_author' # by_author
        PROVE  Appends
    <3>1. TweetOf(t) \in Tweet
      BY <2>3, TweetOfType DEF PostTweetPut
    <3>2. by_author' = [by_author EXCEPT ![TweetOf(t).author] =
                          Append(@, TweetOf(t))]
      BY <2>3 DEF PostTweetPut, PutTweet, storeVars
    <3> QED  BY <2>1, <3>1, <3>2, AppendPutTweet DEF TypeInv, TypeOK
  <2> QED
    BY <2>2, <2>3, OnlyPutTweet DEF Next, Tick, Call, Return, vars, storeVars
<1>2. Spec => []TypeInv
  BY TypeCorrect, PTL DEF TypeInv
<1> QED  BY <1>1, <1>2, PTL DEF Spec, AppendOnly
-----------------------------------------------------------------------------
(* When the ids of one author grow.                                        *)

\* No two posts of one author are between their next_id and their put_tweet
\* at the same time: what a client that awaits each answer keeps.
AuthorsTakeTurns ==
  \A t, u \in Drawn("post_tweet") : req[t].who = req[u].who => t = u

\* The id an author's post has drawn is past the ids of the author's list.
DrawnIsLast ==
  \A t \in Drawn("post_tweet") : \A i \in DOMAIN by_author[req[t].who] :
    by_author[req[t].who][i].id < draft[t].id

LEMMA StoredIds ==
  ASSUME TypeInv, UniqueTweetIds, NEW h \in Handles,
         NEW i \in DOMAIN by_author[h]
  PROVE  by_author[h][i].id \in Nat /\ by_author[h][i].id <= tweet_ids
<1>1. <<h, i>> \in TweetSlots /\ TweetAt(<<h, i>>) = by_author[h][i]
  BY DEF TweetSlots, Slots, TweetAt
<1>2. TweetAt(<<h, i>>).id \in 1..tweet_ids
  BY <1>1 DEF UniqueTweetIds
<1> QED  BY <1>1, <1>2 DEF TypeInv, TypeOK

LEMMA AppendGrows ==
  ASSUME NEW list \in Seq(Tweet), NEW w \in Tweet,
         \A i, j \in DOMAIN list : i < j => list[i].id < list[j].id,
         \A i \in DOMAIN list : list[i].id < w.id
  PROVE  \A i, j \in DOMAIN Append(list, w) :
           i < j => Append(list, w)[i].id < Append(list, w)[j].id
<1>1. PICK n \in Nat : n = Len(list) /\ DOMAIN list = 1..n
  OBVIOUS
<1>2. /\ DOMAIN Append(list, w) = 1..(n + 1)
      /\ Append(list, w)[n + 1] = w
      /\ \A i \in 1..n : Append(list, w)[i] = list[i]
  BY <1>1
<1> QED  BY <1>1, <1>2

\* Who holds an id after a step has just drawn it, or held it before.
LEMMA DrawnBefore ==
  ASSUME TypeInv, [AnyNext]_vars, NEW u \in Drawn("post_tweet")'
  PROVE  \/ PostTweetNextId(u)
         \/ /\ u \in Drawn("post_tweet") /\ req'[u] = req[u]
            /\ draft'[u].id = draft[u].id /\ ~PostTweetPut(u)
<1> USE DEF TypeInv, TypeOK
<1>1. u \in Threads /\ pc'[u] \in {"put_user", "now", "put_tweet"}
      /\ req'[u].op = "post_tweet"
  BY DEF Drawn
<1>2. CASE Still(u)
  <2>1. CASE PostTweetPut(u)
    BY <1>1, <2>1 DEF PostTweetPut, Respond
  <2> QED  BY <1>1, <1>2, <2>1 DEF Still, Drawn
<1>3. CASE Step(u)
  <2>1. req'[u] = req[u]
    BY <1>1, <1>3, StepOp
  <2>2. CASE PostTweetNow(u)
    BY <1>1, <2>1, <2>2 DEF PostTweetNow, Goto, Drawn, PostTweetPut
  <2>3. CASE CreateUserNextId(u)
    BY <1>1, <2>1, <2>3 DEF CreateUserNextId, At
  <2>4. ~Reads(u)
    BY <1>1 DEF Reads
  <2>5. ~\E result : Respond(u, result)
    BY <1>1 DEF Respond
  <2> QED  BY <1>1, <1>3, <2>2, <2>3, <2>4, <2>5, StepKinds
           DEF CreateUserPut, FollowPut, UnfollowDelete, PostTweetPut
<1> QED  BY <1>1, <1>2, <1>3, ThreadStep

LEMMA InTurnStep ==
  ASSUME TypeInv, UniqueTweetIds, AuthorsTakeTurns, PerAuthorMonotonic,
         DrawnIsLast, [AnyNext]_vars
  PROVE  PerAuthorMonotonic' /\ DrawnIsLast'
<1> USE DEF TypeInv, TypeOK, StoreTypeOK
<1>1. \A u \in Threads : pc[u] # "idle" => req[u].who \in Handles
  BY DEF ControlOK, Request
<1>2. ASSUME by_author' = by_author
      PROVE  PerAuthorMonotonic' /\ DrawnIsLast'
  <2>1. ASSUME NEW u \in Drawn("post_tweet")', PostTweetNextId(u),
               NEW i \in DOMAIN by_author'[req'[u].who]
        PROVE  by_author'[req'[u].who][i].id < draft'[u].id
    <3>1. /\ u \in Threads /\ req'[u] = req[u] /\ pc[u] = "next_id"
          /\ draft'[u].id = tweet_ids + 1
      BY <2>1 DEF PostTweetNextId, Goto, TweetIds!NextId, Drawn
    <3> QED  BY <1>1, <1>2, <2>1, <3>1, StoredIds
  <2>2. DrawnIsLast'
    BY <1>2, <2>1, DrawnBefore DEF DrawnIsLast
  <2> QED  BY <1>2, <2>2 DEF PerAuthorMonotonic
<1>3. ASSUME NEW t \in Threads, PostTweetPut(t), by_author' # by_author
      PROVE  PerAuthorMonotonic' /\ DrawnIsLast'
  <2>1. /\ pc[t] = "put_tweet" /\ t \in Drawn("post_tweet")
        /\ req[t].who \in Handles /\ TweetOf(t) \in Tweet
    BY <1>1, <1>3, TweetOfType DEF PostTweetPut, Drawn, ControlOK, OpOf, Labels
  <2>2. by_author' = [by_author EXCEPT ![req[t].who] = Append(@, TweetOf(t))]
    BY <1>3 DEF PostTweetPut, PutTweet, TweetOf, storeVars
  <2>3. \A i \in DOMAIN by_author[req[t].who] :
          by_author[req[t].who][i].id < TweetOf(t).id
    BY <2>1 DEF DrawnIsLast, TweetOf
  <2>4. ASSUME NEW h \in Handles, NEW i \in DOMAIN by_author'[h],
               NEW j \in DOMAIN by_author'[h], i < j
        PROVE  by_author'[h][i].id < by_author'[h][j].id
    <3>1. CASE h = req[t].who
      <4>1. /\ by_author[h] \in Seq(Tweet)
            /\ by_author'[h] = Append(by_author[h], TweetOf(t))
            /\ \A k, l \in DOMAIN by_author[h] :
                 k < l => by_author[h][k].id < by_author[h][l].id
        BY <2>2, <3>1 DEF PerAuthorMonotonic
      <4> QED  BY <2>1, <2>3, <2>4, <3>1, <4>1, AppendGrows
    <3>2. CASE h # req[t].who
      BY <2>2, <2>4, <3>2 DEF PerAuthorMonotonic
    <3> QED  BY <3>1, <3>2
  <2>5. ASSUME NEW u \in Drawn("post_tweet")',
               NEW i \in DOMAIN by_author'[req'[u].who]
        PROVE  by_author'[req'[u].who][i].id < draft'[u].id
    <3>1. ~PostTweetNextId(u)
      BY <1>3 DEF PostTweetNextId, storeVars
    <3>2. /\ u \in Drawn("post_tweet") /\ req'[u] = req[u]
          /\ draft'[u].id = draft[u].id /\ u # t
      BY <1>3, <3>1, DrawnBefore
    <3>3. req[u].who # req[t].who
      BY <2>1, <3>2 DEF AuthorsTakeTurns
    <3>4. req[u].who \in Handles
      BY <1>1, <3>2 DEF Drawn
    <3> QED  BY <2>2, <2>5, <3>2, <3>3, <3>4 DEF DrawnIsLast
  <2> QED  BY <2>4, <2>5 DEF PerAuthorMonotonic, DrawnIsLast
<1>4. CASE \E t \in Threads : PostTweetPut(t)
  BY <1>2, <1>3, <1>4
<1>5. CASE ~\E t \in Threads : PostTweetPut(t)
  BY <1>2, <1>5, OnlyPutTweet DEF AnyNext, Tick, Call, Return, vars, storeVars
<1> QED  BY <1>4, <1>5

\* "Per-author monotonicity for tweet IDs follows because all tweets share the
\* same generator" does not follow, as PerAuthorMonotonic's run shows: next_id
\* and put_tweet are two lock sections.  It does for every author whose posts
\* do not overlap between them, whatever posts of others and other calls do.
THEOREM MonotonicInTurn ==
  Spec /\ []AuthorsTakeTurns => []PerAuthorMonotonic
<1>1. Init => PerAuthorMonotonic /\ DrawnIsLast
  BY DEF Init, StoreInit, PerAuthorMonotonic, DrawnIsLast, Drawn
<1>2. /\ TypeInv /\ UniqueTweetIds /\ AuthorsTakeTurns
      /\ PerAuthorMonotonic /\ DrawnIsLast /\ [Next]_vars
      => PerAuthorMonotonic' /\ DrawnIsLast'
  BY InTurnStep, AnyRequest
<1>3. Spec => []TypeInv
  BY TypeCorrect, PTL DEF TypeInv
<1> QED  BY <1>1, <1>2, <1>3, TweetIdsUnique, PTL DEF Spec

==============================================================================
