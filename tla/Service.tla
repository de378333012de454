------------------------------- MODULE Service ------------------------------
(***************************************************************************)
(* crates/service with the components it composes: the store, one id       *)
(* generator for users and one for tweets, and the logical clock.          *)
(*                                                                         *)
(* A Service is shared by the worker threads of the server, and each of    *)
(* its parts has a lock of its own; the service has none.  So a call is a  *)
(* sequence of lock sections, and between two of them every other thread   *)
(* may run.  Each action below is one lock section, with the lock-free     *)
(* code before it.                                                         *)
(***************************************************************************)
EXTENDS MemStore

CONSTANTS
  Threads,     \* the worker threads, each serving one call at a time
  Requests,    \* the calls clients make
  MaxUserId, MaxTweetId, MaxTime   \* bounds of the instance, far below 2^63

(* One record shape serves every method: who is the handle, the author or    *)
(* the follower, whom the followed one; `blank` is the empty handle of       *)
(* create_user and the empty text of post_tweet; limit is the timeline's.    *)
Ops == {"create_user", "has_user", "follow", "unfollow", "post_tweet",
        "home_timeline"}

Request == [op : Ops, who : Handles, whom : Handles, blank : BOOLEAN,
            limit : Nat]

ASSUME ServiceAssumption ==
  /\ IsFiniteSet(Threads) /\ Requests \subseteq Request
  /\ MaxUserId \in Nat /\ MaxTweetId \in Nat /\ MaxTime \in Nat

VARIABLES
  now,         \* clk: the time of the logical clock
  user_ids,    \* the counter of each generator
  tweet_ids,
  pc,          \* where each thread is in its call
  req,         \* the call it serves
  draft,       \* the id and time of the User or Tweet value it builds
  resp,        \* what the call returned
  page,        \* the timeline it returned
  began        \* history: the time and the stored tweets when it was called

threadVars == <<pc, req, draft, resp, page, began>>
vars == <<users, follows, by_author, now, user_ids, tweet_ids, threadVars>>

Clock    == INSTANCE LogicalClock WITH time <- now
UserIds  == INSTANCE IdGenerator WITH last <- user_ids
TweetIds == INSTANCE IdGenerator WITH last <- tweet_ids

-----------------------------------------------------------------------------
(* What a call returns, and where it may be.                                *)

Results == {"ok", "absent", "empty_handle", "empty_text", "self_follow",
            "unknown_user", "duplicate_user"}

NoRequest == [op |-> "none"]
NoDraft   == [id |-> 0, created_at |-> 0]
NotBegun  == [time |-> 0, tweets |-> {}]

Labels == {"idle", "called", "put_user", "unfollow_to", "delete_follow",
           "next_id", "now", "put_tweet", "done"}

StoredTweets == {TweetAt(s) : s \in Slots(Handles)}

TypeOK ==
  /\ StoreTypeOK
  /\ now \in Nat /\ user_ids \in Nat /\ tweet_ids \in Nat
  /\ pc \in [Threads -> Labels]
  /\ req \in [Threads -> Request \cup {NoRequest}]
  /\ draft \in [Threads -> [id : Nat, created_at : Nat]]
  /\ resp \in [Threads -> Results \cup {"none"}]
  /\ DOMAIN page = Threads
  /\ began \in [Threads -> [time : Nat, tweets : SUBSET Tweet]]

Init ==
  /\ StoreInit
  /\ Clock!Init /\ UserIds!Init /\ TweetIds!Init
  /\ pc = [t \in Threads |-> "idle"]
  /\ req = [t \in Threads |-> NoRequest]
  /\ draft = [t \in Threads |-> NoDraft]
  /\ resp = [t \in Threads |-> "none"]
  /\ page = [t \in Threads |-> <<>>]
  /\ began = [t \in Threads |-> NotBegun]

\* a new process: Service::new once more, and the calls under way are gone
Restarted ==
  /\ users' = [h \in Handles |-> NoUser]
  /\ follows' = [h \in Handles |-> {}]
  /\ by_author' = [h \in Handles |-> <<>>]
  /\ now' = 0 /\ user_ids' = 0 /\ tweet_ids' = 0
  /\ pc' = [t \in Threads |-> "idle"]
  /\ req' = [t \in Threads |-> NoRequest]
  /\ draft' = [t \in Threads |-> NoDraft]
  /\ resp' = [t \in Threads |-> "none"]
  /\ page' = [t \in Threads |-> <<>>]
  /\ began' = [t \in Threads |-> NotBegun]

-----------------------------------------------------------------------------
(* Shared steps of the calls.                                              *)

At(t, label, op) == pc[t] = label /\ req[t].op = op

Goto(t, label) ==
  /\ pc' = [pc EXCEPT ![t] = label]
  /\ UNCHANGED <<req, resp, page, began>>

\* returns `result` to the caller; an error drops the value under construction
Respond(t, result) ==
  /\ pc' = [pc EXCEPT ![t] = "done"]
  /\ resp' = [resp EXCEPT ![t] = result]
  /\ draft' = [draft EXCEPT ![t] = IF result = "ok" THEN @ ELSE NoDraft]
  /\ UNCHANGED <<req, began>>

\* an answer that needs no lock, or only reads
Answer(t, result) ==
  Respond(t, result) /\ UNCHANGED <<storeVars, now, user_ids, tweet_ids, page>>

\* calls that will draw an id and have not, so the bounds end no call midway
Undrawn(op) == {t \in Threads : req[t].op = op /\ ~req[t].blank /\
                                pc[t] \in {"called", "next_id"}}

WithinBounds(r) ==
  /\ r.op = "create_user" /\ ~r.blank =>
       user_ids + Cardinality(Undrawn("create_user")) < MaxUserId
  /\ r.op = "post_tweet" /\ ~r.blank =>
       tweet_ids + Cardinality(Undrawn("post_tweet")) < MaxTweetId

Call(t, r) ==
  /\ pc[t] = "idle"
  /\ WithinBounds(r)
  /\ pc' = [pc EXCEPT ![t] = "called"]
  /\ req' = [req EXCEPT ![t] = r]
  /\ began' = [began EXCEPT ![t] = IF r.op = "post_tweet"
                THEN [time |-> now, tweets |-> StoredTweets] ELSE @]
  /\ UNCHANGED <<storeVars, now, user_ids, tweet_ids, draft, resp, page>>

Return(t) ==
  /\ pc[t] = "done"
  /\ pc' = [pc EXCEPT ![t] = "idle"]
  /\ req' = [req EXCEPT ![t] = NoRequest]
  /\ draft' = [draft EXCEPT ![t] = NoDraft]
  /\ resp' = [resp EXCEPT ![t] = "none"]
  /\ page' = [page EXCEPT ![t] = <<>>]
  /\ began' = [began EXCEPT ![t] = NotBegun]
  /\ UNCHANGED <<storeVars, now, user_ids, tweet_ids>>

-----------------------------------------------------------------------------
(* create_user: next_id, then put_user.  A duplicate has burned its id.    *)

CreateUserBlank(t) ==
  At(t, "called", "create_user") /\ req[t].blank /\ Answer(t, "empty_handle")

\* mutant: reads the counter, and the write of the increment is lost
CreateUserNextId_LosesUpdate(t) ==
  /\ At(t, "called", "create_user") /\ ~req[t].blank
  /\ draft' = [draft EXCEPT ![t].id = UserIds!Current + 1]
  /\ Goto(t, "put_user")
  /\ UNCHANGED <<storeVars, now, user_ids, tweet_ids>>

\* mutant: reserves the handle before put_user has looked at it
CreateUserNextId_Reserves(t) ==
  /\ At(t, "called", "create_user") /\ ~req[t].blank
  /\ UserIds!NextId
  /\ draft' = [draft EXCEPT ![t].id = user_ids']
  /\ users' = [users EXCEPT ![req[t].who] = IF @ = NoUser THEN user_ids' ELSE @]
  /\ Goto(t, "put_user")
  /\ UNCHANGED <<follows, by_author, now, tweet_ids>>

CreateUserNextId(t) ==
  /\ At(t, "called", "create_user") /\ ~req[t].blank
  /\ UserIds!NextId
  /\ draft' = [draft EXCEPT ![t].id = user_ids']
  /\ Goto(t, "put_user")
  /\ UNCHANGED <<storeVars, now, tweet_ids>>

CreateUserPut(t) ==
  /\ pc[t] = "put_user"
  /\ \E result \in Results :
       PutUser(req[t].who, draft[t].id, result) /\ Respond(t, result)
  /\ UNCHANGED <<now, user_ids, tweet_ids, page>>

-----------------------------------------------------------------------------
HasUserRead(t) ==
  /\ At(t, "called", "has_user")
  /\ Answer(t, IF HasUser(req[t].who) THEN "ok" ELSE "absent")

-----------------------------------------------------------------------------
(* follow: Follow::new, then put_follow under one write lock.              *)

FollowSelf(t) ==
  /\ At(t, "called", "follow")
  /\ FollowNew(req[t].who, req[t].whom) # "ok"
  /\ Answer(t, FollowNew(req[t].who, req[t].whom))

FollowPut(t) ==
  /\ At(t, "called", "follow")
  /\ FollowNew(req[t].who, req[t].whom) = "ok"
  /\ \E result \in Results :
       PutFollow(req[t].who, req[t].whom, result) /\ Respond(t, result)
  /\ UNCHANGED <<now, user_ids, tweet_ids, page>>

-----------------------------------------------------------------------------
(* unfollow: has_user(from), has_user(to), delete_follow: three sections.  *)

\* mutant: no answer when the second has_user fails
UnfollowUnknown_FirstOnly(t) ==
  /\ At(t, "called", "unfollow") /\ ~HasUser(req[t].who)
  /\ Answer(t, "unknown_user")

\* mutant: an error the service does not have
UnfollowUnknown_NotFound(t) ==
  /\ \/ At(t, "called", "unfollow") /\ ~HasUser(req[t].who)
     \/ pc[t] = "unfollow_to" /\ ~HasUser(req[t].whom)
  /\ Answer(t, "not_found")

UnfollowUnknown(t) ==
  /\ \/ At(t, "called", "unfollow") /\ ~HasUser(req[t].who)
     \/ pc[t] = "unfollow_to" /\ ~HasUser(req[t].whom)
  /\ Answer(t, "unknown_user")

UnfollowFromKnown(t) ==
  /\ At(t, "called", "unfollow") /\ HasUser(req[t].who)
  /\ Goto(t, "unfollow_to")
  /\ UNCHANGED <<storeVars, now, user_ids, tweet_ids, draft>>

\* mutant: looks the followed user up and ignores the answer
UnfollowToKnown_Ignored(t) ==
  /\ pc[t] = "unfollow_to"
  /\ Goto(t, "delete_follow")
  /\ UNCHANGED <<storeVars, now, user_ids, tweet_ids, draft>>

UnfollowToKnown(t) ==
  /\ pc[t] = "unfollow_to" /\ HasUser(req[t].whom)
  /\ Goto(t, "delete_follow")
  /\ UNCHANGED <<storeVars, now, user_ids, tweet_ids, draft>>

UnfollowDelete(t) ==
  /\ pc[t] = "delete_follow"
  /\ DeleteFollow(req[t].who, req[t].whom)
  /\ Respond(t, "ok")
  /\ UNCHANGED <<now, user_ids, tweet_ids, page>>

-----------------------------------------------------------------------------
(* post_tweet: has_user, next_id, now, put_tweet: four sections.           *)

PostTweetBlank(t) ==
  At(t, "called", "post_tweet") /\ req[t].blank /\ Answer(t, "empty_text")

\* mutant: the id is drawn before has_user
PostTweetUnknown_BurnsId(t) ==
  /\ At(t, "called", "post_tweet") /\ ~req[t].blank /\ ~HasUser(req[t].who)
  /\ TweetIds!NextId
  /\ Respond(t, "unknown_user")
  /\ UNCHANGED <<storeVars, now, user_ids, page>>

PostTweetUnknown(t) ==
  /\ At(t, "called", "post_tweet") /\ ~req[t].blank /\ ~HasUser(req[t].who)
  /\ Answer(t, "unknown_user")

PostTweetKnown(t) ==
  /\ At(t, "called", "post_tweet") /\ ~req[t].blank /\ HasUser(req[t].who)
  /\ Goto(t, "next_id")
  /\ UNCHANGED <<storeVars, now, user_ids, tweet_ids, draft>>

\* mutant: reads the counter, and the write of the increment is lost
PostTweetNextId_LosesUpdate(t) ==
  /\ pc[t] = "next_id"
  /\ draft' = [draft EXCEPT ![t].id = TweetIds!Current + 1]
  /\ Goto(t, "now")
  /\ UNCHANGED <<storeVars, now, user_ids, tweet_ids>>

PostTweetNextId(t) ==
  /\ pc[t] = "next_id"
  /\ TweetIds!NextId
  /\ draft' = [draft EXCEPT ![t].id = tweet_ids']
  /\ Goto(t, "now")
  /\ UNCHANGED <<storeVars, now, user_ids>>

\* mutant: the time is that of service start, read once
PostTweetNow_Cached(t) ==
  /\ pc[t] = "now"
  /\ Goto(t, "put_tweet")
  /\ UNCHANGED <<storeVars, now, user_ids, tweet_ids, draft>>

PostTweetNow(t) ==
  /\ pc[t] = "now"
  /\ draft' = [draft EXCEPT ![t].created_at = Clock!Now]
  /\ Goto(t, "put_tweet")
  /\ UNCHANGED <<storeVars, now, user_ids, tweet_ids>>

TweetOf(t) ==
  [id |-> draft[t].id, author |-> req[t].who, created_at |-> draft[t].created_at]

PostTweetPut(t) ==
  /\ pc[t] = "put_tweet"
  /\ \E result \in Results : PutTweet(TweetOf(t), result) /\ Respond(t, result)
  /\ UNCHANGED <<now, user_ids, tweet_ids, page>>

-----------------------------------------------------------------------------
(* home_timeline: one read lock.                                           *)

HomeTimelineRead(t) ==
  /\ At(t, "called", "home_timeline")
  /\ \E iteration \in Iterations(Visible(req[t].who)) :
       page' = [page EXCEPT ![t] =
                  HomeTimeline(req[t].who, req[t].limit, iteration)]
  /\ Respond(t, "ok")
  /\ UNCHANGED <<storeVars, now, user_ids, tweet_ids>>

-----------------------------------------------------------------------------
(* tick: through Service::tick or the handle clock() hands out.            *)
Tick ==
  /\ now < MaxTime
  /\ Clock!Tick
  /\ UNCHANGED <<storeVars, user_ids, tweet_ids, threadVars>>

Step(t) ==
  \/ CreateUserBlank(t) \/ CreateUserNextId(t) \/ CreateUserPut(t)
  \/ HasUserRead(t)
  \/ FollowSelf(t) \/ FollowPut(t)
  \/ UnfollowUnknown(t) \/ UnfollowFromKnown(t) \/ UnfollowToKnown(t)
  \/ UnfollowDelete(t)
  \/ PostTweetBlank(t) \/ PostTweetUnknown(t) \/ PostTweetKnown(t)
  \/ PostTweetNextId(t) \/ PostTweetNow(t) \/ PostTweetPut(t)
  \/ HomeTimelineRead(t)

Next ==
  \/ Tick
  \/ \E t \in Threads :
       (\E r \in Requests : Call(t, r)) \/ Step(t) \/ Return(t)

Spec == Init /\ [][Next]_vars
=============================================================================
