----------------------- MODULE ServiceRefinementProofs -----------------------
(***************************************************************************)
(* Proofs, for any handles, threads, calls and bounds, of what callers of  *)
(* the service are promised: every call meets the sequential contract of   *)
(* its method, and the service implements Twitter, by the mapping of each  *)
(* lock section and the invariant it needs.                                *)
(***************************************************************************)
EXTENDS ServiceOrderProofs, ServiceContracts, ServiceRefinement

-----------------------------------------------------------------------------
(* What the earlier sections of a call checked is true when it answers,    *)
(* since no call removes a user.                                           *)

CheckedAt(t) ==
  /\ pc[t] \in {"put_user", "next_id", "now", "put_tweet"} => ~req[t].blank
  /\ pc[t] \in {"unfollow_to", "delete_follow"} => HasUser(req[t].who)
  /\ pc[t] = "delete_follow" => HasUser(req[t].whom)

Checked == \A t \in Threads : CheckedAt(t)

Guarded == {"put_user", "next_id", "now", "put_tweet", "unfollow_to",
            "delete_follow"}

LEMMA CheckedStep ==
  ASSUME TypeInv, Checked, [AnyNext]_vars PROVE Checked'
<1>1. \A h \in Handles : HasUser(h) => HasUser(h)'
  BY StoreStep DEF StoreGrows, HasUser
<1>2. ASSUME NEW u \in Threads, pc'[u] \in Guarded
      PROVE  /\ req'[u] = req[u]
             /\ req[u].who \in Handles /\ req[u].whom \in Handles
             /\ pc'[u] \in {"put_user", "next_id", "now", "put_tweet"} =>
                  ~req[u].blank
             /\ pc'[u] \in {"unfollow_to", "delete_follow"} =>
                  HasUser(req[u].who)
             /\ pc'[u] = "delete_follow" => HasUser(req[u].whom)
  <2> USE DEF TypeInv, TypeOK, Guarded
  <2>1. pc[u] # "idle" => req[u].who \in Handles /\ req[u].whom \in Handles
    BY DEF ControlOK, Request
  <2>2. CASE Still(u)
    BY <1>2, <2>1, <2>2 DEF Checked, CheckedAt, Still
  <2>3. CASE Step(u)
    <3>1. CASE UnfollowFromKnown(u) \/ UnfollowToKnown(u)
      BY <2>1, <3>1 DEF UnfollowFromKnown, UnfollowToKnown, Goto, Checked,
                        CheckedAt, At
    <3>2. CASE \/ CreateUserNextId(u) \/ PostTweetKnown(u)
               \/ PostTweetNextId(u) \/ PostTweetNow(u)
      BY <2>1, <3>2 DEF CreateUserNextId, PostTweetKnown, PostTweetNextId,
                        PostTweetNow, Goto, Checked, CheckedAt, At
    <3>3. ~\E result : Respond(u, result)
      BY <1>2 DEF Respond
    <3> QED
      BY <2>3, <3>1, <3>2, <3>3
         DEF Step, CreateUserBlank, CreateUserPut, HasUserRead, FollowSelf,
             FollowPut, UnfollowUnknown, UnfollowDelete, PostTweetBlank,
             PostTweetUnknown, PostTweetPut, HomeTimelineRead, Answer
  <2> QED  BY <1>2, <2>2, <2>3, ThreadStep
<1>3. ASSUME NEW u \in Threads PROVE CheckedAt(u)'
  BY <1>1, <1>2 DEF CheckedAt, HasUser, Guarded
<1> QED  BY <1>3 DEF Checked

LEMMA CheckedAlways == Spec => []Checked
<1>1. Init => Checked
  BY DEF Init, Checked, CheckedAt
<1>2. TypeInv /\ Checked /\ [Next]_vars => Checked'
  BY CheckedStep, AnyRequest
<1>3. Spec => []TypeInv
  BY TypeCorrect, PTL DEF TypeInv
<1> QED  BY <1>1, <1>2, <1>3, PTL DEF Spec

-----------------------------------------------------------------------------
(* The methods of the store meet their contracts.                          *)

LEMMA GhostViewsKept ==
  ASSUME UNCHANGED storeVars PROVE ViewsUnchanged
  BY DEF storeVars, ViewsUnchanged, users_keys, follow_edges, CountsUnchanged,
         author_tweet_count, HasUser, FollowSet

LEMMA PutUserContract ==
  ASSUME StoreTypeOK, NEW h \in Handles, NEW id \in Nat \ {NoUser}, NEW result,
         PutUser(h, id, result)
  PROVE  put_user_ensures(h, result = "ok")
<1>1. CASE HasUser(h)
  BY <1>1, GhostViewsKept DEF PutUser, put_user_ensures, users_keys, ViewsUnchanged
<1>2. CASE ~HasUser(h)
  <2>1. result = "ok" /\ users' = [users EXCEPT ![h] = id]
    BY <1>2 DEF PutUser
  <2>2. \A g \in Handles : HasUser(g)' <=> HasUser(g) \/ g = h
    BY <2>1 DEF StoreTypeOK, HasUser
  <2>3. users_keys' = users_keys \cup {h}
    BY <2>2 DEF users_keys
  <2> QED  BY <1>2, <2>1, <2>3 DEF put_user_ensures, proof_users_insert, users_keys
<1> QED  BY <1>1, <1>2

LEMMA PutFollowContract ==
  ASSUME StoreTypeOK, NEW f \in Handles, NEW g \in Handles, NEW result,
         PutFollow(f, g, result)
  PROVE  put_follow_ensures(f, g, result = "ok") /\ users_keys' = users_keys
<1>1. CASE ~HasUser(f) \/ ~HasUser(g)
  BY <1>1, GhostViewsKept DEF PutFollow, put_follow_ensures, users_keys, ViewsUnchanged
<1>2. CASE HasUser(f) /\ HasUser(g)
  <2>1. /\ result = "ok" /\ users' = users
        /\ follows' = [follows EXCEPT ![f] = @ \cup {g}]
    BY <1>2 DEF PutFollow
  <2>2. users_keys' = users_keys
    BY <2>1 DEF users_keys, HasUser
  <2>3. \A e \in Handles \X Handles :
          e[2] \in follows'[e[1]] <=> e[2] \in follows[e[1]] \/ e = <<f, g>>
    BY <2>1 DEF StoreTypeOK
  <2>4. follow_edges' = follow_edges \cup {<<f, g>>}
    BY <2>3 DEF follow_edges, FollowSet
  <2> QED  BY <1>2, <2>1, <2>2, <2>4
           DEF put_follow_ensures, proof_follow_insert, users_keys
<1> QED  BY <1>1, <1>2

LEMMA DeleteFollowContract ==
  ASSUME StoreTypeOK, NEW f \in Handles, NEW g \in Handles, DeleteFollow(f, g)
  PROVE  delete_follow_ensures(f, g)
<1>1. /\ users' = users
      /\ follows' = [follows EXCEPT ![f] = @ \ {g}]
  BY DEF DeleteFollow
<1>2. \A e \in Handles \X Handles :
        e[2] \in follows'[e[1]] <=> e[2] \in follows[e[1]] /\ e # <<f, g>>
  BY <1>1 DEF StoreTypeOK
<1>3. follow_edges' = follow_edges \ {<<f, g>>}
  BY <1>2 DEF follow_edges, FollowSet
<1>4. users_keys' = users_keys
  BY <1>1 DEF users_keys, HasUser
<1> QED  BY <1>3, <1>4 DEF delete_follow_ensures, proof_follow_remove

LEMMA PutTweetContract ==
  ASSUME StoreTypeOK, NEW w \in Tweet, NEW result, PutTweet(w, result)
  PROVE  put_tweet_ensures(w.author, FALSE, result = "ok")
<1>0. w.author \in Handles
  BY DEF Tweet
<1>1. CASE ~HasUser(w.author)
  BY <1>0, <1>1, GhostViewsKept DEF PutTweet, put_tweet_ensures, users_keys,
                         ViewsUnchanged, CountsUnchanged
<1>2. CASE HasUser(w.author)
  <2>1. /\ result = "ok" /\ users' = users /\ follows' = follows
        /\ by_author' = [by_author EXCEPT ![w.author] = Append(@, w)]
    BY <1>2 DEF PutTweet
  <2>2. users_keys' = users_keys /\ follow_edges' = follow_edges
    BY <2>1 DEF users_keys, HasUser, follow_edges, FollowSet
  <2>3. /\ Len(by_author'[w.author]) = Len(by_author[w.author]) + 1
        /\ \A a \in Handles \ {w.author} : by_author'[a] = by_author[a]
    BY <1>0, <2>1 DEF StoreTypeOK
  <2>4. proof_append_tweet(w.author)
    BY <2>2, <2>3 DEF proof_append_tweet, CountsUnchanged, author_tweet_count
  <2> QED  BY <1>0, <1>2, <2>1, <2>2, <2>4 DEF put_tweet_ensures, users_keys
<1> QED  BY <1>1, <1>2

-----------------------------------------------------------------------------
(* The step that answers a call.                                           *)

Answering(t) == pc[t] # "done" /\ pc'[t] = "done"

LEMMA StepBegun ==
  ASSUME NEW t \in Threads, Step(t) PROVE pc[t] # "done"
  BY DEF Step, CreateUserBlank, CreateUserNextId, CreateUserPut, HasUserRead,
         FollowSelf, FollowPut, UnfollowUnknown, UnfollowFromKnown,
         UnfollowToKnown, UnfollowDelete, PostTweetBlank, PostTweetUnknown,
         PostTweetKnown, PostTweetNextId, PostTweetNow, PostTweetPut,
         HomeTimelineRead, At

LEMMA AnswerKinds ==
  ASSUME TypeInv, NEW t \in Threads, Step(t), Answering(t)
  PROVE  /\ req[t].op = "create_user" => CreateUserBlank(t) \/ CreateUserPut(t)
         /\ req[t].op = "has_user" => HasUserRead(t)
         /\ req[t].op = "follow" => FollowSelf(t) \/ FollowPut(t)
         /\ req[t].op = "unfollow" => UnfollowUnknown(t) \/ UnfollowDelete(t)
         /\ req[t].op = "post_tweet" =>
              PostTweetBlank(t) \/ PostTweetUnknown(t) \/ PostTweetPut(t)
         /\ req[t].op = "home_timeline" => HomeTimelineRead(t)
<1>1. /\ pc[t] = "put_user" => req[t].op = "create_user"
      /\ pc[t] = "put_tweet" => req[t].op = "post_tweet"
      /\ pc[t] \in {"unfollow_to", "delete_follow"} => req[t].op = "unfollow"
  BY DEF TypeInv, ControlOK, OpOf, Labels
<1>2. ASSUME NEW label, Goto(t, label) PROVE label = "done"
  BY <1>2 DEF Goto, TypeInv, TypeOK, Answering
<1>3. /\ ~CreateUserNextId(t) /\ ~UnfollowFromKnown(t) /\ ~UnfollowToKnown(t)
      /\ ~PostTweetKnown(t) /\ ~PostTweetNextId(t) /\ ~PostTweetNow(t)
  BY <1>2 DEF CreateUserNextId, UnfollowFromKnown, UnfollowToKnown,
              PostTweetKnown, PostTweetNextId, PostTweetNow
<1>4. /\ CreateUserBlank(t) => req[t].op = "create_user"
      /\ HasUserRead(t) => req[t].op = "has_user"
      /\ FollowSelf(t) \/ FollowPut(t) => req[t].op = "follow"
      /\ UnfollowUnknown(t) => req[t].op = "unfollow"
      /\ PostTweetBlank(t) \/ PostTweetUnknown(t) => req[t].op = "post_tweet"
      /\ HomeTimelineRead(t) => req[t].op = "home_timeline"
  BY <1>1 DEF CreateUserBlank, HasUserRead, FollowSelf, FollowPut,
              UnfollowUnknown, PostTweetBlank, PostTweetUnknown,
              HomeTimelineRead, At
<1>5. /\ CreateUserPut(t) => req[t].op = "create_user"
      /\ UnfollowDelete(t) => req[t].op = "unfollow"
      /\ PostTweetPut(t) => req[t].op = "post_tweet"
  BY <1>1 DEF CreateUserPut, UnfollowDelete, PostTweetPut
<1> QED  BY <1>3, <1>4, <1>5 DEF Step

LEMMA AnswerViews ==
  ASSUME TypeInv, NEW t \in Threads, NEW result, Answer(t, result)
  PROVE  ViewsUnchanged /\ resp'[t] = result
  BY GhostViewsKept DEF Answer, Respond, TypeInv, TypeOK

LEMMA RespondResult ==
  ASSUME TypeInv, NEW t \in Threads, NEW result, Respond(t, result)
  PROVE  resp'[t] = result
  BY DEF Respond, TypeInv, TypeOK

LEMMA CreateUserMeets ==
  ASSUME TypeInv, UniqueUserIds, NEW t \in Threads, CheckedAt(t),
         CreateUserBlank(t) \/ CreateUserPut(t)
  PROVE  create_user_ensures(req[t].who, req[t].blank, resp'[t] = "ok")
<1>1. CASE CreateUserBlank(t)
  BY <1>1, AnswerViews DEF CreateUserBlank, create_user_ensures, ViewsUnchanged
<1>2. CASE CreateUserPut(t)
  <2>1. PICK result \in Results :
          PutUser(req[t].who, draft[t].id, result) /\ Respond(t, result)
    BY <1>2 DEF CreateUserPut
  <2>2. /\ t \in Drawn("create_user") /\ req[t].who \in Handles
        /\ draft[t].id \in Nat
    BY <1>2 DEF CreateUserPut, Drawn, TypeInv, TypeOK, ControlOK, OpOf, Labels,
                Request
  <2>3. draft[t].id \in Nat \ {NoUser}
    BY <2>2 DEF UniqueUserIds, NoUser
  <2>4. put_user_ensures(req[t].who, result = "ok")
    BY <2>1, <2>2, <2>3, PutUserContract DEF TypeInv, TypeOK
  <2>5. ~req[t].blank
    BY <1>2 DEF CreateUserPut, CheckedAt
  <2> QED  BY <2>1, <2>4, <2>5, RespondResult DEF create_user_ensures
<1> QED  BY <1>1, <1>2

LEMMA FollowMeets ==
  ASSUME TypeInv, NEW t \in Threads, FollowSelf(t) \/ FollowPut(t)
  PROVE  follow_ensures(req[t].who, req[t].whom, resp'[t] = "ok")
<1>1. CASE FollowSelf(t)
  <2>1. req[t].who = req[t].whom /\ Answer(t, "self_follow")
    BY <1>1 DEF FollowSelf, FollowNew
  <2> QED  BY <2>1, AnswerViews DEF follow_ensures, ViewsUnchanged
<1>2. CASE FollowPut(t)
  <2>1. PICK result \in Results :
          PutFollow(req[t].who, req[t].whom, result) /\ Respond(t, result)
    BY <1>2 DEF FollowPut
  <2>2. /\ req[t].who # req[t].whom
        /\ req[t].who \in Handles /\ req[t].whom \in Handles
    BY <1>2 DEF FollowPut, FollowNew, At, TypeInv, ControlOK, Request
  <2> QED  BY <2>1, <2>2, PutFollowContract, RespondResult
           DEF follow_ensures, TypeInv, TypeOK
<1> QED  BY <1>1, <1>2

LEMMA UnfollowMeets ==
  ASSUME TypeInv, NEW t \in Threads, CheckedAt(t),
         UnfollowUnknown(t) \/ UnfollowDelete(t)
  PROVE  unfollow_ensures(req[t].who, req[t].whom, resp'[t] = "ok")
<1>1. /\ pc[t] # "idle"
      /\ req[t].who \in Handles /\ req[t].whom \in Handles
  BY DEF UnfollowUnknown, UnfollowDelete, At, TypeInv, ControlOK, Request
<1>2. CASE UnfollowUnknown(t)
  <2>1. ~HasUser(req[t].who) \/ ~HasUser(req[t].whom)
    BY <1>2 DEF UnfollowUnknown
  <2>2. ViewsUnchanged /\ resp'[t] = "unknown_user"
    BY <1>2, AnswerViews, UnfollowUnknownAt
  <2> QED  BY <1>1, <2>1, <2>2 DEF unfollow_ensures, ViewsUnchanged, users_keys
<1>3. CASE UnfollowDelete(t)
  <2>1. DeleteFollow(req[t].who, req[t].whom) /\ resp'[t] = "ok"
    BY <1>3, RespondResult DEF UnfollowDelete
  <2>2. HasUser(req[t].who) /\ HasUser(req[t].whom)
    BY <1>3 DEF UnfollowDelete, CheckedAt
  <2>3. delete_follow_ensures(req[t].who, req[t].whom)
    BY <1>1, <2>1, DeleteFollowContract DEF TypeInv, TypeOK
  <2> QED  BY <1>1, <2>1, <2>2, <2>3
           DEF unfollow_ensures, delete_follow_ensures, proof_follow_remove,
               users_keys
<1> QED  BY <1>2, <1>3

LEMMA PostTweetMeets ==
  ASSUME TypeInv, NEW t \in Threads, CheckedAt(t),
         PostTweetBlank(t) \/ PostTweetUnknown(t) \/ PostTweetPut(t)
  PROVE  put_tweet_ensures(req[t].who, req[t].blank, resp'[t] = "ok")
<1>1. pc[t] # "idle" /\ req[t].who \in Handles
  BY DEF PostTweetBlank, PostTweetUnknown, PostTweetPut, At, TypeInv,
         ControlOK, Request
<1>2. CASE PostTweetBlank(t) \/ PostTweetUnknown(t)
  <2>1. ViewsUnchanged /\ resp'[t] # "ok"
    BY <1>2, AnswerViews DEF PostTweetBlank, PostTweetUnknown
  <2>2. req[t].blank \/ ~HasUser(req[t].who)
    BY <1>2 DEF PostTweetBlank, PostTweetUnknown
  <2> QED  BY <1>1, <2>1, <2>2
           DEF put_tweet_ensures, ViewsUnchanged, CountsUnchanged, users_keys
<1>3. CASE PostTweetPut(t)
  <2>1. PICK result \in Results :
          PutTweet(TweetOf(t), result) /\ Respond(t, result)
    BY <1>3 DEF PostTweetPut
  <2>2. put_tweet_ensures(TweetOf(t).author, FALSE, result = "ok")
    BY <1>1, <2>1, PutTweetContract, TweetOfType DEF TypeInv, TypeOK
  <2>3. /\ ~req[t].blank /\ resp'[t] = result
        /\ TweetOf(t).author = req[t].who
    BY <1>3, <2>1, RespondResult DEF PostTweetPut, CheckedAt, TweetOf
  <2> QED  BY <2>2, <2>3 DEF put_tweet_ensures
<1> QED  BY <1>2, <1>3

LEMMA ReadsMeet ==
  ASSUME TypeInv, NEW t \in Threads, pc[t] # "idle"
  PROVE  /\ HasUserRead(t) =>
              has_user_ensures(req[t].who, resp'[t] = "ok") /\ ViewsUnchanged
         /\ HomeTimelineRead(t) => home_timeline_ensures
<1>1. req[t].who \in Handles
  BY DEF TypeInv, ControlOK, Request
<1>2. ASSUME HasUserRead(t)
      PROVE  has_user_ensures(req[t].who, resp'[t] = "ok") /\ ViewsUnchanged
  BY <1>1, <1>2, AnswerViews DEF HasUserRead, has_user_ensures, users_keys
<1>3. ASSUME HomeTimelineRead(t) PROVE home_timeline_ensures
  BY <1>3, GhostViewsKept DEF HomeTimelineRead, home_timeline_ensures
<1> QED  BY <1>2, <1>3

\* Every call of every thread meets, at the step that answers it, the contract
\* Verus proves for its method run alone, whatever the other threads do.
THEOREM CallsMeetContracts == Spec => ContractsMet
<1> DEFINE Meets(t) ==
      /\ Answers(t, "create_user") =>
           create_user_ensures(req[t].who, req[t].blank, resp'[t] = "ok")
      /\ Answers(t, "has_user") =>
           has_user_ensures(req[t].who, resp'[t] = "ok") /\ ViewsUnchanged
      /\ Answers(t, "follow") =>
           follow_ensures(req[t].who, req[t].whom, resp'[t] = "ok")
      /\ Answers(t, "unfollow") =>
           unfollow_ensures(req[t].who, req[t].whom, resp'[t] = "ok")
      /\ Answers(t, "post_tweet") =>
           put_tweet_ensures(req[t].who, req[t].blank, resp'[t] = "ok")
      /\ Answers(t, "home_timeline") => home_timeline_ensures
<1>1. ASSUME TypeInv, UniqueUserIds, Checked, Next, NEW t \in Threads
      PROVE  Meets(t)
  <2>1. CASE ~Answering(t)
    BY <2>1 DEF Answers, Answering
  <2>2. CASE Answering(t)
    <3>1. Step(t)
      BY <1>1, <2>2, ThreadStep, AnyRequest DEF Answering, Still
    <3>2. pc[t] # "idle"
      BY <1>1, <3>1, StepOp
    <3>3. CheckedAt(t)
      BY <1>1 DEF Checked
    <3> QED
      BY <1>1, <2>2, <3>1, <3>2, <3>3, AnswerKinds, CreateUserMeets,
         FollowMeets, UnfollowMeets, PostTweetMeets, ReadsMeet DEF Answers
  <2> QED  BY <2>1, <2>2
<1>2. TypeInv /\ UniqueUserIds /\ Checked /\ [Next]_vars
        => [\A t \in Threads : Meets(t)]_vars
  BY <1>1
<1>3. Spec => []TypeInv
  BY TypeCorrect, PTL DEF TypeInv
<1> QED  BY <1>2, <1>3, UserIdsUnique, CheckedAlways, PTL DEF Spec, ContractsMet

\* Nothing but the answer of a call changes what clients can see: look-ups, ids
\* drawn and ticks leave the users, the edges and the tweet counts alone, and a
\* drawn id is the counter's next one.
THEOREM OnlyAnswersAreSeen == Spec => OnlyAnswersChange
<1> DEFINE Quiet == (\A t \in Threads, op \in Ops : ~Answers(t, op)) => ViewsUnchanged
           Numbered == \A t \in Threads :
             /\ Draws(t, "create_user") =>
                  next_id_ensures(user_ids, user_ids', draft'[t].id)
             /\ Draws(t, "post_tweet") =>
                  next_id_ensures(tweet_ids, tweet_ids', draft'[t].id)
           Timed == now' # now => tick_ensures
<1>1. ASSUME TypeInv, Next PROVE Quiet
  <2>1. ASSUME NEW t \in Threads, Step(t), ~Answering(t) PROVE ViewsUnchanged
    <3>1. ~\E result : Respond(t, result)
      BY <1>1, <2>1, StepBegun DEF Answering, Respond, TypeInv, TypeOK
    <3>2. UNCHANGED storeVars
      BY <1>1, <2>1, <3>1, StepKinds
         DEF CreateUserNextId, CreateUserPut, FollowPut, UnfollowDelete,
             PostTweetNextId, PostTweetNow, PostTweetPut, Reads
    <3> QED  BY <3>2, GhostViewsKept
  <2>2. ASSUME NEW t \in Threads, Step(t), Answering(t)
        PROVE  \E op \in Ops : Answers(t, op)
    <3>1. req[t].op \in Ops
      BY <1>1, <2>2, StepOp DEF TypeInv, ControlOK, Request
    <3> QED  BY <2>2, <3>1 DEF Answers, Answering
  <2>3. CASE \E t \in Threads : Step(t)
    BY <2>1, <2>2, <2>3
  <2>4. CASE ~\E t \in Threads : Step(t)
    BY <1>1, <2>4, GhostViewsKept DEF Next, Tick, Call, Return
  <2> QED  BY <2>3, <2>4
<1>2. ASSUME TypeInv, Next PROVE Numbered
  <2> SUFFICES ASSUME NEW t \in Threads, draft'[t].id # draft[t].id,
                      pc[t] # "done", pc'[t] # "done"
               PROVE  /\ req[t].op = "create_user" =>
                           next_id_ensures(user_ids, user_ids', draft'[t].id)
                      /\ req[t].op = "post_tweet" =>
                           next_id_ensures(tweet_ids, tweet_ids', draft'[t].id)
    BY DEF Draws
  <2>1. Step(t)
    BY <1>2, ThreadStep, AnyRequest DEF Still, Return, Call
  <2>2. CASE CreateUserNextId(t)
    BY <1>2, <2>2 DEF CreateUserNextId, UserIds!NextId, At, next_id_ensures,
                      TypeInv, TypeOK
  <2>3. CASE PostTweetNextId(t)
    <3>1. req[t].op = "post_tweet"
      BY <1>2, <2>3 DEF PostTweetNextId, TypeInv, ControlOK, OpOf, Labels
    <3> QED  BY <1>2, <2>3, <3>1 DEF PostTweetNextId, TweetIds!NextId,
                                   next_id_ensures, TypeInv, TypeOK
  <2>4. ~PostTweetNow(t)
    BY <1>2 DEF PostTweetNow, TypeInv, TypeOK
  <2>5. ~\E result : Respond(t, result)
    BY <1>2 DEF Respond, TypeInv, TypeOK
  <2> QED
    BY <2>1, <2>2, <2>3, <2>4, <2>5
       DEF Step, CreateUserBlank, CreateUserPut, HasUserRead, FollowSelf,
           FollowPut, UnfollowUnknown, UnfollowFromKnown, UnfollowToKnown,
           UnfollowDelete, PostTweetBlank, PostTweetUnknown, PostTweetKnown,
           PostTweetPut, HomeTimelineRead, Answer
<1>3. ASSUME TypeInv, Next PROVE Timed
  <2>1. ASSUME NEW t \in Threads, Step(t) PROVE now' = now
    BY <1>3, <2>1, StepKinds
       DEF CreateUserNextId, CreateUserPut, FollowPut, UnfollowDelete,
           PostTweetNextId, PostTweetNow, PostTweetPut, Reads
  <2> QED  BY <1>3, <2>1 DEF Next, Tick, Clock!Tick, Call, Return, tick_ensures
<1>4. TypeInv /\ [Next]_vars => [Quiet /\ Numbered /\ Timed]_vars
  BY <1>1, <1>2, <1>3
<1>5. Spec => []TypeInv
  BY TypeCorrect, PTL DEF TypeInv
<1> QED  BY <1>4, <1>5, PTL DEF Spec, OnlyAnswersChange

-----------------------------------------------------------------------------
(* home_timeline computes F1 and F2.                                       *)

\* Each list holds the tweets of its author.
ByAuthor == \A s \in Slots(Handles) : TweetAt(s).author = s[1]

LEMMA VisibleTweets ==
  ASSUME StoreTypeOK, ByAuthor, NEW h \in Handles, NEW w
  PROVE  /\ w \in StoredTweets
         /\ w.author = h \/ <<h, w.author>> \in AbsGraph
         <=> \E s \in Slots(Visible(h)) : w = TweetAt(s)
<1>1. \A s \in Slots(Handles) :
        /\ s = <<s[1], s[2]>> /\ s[1] \in Handles
        /\ s[2] \in DOMAIN by_author[s[1]] /\ TweetAt(s).author = s[1]
  BY SlotType DEF ByAuthor
<1>2. Slots(Visible(h)) \subseteq Slots(Handles)
  BY DEF Slots, Visible, FollowSet, StoreTypeOK
<1>3. \A s \in Slots(Handles) : s \in Slots(Visible(h)) <=> s[1] \in Visible(h)
  BY <1>1 DEF Slots
<1>4. \A g \in Handles :
        g \in Visible(h) <=> g = h \/ <<h, g>> \in AbsGraph
  BY DEF Visible, FollowSet, AbsGraph
<1> QED  BY <1>1, <1>2, <1>3, <1>4 DEF StoredTweets

\* The sorted list enumerates the visible tweets, newest first.
LEMMA SortedTimeline ==
  ASSUME StoreTypeOK, ByAuthor, UniqueTweetIds, NEW h \in Handles,
         NEW iteration \in Iterations(Visible(h))
  PROVE  \E n \in Nat :
           LET list == Sorted(Visible(h), iteration, Newer)
               V == {TweetAt(s) : s \in Slots(Visible(h))}
           IN /\ list \in [1..n -> V]
              /\ \A w \in V : \E k \in 1..n : list[k] = w
              /\ \A i, j \in 1..n : i < j => Newer(list[i], list[j])
              /\ Cardinality(V) = n
<1> DEFINE list == Sorted(Visible(h), iteration, Newer)
           V == {TweetAt(s) : s \in Slots(Visible(h))}
<1>1. Visible(h) \in SUBSET Handles
  BY DEF Visible, FollowSet, StoreTypeOK
<1>2. PICK n, order : Collects(list, Visible(h), n, order)
  BY <1>1, Collected
<1> HIDE DEF list
<1>3. /\ n \in Nat /\ list = [k \in 1..n |-> TweetAt(order[k])]
      /\ \A k \in 1..n : order[k] \in Slots(Visible(h))
      /\ \A s \in Slots(Visible(h)) : \E k \in 1..n : order[k] = s
      /\ \A i, j \in 1..n : i < j =>
           order[i] # order[j] /\ ~Newer(TweetAt(order[j]), TweetAt(order[i]))
  BY <1>2 DEF Collects
<1>4. \A s \in Slots(Visible(h)) :
        /\ s \in TweetSlots
        /\ TweetAt(s).id \in Nat /\ TweetAt(s).created_at \in Nat
  <2>1. Slots(Visible(h)) \subseteq Slots(Handles)
    BY <1>1 DEF Slots
  <2> QED  BY <2>1, SlotType DEF TweetSlots, Tweet
<1>5. list \in [1..n -> V] /\ \A w \in V : \E k \in 1..n : list[k] = w
  BY <1>3
<1>6. ASSUME NEW i \in 1..n, NEW j \in 1..n, i < j
      PROVE  Newer(list[i], list[j]) /\ list[i] # list[j]
  <2>1. /\ list[i] = TweetAt(order[i]) /\ list[j] = TweetAt(order[j])
        /\ order[i] # order[j] /\ ~Newer(list[j], list[i])
    BY <1>3, <1>6
  <2>2. /\ list[i].id # list[j].id
        /\ list[i].id \in Nat /\ list[i].created_at \in Nat
        /\ list[j].id \in Nat /\ list[j].created_at \in Nat
    BY <1>3, <1>4, <2>1 DEF UniqueTweetIds
  <2> QED  BY <2>1, <2>2 DEF Newer
<1>7. Cardinality(V) = n
  <2> HIDE DEF V
  <2>1. \A i, j \in 1..n : list[i] = list[j] => i = j
    <3>1. \A i, j \in 1..n : i < j \/ j < i \/ i = j
      BY <1>3
    <3> QED  BY <1>6, <3>1
  <2>2. list \in Bijection(1..n, V)
    BY <1>5, <2>1 DEF Bijection, Injection, Surjection, IsInjective
  <2>3. ExistsBijection(1..n, V)
    BY <2>2 DEF ExistsBijection
  <2> QED  BY <1>3, <2>3, FS_CountingElements
<1> QED  BY <1>3, <1>5, <1>6, <1>7 DEF list

\* The operators both sides take from modules they share.
LEMMA SameOperators ==
  /\ \A S : Abs!Cardinality(S) = Cardinality(S)
  /\ \A v, w : Abs!Newer(v, w) <=> Newer(v, w)
<1>1. ASSUME NEW S PROVE Abs!Cardinality(S) = Cardinality(S)
  BY DEF Abs!Cardinality, Cardinality
<1>2. ASSUME NEW v, NEW w PROVE Abs!Newer(v, w) <=> Newer(v, w)
  BY DEF Abs!Newer, Newer
<1> QED  BY <1>1, <1>2

LEMMA TimelineIs ==
  ASSUME StoreTypeOK, ByAuthor, UniqueTweetIds, NEW h \in Handles,
         NEW limit \in Nat, NEW iteration \in Iterations(Visible(h))
  PROVE  Abs!IsTimeline(HomeTimeline(h, limit, iteration), h, limit)
<1> DEFINE list == Sorted(Visible(h), iteration, Newer)
           V == {TweetAt(s) : s \in Slots(Visible(h))}
           seq == HomeTimeline(h, limit, iteration)
<1>1. V = {w \in StoredTweets : w.author = h \/ <<h, w.author>> \in AbsGraph}
  BY VisibleTweets
<1>2. PICK n \in Nat : /\ list \in [1..n -> V]
                       /\ \A w \in V : \E k \in 1..n : list[k] = w
                       /\ \A i, j \in 1..n : i < j => Newer(list[i], list[j])
                       /\ Cardinality(V) = n
  BY SortedTimeline
<1>3. PICK m \in Nat : m = IF limit > 0 /\ n > limit THEN limit ELSE n
  OBVIOUS
<1> HIDE DEF list, V
<1>4. seq \in Seq(V) /\ Len(seq) = m /\ \A k \in 1..m : seq[k] = list[k]
  <2>1. list \in Seq(V) /\ Len(list) = n
    BY <1>2
  <2>2. seq = IF limit > 0 /\ Len(list) > limit THEN SubSeq(list, 1, limit)
              ELSE list
    BY DEF HomeTimeline, list
  <2> QED  BY <1>3, <2>1, <2>2
<1> HIDE DEF seq
<1>5. DOMAIN seq = 1..m /\ m <= n /\ \A k \in 1..m : seq[k] \in V
  BY <1>2, <1>3, <1>4
<1>6. \A i, j \in DOMAIN seq : i < j => Newer(seq[i], seq[j])
  BY <1>2, <1>3, <1>4, <1>5
<1>7. ASSUME NEW w \in V, \A k \in 1..m : seq[k] # w,
             NEW i \in 1..m
      PROVE  Newer(seq[i], w)
  <2>1. PICK k \in 1..n : list[k] = w
    BY <1>2
  <2>2. i < k /\ i \in 1..n
    BY <1>4, <1>5, <1>7, <2>1
  <2> QED  BY <1>2, <1>4, <2>1, <2>2
<1>8. Len(seq) = IF limit > 0 /\ Cardinality(V) > limit
                 THEN limit ELSE Cardinality(V)
  BY <1>2, <1>3, <1>4
<1>9. Abs!IsTimeline(seq, h, limit) <=>
        LET shown == {seq[i] : i \in DOMAIN seq}
        IN /\ shown \subseteq V
           /\ \A i, j \in DOMAIN seq : i < j => Newer(seq[i], seq[j])
           /\ \A w \in V \ shown : \A v \in shown : Newer(v, w)
           /\ Len(seq) = IF limit > 0 /\ Cardinality(V) > limit
                         THEN limit ELSE Cardinality(V)
  BY <1>1, SameOperators DEF Abs!IsTimeline
<1>10. \A w \in V \ {seq[i] : i \in DOMAIN seq} :
         \A v \in {seq[i] : i \in DOMAIN seq} : Newer(v, w)
  BY <1>5, <1>7
<1>11. {seq[i] : i \in DOMAIN seq} \subseteq V
  BY <1>5
<1> QED  BY <1>6, <1>8, <1>9, <1>10, <1>11 DEF seq
-----------------------------------------------------------------------------
(* The state a step of the service maps to.                                *)

\* What a thread holds before it has drawn anything.
DraftOK(t) ==
  /\ pc[t] \in {"idle", "called", "unfollow_to", "delete_follow", "next_id"} =>
       draft[t] = NoDraft
  /\ pc[t] = "put_user" => draft[t].created_at = 0

LinInv ==
  /\ TypeInv /\ UniqueUserIds /\ UniqueTweetIds /\ ByAuthor /\ PosterKnown
  /\ OrderInv /\ Checked /\ \A t \in Threads : DraftOK(t)

LEMMA StoreMaps ==
  ASSUME UNCHANGED storeVars
  PROVE  users' = users /\ AbsGraph' = AbsGraph /\ StoredTweets' = StoredTweets
  BY DEF storeVars, AbsGraph, StoredTweets, Slots, TweetAt

\* A call that ends is answered; its answer shows what it drew if it is Ok.
LEMMA DoneMaps ==
  ASSUME TypeInv, NEW t \in Threads, NEW result, Respond(t, result),
         pc[t] \notin {"idle", "done"}, now' = now
  PROVE  /\ Abs!Done(t, result)
         /\ AbsAnswers' = [AbsAnswers EXCEPT ![t] =
                          IF result = "ok" THEN draft[t] ELSE NoDraft]
<1>1. /\ pc' = [pc EXCEPT ![t] = "done"] /\ resp' = [resp EXCEPT ![t] = result]
      /\ draft' = [draft EXCEPT ![t] = IF result = "ok" THEN @ ELSE NoDraft]
      /\ req' = req /\ began' = began
  BY DEF Respond
<1>2. AbsCalls' = [AbsCalls EXCEPT ![t] = "done"]
  BY <1>1 DEF AbsCalls, AbsCall, TypeInv, TypeOK
<1>3. AbsAnswers' = [AbsAnswers EXCEPT ![t] =
                    IF result = "ok" THEN draft[t] ELSE NoDraft]
  <2>1. \A u \in Threads : AbsAnswer(u)' =
          IF u = t THEN IF result = "ok" THEN draft[t] ELSE NoDraft
          ELSE AbsAnswer(u)
    BY <1>1 DEF AbsAnswer, TypeInv, TypeOK
  <2> QED  BY <2>1 DEF AbsAnswers
<1> QED  BY <1>1, <1>2, <1>3 DEF Abs!Done, AbsCalls

LEMMA RefuseMaps ==
  ASSUME TypeInv, NEW t \in Threads, NEW result, Answer(t, result),
         pc[t] \notin {"idle", "done"}, result # "ok" \/ draft[t] = NoDraft
  PROVE  Abs!Refuse(t, result)
<1>1. Respond(t, result) /\ now' = now /\ page' = page /\ UNCHANGED storeVars
  BY DEF Answer
<1>2. AbsAnswers[t] = NoDraft /\ AbsAnswers = [AbsAnswers EXCEPT ![t] = AbsAnswers[t]]
  BY DEF AbsAnswers, AbsAnswer
<1>3. AbsAnswers' = AbsAnswers
  BY <1>1, <1>2, DoneMaps
<1>4. users' = users /\ AbsGraph' = AbsGraph /\ StoredTweets' = StoredTweets
  BY <1>1, StoreMaps
<1> QED  BY <1>1, <1>3, <1>4, DoneMaps DEF Abs!Refuse, AbsAnswers, AbsGraph

\* Steps that only move a thread on, or draw for it, show nothing.
LEMMA MoveMaps ==
  ASSUME TypeInv, NEW t \in Threads,
         \/ CreateUserNextId(t) \/ UnfollowFromKnown(t) \/ UnfollowToKnown(t)
         \/ PostTweetKnown(t) \/ PostTweetNextId(t) \/ PostTweetNow(t)
  PROVE  UNCHANGED Abs!vars
<1>1. PICK label \in {"put_user", "unfollow_to", "delete_follow", "next_id",
                      "now", "put_tweet"} : Goto(t, label)
  BY DEF CreateUserNextId, UnfollowFromKnown, UnfollowToKnown, PostTweetKnown,
         PostTweetNextId, PostTweetNow
<1>2. /\ UNCHANGED storeVars /\ now' = now
      /\ pc[t] \notin {"idle", "done"}
      /\ \A u \in Threads \ {t} : draft'[u] = draft[u]
  BY DEF CreateUserNextId, UnfollowFromKnown, UnfollowToKnown, PostTweetKnown,
         PostTweetNextId, PostTweetNow, At, TypeInv, TypeOK
<1>3. /\ pc' = [pc EXCEPT ![t] = label]
      /\ UNCHANGED <<req, resp, page, began>>
  BY <1>1 DEF Goto
<1>4. AbsCalls' = AbsCalls
  <2>1. \A u \in Threads : AbsCall(u)' = AbsCall(u)
    BY <1>2, <1>3 DEF AbsCall, TypeInv, TypeOK
  <2> QED  BY <2>1 DEF AbsCalls
<1>5. AbsAnswers' = AbsAnswers
  <2>1. \A u \in Threads : AbsAnswer(u)' = AbsAnswer(u)
    BY <1>2, <1>3 DEF AbsAnswer, TypeInv, TypeOK
  <2> QED  BY <2>1 DEF AbsAnswers
<1>6. users' = users /\ AbsGraph' = AbsGraph /\ StoredTweets' = StoredTweets
  BY <1>2, StoreMaps
<1> QED
  BY <1>2, <1>3, <1>4, <1>5, <1>6
     DEF Abs!vars, Abs!callVars, AbsCalls, AbsAnswers, AbsGraph

LEMMA CalledAbs ==
  ASSUME NEW t \in Threads, pc[t] \notin {"idle", "done"}
  PROVE  AbsCalls[t] = "called"
  BY DEF AbsCalls, AbsCall

\* What turns a call away is what its contract says should.
LEMMA FailMaps ==
  ASSUME TypeInv, NEW t \in Threads, NEW result, Answer(t, result),
         pc[t] \notin {"idle", "done"}, result # "ok", Abs!Error(t) = result
  PROVE  Abs!Fail(t)
<1>1. AbsCalls[t] = "called"
  BY CalledAbs
<1> QED  BY <1>1, RefuseMaps DEF Abs!Fail, AbsCalls

LEMMA ErrorIs ==
  ASSUME NEW t \in Threads
  PROVE  LET r == req[t] IN
         /\ r.op = "create_user" =>
              Abs!Error(t) = IF r.blank THEN "empty_handle"
                             ELSE IF HasUser(r.who) THEN "duplicate_user" ELSE "ok"
         /\ r.op = "has_user" =>
              Abs!Error(t) = IF HasUser(r.who) THEN "ok" ELSE "absent"
         /\ r.op = "follow" =>
              Abs!Error(t) = IF r.who = r.whom THEN "self_follow"
                             ELSE IF HasUser(r.who) /\ HasUser(r.whom) THEN "ok"
                             ELSE "unknown_user"
         /\ r.op = "unfollow" =>
              Abs!Error(t) = IF HasUser(r.who) /\ HasUser(r.whom) THEN "ok"
                             ELSE "unknown_user"
         /\ r.op = "post_tweet" =>
              Abs!Error(t) = IF r.blank THEN "empty_text"
                             ELSE IF HasUser(r.who) THEN "ok" ELSE "unknown_user"
<1>1. \A h : Abs!Registered(h) <=> HasUser(h)
  BY DEF Abs!Registered, HasUser, Abs!NoUser, NoUser
<1>2. CASE req[t].op = "create_user"
  BY <1>1, <1>2 DEF Abs!Error
<1>3. CASE req[t].op = "has_user"
  BY <1>1, <1>3 DEF Abs!Error
<1>4. CASE req[t].op = "follow"
  BY <1>1, <1>4 DEF Abs!Error
<1>5. CASE req[t].op = "unfollow"
  BY <1>1, <1>5 DEF Abs!Error
<1>6. CASE req[t].op = "post_tweet"
  BY <1>1, <1>6 DEF Abs!Error
<1> QED  BY <1>2, <1>3, <1>4, <1>5, <1>6

LEMMA TurnedAwayMaps ==
  ASSUME TypeInv, NEW t \in Threads,
         \/ CreateUserBlank(t) \/ FollowSelf(t) \/ UnfollowUnknown(t)
         \/ PostTweetBlank(t) \/ PostTweetUnknown(t)
  PROVE  Abs!Fail(t)
<1>1. CASE CreateUserBlank(t)
  BY <1>1, ErrorIs, FailMaps DEF CreateUserBlank, At
<1>2. CASE FollowSelf(t)
  BY <1>2, ErrorIs, FailMaps DEF FollowSelf, FollowNew, At
<1>3. CASE UnfollowUnknown(t)
  <2>1. pc[t] \in {"called", "unfollow_to"} /\ req[t].op = "unfollow"
    BY <1>3 DEF UnfollowUnknown, At, TypeInv, ControlOK, OpOf, Labels
  <2> QED  BY <1>3, <2>1, ErrorIs, FailMaps DEF UnfollowUnknown
<1>4. CASE PostTweetBlank(t)
  BY <1>4, ErrorIs, FailMaps DEF PostTweetBlank, At
<1>5. CASE PostTweetUnknown(t)
  BY <1>5, ErrorIs, FailMaps DEF PostTweetUnknown, At
<1> QED  BY <1>1, <1>2, <1>3, <1>4, <1>5

LEMMA HasUserMaps ==
  ASSUME TypeInv, NEW t \in Threads, DraftOK(t), HasUserRead(t)
  PROVE  Abs!Fail(t) \/ Abs!HasUser(t)
<1>1. /\ pc[t] = "called" /\ req[t].op = "has_user" /\ draft[t] = NoDraft
      /\ Answer(t, IF HasUser(req[t].who) THEN "ok" ELSE "absent")
  BY DEF HasUserRead, At, DraftOK
<1>2. CASE HasUser(req[t].who)
  <2>1. Abs!Refuse(t, "ok") /\ Abs!Error(t) = "ok" /\ AbsCalls[t] = "called"
    BY <1>1, <1>2, ErrorIs, RefuseMaps, CalledAbs
  <2> QED  BY <1>1, <2>1 DEF Abs!HasUser, Abs!Perform, AbsCalls
<1>3. CASE ~HasUser(req[t].who)
  BY <1>1, <1>3, ErrorIs, FailMaps
<1> QED  BY <1>2, <1>3

LEMMA CreateUserMaps ==
  ASSUME TypeInv, UniqueUserIds, NEW t \in Threads, CheckedAt(t),
         DraftOK(t), CreateUserPut(t)
  PROVE  Abs!Fail(t) \/ Abs!CreateUser(t)
<1>1. /\ pc[t] = "put_user" /\ req[t].op = "create_user" /\ ~req[t].blank
      /\ req[t].who \in Handles /\ t \in Drawn("create_user")
  BY DEF CreateUserPut, CheckedAt, TypeInv, ControlOK, OpOf, Labels, Drawn,
         Request
<1>2. PICK result \in Results :
        PutUser(req[t].who, draft[t].id, result) /\ Respond(t, result)
  BY DEF CreateUserPut
<1>3. Abs!Error(t) = IF HasUser(req[t].who) THEN "duplicate_user" ELSE "ok"
  BY <1>1, ErrorIs
<1>4. CASE HasUser(req[t].who)
  <2>1. Answer(t, "duplicate_user")
    BY <1>2, <1>4 DEF PutUser, CreateUserPut, Answer
  <2> QED  BY <1>1, <1>3, <1>4, <2>1, FailMaps
<1>5. CASE ~HasUser(req[t].who)
  <2>1. /\ result = "ok" /\ users' = [users EXCEPT ![req[t].who] = draft[t].id]
        /\ UNCHANGED <<follows, by_author>> /\ now' = now /\ page' = page
    BY <1>2, <1>5 DEF PutUser, CreateUserPut
  <2>2. draft[t].id \in (Nat \ {0}) \ {users[h] : h \in Handles}
    BY <1>1 DEF UniqueUserIds
  <2>3. draft[t] = [id |-> draft[t].id, created_at |-> 0]
    BY <1>1 DEF DraftOK, TypeInv, TypeOK
  <2>4. Abs!Done(t, "ok") /\ AbsAnswers' = [AbsAnswers EXCEPT ![t] = draft[t]]
    BY <1>1, <1>2, <2>1, DoneMaps
  <2>5. AbsAnswers' = [AbsAnswers EXCEPT ![t].id = draft[t].id]
    <3>1. AbsAnswers[t] = [id |-> 0, created_at |-> 0]
      BY <1>1 DEF AbsAnswers, AbsAnswer, NoDraft
    <3>2. [AbsAnswers[t] EXCEPT !.id = draft[t].id] = draft[t]
      BY <2>3, <3>1
    <3> QED  BY <2>4, <3>2
  <2>6. AbsGraph' = AbsGraph /\ StoredTweets' = StoredTweets
    BY <2>1 DEF AbsGraph, StoredTweets, Slots, TweetAt
  <2>7. AbsCalls[t] = "called"
    BY <1>1, CalledAbs
  <2> QED
    BY <1>1, <1>3, <1>5, <2>1, <2>2, <2>4, <2>5, <2>6, <2>7
       DEF Abs!CreateUser, Abs!Perform, AbsCalls, AbsAnswers, AbsGraph
<1> QED  BY <1>4, <1>5

LEMMA FollowMaps ==
  ASSUME TypeInv, NEW t \in Threads, DraftOK(t), FollowPut(t)
  PROVE  Abs!Fail(t) \/ Abs!Follows(t)
<1> DEFINE from == req[t].who
           to == req[t].whom
<1>1. /\ pc[t] = "called" /\ req[t].op = "follow" /\ draft[t] = NoDraft
      /\ from # to /\ from \in Handles /\ to \in Handles
  BY DEF FollowPut, FollowNew, At, DraftOK, TypeInv, ControlOK, Request
<1>2. PICK result \in Results : PutFollow(from, to, result) /\ Respond(t, result)
  BY DEF FollowPut
<1>3. Abs!Error(t) = IF HasUser(from) /\ HasUser(to) THEN "ok" ELSE "unknown_user"
  BY <1>1, ErrorIs
<1>4. CASE ~(HasUser(from) /\ HasUser(to))
  <2>1. Answer(t, "unknown_user")
    BY <1>2, <1>4 DEF PutFollow, FollowPut, Answer
  <2> QED  BY <1>1, <1>3, <1>4, <2>1, FailMaps
<1>5. CASE HasUser(from) /\ HasUser(to)
  <2>1. /\ result = "ok" /\ follows' = [follows EXCEPT ![from] = @ \cup {to}]
        /\ UNCHANGED <<users, by_author>> /\ now' = now /\ page' = page
    BY <1>2, <1>5 DEF PutFollow, FollowPut
  <2>2. AbsGraph' = AbsGraph \cup {<<from, to>>}
    <3>1. \A e \in Handles \X Handles :
            e[2] \in follows'[e[1]] <=> e[2] \in follows[e[1]] \/ e = <<from, to>>
      BY <1>1, <2>1 DEF TypeInv, TypeOK, StoreTypeOK
    <3> QED  BY <1>1, <3>1 DEF AbsGraph
  <2>3. Abs!Done(t, "ok") /\ AbsAnswers' = [AbsAnswers EXCEPT ![t] = draft[t]]
    BY <1>1, <1>2, <2>1, DoneMaps
  <2>4. AbsAnswers' = AbsAnswers
    BY <1>1, <2>3 DEF AbsAnswers, AbsAnswer
  <2>5. StoredTweets' = StoredTweets
    BY <2>1 DEF StoredTweets, Slots, TweetAt
  <2>6. AbsCalls[t] = "called"
    BY <1>1, CalledAbs
  <2> QED
    BY <1>1, <1>3, <1>5, <2>1, <2>2, <2>3, <2>4, <2>5, <2>6
       DEF Abs!Follows, Abs!Perform, AbsCalls, AbsAnswers, AbsGraph
<1> QED  BY <1>4, <1>5

LEMMA UnfollowMaps ==
  ASSUME TypeInv, NEW t \in Threads, DraftOK(t), CheckedAt(t), UnfollowDelete(t)
  PROVE  Abs!Unfollow(t)
<1> DEFINE from == req[t].who
           to == req[t].whom
<1>1. /\ pc[t] = "delete_follow" /\ req[t].op = "unfollow" /\ draft[t] = NoDraft
      /\ from \in Handles /\ to \in Handles /\ HasUser(from) /\ HasUser(to)
  BY DEF UnfollowDelete, DraftOK, CheckedAt, TypeInv, ControlOK, OpOf, Labels,
         Request
<1>2. /\ Respond(t, "ok") /\ follows' = [follows EXCEPT ![from] = @ \ {to}]
      /\ UNCHANGED <<users, by_author>> /\ now' = now /\ page' = page
  BY DEF UnfollowDelete, DeleteFollow
<1>3. Abs!Error(t) = "ok" /\ AbsCalls[t] = "called"
  BY <1>1, ErrorIs, CalledAbs
<1>4. AbsGraph' = AbsGraph \ {<<from, to>>}
  <2>1. \A e \in Handles \X Handles :
          e[2] \in follows'[e[1]] <=> e[2] \in follows[e[1]] /\ e # <<from, to>>
    BY <1>1, <1>2 DEF TypeInv, TypeOK, StoreTypeOK
  <2> QED  BY <2>1 DEF AbsGraph
<1>5. Abs!Done(t, "ok") /\ AbsAnswers' = [AbsAnswers EXCEPT ![t] = draft[t]]
  BY <1>1, <1>2, DoneMaps
<1>6. AbsAnswers' = AbsAnswers
  BY <1>1, <1>5 DEF AbsAnswers, AbsAnswer
<1>7. StoredTweets' = StoredTweets
  BY <1>2 DEF StoredTweets, Slots, TweetAt
<1> QED
  BY <1>1, <1>2, <1>3, <1>4, <1>5, <1>6, <1>7
     DEF Abs!Unfollow, Abs!Perform, AbsCalls, AbsAnswers, AbsGraph

LEMMA PostTweetMaps ==
  ASSUME TypeInv, UniqueTweetIds, PosterKnown, OrderInv,
         NEW t \in Threads, CheckedAt(t), PostTweetPut(t)
  PROVE  Abs!PostTweet(t)
<1> DEFINE w == TweetOf(t)
<1>1. /\ pc[t] = "put_tweet" /\ req[t].op = "post_tweet" /\ ~req[t].blank
      /\ req[t].who \in Handles /\ HasUser(req[t].who)
      /\ t \in Drawn("post_tweet")
  BY DEF PostTweetPut, CheckedAt, PosterKnown, TypeInv, ControlOK, OpOf,
         Labels, Drawn, Request
<1>2. PICK result \in Results : PutTweet(w, result) /\ Respond(t, result)
  BY DEF PostTweetPut
<1>3. /\ result = "ok" /\ users' = users /\ follows' = follows
      /\ by_author' = [by_author EXCEPT ![w.author] = Append(@, w)]
      /\ now' = now /\ page' = page
  BY <1>1, <1>2 DEF PutTweet, PostTweetPut, TweetOf
<1>4. w \in Tweet /\ StoreTypeOK
  BY <1>1, TweetOfType DEF TypeInv, TypeOK
<1>5. StoredTweets' = StoredTweets \cup {w}
  <2>1. /\ StoreGrows
        /\ \A s \in TweetSlots' : s \in TweetSlots \/ TweetAt(s)' = w
        /\ \E s \in TweetSlots' : TweetAt(s)' = w
    BY <1>1, <1>2, <1>4, GrowsPutTweet DEF TweetOf
  <2>2. StoredTweets \subseteq StoredTweets'
    BY <2>1, StoredTweetsGrow
  <2>3. w \in StoredTweets'
    BY <2>1 DEF StoredTweets, TweetSlots
  <2>4. ASSUME NEW v \in StoredTweets' PROVE v = w \/ v \in StoredTweets
    <3>1. PICK s \in TweetSlots' : v = TweetAt(s)'
      BY <2>4 DEF StoredTweets, TweetSlots
    <3>2. CASE s \in TweetSlots
      BY <2>1, <3>1, <3>2 DEF StoreGrows, StoredTweets, TweetSlots
    <3> QED  BY <2>1, <3>1, <3>2
  <2> QED  BY <2>2, <2>3, <2>4
<1>6. /\ draft[t].id \in Nat \ {0}
      /\ draft[t].id \notin {v.id : v \in StoredTweets}
  BY <1>1 DEF UniqueTweetIds, StoredTweets, TweetSlots
<1>7. /\ draft[t].created_at \in began[t].time..now
      /\ \A v \in began[t].tweets : Newer(w, v)
  <2>1. /\ draft[t].created_at \in began[t].time..now
        /\ \A v \in began[t].tweets :
             v.created_at <= began[t].time /\ v.id < draft[t].id
    BY <1>1 DEF OrderInv, PostOrder, HasTime, HasId
  <2>2. /\ began[t].time \in Nat /\ now \in Nat /\ draft[t].id \in Nat
        /\ draft[t].created_at \in Nat
        /\ \A v \in began[t].tweets : v.created_at \in Nat /\ v.id \in Nat
    BY DEF TypeInv, TypeOK, Tweet
  <2>3. began[t].time <= draft[t].created_at
    BY <2>1, <2>2
  <2> QED  BY <2>1, <2>2, <2>3 DEF Newer, TweetOf
<1>8. /\ Abs!Done(t, "ok")
      /\ AbsAnswers' = [AbsAnswers EXCEPT ![t] =
           [id |-> draft[t].id, created_at |-> draft[t].created_at]]
  <2>1. draft[t] = [id |-> draft[t].id, created_at |-> draft[t].created_at]
    BY DEF TypeInv, TypeOK
  <2> QED  BY <1>1, <1>2, <1>3, <2>1, DoneMaps
<1>9. Abs!Error(t) = "ok" /\ AbsCalls[t] = "called" /\ AbsGraph' = AbsGraph
  BY <1>1, <1>3, ErrorIs, CalledAbs DEF AbsGraph
<1>10. \A v \in began[t].tweets :
         Abs!Newer([id |-> draft[t].id, author |-> req[t].who,
                    created_at |-> draft[t].created_at], v)
  BY <1>7, SameOperators DEF TweetOf
<1>11. /\ AbsAnswers'[t].id = draft[t].id
       /\ AbsAnswers'[t].created_at = draft[t].created_at
  BY <1>1, <1>8 DEF AbsAnswers
<1> QED
  BY <1>1, <1>3, <1>5, <1>6, <1>7, <1>8, <1>9, <1>10, <1>11
     DEF Abs!PostTweet, Abs!Perform, AbsCalls, AbsAnswers, AbsGraph, TweetOf

LEMMA HomeTimelineMaps ==
  ASSUME TypeInv, ByAuthor, UniqueTweetIds, NEW t \in Threads, DraftOK(t),
         HomeTimelineRead(t)
  PROVE  Abs!HomeTimeline(t)
<1>1. /\ pc[t] = "called" /\ req[t].op = "home_timeline" /\ draft[t] = NoDraft
      /\ req[t].who \in Handles /\ req[t].limit \in Nat
  BY DEF HomeTimelineRead, At, DraftOK, TypeInv, ControlOK, Request
<1>2. PICK iteration \in Iterations(Visible(req[t].who)) :
        page' = [page EXCEPT ![t] =
                   HomeTimeline(req[t].who, req[t].limit, iteration)]
  BY DEF HomeTimelineRead
<1>3. /\ Respond(t, "ok") /\ now' = now /\ UNCHANGED storeVars
  BY DEF HomeTimelineRead
<1>4. page'[t] = HomeTimeline(req[t].who, req[t].limit, iteration)
  BY <1>2 DEF TypeInv, TypeOK
<1>5. page' = [page EXCEPT ![t] = page'[t]]
  BY <1>2, <1>4
<1>6. Abs!IsTimeline(page'[t], req[t].who, req[t].limit)
  BY <1>1, <1>4, TimelineIs DEF TypeInv, TypeOK
<1>7. Abs!Done(t, "ok") /\ AbsAnswers' = [AbsAnswers EXCEPT ![t] = draft[t]]
  BY <1>1, <1>3, DoneMaps
<1>8. AbsAnswers' = AbsAnswers /\ AbsCalls[t] = "called"
  BY <1>1, <1>7, CalledAbs DEF AbsAnswers, AbsAnswer
<1>9. users' = users /\ AbsGraph' = AbsGraph /\ StoredTweets' = StoredTweets
  BY <1>3, StoreMaps
<1> QED
  BY <1>1, <1>5, <1>6, <1>7, <1>8, <1>9
     DEF Abs!HomeTimeline, Abs!Perform, AbsCalls, AbsAnswers, AbsGraph

-----------------------------------------------------------------------------
(* The invariants the mapping needs beyond those of the other modules.     *)

LEMMA DraftStep ==
  ASSUME TypeInv, [AnyNext]_vars, NEW u \in Threads, DraftOK(u)
  PROVE  DraftOK(u)'
<1> USE DEF TypeInv, TypeOK
<1>1. CASE Still(u)
  BY <1>1 DEF Still, DraftOK
<1>2. CASE Return(u) \/ \E r \in Request : Call(u, r)
  BY <1>2 DEF Return, Call, DraftOK, NoDraft
<1>3. CASE Step(u)
  <2>1. CASE \E result : Respond(u, result)
    BY <2>1 DEF Respond, DraftOK
  <2>2. CASE CreateUserNextId(u)
    BY <2>2 DEF CreateUserNextId, Goto, At, DraftOK, NoDraft
  <2>3. CASE UnfollowFromKnown(u) \/ UnfollowToKnown(u) \/ PostTweetKnown(u)
    BY <2>3 DEF UnfollowFromKnown, UnfollowToKnown, PostTweetKnown, Goto, At,
                DraftOK
  <2>4. CASE PostTweetNextId(u) \/ PostTweetNow(u)
    BY <2>4 DEF PostTweetNextId, PostTweetNow, Goto, DraftOK
  <2> QED
    BY <1>3, <2>1, <2>2, <2>3, <2>4
       DEF Step, CreateUserBlank, CreateUserPut, HasUserRead, FollowSelf,
           FollowPut, UnfollowUnknown, UnfollowDelete, PostTweetBlank,
           PostTweetUnknown, PostTweetPut, HomeTimelineRead, Answer
<1> QED  BY <1>1, <1>2, <1>3, ThreadStep

LEMMA ByAuthorStep ==
  ASSUME TypeInv, ByAuthor, [AnyNext]_vars PROVE ByAuthor'
<1>1. CASE by_author' = by_author
  BY <1>1 DEF ByAuthor, Slots, TweetAt
<1>2. ASSUME NEW t \in Threads, PostTweetPut(t), by_author' # by_author
      PROVE  ByAuthor'
  <2> DEFINE w == TweetOf(t)
  <2>1. w \in Tweet /\ StoreTypeOK
    BY <1>2, TweetOfType DEF TypeInv, TypeOK, PostTweetPut
  <2>2. by_author' = [by_author EXCEPT ![w.author] = Append(@, w)]
    BY <1>2 DEF PostTweetPut, PutTweet, storeVars
  <2>3. PICK new : new = <<w.author, Len(by_author[w.author]) + 1>>
    OBVIOUS
  <2>4. /\ TweetAt(new)' = w /\ new[1] = w.author
        /\ \A s \in Slots(Handles) : TweetAt(s)' = TweetAt(s)
        /\ \A s \in Slots(Handles)' : s \in Slots(Handles) \/ s = new
    BY <2>1, <2>2, <2>3, PutTweetSlots
  <2> QED  BY <2>4 DEF ByAuthor
<1>3. CASE ~\E t \in Threads : PostTweetPut(t)
  BY <1>1, <1>3, OnlyPutTweet DEF AnyNext, Tick, Call, Return, vars, storeVars
<1> QED  BY <1>1, <1>2, <1>3

LEMMA LinStep == ASSUME LinInv, [AnyNext]_vars PROVE LinInv'
<1>1. \A t \in Threads : DraftOK(t)'
  BY DraftStep DEF LinInv
<1> QED
  BY <1>1, TypeStep, UserIdsStep, TweetIdsStep, ByAuthorStep,
     PosterKnownStep, OrderStep, CheckedStep DEF LinInv

LEMMA LinInit == ASSUME Init PROVE LinInv
<1>1. TypeInv
  BY TypeInit
<1>2. /\ \A t \in Threads : pc[t] = "idle" /\ draft[t] = NoDraft
      /\ \A h \in Handles : users[h] = NoUser
      /\ user_ids = 0 /\ tweet_ids = 0
  BY DEF Init, StoreInit, UserIds!Init, TweetIds!Init
<1>3. TweetSlots = {} /\ \A op : Drawn(op) = {}
  BY DEF Init, StoreInit, TweetSlots, Slots, Drawn
<1>4. UniqueUserIds
  BY <1>2, <1>3 DEF UniqueUserIds, HasUser, NoUser
<1>5. UniqueTweetIds /\ ByAuthor
  BY <1>3 DEF UniqueTweetIds, ByAuthor, TweetSlots
<1>6. PosterKnown /\ OrderInv /\ Checked /\ \A t \in Threads : DraftOK(t)
  BY <1>2, <1>3 DEF PosterKnown, OrderInv, TimesPast, PostOrder, Checked,
                    CheckedAt, DraftOK
<1> QED  BY <1>1, <1>4, <1>5, <1>6 DEF LinInv

LEMMA InitMaps == ASSUME Init PROVE Abs!Init
<1>1. /\ users = [h \in Handles |-> Abs!NoUser]
      /\ AbsGraph = {} /\ StoredTweets = {} /\ now = 0
  BY DEF Init, StoreInit, Clock!Init, Abs!NoUser, NoUser, AbsGraph, StoredTweets,
         Slots
<1>2. AbsCalls = [t \in Threads |-> "idle"]
  BY DEF Init, AbsCalls, AbsCall
<1>3. AbsAnswers = [t \in Threads |-> Abs!NoAnswer]
  BY DEF Init, AbsAnswers, AbsAnswer, Abs!NoAnswer, NoDraft
<1>4. /\ req = [t \in Threads |-> Abs!NoRequest]
      /\ resp = [t \in Threads |-> "none"] /\ page = [t \in Threads |-> <<>>]
      /\ began = [t \in Threads |-> Abs!NotBegun]
  BY DEF Init, Abs!NoRequest, NoRequest, Abs!NotBegun, NotBegun
<1> QED  BY <1>1, <1>2, <1>3, <1>4 DEF Abs!Init, AbsCalls, AbsAnswers, AbsGraph

LEMMA CallMaps ==
  ASSUME TypeInv, NEW t \in Threads, DraftOK(t), NEW r, Call(t, r)
  PROVE  Abs!Call(t, r)
<1>1. /\ pc[t] = "idle" /\ pc' = [pc EXCEPT ![t] = "called"]
      /\ req' = [req EXCEPT ![t] = r] /\ UNCHANGED storeVars
      /\ began' = [began EXCEPT ![t] = IF r.op = "post_tweet"
                    THEN [time |-> now, tweets |-> StoredTweets] ELSE @]
      /\ UNCHANGED <<now, draft, resp, page>>
  BY DEF Call
<1>2. AbsCalls[t] = "idle" /\ AbsCalls' = [AbsCalls EXCEPT ![t] = "called"]
  BY <1>1 DEF AbsCalls, AbsCall, TypeInv, TypeOK
<1>3. AbsAnswers' = AbsAnswers
  <2>1. \A u \in Threads : AbsAnswer(u)' = AbsAnswer(u)
    BY <1>1 DEF AbsAnswer, TypeInv, TypeOK
  <2> QED  BY <2>1 DEF AbsAnswers
<1>4. users' = users /\ AbsGraph' = AbsGraph /\ StoredTweets' = StoredTweets
  BY <1>1, StoreMaps
<1> QED  BY <1>1, <1>2, <1>3, <1>4 DEF Abs!Call, AbsCalls, AbsAnswers, AbsGraph

LEMMA ReturnMaps ==
  ASSUME TypeInv, NEW t \in Threads, Return(t) PROVE Abs!Return(t)
<1>1. /\ pc[t] = "done" /\ pc' = [pc EXCEPT ![t] = "idle"]
      /\ req' = [req EXCEPT ![t] = NoRequest]
      /\ draft' = [draft EXCEPT ![t] = NoDraft]
      /\ resp' = [resp EXCEPT ![t] = "none"]
      /\ page' = [page EXCEPT ![t] = <<>>]
      /\ began' = [began EXCEPT ![t] = NotBegun]
      /\ UNCHANGED storeVars /\ now' = now
  BY DEF Return
<1>2. AbsCalls[t] = "done" /\ AbsCalls' = [AbsCalls EXCEPT ![t] = "idle"]
  BY <1>1 DEF AbsCalls, AbsCall, TypeInv, TypeOK
<1>3. AbsAnswers' = [AbsAnswers EXCEPT ![t] = NoDraft]
  <2>1. \A u \in Threads :
          AbsAnswer(u)' = IF u = t THEN NoDraft ELSE AbsAnswer(u)
    BY <1>1 DEF AbsAnswer, TypeInv, TypeOK
  <2> QED  BY <2>1 DEF AbsAnswers
<1>4. users' = users /\ AbsGraph' = AbsGraph /\ StoredTweets' = StoredTweets
  BY <1>1, StoreMaps
<1>5. /\ Abs!NoRequest = NoRequest /\ Abs!NotBegun = NotBegun
      /\ Abs!NoAnswer = NoDraft
  BY DEF Abs!NoRequest, NoRequest, Abs!NotBegun, NotBegun, Abs!NoAnswer, NoDraft
<1> QED
  BY <1>1, <1>2, <1>3, <1>4, <1>5 DEF Abs!Return, AbsCalls, AbsAnswers, AbsGraph

LEMMA StillMaps ==
  ASSUME UNCHANGED storeVars, UNCHANGED threadVars
  PROVE  /\ users' = users /\ AbsGraph' = AbsGraph /\ StoredTweets' = StoredTweets
         /\ AbsCalls' = AbsCalls /\ AbsAnswers' = AbsAnswers
         /\ UNCHANGED <<req, resp, page, began>>
  BY StoreMaps DEF threadVars, AbsCalls, AbsCall, AbsAnswers, AbsAnswer

\* A section of a call is the instant at which it takes effect, or shows
\* nothing.
LEMMA StepMaps ==
  ASSUME LinInv, NEW t \in Threads, Step(t)
  PROVE  Abs!TakesEffect(t) \/ UNCHANGED Abs!vars
<1> USE DEF LinInv
<1>1. DraftOK(t) /\ CheckedAt(t)
  BY DEF Checked
<1>2. CASE \/ CreateUserNextId(t) \/ UnfollowFromKnown(t)
           \/ UnfollowToKnown(t) \/ PostTweetKnown(t)
           \/ PostTweetNextId(t) \/ PostTweetNow(t)
  BY <1>2, MoveMaps
<1>3. CASE \/ CreateUserBlank(t) \/ FollowSelf(t) \/ UnfollowUnknown(t)
           \/ PostTweetBlank(t) \/ PostTweetUnknown(t)
  BY <1>3, TurnedAwayMaps DEF Abs!TakesEffect
<1>4. CASE CreateUserPut(t)
  BY <1>1, <1>4, CreateUserMaps DEF Abs!TakesEffect
<1>5. CASE HasUserRead(t)
  BY <1>1, <1>5, HasUserMaps DEF Abs!TakesEffect
<1>6. CASE FollowPut(t)
  BY <1>1, <1>6, FollowMaps DEF Abs!TakesEffect
<1>7. CASE UnfollowDelete(t)
  BY <1>1, <1>7, UnfollowMaps DEF Abs!TakesEffect
<1>8. CASE PostTweetPut(t)
  BY <1>1, <1>8, PostTweetMaps DEF Abs!TakesEffect
<1>9. CASE HomeTimelineRead(t)
  BY <1>1, <1>9, HomeTimelineMaps DEF Abs!TakesEffect
<1> QED
  BY <1>2, <1>3, <1>4, <1>5, <1>6, <1>7, <1>8, <1>9 DEF Step

LEMMA NextMaps ==
  ASSUME LinInv, [Next]_vars PROVE [Abs!Next]_(Abs!vars)
<1> USE DEF LinInv
<1>1. CASE UNCHANGED vars
  <2>1. UNCHANGED storeVars /\ UNCHANGED threadVars /\ now' = now
    BY <1>1 DEF vars, storeVars
  <2> QED
    BY <2>1, StillMaps DEF Abs!vars, Abs!callVars, AbsCalls, AbsAnswers, AbsGraph
<1>2. CASE Tick
  <2>1. /\ UNCHANGED storeVars /\ UNCHANGED threadVars
        /\ now < MaxTime /\ now' = now + 1
    BY <1>2 DEF Tick, Clock!Tick
  <2>2. Abs!Tick
    BY <2>1, StillMaps DEF Abs!Tick, Abs!callVars, AbsCalls, AbsAnswers, AbsGraph
  <2> QED  BY <2>2 DEF Abs!Next
<1>3. ASSUME NEW t \in Threads, \E r \in Requests : Call(t, r)
      PROVE  Abs!Next
  BY <1>3, CallMaps DEF Abs!Next
<1>4. ASSUME NEW t \in Threads, Return(t) PROVE Abs!Next
  BY <1>4, ReturnMaps DEF Abs!Next
<1>5. ASSUME NEW t \in Threads, Step(t)
      PROVE  Abs!TakesEffect(t) \/ UNCHANGED Abs!vars
  BY <1>5, StepMaps
<1> QED  BY <1>1, <1>2, <1>3, <1>4, <1>5 DEF Next, Abs!Next

\* The interleaved lock sections of any number of threads cannot be told
\* from calls that take effect at one instant, each as its contract states:
\* the service is linearizable, and its timelines are F1 and F2.
THEOREM ServiceIsLinearizable == Spec => Linearizable
<1>1. Init => LinInv /\ Abs!Init
  BY LinInit, InitMaps
<1>2. LinInv /\ [Next]_vars => LinInv'
  BY LinStep, AnyRequest
<1>3. LinInv /\ [Next]_vars => [Abs!Next]_(Abs!vars)
  BY NextMaps
<1> QED  BY <1>1, <1>2, <1>3, PTL DEF Spec, Linearizable, Abs!Spec

==============================================================================
