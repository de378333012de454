---------------------------- MODULE ServiceProofs ---------------------------
(***************************************************************************)
(* Proofs, for any handles, threads, calls and bounds, of invariants of    *)
(* Service.                                                                *)
(***************************************************************************)
EXTENDS ServiceProperties, FiniteSetTheorems, TLAPS

\* The labels of a call say which method it is in, and a thread that is not
\* idle holds a request.
OpOf ==
  [l \in Labels |->
     CASE l = "put_user" -> {"create_user"}
       [] l \in {"unfollow_to", "delete_follow"} -> {"unfollow"}
       [] l \in {"next_id", "now", "put_tweet"} -> {"post_tweet"}
       [] OTHER -> Ops]

ControlOK ==
  \A t \in Threads : pc[t] # "idle" => /\ req[t] \in Request
                                       /\ req[t].op \in OpOf[pc[t]]

TypeInv == TypeOK /\ ControlOK

-----------------------------------------------------------------------------
(* The store.                                                              *)

LEMMA StoredTweetsType ==
  ASSUME StoreTypeOK PROVE StoredTweets \subseteq Tweet
<1>1. \A s \in Slots(Handles) : TweetAt(s) \in Tweet
  BY DEF StoreTypeOK, Slots, TweetAt
<1> QED  BY <1>1 DEF StoredTweets

LEMMA PutUserType ==
  ASSUME StoreTypeOK, NEW h \in Handles, NEW id \in Nat, NEW result,
         PutUser(h, id, result)
  PROVE  StoreTypeOK'
  BY DEF StoreTypeOK, PutUser, storeVars

LEMMA PutFollowType ==
  ASSUME StoreTypeOK, NEW f \in Handles, NEW g \in Handles, NEW result,
         PutFollow(f, g, result)
  PROVE  StoreTypeOK'
<1>1. CASE UNCHANGED storeVars
  BY <1>1 DEF StoreTypeOK, storeVars
<1>2. CASE /\ follows' = [follows EXCEPT ![f] = @ \cup {g}]
           /\ UNCHANGED <<users, by_author>>
  <2>1. follows[f] \cup {g} \in SUBSET Handles
    BY DEF StoreTypeOK
  <2> QED  BY <1>2, <2>1 DEF StoreTypeOK
<1> QED  BY <1>1, <1>2 DEF PutFollow

LEMMA DeleteFollowType ==
  ASSUME StoreTypeOK, NEW f \in Handles, NEW g \in Handles, DeleteFollow(f, g)
  PROVE  StoreTypeOK'
<1>1. follows[f] \ {g} \in SUBSET Handles
  BY DEF StoreTypeOK
<1> QED  BY <1>1 DEF StoreTypeOK, DeleteFollow

LEMMA PutTweetType ==
  ASSUME StoreTypeOK, NEW w \in Tweet, NEW result, PutTweet(w, result)
  PROVE  StoreTypeOK'
<1>1. CASE UNCHANGED storeVars
  BY <1>1 DEF StoreTypeOK, storeVars
<1>2. CASE /\ by_author' = [by_author EXCEPT ![w.author] = Append(@, w)]
           /\ UNCHANGED <<users, follows>>
  <2>1. w.author \in Handles
    BY DEF Tweet
  <2>2. Append(by_author[w.author], w) \in Seq(Tweet)
    BY <2>1 DEF StoreTypeOK
  <2> QED  BY <1>2, <2>1, <2>2 DEF StoreTypeOK
<1> QED  BY <1>1, <1>2 DEF PutTweet

-----------------------------------------------------------------------------
(* Type correctness.                                                       *)

LEMMA TypeInit == Init => TypeInv
<1> SUFFICES ASSUME Init PROVE TypeInv
  OBVIOUS
<1>1. StoreTypeOK
  BY DEF Init, StoreInit, StoreTypeOK, NoUser
<1>2. TypeOK
  BY <1>1 DEF Init, TypeOK, Clock!Init, UserIds!Init, TweetIds!Init, Labels,
              NoRequest, NoDraft, NotBegun
<1>3. ControlOK
  BY DEF Init, ControlOK
<1> QED  BY <1>2, <1>3 DEF TypeInv

\* What the steps that answer a call, or move it on, do to its thread.
LEMMA RespondType ==
  ASSUME TypeInv, NEW t \in Threads, pc[t] # "idle",
         NEW result \in Results, Respond(t, result)
  PROVE  /\ pc' \in [Threads -> Labels] /\ req' \in [Threads -> Request \cup {NoRequest}]
         /\ draft' \in [Threads -> [id : Nat, created_at : Nat]]
         /\ resp' \in [Threads -> Results \cup {"none"}]
         /\ began' \in [Threads -> [time : Nat, tweets : SUBSET Tweet]]
         /\ ControlOK'
<1>1. /\ pc' = [pc EXCEPT ![t] = "done"] /\ req' = req /\ began' = began
      /\ resp' = [resp EXCEPT ![t] = result]
      /\ draft' = [draft EXCEPT ![t] = IF result = "ok" THEN @ ELSE NoDraft]
  BY DEF Respond
<1>2. NoDraft \in [id : Nat, created_at : Nat]
  BY DEF NoDraft
<1>3. req[t] \in Request /\ OpOf["done"] = Ops
  BY DEF TypeInv, ControlOK, OpOf, Labels
<1>4. ControlOK'
  BY <1>1, <1>3 DEF TypeInv, TypeOK, ControlOK, Request
<1> QED  BY <1>1, <1>2, <1>4 DEF TypeInv, TypeOK, Labels

LEMMA GotoControl ==
  ASSUME TypeInv, NEW t \in Threads, NEW label \in Labels,
         pc[t] # "idle", req[t].op \in OpOf[label], Goto(t, label)
  PROVE  /\ pc' \in [Threads -> Labels]
         /\ ControlOK'
  BY DEF TypeInv, TypeOK, ControlOK, Goto

LEMMA UnfollowUnknownAt ==
  ASSUME NEW t \in Threads, UnfollowUnknown(t)
  PROVE  pc[t] # "idle" /\ Answer(t, "unknown_user")
  BY DEF UnfollowUnknown, At

\* An answer that leaves the store and the counters alone.
LEMMA AnswerType ==
  ASSUME TypeInv, NEW t \in Threads, pc[t] # "idle",
         NEW result \in Results, Answer(t, result)
  PROVE  TypeInv'
<1>1. Respond(t, result)
  BY DEF Answer
<1>2. UNCHANGED <<storeVars, now, user_ids, tweet_ids, page>>
  BY DEF Answer
<1>3. StoreTypeOK'
  BY <1>2 DEF TypeInv, TypeOK, StoreTypeOK, storeVars
<1> QED  BY <1>1, <1>2, <1>3, RespondType DEF TypeInv, TypeOK

\* A write to the store, then the answer.
LEMMA WriteType ==
  ASSUME TypeInv, NEW t \in Threads, pc[t] # "idle",
         NEW result \in Results, Respond(t, result), StoreTypeOK',
         UNCHANGED <<now, user_ids, tweet_ids>>, DOMAIN page' = Threads
  PROVE  TypeInv'
  BY RespondType DEF TypeInv, TypeOK

\* A step to another label that may change the draft.
LEMMA MoveType ==
  ASSUME TypeInv, NEW t \in Threads, NEW label \in Labels,
         pc[t] # "idle", req[t].op \in OpOf[label], Goto(t, label),
         UNCHANGED <<storeVars, now>>, user_ids' \in Nat, tweet_ids' \in Nat,
         draft' \in [Threads -> [id : Nat, created_at : Nat]]
  PROVE  TypeInv'
<1>1. StoreTypeOK'
  BY DEF TypeInv, TypeOK, StoreTypeOK, storeVars
<1>2. UNCHANGED <<req, resp, page, began>>
  BY DEF Goto
<1> QED  BY <1>1, <1>2, GotoControl DEF TypeInv, TypeOK

LEMMA CallType ==
  ASSUME TypeInv, NEW t \in Threads, NEW r \in Request, Call(t, r)
  PROVE  TypeInv'
<1>1. StoreTypeOK'
  BY DEF TypeInv, TypeOK, StoreTypeOK, storeVars, Call
<1>2. StoredTweets \subseteq Tweet
  BY StoredTweetsType DEF TypeInv, TypeOK
<1>3. began' \in [Threads -> [time : Nat, tweets : SUBSET Tweet]]
  BY <1>2 DEF TypeInv, TypeOK, Call
<1>4. pc' \in [Threads -> Labels] /\ req' \in [Threads -> Request \cup {NoRequest}]
  BY DEF TypeInv, TypeOK, Call, Labels
<1>5. r.op \in OpOf["called"]
  BY DEF OpOf, Labels, Request
<1>6. ControlOK'
  BY <1>5 DEF TypeInv, TypeOK, ControlOK, Call
<1> QED  BY <1>1, <1>3, <1>4, <1>6 DEF TypeInv, TypeOK, Call

LEMMA ReturnType ==
  ASSUME TypeInv, NEW t \in Threads, Return(t)
  PROVE  TypeInv'
<1>1. StoreTypeOK'
  BY DEF TypeInv, TypeOK, StoreTypeOK, storeVars, Return
<1>2. NoDraft \in [id : Nat, created_at : Nat]
  BY DEF NoDraft
<1>3. NotBegun \in [time : Nat, tweets : SUBSET Tweet]
  BY DEF NotBegun
<1>4. pc' \in [Threads -> Labels]
  BY DEF TypeInv, TypeOK, Return, Labels
<1>5. ControlOK'
  BY DEF TypeInv, TypeOK, ControlOK, Return
<1> QED  BY <1>1, <1>2, <1>3, <1>4, <1>5 DEF TypeInv, TypeOK, Return

LEMMA StepType ==
  ASSUME TypeInv, NEW t \in Threads, Step(t)
  PROVE  TypeInv'
<1> USE DEF At
<1>0. /\ draft[t] \in [id : Nat, created_at : Nat]
      /\ pc[t] # "idle" => /\ req[t].who \in Handles
                           /\ req[t].whom \in Handles
                           /\ req[t].op \in OpOf[pc[t]]
  BY DEF TypeInv, TypeOK, ControlOK, Request
<1>1. CASE CreateUserBlank(t)
  BY <1>1, AnswerType DEF CreateUserBlank, Results
<1>2. CASE CreateUserNextId(t)
  <2>1. user_ids' \in Nat
    BY <1>2 DEF CreateUserNextId, UserIds!NextId, TypeInv, TypeOK
  <2>2. draft' \in [Threads -> [id : Nat, created_at : Nat]]
    BY <1>2, <2>1 DEF CreateUserNextId, TypeInv, TypeOK
  <2>3. "put_user" \in Labels /\ req[t].op \in OpOf["put_user"]
    BY <1>2 DEF CreateUserNextId, Labels, OpOf
  <2> QED  BY <1>2, <2>1, <2>2, <2>3, MoveType
           DEF CreateUserNextId, TypeInv, TypeOK
<1>3. CASE CreateUserPut(t)
  <2>1. PICK result \in Results :
          PutUser(req[t].who, draft[t].id, result) /\ Respond(t, result)
    BY <1>3 DEF CreateUserPut
  <2>2. pc[t] # "idle" /\ StoreTypeOK'
    BY <1>0, <1>3, <2>1, PutUserType DEF CreateUserPut, TypeInv, TypeOK
  <2> QED  BY <1>3, <2>1, <2>2, WriteType DEF CreateUserPut, TypeInv, TypeOK
<1>4. CASE HasUserRead(t)
  BY <1>4, AnswerType DEF HasUserRead, Results
<1>5. CASE FollowSelf(t)
  BY <1>5, AnswerType DEF FollowSelf, FollowNew, Results
<1>6. CASE FollowPut(t)
  <2>1. PICK result \in Results :
          PutFollow(req[t].who, req[t].whom, result) /\ Respond(t, result)
    BY <1>6 DEF FollowPut
  <2>2. pc[t] # "idle" /\ StoreTypeOK'
    BY <1>0, <1>6, <2>1, PutFollowType DEF FollowPut, TypeInv, TypeOK
  <2> QED  BY <1>6, <2>1, <2>2, WriteType DEF FollowPut, TypeInv, TypeOK
<1>7. CASE UnfollowUnknown(t)
  BY <1>7, UnfollowUnknownAt, AnswerType DEF Results
<1>8. CASE UnfollowFromKnown(t)
  <2>1. "unfollow_to" \in Labels /\ req[t].op \in OpOf["unfollow_to"]
    BY <1>8 DEF UnfollowFromKnown, Labels, OpOf
  <2> QED  BY <1>8, <2>1, MoveType DEF UnfollowFromKnown, TypeInv, TypeOK
<1>9. CASE UnfollowToKnown(t)
  <2>1. "delete_follow" \in Labels /\ req[t].op \in OpOf["delete_follow"]
    BY <1>0, <1>9 DEF UnfollowToKnown, Labels, OpOf
  <2> QED  BY <1>9, <2>1, MoveType DEF UnfollowToKnown, TypeInv, TypeOK
<1>10. CASE UnfollowDelete(t)
  <2>1. pc[t] # "idle" /\ StoreTypeOK'
    BY <1>0, <1>10, DeleteFollowType DEF UnfollowDelete, TypeInv, TypeOK
  <2> QED  BY <1>10, <2>1, WriteType DEF UnfollowDelete, TypeInv, TypeOK, Results
<1>11. CASE PostTweetBlank(t)
  BY <1>11, AnswerType DEF PostTweetBlank, Results
<1>12. CASE PostTweetUnknown(t)
  BY <1>12, AnswerType DEF PostTweetUnknown, Results
<1>13. CASE PostTweetKnown(t)
  <2>1. "next_id" \in Labels /\ req[t].op \in OpOf["next_id"]
    BY <1>13 DEF PostTweetKnown, Labels, OpOf
  <2> QED  BY <1>13, <2>1, MoveType DEF PostTweetKnown, TypeInv, TypeOK
<1>14. CASE PostTweetNextId(t)
  <2>1. tweet_ids' \in Nat
    BY <1>14 DEF PostTweetNextId, TweetIds!NextId, TypeInv, TypeOK
  <2>2. draft' \in [Threads -> [id : Nat, created_at : Nat]]
    BY <1>14, <2>1 DEF PostTweetNextId, TypeInv, TypeOK
  <2>3. "now" \in Labels /\ req[t].op \in OpOf["now"]
    BY <1>0, <1>14 DEF PostTweetNextId, Labels, OpOf
  <2> QED  BY <1>14, <2>1, <2>2, <2>3, MoveType
           DEF PostTweetNextId, TypeInv, TypeOK
<1>15. CASE PostTweetNow(t)
  <2>1. draft' \in [Threads -> [id : Nat, created_at : Nat]]
    BY <1>15 DEF PostTweetNow, Clock!Now, TypeInv, TypeOK
  <2>2. "put_tweet" \in Labels /\ req[t].op \in OpOf["put_tweet"]
    BY <1>0, <1>15 DEF PostTweetNow, Labels, OpOf
  <2> QED  BY <1>15, <2>1, <2>2, MoveType DEF PostTweetNow, TypeInv, TypeOK
<1>16. CASE PostTweetPut(t)
  <2>1. PICK result \in Results :
          PutTweet(TweetOf(t), result) /\ Respond(t, result)
    BY <1>16 DEF PostTweetPut
  <2>2. pc[t] # "idle" /\ TweetOf(t) \in Tweet
    BY <1>0, <1>16 DEF PostTweetPut, TweetOf, Tweet
  <2>3. StoreTypeOK'
    BY <2>1, <2>2, PutTweetType DEF TypeInv, TypeOK
  <2> QED  BY <1>16, <2>1, <2>2, <2>3, WriteType DEF PostTweetPut, TypeInv, TypeOK
<1>17. CASE HomeTimelineRead(t)
  <2>1. StoreTypeOK'
    BY <1>17 DEF HomeTimelineRead, TypeInv, TypeOK, StoreTypeOK, storeVars
  <2>2. DOMAIN page' = Threads
    BY <1>17 DEF HomeTimelineRead, TypeInv, TypeOK
  <2> QED  BY <1>17, <2>1, <2>2, WriteType DEF HomeTimelineRead, Results
<1> QED
  BY <1>1, <1>2, <1>3, <1>4, <1>5, <1>6, <1>7, <1>8, <1>9, <1>10, <1>11,
     <1>12, <1>13, <1>14, <1>15, <1>16, <1>17 DEF Step

LEMMA TickType == ASSUME TypeInv, Tick PROVE TypeInv'
<1>1. now' \in Nat
  BY DEF Tick, Clock!Tick, TypeInv, TypeOK
<1> QED  BY <1>1 DEF Tick, TypeInv, TypeOK, StoreTypeOK, ControlOK, storeVars,
                     threadVars

LEMMA StutterType == ASSUME TypeInv, UNCHANGED vars PROVE TypeInv'
  BY DEF TypeInv, TypeOK, StoreTypeOK, ControlOK, vars, threadVars

\* The proofs of a step do not depend on which requests clients make.
AnyNext ==
  \/ Tick
  \/ \E t \in Threads :
       (\E r \in Request : Call(t, r)) \/ Step(t) \/ Return(t)

LEMMA AnyRequest == Next => AnyNext
  BY ServiceAssumption DEF Next, AnyNext

LEMMA TypeStep == ASSUME TypeInv, [AnyNext]_vars PROVE TypeInv'
  BY TickType, CallType, StepType, ReturnType, StutterType DEF AnyNext

\* Every reachable state of the service is well typed, and the label of a
\* thread tells the method of its call.
THEOREM TypeCorrect == Spec => [](TypeOK /\ ControlOK)
  BY TypeInit, TypeStep, AnyRequest, PTL DEF Spec, TypeInv

-----------------------------------------------------------------------------
(* What a step leaves alone.                                               *)

\* The step of thread t touches the call of no other thread.
Local(t) ==
  \A u \in Threads \ {t} :
    /\ pc'[u] = pc[u] /\ req'[u] = req[u] /\ draft'[u] = draft[u]
    /\ resp'[u] = resp[u] /\ began'[u] = began[u]

LEMMA StepLocal ==
  ASSUME TypeInv, NEW t \in Threads, Step(t)
  PROVE  Local(t)
<1> USE DEF TypeInv, TypeOK
<1>1. CASE \E result : Respond(t, result)
  BY <1>1 DEF Respond, Local
<1>2. CASE \E label : Goto(t, label) /\ UNCHANGED draft
  BY <1>2 DEF Goto, Local
<1>3. CASE CreateUserNextId(t) \/ PostTweetNextId(t) \/ PostTweetNow(t)
  BY <1>3 DEF CreateUserNextId, PostTweetNextId, PostTweetNow, Goto, Local
<1> QED
  BY <1>1, <1>2, <1>3
     DEF Step, CreateUserBlank, CreateUserPut, HasUserRead, FollowSelf,
         FollowPut, UnfollowUnknown, UnfollowFromKnown, UnfollowToKnown,
         UnfollowDelete, PostTweetBlank, PostTweetUnknown, PostTweetKnown,
         PostTweetPut, HomeTimelineRead, Answer

\* Every step of a thread is one of five that draw an id, read the clock or
\* write the store, or leaves all of that alone and draws nothing.
Reads(t) ==
  /\ UNCHANGED <<storeVars, now, user_ids, tweet_ids>>
  /\ req' = req
  /\ pc'[t] \notin {"put_user", "now", "put_tweet"}
  /\ pc'[t] = "done" => draft'[t] = draft[t] \/ resp'[t] # "ok"

LEMMA StepKinds ==
  ASSUME TypeInv, NEW t \in Threads, Step(t)
  PROVE  \/ CreateUserNextId(t) \/ CreateUserPut(t) \/ FollowPut(t)
         \/ UnfollowDelete(t) \/ PostTweetNextId(t) \/ PostTweetNow(t)
         \/ PostTweetPut(t) \/ Reads(t)
<1> USE DEF TypeInv, TypeOK
<1>1. ASSUME NEW result, Answer(t, result) PROVE Reads(t)
  BY <1>1 DEF Answer, Respond, Reads
<1>2. CASE UnfollowFromKnown(t) \/ UnfollowToKnown(t) \/ PostTweetKnown(t)
  BY <1>2 DEF UnfollowFromKnown, UnfollowToKnown, PostTweetKnown, Goto, Reads,
              At
<1>3. CASE HomeTimelineRead(t)
  BY <1>3 DEF HomeTimelineRead, Respond, Reads
<1> QED
  BY <1>1, <1>2, <1>3
     DEF Step, CreateUserBlank, HasUserRead, FollowSelf, UnfollowUnknown,
         PostTweetBlank, PostTweetUnknown

LEMMA SlotsAre ==
  \A s : s \in Slots(Handles) <=>
           \E a \in Handles : \E i \in DOMAIN by_author[a] : s = <<a, i>>
  BY DEF Slots

\* Appending a tweet adds one slot, past the end of its author's list.
LEMMA PutTweetSlots ==
  ASSUME StoreTypeOK, NEW w \in Tweet, NEW new,
         new = <<w.author, Len(by_author[w.author]) + 1>>,
         by_author' = [by_author EXCEPT ![w.author] = Append(@, w)]
  PROVE  /\ new \in Slots(Handles)' /\ TweetAt(new)' = w
         /\ \A s \in Slots(Handles) :
              s \in Slots(Handles)' /\ TweetAt(s)' = TweetAt(s)
         /\ \A s \in Slots(Handles)' : s \in Slots(Handles) \/ s = new
<1> DEFINE a == w.author
<1>1. a \in Handles /\ by_author[a] \in Seq(Tweet)
  BY DEF StoreTypeOK, Tweet
<1>2. /\ by_author'[a] = Append(by_author[a], w)
      /\ \A b \in Handles \ {a} : by_author'[b] = by_author[b]
  BY <1>1 DEF StoreTypeOK
<1>3. /\ DOMAIN by_author[a] = 1..Len(by_author[a])
      /\ DOMAIN by_author'[a] = 1..(Len(by_author[a]) + 1)
      /\ by_author'[a][Len(by_author[a]) + 1] = w
      /\ \A i \in DOMAIN by_author[a] : by_author'[a][i] = by_author[a][i]
  BY <1>1, <1>2
<1>4. Len(by_author[a]) \in Nat
  BY <1>1
<1>5. \A s : s \in Slots(Handles)' <=>
           \E b \in Handles : \E i \in DOMAIN by_author'[b] : s = <<b, i>>
  BY DEF Slots
<1>6. new \in Slots(Handles)' /\ TweetAt(new)' = w
  BY <1>1, <1>3, <1>4, <1>5 DEF TweetAt
<1>7. ASSUME NEW s \in Slots(Handles)
      PROVE  s \in Slots(Handles)' /\ TweetAt(s)' = TweetAt(s)
  <2>1. PICK b \in Handles : \E i \in DOMAIN by_author[b] : s = <<b, i>>
    BY SlotsAre
  <2> PICK i \in DOMAIN by_author[b] : s = <<b, i>>
    BY <2>1
  <2>2. i \in DOMAIN by_author'[b] /\ by_author'[b][i] = by_author[b][i]
    BY <1>2, <1>3, <1>4
  <2> QED  BY <1>5, <2>2 DEF TweetAt
<1>8. ASSUME NEW s \in Slots(Handles)'
      PROVE  s \in Slots(Handles) \/ s = new
  <2>1. PICK b \in Handles : \E i \in DOMAIN by_author'[b] : s = <<b, i>>
    BY <1>5
  <2> PICK i \in DOMAIN by_author'[b] : s = <<b, i>>
    BY <2>1
  <2>2. i \in DOMAIN by_author[b] \/ (b = a /\ i = Len(by_author[a]) + 1)
    BY <1>2, <1>3, <1>4
  <2> QED  BY <2>2, SlotsAre
<1> QED  BY <1>6, <1>7, <1>8

-----------------------------------------------------------------------------
(* F8: unique ids.                                                         *)

\* A thread that moves as Local says changes the set of threads that hold an
\* id only by joining or leaving it.
LEMMA DrawnLocal ==
  ASSUME TypeInv, NEW t \in Threads, Local(t), NEW op, NEW u \in Threads \ {t}
  PROVE  /\ u \in Drawn(op)' <=> u \in Drawn(op)
         /\ draft'[u] = draft[u]
  BY DEF Drawn, Local

LEMMA DrawnDone ==
  ASSUME TypeInv, NEW t \in Threads, Local(t), pc'[t] = "done", NEW op,
         NEW u \in Drawn(op)'
  PROVE  u \in Drawn(op) /\ u # t /\ draft'[u].id = draft[u].id
<1>1. u \in Threads /\ u # t
  BY DEF Drawn
<1> QED  BY <1>1, DrawnLocal

LEMMA TweetIdsKept ==
  ASSUME TypeInv, UniqueTweetIds, NEW t \in Threads, Local(t),
         UNCHANGED <<by_author, tweet_ids>>,
         t \in Drawn("post_tweet")' =>
           t \in Drawn("post_tweet") /\ draft'[t].id = draft[t].id
  PROVE  UniqueTweetIds'
<1>1. \A u \in Drawn("post_tweet")' :
        u \in Drawn("post_tweet") /\ draft'[u].id = draft[u].id
  BY DrawnLocal DEF Drawn
<1>2. /\ TweetSlots' = TweetSlots
      /\ \A s \in TweetSlots : TweetAt(s)' = TweetAt(s)
  BY DEF TweetSlots, Slots, TweetAt
<1> QED  BY <1>1, <1>2 DEF UniqueTweetIds

LEMMA TweetIdDrawn ==
  ASSUME TypeInv, UniqueTweetIds, NEW t \in Threads, Local(t),
         PostTweetNextId(t)
  PROVE  UniqueTweetIds'
<1>1. /\ tweet_ids' = tweet_ids + 1 /\ tweet_ids \in Nat
      /\ draft'[t].id = tweet_ids + 1 /\ by_author' = by_author
  BY DEF PostTweetNextId, TweetIds!NextId, TypeInv, TypeOK, storeVars
<1>2. \A u \in Drawn("post_tweet")' :
        u # t => u \in Drawn("post_tweet") /\ draft'[u].id = draft[u].id
  BY DrawnLocal DEF Drawn
<1>3. /\ TweetSlots' = TweetSlots
      /\ \A s \in TweetSlots : TweetAt(s)' = TweetAt(s)
  BY <1>1 DEF TweetSlots, Slots, TweetAt
<1> QED  BY <1>1, <1>2, <1>3 DEF UniqueTweetIds

LEMMA TweetIdStored ==
  ASSUME TypeInv, UniqueTweetIds, NEW t \in Threads, Local(t), PostTweetPut(t)
  PROVE  UniqueTweetIds'
<1>1. PICK result \in Results :
        PutTweet(TweetOf(t), result) /\ Respond(t, result)
  BY DEF PostTweetPut
<1>2. /\ pc'[t] = "done" /\ tweet_ids' = tweet_ids /\ t \in Drawn("post_tweet")
      /\ TweetOf(t) \in Tweet
  BY <1>1 DEF PostTweetPut, Respond, Drawn, TypeInv, TypeOK, ControlOK, OpOf,
              Labels, Request, TweetOf, Tweet
<1>3. CASE UNCHANGED storeVars
  BY <1>2, <1>3, TweetIdsKept DEF storeVars, Drawn
<1>4. CASE by_author' = [by_author EXCEPT ![TweetOf(t).author] =
                           Append(@, TweetOf(t))]
  <2> DEFINE new == <<TweetOf(t).author, Len(by_author[TweetOf(t).author]) + 1>>
  <2>1. PICK n : n = new
    OBVIOUS
  <2>2. /\ n \in TweetSlots' /\ TweetAt(n)' = TweetOf(t)
        /\ \A s \in TweetSlots : s \in TweetSlots' /\ TweetAt(s)' = TweetAt(s)
        /\ \A s \in TweetSlots' : s \in TweetSlots \/ s = n
    <3>1. StoreTypeOK
      BY DEF TypeInv, TypeOK
    <3>2. PICK w \in Tweet : w = TweetOf(t)
      BY <1>2
    <3>3. /\ n \in Slots(Handles)' /\ TweetAt(n)' = w
          /\ \A s \in Slots(Handles) :
               s \in Slots(Handles)' /\ TweetAt(s)' = TweetAt(s)
          /\ \A s \in Slots(Handles)' : s \in Slots(Handles) \/ s = n
      BY <1>4, <2>1, <3>1, <3>2, PutTweetSlots
    <3> QED  BY <3>2, <3>3 DEF TweetSlots
  <2>3. TweetOf(t).id = draft[t].id
    BY DEF TweetOf
  <2>4. \A u \in Drawn("post_tweet")' :
          /\ u \in Drawn("post_tweet") /\ u # t
          /\ draft'[u].id = draft[u].id
    BY <1>2, DrawnDone
  <2> HIDE DEF new
  <2>5. \A r, s \in TweetSlots' : TweetAt(r)'.id = TweetAt(s)'.id => r = s
    BY <1>2, <2>2, <2>3 DEF UniqueTweetIds
  <2>6. \A s \in TweetSlots' : TweetAt(s)'.id \in 1..tweet_ids'
    BY <1>2, <2>2, <2>3 DEF UniqueTweetIds
  <2>7. \A u \in Drawn("post_tweet")' : \A s \in TweetSlots' :
          TweetAt(s)'.id # draft'[u].id
    BY <1>2, <2>2, <2>3, <2>4 DEF UniqueTweetIds
  <2>8. /\ \A u, v \in Drawn("post_tweet")' : draft'[u].id = draft'[v].id => u = v
        /\ \A u \in Drawn("post_tweet")' : draft'[u].id \in 1..tweet_ids'
    BY <1>2, <2>4 DEF UniqueTweetIds
  <2> QED  BY <2>5, <2>6, <2>7, <2>8 DEF UniqueTweetIds
<1> QED  BY <1>1, <1>3, <1>4 DEF PutTweet

LEMMA TweetIdsStep ==
  ASSUME TypeInv, UniqueTweetIds, [AnyNext]_vars PROVE UniqueTweetIds'
<1>1. CASE UNCHANGED vars \/ Tick
  <2>1. /\ by_author' = by_author /\ tweet_ids' = tweet_ids
        /\ pc' = pc /\ req' = req /\ draft' = draft
    BY <1>1 DEF vars, Tick, threadVars, storeVars
  <2>2. Drawn("post_tweet")' = Drawn("post_tweet")
    BY <2>1 DEF Drawn
  <2>3. TweetSlots' = TweetSlots /\ \A s : TweetAt(s)' = TweetAt(s)
    BY <2>1 DEF TweetSlots, Slots, TweetAt
  <2> QED  BY <2>1, <2>2, <2>3 DEF UniqueTweetIds
<1>2. ASSUME NEW t \in Threads, Step(t) PROVE UniqueTweetIds'
  <2>1. Local(t)
    BY <1>2, StepLocal
  <2>2. CASE Reads(t) \/ CreateUserNextId(t) \/ CreateUserPut(t)
             \/ FollowPut(t) \/ UnfollowDelete(t) \/ PostTweetNow(t)
    <3>1. UNCHANGED <<by_author, tweet_ids>>
      BY <2>2 DEF Reads, CreateUserNextId, CreateUserPut, FollowPut,
                  UnfollowDelete, PostTweetNow, PutUser, PutFollow,
                  DeleteFollow, storeVars
    <3>2. t \in Drawn("post_tweet")' =>
            t \in Drawn("post_tweet") /\ draft'[t].id = draft[t].id
      <4>1. CASE PostTweetNow(t)
        BY <4>1 DEF PostTweetNow, Goto, Drawn, TypeInv, TypeOK
      <4>2. CASE CreateUserNextId(t)
        BY <4>2 DEF CreateUserNextId, Goto, Drawn, At, TypeInv, TypeOK
      <4>3. CASE Reads(t)
        BY <4>3 DEF Reads, Drawn
      <4>4. CASE \E result : Respond(t, result)
        BY <4>4 DEF Respond, Drawn, TypeInv, TypeOK
      <4> QED  BY <2>2, <4>1, <4>2, <4>3, <4>4
               DEF CreateUserPut, FollowPut, UnfollowDelete
    <3> QED  BY <2>1, <3>1, <3>2, TweetIdsKept
  <2> QED  BY <1>2, <2>1, <2>2, StepKinds, TweetIdDrawn, TweetIdStored
<1>3. ASSUME NEW t \in Threads,
             Return(t) \/ \E r \in Request : Call(t, r)
      PROVE  UniqueTweetIds'
  <2>1. /\ Local(t) /\ UNCHANGED <<by_author, tweet_ids>>
        /\ pc'[t] \in {"idle", "called"}
    BY <1>3 DEF Return, Call, Local, storeVars, TypeInv, TypeOK
  <2> QED  BY <2>1, TweetIdsKept DEF Drawn
<1> QED  BY <1>1, <1>2, <1>3 DEF AnyNext

\* F8: tweet ids are unique over all authors and all posts under way, and the
\* generator is past them all, however the posts interleave.
THEOREM TweetIdsUnique == Spec => []UniqueTweetIds
<1>1. Init => UniqueTweetIds
  <2>1. ASSUME Init PROVE TweetSlots = {} /\ Drawn("post_tweet") = {}
    BY <2>1 DEF Init, StoreInit, TweetSlots, Slots, Drawn
  <2> QED  BY <2>1 DEF UniqueTweetIds
<1>2. Spec => []TypeInv
  BY TypeCorrect, PTL DEF TypeInv
<1> QED  BY <1>1, <1>2, TweetIdsStep, AnyRequest, PTL DEF Spec

-----------------------------------------------------------------------------
(* The same for users.                                                     *)

LEMMA UserIdsKept ==
  ASSUME TypeInv, UniqueUserIds, NEW t \in Threads, Local(t),
         UNCHANGED <<users, user_ids>>,
         t \in Drawn("create_user")' =>
           t \in Drawn("create_user") /\ draft'[t].id = draft[t].id
  PROVE  UniqueUserIds'
<1>1. \A u \in Drawn("create_user")' :
        u \in Drawn("create_user") /\ draft'[u].id = draft[u].id
  BY DrawnLocal DEF Drawn
<1> QED  BY <1>1 DEF UniqueUserIds, HasUser

LEMMA UserIdDrawn ==
  ASSUME TypeInv, UniqueUserIds, NEW t \in Threads, Local(t),
         CreateUserNextId(t)
  PROVE  UniqueUserIds'
<1>1. /\ user_ids' = user_ids + 1 /\ user_ids \in Nat
      /\ draft'[t].id = user_ids + 1 /\ users' = users
      /\ users \in [Handles -> Nat]
  BY DEF CreateUserNextId, UserIds!NextId, TypeInv, TypeOK, StoreTypeOK,
         storeVars
<1>2. \A u \in Drawn("create_user")' :
        u # t => u \in Drawn("create_user") /\ draft'[u].id = draft[u].id
  BY DrawnLocal DEF Drawn
<1> QED  BY <1>1, <1>2 DEF UniqueUserIds, HasUser

LEMMA UserIdStored ==
  ASSUME TypeInv, UniqueUserIds, NEW t \in Threads, Local(t), CreateUserPut(t)
  PROVE  UniqueUserIds'
<1>1. PICK result \in Results :
        PutUser(req[t].who, draft[t].id, result) /\ Respond(t, result)
  BY DEF CreateUserPut
<1>2. /\ pc'[t] = "done" /\ user_ids' = user_ids /\ t \in Drawn("create_user")
      /\ req[t].who \in Handles /\ draft[t].id \in Nat
      /\ users \in [Handles -> Nat]
  BY <1>1 DEF CreateUserPut, Respond, Drawn, TypeInv, TypeOK, StoreTypeOK,
              ControlOK, OpOf, Labels, Request
<1>3. CASE UNCHANGED storeVars
  BY <1>2, <1>3, UserIdsKept DEF storeVars, Drawn
<1>4. CASE users' = [users EXCEPT ![req[t].who] = draft[t].id]
  <2>1. \A u \in Drawn("create_user")' :
          /\ u \in Drawn("create_user") /\ u # t
          /\ draft'[u].id = draft[u].id
    BY <1>2, DrawnDone
  <2> QED  BY <1>2, <1>4, <2>1 DEF UniqueUserIds, HasUser, NoUser
<1> QED  BY <1>1, <1>3, <1>4 DEF PutUser

LEMMA UserIdsStep ==
  ASSUME TypeInv, UniqueUserIds, [AnyNext]_vars PROVE UniqueUserIds'
<1>1. CASE UNCHANGED vars \/ Tick
  BY <1>1 DEF vars, Tick, threadVars, storeVars, UniqueUserIds, HasUser,
              Drawn
<1>2. ASSUME NEW t \in Threads, Step(t) PROVE UniqueUserIds'
  <2>1. Local(t)
    BY <1>2, StepLocal
  <2>2. CASE Reads(t) \/ FollowPut(t) \/ UnfollowDelete(t)
             \/ PostTweetNextId(t) \/ PostTweetNow(t) \/ PostTweetPut(t)
    <3>1. UNCHANGED <<users, user_ids>>
      BY <2>2 DEF Reads, FollowPut, UnfollowDelete, PostTweetNextId,
                  PostTweetNow, PostTweetPut, PutFollow, DeleteFollow,
                  PutTweet, storeVars
    <3>2. t \notin Drawn("create_user")'
      <4>1. CASE PostTweetNow(t) \/ PostTweetNextId(t)
        BY <4>1 DEF PostTweetNow, PostTweetNextId, Goto, Drawn, TypeInv,
                    TypeOK, ControlOK, OpOf, Labels
      <4>2. CASE Reads(t)
        BY <4>2 DEF Reads, Drawn
      <4>3. CASE \E result : Respond(t, result)
        BY <4>3 DEF Respond, Drawn, TypeInv, TypeOK
      <4> QED  BY <2>2, <4>1, <4>2, <4>3
               DEF FollowPut, UnfollowDelete, PostTweetPut
    <3> QED  BY <2>1, <3>1, <3>2, UserIdsKept
  <2> QED  BY <1>2, <2>1, <2>2, StepKinds, UserIdDrawn, UserIdStored
<1>3. ASSUME NEW t \in Threads,
             Return(t) \/ \E r \in Request : Call(t, r)
      PROVE  UniqueUserIds'
  <2>1. /\ Local(t) /\ UNCHANGED <<users, user_ids>>
        /\ pc'[t] \in {"idle", "called"}
    BY <1>3 DEF Return, Call, Local, storeVars, TypeInv, TypeOK
  <2> QED  BY <2>1, UserIdsKept DEF Drawn
<1> QED  BY <1>1, <1>2, <1>3 DEF AnyNext

\* Of any number of racing create_user calls, no two handles end up with one
\* id, and no id that waits to be stored is that of a stored user.
THEOREM UserIdsUnique == Spec => []UniqueUserIds
<1>1. Init => UniqueUserIds
  BY DEF Init, StoreInit, UserIds!Init, UniqueUserIds, HasUser, NoUser, Drawn
<1>2. Spec => []TypeInv
  BY TypeCorrect, PTL DEF TypeInv
<1> QED  BY <1>1, <1>2, UserIdsStep, AnyRequest, PTL DEF Spec

-----------------------------------------------------------------------------
(* F4, F6, F9: references.                                                 *)

LEMMA OrphansKept ==
  ASSUME NoOrphans, UNCHANGED storeVars PROVE NoOrphans'
  BY DEF NoOrphans, storeVars, HasUser, TweetSlots, Slots, TweetAt

LEMMA OrphansPutUser ==
  ASSUME StoreTypeOK, NoOrphans, NEW h \in Handles, NEW id, NEW result,
         PutUser(h, id, result)
  PROVE  NoOrphans'
<1>1. CASE UNCHANGED storeVars
  BY <1>1, OrphansKept
<1>2. CASE /\ ~HasUser(h) /\ users' = [users EXCEPT ![h] = id]
           /\ UNCHANGED <<follows, by_author>>
  <2>1. \A g \in Handles : HasUser(g) => HasUser(g)'
    BY <1>2 DEF StoreTypeOK, HasUser
  <2>2. /\ TweetSlots' = TweetSlots
        /\ \A s \in TweetSlots : TweetAt(s)' = TweetAt(s) /\ s[1] \in Handles
    BY <1>2, SlotsAre DEF TweetSlots, Slots, TweetAt
  <2> QED  BY <1>2, <2>1, <2>2 DEF NoOrphans, StoreTypeOK
<1> QED  BY <1>1, <1>2 DEF PutUser

LEMMA OrphansFollow ==
  ASSUME StoreTypeOK, NoOrphans, NEW f \in Handles, NEW g \in Handles,
         \/ DeleteFollow(f, g)
         \/ f # g /\ \E result : PutFollow(f, g, result)
  PROVE  NoOrphans'
<1>1. CASE UNCHANGED storeVars
  BY <1>1, OrphansKept
<1>2. CASE \/ follows' = [follows EXCEPT ![f] = @ \ {g}]
           \/ /\ f # g /\ HasUser(f) /\ HasUser(g)
              /\ follows' = [follows EXCEPT ![f] = @ \cup {g}]
  <2>1. UNCHANGED <<users, by_author>>
    BY DEF DeleteFollow, PutFollow, storeVars
  <2>2. /\ \A h \in Handles \ {f} : follows'[h] = follows[h]
        /\ \/ follows'[f] = follows[f] \ {g}
           \/ /\ f # g /\ HasUser(f) /\ HasUser(g)
              /\ follows'[f] = follows[f] \cup {g}
    BY <1>2 DEF StoreTypeOK
  <2>3. \A h \in Handles : \A k \in follows'[h] :
          k \in follows[h] \/ (h # k /\ HasUser(h) /\ HasUser(k))
    BY <2>2
  <2> QED  BY <2>1, <2>2, <2>3
           DEF NoOrphans, HasUser, TweetSlots, Slots, TweetAt
<1> QED  BY <1>1, <1>2 DEF DeleteFollow, PutFollow

LEMMA OrphansPutTweet ==
  ASSUME StoreTypeOK, NoOrphans, NEW w \in Tweet, NEW result,
         PutTweet(w, result)
  PROVE  NoOrphans'
<1>1. CASE UNCHANGED storeVars
  BY <1>1, OrphansKept
<1>2. CASE /\ HasUser(w.author)
           /\ by_author' = [by_author EXCEPT ![w.author] = Append(@, w)]
           /\ UNCHANGED <<users, follows>>
  <2> DEFINE new == <<w.author, Len(by_author[w.author]) + 1>>
  <2>1. PICK n : n = new
    OBVIOUS
  <2>2. /\ TweetAt(n)' = w
        /\ \A s \in TweetSlots : TweetAt(s)' = TweetAt(s)
        /\ \A s \in TweetSlots' : s \in TweetSlots \/ s = n
    BY <1>2, <2>1, PutTweetSlots DEF TweetSlots
  <2> QED  BY <1>2, <2>1, <2>2 DEF NoOrphans, HasUser
<1> QED  BY <1>1, <1>2 DEF PutTweet

\* One step of the service, from any well-typed state, keeps the references.
LEMMA OrphansStep ==
  ASSUME TypeInv, NoOrphans, [AnyNext]_vars PROVE NoOrphans'
<1>1. CASE UNCHANGED storeVars
  BY <1>1, OrphansKept
<1>2. ASSUME NEW t \in Threads, Step(t) PROVE NoOrphans'
  <2>1. /\ StoreTypeOK
        /\ pc[t] # "idle" => req[t].who \in Handles /\ req[t].whom \in Handles
    BY DEF TypeInv, TypeOK, ControlOK, Request
  <2>2. CASE CreateUserPut(t)
    BY <2>1, <2>2, OrphansPutUser DEF CreateUserPut
  <2>3. CASE FollowPut(t)
    BY <2>1, <2>3, OrphansFollow DEF FollowPut, FollowNew, At
  <2>4. CASE UnfollowDelete(t)
    BY <2>1, <2>4, OrphansFollow DEF UnfollowDelete
  <2>5. CASE PostTweetPut(t)
    <3>1. TweetOf(t) \in Tweet
      BY <2>1, <2>5 DEF PostTweetPut, TweetOf, Tweet, TypeInv, TypeOK
    <3> QED  BY <2>1, <2>5, <3>1, OrphansPutTweet DEF PostTweetPut
  <2>6. CASE CreateUserNextId(t) \/ PostTweetNextId(t) \/ PostTweetNow(t)
             \/ Reads(t)
    BY <1>1, <2>6 DEF CreateUserNextId, PostTweetNextId, PostTweetNow, Reads
  <2> QED  BY <1>2, <2>2, <2>3, <2>4, <2>5, <2>6, StepKinds
<1> QED  BY <1>1, <1>2 DEF AnyNext, Tick, Call, Return, vars, storeVars

\* F4, F6 and F9 in every reachable state: the checks that put_follow and
\* put_tweet make under the write lock suffice, with no help from has_user.
THEOREM References == Spec => []NoOrphans
<1>1. Init => NoOrphans
  BY DEF Init, StoreInit, NoOrphans, TweetSlots, Slots
<1>2. Spec => []TypeInv
  BY TypeCorrect, PTL DEF TypeInv
<1> QED  BY <1>1, <1>2, OrphansStep, AnyRequest, PTL DEF Spec

-----------------------------------------------------------------------------
(* Sorting.  Arrange picks for place k the element that k - 1 others come  *)
(* before; what has to be shown is that there is one.                      *)

\* pred[x] is the set of elements before x, in a strict total order on S.
Ordered(S, pred) ==
  /\ pred \in [S -> SUBSET S]
  /\ \A x \in S : x \notin pred[x]
  /\ \A x, y \in S : y \in pred[x] => pred[y] \subseteq pred[x]
  /\ \A x, y \in S : x # y => x \in pred[y] \/ y \in pred[x]

\* An element has fewer elements before it than those it comes before.
LEMMA Places ==
  ASSUME NEW S, IsFiniteSet(S), NEW pred, Ordered(S, pred)
  PROVE  /\ \A x \in S : Cardinality(pred[x]) \in 0..(Cardinality(S) - 1)
         /\ \A x, y \in S :
              y \in pred[x] => Cardinality(pred[y]) < Cardinality(pred[x])
<1> USE DEF Ordered
<1>1. ASSUME NEW x \in S
      PROVE  /\ IsFiniteSet(pred[x])
             /\ Cardinality(pred[x]) \in 0..(Cardinality(S) - 1)
  <2>1. pred[x] \in SUBSET S /\ pred[x] # S
    OBVIOUS
  <2>2. /\ IsFiniteSet(pred[x]) /\ Cardinality(pred[x]) <= Cardinality(S)
        /\ Cardinality(S) = Cardinality(pred[x]) => S = pred[x]
    BY <2>1, FS_Subset
  <2>3. Cardinality(pred[x]) \in Nat /\ Cardinality(S) \in Nat
    BY <2>2, FS_CardinalityType
  <2> QED  BY <2>1, <2>2, <2>3
<1>2. ASSUME NEW x \in S, NEW y \in S, y \in pred[x]
      PROVE  Cardinality(pred[y]) < Cardinality(pred[x])
  <2>1. pred[y] \in SUBSET pred[x] /\ pred[y] # pred[x]
    BY <1>2
  <2>2. IsFiniteSet(pred[x])
    BY <1>1
  <2>3. /\ Cardinality(pred[y]) <= Cardinality(pred[x])
        /\ Cardinality(pred[x]) = Cardinality(pred[y]) => pred[x] = pred[y]
    BY <2>1, <2>2, FS_Subset
  <2>4. Cardinality(pred[y]) \in Int /\ Cardinality(pred[x]) \in Int
    BY <1>1
  <2> QED  BY <2>1, <2>3, <2>4
<1> QED  BY <1>1, <1>2

\* Every number below |S| is the number of elements before one of S.
LEMMA EveryPlaceTaken ==
  ASSUME NEW S, IsFiniteSet(S), NEW pred, Ordered(S, pred)
  PROVE  /\ Cardinality(S) \in Nat
         /\ \A k \in 1..Cardinality(S) :
              \E x \in S : Cardinality(pred[x]) = k - 1
<1> DEFINE n == Cardinality(S)
           place == [x \in S |-> Cardinality(pred[x])]
<1>1. n \in Nat
  BY FS_CardinalityType
<1>2. /\ \A x \in S : Cardinality(pred[x]) \in 0..(n - 1)
      /\ \A x, y \in S :
           y \in pred[x] => Cardinality(pred[y]) < Cardinality(pred[x])
  BY Places
<1>3. \A x, y \in S : x # y => place[x] # place[y]
  BY <1>1, <1>2 DEF Ordered
<1>4. place \in Injection(S, 0..(n - 1))
  BY <1>2, <1>3 DEF Injection, IsInjective
<1>5. IsFiniteSet(0..(n - 1)) /\ Cardinality(0..(n - 1)) = n
  <2>1. 0 \in Int /\ n - 1 \in Int
    BY <1>1
  <2> HIDE DEF n
  <2>2. /\ IsFiniteSet(0..(n - 1))
        /\ Cardinality(0..(n - 1)) = IF 0 > n - 1 THEN 0 ELSE (n - 1) - 0 + 1
    BY <2>1, FS_Interval
  <2> QED  BY <1>1, <2>2
<1>6. place \in Surjection(S, 0..(n - 1))
  BY <1>4, <1>5, FS_Injection
<1>7. ASSUME NEW k \in 1..n PROVE \E x \in S : Cardinality(pred[x]) = k - 1
  <2>1. k - 1 \in 0..(n - 1)
    BY <1>1
  <2> QED  BY <1>6, <2>1 DEF Surjection
<1> QED  BY <1>1, <1>7

\* So the list that has them at their places has all of them, in order.
LEMMA InOrder ==
  ASSUME NEW S, IsFiniteSet(S), NEW pred, Ordered(S, pred), NEW order,
         \A k \in 1..Cardinality(S) :
           order[k] \in S /\ Cardinality(pred[order[k]]) = k - 1
  PROVE  /\ \A x \in S : \E k \in 1..Cardinality(S) : order[k] = x
         /\ \A i, j \in 1..Cardinality(S) : i < j => order[i] \in pred[order[j]]
<1> DEFINE n == Cardinality(S)
<1>1. n \in Nat
  BY FS_CardinalityType
<1>2. /\ \A x \in S : Cardinality(pred[x]) \in 0..(n - 1)
      /\ \A x, y \in S :
           y \in pred[x] => Cardinality(pred[y]) < Cardinality(pred[x])
  BY Places
<1>3. ASSUME NEW x \in S PROVE \E k \in 1..n : order[k] = x
  <2> DEFINE k == Cardinality(pred[x]) + 1
  <2>1. k \in 1..n /\ k - 1 = Cardinality(pred[x])
    BY <1>1, <1>2
  <2> HIDE DEF k
  <2>2. order[k] \in S /\ Cardinality(pred[order[k]]) = Cardinality(pred[x])
    BY <2>1
  <2>3. order[k] = x
    BY <1>2, <2>2 DEF Ordered
  <2> QED  BY <2>1, <2>3
<1>4. ASSUME NEW i \in 1..n, NEW j \in 1..n, i < j
      PROVE  order[i] \in pred[order[j]]
  <2>1. /\ order[i] \in S /\ Cardinality(pred[order[i]]) = i - 1
        /\ order[j] \in S /\ Cardinality(pred[order[j]]) = j - 1
    OBVIOUS
  <2>2. ~(Cardinality(pred[order[j]]) < Cardinality(pred[order[i]]))
    BY <1>4, <2>1
  <2>3. order[i] # order[j] /\ order[j] \notin pred[order[i]]
    BY <1>2, <1>4, <2>1, <2>2
  <2> QED  BY <2>1, <2>3 DEF Ordered
<1> QED  BY <1>3, <1>4

-----------------------------------------------------------------------------
(* What the store sorts.                                                   *)

LEMMA SlotsFinite == ASSUME StoreTypeOK PROVE IsFiniteSet(Slots(Handles))
<1> DEFINE Of(a) == {<<a, i>> : i \in DOMAIN by_author[a]}
           lists == {Of(a) : a \in Handles}
<1>1. ASSUME NEW a \in Handles PROVE IsFiniteSet(Of(a))
  <2>1. PICK n \in Nat : DOMAIN by_author[a] = 1..n
    BY DEF StoreTypeOK
  <2> DEFINE f == [i \in 1..n |-> <<a, i>>]
  <2>2. f \in Surjection(1..n, Of(a))
    BY <2>1 DEF Surjection
  <2>3. IsFiniteSet(1..n)
    BY FS_Interval
  <2> QED  BY <2>2, <2>3, FS_Surjection
<1>2. IsFiniteSet(lists)
  <2> DEFINE f == [a \in Handles |-> Of(a)]
  <2>1. f \in Surjection(Handles, lists)
    BY DEF Surjection
  <2> QED  BY <2>1, HandlesAssumption, FS_Surjection
<1>3. \A T \in lists : IsFiniteSet(T)
  BY <1>1
<1>4. IsFiniteSet(UNION lists)
  <2> HIDE DEF lists
  <2> QED  BY <1>2, <1>3, FS_UNION
<1> QED  BY <1>4 DEF Slots

LEMMA SlotType ==
  ASSUME StoreTypeOK, NEW s \in Slots(Handles)
  PROVE  /\ s = <<s[1], s[2]>> /\ s[1] \in Handles /\ s[2] \in Nat
         /\ s[2] \in DOMAIN by_author[s[1]]
         /\ TweetAt(s) \in Tweet /\ TweetAt(s).id \in Nat
<1>1. PICK a \in Handles : \E i \in DOMAIN by_author[a] : s = <<a, i>>
  BY SlotsAre
<1>2. PICK i \in DOMAIN by_author[a] : s = <<a, i>>
  BY <1>1
<1>3. i \in Nat /\ by_author[a][i] \in Tweet
  BY DEF StoreTypeOK
<1> QED  BY <1>2, <1>3 DEF TweetAt, Tweet

LEMMA IterationOrder ==
  ASSUME NEW S \in SUBSET Handles, NEW iteration \in Iterations(S)
  PROVE  /\ \A h \in S : iteration[h] \in Nat
         /\ \A h, g \in S : iteration[h] = iteration[g] => h = g
<1>1. Cardinality(S) \in Nat
  BY HandlesAssumption, FS_Subset, FS_CardinalityType
<1> QED  BY <1>1 DEF Iterations

\* The list has the tweets of the authors, each once, none before a newer one.
Collects(list, authors, n, order) ==
  /\ n \in Nat /\ order \in [1..n -> Slots(authors)]
  /\ list = [k \in 1..n |-> TweetAt(order[k])]
  /\ \A s \in Slots(authors) : \E k \in 1..n : order[k] = s
  /\ \A i, j \in 1..n : i < j =>
       order[i] # order[j] /\ ~Newer(TweetAt(order[j]), TweetAt(order[i]))

LEMMA Collected ==
  ASSUME StoreTypeOK, NEW authors \in SUBSET Handles,
         NEW iteration \in Iterations(authors)
  PROVE  \E n, order :
           Collects(Sorted(authors, iteration, Newer), authors, n, order)
<1> DEFINE S == Slots(authors)
           Earlier(r, s) == \/ iteration[r[1]] < iteration[s[1]]
                            \/ r[1] = s[1] /\ r[2] < s[2]
           Before(r, s) == \/ Newer(TweetAt(r), TweetAt(s))
                           \/ ~Newer(TweetAt(s), TweetAt(r)) /\ Earlier(r, s)
           pred == [x \in S |-> {y \in S : Before(y, x)}]
           order == Arrange(S, Before)
           n == Cardinality(S)
           list == [k \in 1..n |-> order[k]]
<1>1. S \subseteq Slots(Handles) /\ IsFiniteSet(S)
  <2>1. S \subseteq Slots(Handles)
    BY DEF Slots
  <2> QED  BY <2>1, SlotsFinite, FS_Subset
<1>2. /\ \A h \in authors : iteration[h] \in Nat
      /\ \A h, g \in authors : iteration[h] = iteration[g] => h = g
  BY IterationOrder
<1>3. \A s \in S : /\ s = <<s[1], s[2]>> /\ s[1] \in authors /\ s[2] \in Nat
                   /\ TweetAt(s).id \in Nat /\ TweetAt(s).created_at \in Nat
  <2> TAKE s \in S
  <2>1. /\ s = <<s[1], s[2]>> /\ s[2] \in Nat
        /\ TweetAt(s).id \in Nat /\ TweetAt(s).created_at \in Nat
    BY <1>1, SlotType DEF Tweet
  <2>2. s[1] \in authors
    BY DEF Slots
  <2> QED  BY <2>1, <2>2
<1>4. Ordered(S, pred)
  <2> HIDE DEF S
  <2>1. /\ \A x \in S : ~Before(x, x)
        /\ \A x, y, z \in S : Before(z, y) /\ Before(y, x) => Before(z, x)
        /\ \A x, y \in S : x # y => Before(x, y) \/ Before(y, x)
    BY <1>2, <1>3 DEF Newer
  <2> HIDE DEF Before
  <2> QED  BY <2>1 DEF Ordered
<1>5. /\ n \in Nat
      /\ \A k \in 1..n : \E x \in S : Cardinality(pred[x]) = k - 1
  <2> HIDE DEF S, pred
  <2> QED  BY <1>1, <1>4, EveryPlaceTaken
<1>6. /\ DOMAIN order = 1..n
      /\ \A k \in 1..n : order[k] \in S /\ Cardinality(pred[order[k]]) = k - 1
  <2> HIDE DEF S, Before
  <2> QED  BY <1>5 DEF Arrange
<1>7. Sorted(authors, iteration, Newer) =
        [k \in DOMAIN order |-> TweetAt(order[k])]
  BY DEF Sorted
<1>8. /\ \A x \in S : \E k \in 1..n : order[k] = x
      /\ \A i, j \in 1..n : i < j => order[i] \in pred[order[j]]
  <2> HIDE DEF S, pred, order
  <2> QED  BY <1>1, <1>4, <1>6, InOrder
<1>9. \A x, y \in S : x \in pred[y] =>
        x # y /\ ~Newer(TweetAt(y), TweetAt(x))
  <2> HIDE DEF S
  <2> QED  BY <1>2, <1>3 DEF Newer
<1> HIDE DEF S, order, n, pred
<1>10. /\ list \in [1..n -> S]
       /\ \A k \in 1..n : list[k] = order[k]
  BY <1>6
<1> HIDE DEF list
<1>11. Sorted(authors, iteration, Newer) = [k \in 1..n |-> TweetAt(list[k])]
  BY <1>6, <1>7, <1>10
<1>12. \A i, j \in 1..n : i < j =>
         list[i] # list[j] /\ ~Newer(TweetAt(list[j]), TweetAt(list[i]))
  BY <1>6, <1>8, <1>9, <1>10
<1>13. \A s \in S : \E k \in 1..n : list[k] = s
  BY <1>8, <1>10
<1>14. Collects(Sorted(authors, iteration, Newer), authors, n, list)
  BY <1>5, <1>10, <1>11, <1>12, <1>13 DEF Collects, S
<1> QED  BY <1>14

=============================================================================
