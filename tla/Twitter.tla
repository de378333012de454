------------------------------- MODULE Twitter ------------------------------
(***************************************************************************)
(* What the service promises its callers: each call takes effect, and is   *)
(* answered, at one instant between its invocation and its return.  The    *)
(* effect of each operation is the contract the source states for it (the  *)
(* *_ensures functions of crates/store and crates/service, and F1, F2 and  *)
(* F8 of the README), over a state with no generators, no lists and no     *)
(* steps: a directory of users, a follow graph, a set of tweets, a clock.  *)
(***************************************************************************)
EXTENDS Domain

CONSTANTS Threads, Requests, Ids, MaxTime

VARIABLES
  registered,  \* the id of each user, or NoUser
  graph,       \* the follow edges
  tweets,
  clock,
  call,        \* of each thread: "idle", "called" or "done"
  req, resp,
  answer,      \* the id and time of the User or Tweet returned
  page,        \* the timeline returned
  began        \* the time and the tweets there were when a post was called

callVars == <<req, resp, answer, page, began>>
vars == <<registered, graph, tweets, clock, call, callVars>>

NoRequest == [op |-> "none"]
NoAnswer  == [id |-> 0, created_at |-> 0]
NotBegun  == [time |-> 0, tweets |-> {}]

Init ==
  /\ registered = [h \in Handles |-> NoUser]
  /\ graph = {} /\ tweets = {} /\ clock = 0
  /\ call = [t \in Threads |-> "idle"]
  /\ req = [t \in Threads |-> NoRequest]
  /\ resp = [t \in Threads |-> "none"]
  /\ answer = [t \in Threads |-> NoAnswer]
  /\ page = [t \in Threads |-> <<>>]
  /\ began = [t \in Threads |-> NotBegun]

Registered(h) == registered[h] # NoUser

-----------------------------------------------------------------------------
Call(t, r) ==
  /\ call[t] = "idle"
  /\ call' = [call EXCEPT ![t] = "called"]
  /\ req' = [req EXCEPT ![t] = r]
  /\ began' = [began EXCEPT ![t] = IF r.op = "post_tweet"
                THEN [time |-> clock, tweets |-> tweets] ELSE @]
  /\ UNCHANGED <<registered, graph, tweets, clock, resp, answer, page>>

Return(t) ==
  /\ call[t] = "done"
  /\ call' = [call EXCEPT ![t] = "idle"]
  /\ req' = [req EXCEPT ![t] = NoRequest]
  /\ resp' = [resp EXCEPT ![t] = "none"]
  /\ answer' = [answer EXCEPT ![t] = NoAnswer]
  /\ page' = [page EXCEPT ![t] = <<>>]
  /\ began' = [began EXCEPT ![t] = NotBegun]
  /\ UNCHANGED <<registered, graph, tweets, clock>>

Tick ==
  /\ clock < MaxTime
  /\ clock' = clock + 1
  /\ UNCHANGED <<registered, graph, tweets, call, callVars>>

-----------------------------------------------------------------------------
(* The instant at which a call takes effect.                               *)

Perform(t, op) == call[t] = "called" /\ req[t].op = op

Done(t, result) ==
  /\ call' = [call EXCEPT ![t] = "done"]
  /\ resp' = [resp EXCEPT ![t] = result]
  /\ UNCHANGED <<clock, req, began>>

\* the call changes nothing, and returns no value
Refuse(t, result) ==
  Done(t, result) /\ UNCHANGED <<registered, graph, tweets, answer, page>>

\* the answer of each operation that fails, with no effect
Error(t) ==
  LET r == req[t] IN
  CASE r.op = "create_user" /\ r.blank -> "empty_handle"
    [] r.op = "create_user" /\ ~r.blank /\ Registered(r.who) -> "duplicate_user"
    [] r.op = "has_user" /\ ~Registered(r.who) -> "absent"
    [] r.op = "follow" /\ r.who = r.whom -> "self_follow"
    [] r.op = "follow" /\ r.who # r.whom
         /\ ~(Registered(r.who) /\ Registered(r.whom)) -> "unknown_user"
    [] r.op = "unfollow"
         /\ ~(Registered(r.who) /\ Registered(r.whom)) -> "unknown_user"
    [] r.op = "post_tweet" /\ r.blank -> "empty_text"
    [] r.op = "post_tweet" /\ ~r.blank /\ ~Registered(r.who) -> "unknown_user"
    [] OTHER -> "ok"

Fail(t) ==
  /\ call[t] = "called"
  /\ Error(t) # "ok"
  /\ Refuse(t, Error(t))

CreateUser(t) ==
  /\ Perform(t, "create_user") /\ Error(t) = "ok"
  /\ LET id == answer'[t].id
     IN /\ id \in Ids \ {registered[h] : h \in Handles}
        /\ registered' = [registered EXCEPT ![req[t].who] = id]
        /\ answer' = [answer EXCEPT ![t].id = id]
  /\ Done(t, "ok")
  /\ UNCHANGED <<graph, tweets, page>>

HasUser(t) ==
  Perform(t, "has_user") /\ Error(t) = "ok" /\ Refuse(t, "ok")

Follows(t) ==
  /\ Perform(t, "follow") /\ Error(t) = "ok"
  /\ graph' = graph \cup {<<req[t].who, req[t].whom>>}
  /\ Done(t, "ok")
  /\ UNCHANGED <<registered, tweets, answer, page>>

Unfollow(t) ==
  /\ Perform(t, "unfollow") /\ Error(t) = "ok"
  /\ graph' = graph \ {<<req[t].who, req[t].whom>>}
  /\ Done(t, "ok")
  /\ UNCHANGED <<registered, tweets, answer, page>>

\* the id is new, the time is one the clock showed during the call, and the
\* tweet is newer than any that was there when the call began
PostTweet(t) ==
  /\ Perform(t, "post_tweet") /\ Error(t) = "ok"
  /\ LET id == answer'[t].id
         at == answer'[t].created_at
         new == [id |-> id, author |-> req[t].who, created_at |-> at]
     IN /\ id \in Ids \ {w.id : w \in tweets}
        /\ at \in began[t].time..clock
        /\ \A w \in began[t].tweets : Newer(new, w)
        /\ tweets' = tweets \cup {new}
        /\ answer' = [answer EXCEPT ![t] = [id |-> id, created_at |-> at]]
  /\ Done(t, "ok")
  /\ UNCHANGED <<registered, graph, page>>

\* F1 and F2: the newest of the tweets by the user and those it follows, in
\* order, and as many of them as the limit allows
IsTimeline(seq, user, limit) ==
  LET visible == {w \in tweets : w.author = user \/ <<user, w.author>> \in graph}
      shown == {seq[i] : i \in DOMAIN seq}
  IN /\ shown \subseteq visible
     /\ \A i, j \in DOMAIN seq : i < j => Newer(seq[i], seq[j])
     /\ \A w \in visible \ shown : \A v \in shown : Newer(v, w)
     /\ Len(seq) = IF limit > 0 /\ Cardinality(visible) > limit
                   THEN limit ELSE Cardinality(visible)

HomeTimeline(t) ==
  /\ Perform(t, "home_timeline")
  /\ IsTimeline(page'[t], req[t].who, req[t].limit)
  /\ page' = [page EXCEPT ![t] = page'[t]]
  /\ Done(t, "ok")
  /\ UNCHANGED <<registered, graph, tweets, answer>>

-----------------------------------------------------------------------------
TakesEffect(t) ==
  \/ Fail(t) \/ CreateUser(t) \/ HasUser(t) \/ Follows(t) \/ Unfollow(t)
  \/ PostTweet(t) \/ HomeTimeline(t)

Next ==
  \/ Tick
  \/ \E t \in Threads :
       (\E r \in Requests : Call(t, r)) \/ TakesEffect(t) \/ Return(t)

Spec == Init /\ [][Next]_vars
=============================================================================
