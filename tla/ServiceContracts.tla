-------------------------- MODULE ServiceContracts --------------------------
(***************************************************************************)
(* The contracts of the verus_proof modules in crates/store, service, ids  *)
(* and clock, on the views they give of the state.  Verus proves them of   *)
(* sequential code (&mut), from shims it trusts because of the locks.      *)
(* Here they are asked of the threads: a call meets the contract of its    *)
(* method at the one lock section that answers it, however its earlier     *)
(* sections were interleaved, and every other step leaves the views alone. *)
(***************************************************************************)
EXTENDS ServiceProperties

-----------------------------------------------------------------------------
(* The ghost views, which Verus leaves opaque.                             *)

users_keys == {h \in Handles : HasUser(h)}

follow_edges == {e \in Handles \X Handles : e[2] \in FollowSet(e[1])}

author_tweet_count(a) == Len(by_author[a])

CountsUnchanged(authors) ==
  \A a \in authors : author_tweet_count(a)' = author_tweet_count(a)

-----------------------------------------------------------------------------
(* The writing shims, trusted there.                                       *)

proof_users_insert(h) == users_keys' = users_keys \cup {h}

proof_follow_insert(from, to) ==
  /\ follow_edges' = follow_edges \cup {<<from, to>>}
  /\ users_keys' = users_keys

proof_follow_remove(from, to) ==
  /\ follow_edges' = follow_edges \ {<<from, to>>}
  /\ users_keys' = users_keys

proof_append_tweet(author) ==
  /\ author_tweet_count(author)' = author_tweet_count(author) + 1
  /\ CountsUnchanged(Handles \ {author})
  /\ users_keys' = users_keys
  /\ follow_edges' = follow_edges

-----------------------------------------------------------------------------
(* The contracts; ok says that the result is Ok.                           *)

put_user_ensures(h, ok) ==
  /\ ok <=> h \notin users_keys
  /\ ok => proof_users_insert(h)
  /\ ~ok => users_keys' = users_keys

create_user_ensures(h, blank, ok) ==
  IF blank THEN ~ok /\ users_keys' = users_keys
  ELSE put_user_ensures(h, ok)

has_user_ensures(h, ok) == ok <=> h \in users_keys

put_follow_ensures(from, to, ok) ==
  /\ ok <=> from \in users_keys /\ to \in users_keys
  /\ ok => proof_follow_insert(from, to)
  /\ ~ok => follow_edges' = follow_edges

follow_ensures(from, to, ok) ==
  /\ IF from = to THEN ~ok /\ follow_edges' = follow_edges
     ELSE put_follow_ensures(from, to, ok)
  /\ users_keys' = users_keys

delete_follow_ensures(from, to) ==
  /\ proof_follow_remove(from, to)
  /\ <<from, to>> \notin follow_edges'

unfollow_ensures(from, to, ok) ==
  /\ ok <=> from \in users_keys /\ to \in users_keys
  /\ ok => delete_follow_ensures(from, to)
  /\ ~ok => follow_edges' = follow_edges
  /\ users_keys' = users_keys

\* the store's contract, under the text check of the service
put_tweet_ensures(author, blank, ok) ==
  /\ ok <=> ~blank /\ author \in users_keys
  /\ ok => proof_append_tweet(author)
  /\ ~ok => CountsUnchanged({author})
  /\ users_keys' = users_keys
  /\ follow_edges' = follow_edges

ViewsUnchanged ==
  /\ users_keys' = users_keys
  /\ follow_edges' = follow_edges
  /\ CountsUnchanged(Handles)

\* reads take &self, which frames every view
home_timeline_ensures == ViewsUnchanged

next_id_ensures(before, after, out) ==
  /\ out = after
  /\ after = before + 1
  /\ out >= 1

tick_ensures == now' = now + 1

-----------------------------------------------------------------------------
Answers(t, op) == req[t].op = op /\ pc[t] # "done" /\ pc'[t] = "done"

Draws(t, op) == req[t].op = op /\ draft'[t].id # draft[t].id /\ pc[t] # "done"
                /\ pc'[t] # "done"

\* At the step that answers it, a call of any thread meets the contract that
\* is proved for its method run alone.  For unfollow, whose answer Ok rests on
\* two look-ups under locks released since, this needs that no user was
\* removed meanwhile.
ContractsMet ==
  [][\A t \in Threads :
       LET from == req[t].who
           to == req[t].whom
           blank == req[t].blank
           ok == resp'[t] = "ok"
       IN /\ Answers(t, "create_user") => create_user_ensures(from, blank, ok)
          /\ Answers(t, "has_user") =>
               has_user_ensures(from, ok) /\ ViewsUnchanged
          /\ Answers(t, "follow") => follow_ensures(from, to, ok)
          /\ Answers(t, "unfollow") => unfollow_ensures(from, to, ok)
          /\ Answers(t, "post_tweet") => put_tweet_ensures(from, blank, ok)
          /\ Answers(t, "home_timeline") => home_timeline_ensures
    ]_vars

\* "Observe nothing else": a step that answers no call, be it a look-up, an id
\* drawn, a tick or a call's arrival, leaves the views as they are; an id
\* comes from a counter that moved by one, a time from a clock that is ahead
\* by one.
OnlyAnswersChange ==
  [][/\ (\A t \in Threads, op \in Ops : ~Answers(t, op)) => ViewsUnchanged
     /\ \A t \in Threads :
          /\ Draws(t, "create_user") =>
               next_id_ensures(user_ids, user_ids', draft'[t].id)
          /\ Draws(t, "post_tweet") =>
               next_id_ensures(tweet_ids, tweet_ids', draft'[t].id)
     /\ now' # now => tick_ensures
    ]_vars
=============================================================================
