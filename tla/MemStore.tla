------------------------------ MODULE MemStore ------------------------------
(***************************************************************************)
(* The in-memory store of crates/store: three hash maps behind one RwLock. *)
(* Every method takes the lock once and holds it to its end, so every      *)
(* method is one atomic action.  A missing key of a map is the map's       *)
(* neutral value here (NoUser, {}, <<>>): no method tells them apart.      *)
(***************************************************************************)
EXTENDS Domain

VARIABLES
  users,      \* users[h]: the id of the User registered under h, or NoUser
  follows,    \* follows[h]: the handles h follows
  by_author   \* by_author[h]: the tweets of h, in insertion order

storeVars == <<users, follows, by_author>>

StoreTypeOK ==
  /\ users \in [Handles -> Nat]
  /\ follows \in [Handles -> SUBSET Handles]
  /\ by_author \in [Handles -> Seq(Tweet)]

StoreInit ==
  /\ users = [h \in Handles |-> NoUser]
  /\ follows = [h \in Handles |-> {}]
  /\ by_author = [h \in Handles |-> <<>>]

-----------------------------------------------------------------------------
(* Reads, under the read lock.                                             *)

HasUser(h) == users[h] # NoUser

FollowSet(h) == follows[h]

\* the tweets gathered from the lists of the authors, each with its list
\* and its place in it: two equal tweets stay two
Slots(authors) ==
  UNION {{<<a, i>> : i \in DOMAIN by_author[a]} : a \in authors}

TweetAt(s) == by_author[s[1]][s[2]]

\* a stable sort by Before of the lists taken in the order `iteration`
Sorted(authors, iteration, Before(_, _)) ==
  LET Earlier(r, s) ==
        \/ iteration[r[1]] < iteration[s[1]]
        \/ r[1] = s[1] /\ r[2] < s[2]
      SlotBefore(r, s) ==
        \/ Before(TweetAt(r), TweetAt(s))
        \/ ~Before(TweetAt(s), TweetAt(r)) /\ Earlier(r, s)
      order == Arrange(Slots(authors), SlotBefore)
  IN [k \in DOMAIN order |-> TweetAt(order[k])]

\* mutant: the followers of the user instead of those the user follows
Visible_Followers(user) == {user} \cup {h \in Handles : user \in FollowSet(h)}

\* F1: the user and everyone the user follows; F2: newest first; at most
\* limit tweets, 0 meaning no limit
Visible(user) == {user} \cup FollowSet(user)

\* mutant: truncates from the wrong end
HomeTimeline_KeepsOldest(user, limit, iteration) ==
  LET collected == Sorted(Visible(user), iteration, Newer)
  IN IF limit > 0 /\ Len(collected) > limit
     THEN SubSeq(collected, Len(collected) - limit + 1, Len(collected))
     ELSE collected

HomeTimeline(user, limit, iteration) ==
  LET collected == Sorted(Visible(user), iteration, Newer)
  IN IF limit > 0 /\ Len(collected) > limit
     THEN SubSeq(collected, 1, limit)
     ELSE collected

\* The whole store as flat lists.  Users and tweets are sorted by id, ties as
\* the maps iterate; follows are sorted by handles, which leaves no ties, so
\* the set of edges stands for the list.
UserList(iteration) ==
  LET Before(h, g) == \/ users[h] < users[g]
                      \/ users[h] = users[g] /\ iteration[h] < iteration[g]
      order == Arrange({h \in Handles : HasUser(h)}, Before)
  IN [k \in DOMAIN order |-> [id |-> users[order[k]], handle |-> order[k]]]

\* mutant: takes the lists as the map iterates, as home_timeline's sort would
\* put them in order anyway
Snapshot_Unsorted(iteration) ==
  LET Unordered(v, w) == FALSE
  IN [users   |-> UserList(iteration),
      follows |-> {e \in Follow : e.to \in follows[e.from]},
      tweets  |-> Sorted(Handles, iteration, Unordered)]

Snapshot(iteration) ==
  LET LowerId(v, w) == v.id < w.id
  IN [users   |-> UserList(iteration),
      follows |-> {e \in Follow : e.to \in follows[e.from]},
      tweets  |-> Sorted(Handles, iteration, LowerId)]

-----------------------------------------------------------------------------
(* Writes, under the write lock; result is what the method returns.        *)

\* mutant: insert without contains_key
PutUser_Overwrites(h, id, result) ==
  /\ result = "ok"
  /\ users' = [users EXCEPT ![h] = id]
  /\ UNCHANGED <<follows, by_author>>

PutUser(h, id, result) ==
  \/ /\ HasUser(h)
     /\ result = "duplicate_user"
     /\ UNCHANGED storeVars
  \/ /\ ~HasUser(h)
     /\ result = "ok"
     /\ users' = [users EXCEPT ![h] = id]
     /\ UNCHANGED <<follows, by_author>>

\* mutant: looks up only the follower
PutFollow_ChecksFrom(from, to, result) ==
  \/ /\ ~HasUser(from)
     /\ result = "unknown_user"
     /\ UNCHANGED storeVars
  \/ /\ HasUser(from)
     /\ result = "ok"
     /\ follows' = [follows EXCEPT ![from] = @ \cup {to}]
     /\ UNCHANGED <<users, by_author>>

\* mutant: trusts that whoever acts is registered
PutFollow_ChecksTo(from, to, result) ==
  \/ /\ ~HasUser(to)
     /\ result = "unknown_user"
     /\ UNCHANGED storeVars
  \/ /\ HasUser(to)
     /\ result = "ok"
     /\ follows' = [follows EXCEPT ![from] = @ \cup {to}]
     /\ UNCHANGED <<users, by_author>>

PutFollow(from, to, result) ==
  \/ /\ ~HasUser(from) \/ ~HasUser(to)
     /\ result = "unknown_user"
     /\ UNCHANGED storeVars
  \/ /\ HasUser(from) /\ HasUser(to)
     /\ result = "ok"
     /\ follows' = [follows EXCEPT ![from] = @ \cup {to}]
     /\ UNCHANGED <<users, by_author>>

\* mutant: the edge the other way
DeleteFollow_Reversed(from, to) ==
  /\ follows' = [follows EXCEPT ![to] = @ \ {from}]
  /\ UNCHANGED <<users, by_author>>

DeleteFollow(from, to) ==
  /\ follows' = [follows EXCEPT ![from] = @ \ {to}]
  /\ UNCHANGED <<users, by_author>>

\* mutant: trusts the has_user that post_tweet made before it
PutTweet_Unchecked(tweet, result) ==
  /\ result = "ok"
  /\ by_author' = [by_author EXCEPT ![tweet.author] = Append(@, tweet)]
  /\ UNCHANGED <<users, follows>>

\* mutant: puts the tweet at the front of the list
PutTweet_Prepends(tweet, result) ==
  \/ /\ ~HasUser(tweet.author)
     /\ result = "unknown_user"
     /\ UNCHANGED storeVars
  \/ /\ HasUser(tweet.author)
     /\ result = "ok"
     /\ by_author' = [by_author EXCEPT ![tweet.author] = <<tweet>> \o @]
     /\ UNCHANGED <<users, follows>>

PutTweet(tweet, result) ==
  \/ /\ ~HasUser(tweet.author)
     /\ result = "unknown_user"
     /\ UNCHANGED storeVars
  \/ /\ HasUser(tweet.author)
     /\ result = "ok"
     /\ by_author' = [by_author EXCEPT ![tweet.author] = Append(@, tweet)]
     /\ UNCHANGED <<users, follows>>

\* load, trusted: empties the maps and inserts what the lists hold with no
\* check; a later user of a handle replaces an earlier one, and the list of
\* each author is sorted by id, stably
Replace(snap) ==
  LET Indices(h) == {i \in DOMAIN snap.tweets : snap.tweets[i].author = h}
      Before(i, j) == \/ snap.tweets[i].id < snap.tweets[j].id
                      \/ snap.tweets[i].id = snap.tweets[j].id /\ i < j
      ListOf(h) == LET order == Arrange(Indices(h), Before)
                   IN [k \in DOMAIN order |-> snap.tweets[order[k]]]
      IdOf(h) == LET last == {i \in DOMAIN snap.users :
                                /\ snap.users[i].handle = h
                                /\ \A j \in DOMAIN snap.users :
                                     snap.users[j].handle = h => j <= i}
                 IN IF last = {} THEN NoUser
                    ELSE snap.users[CHOOSE i \in last : TRUE].id
  IN /\ users' = [h \in Handles |-> IdOf(h)]
     /\ follows' = [h \in Handles |->
                      {g \in Handles : [from |-> h, to |-> g] \in snap.follows}]
     /\ by_author' = [h \in Handles |-> ListOf(h)]
=============================================================================
