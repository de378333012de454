-------------------------- MODULE ServiceAdminProofs -------------------------
(***************************************************************************)
(* Proofs about the service while snapshots are taken and loaded and the   *)
(* process restarts, for any handles, threads, operators and bounds.       *)
(***************************************************************************)
EXTENDS ServiceAdmin, ServiceProofs

-----------------------------------------------------------------------------
(* What snapshot captures.                                                 *)

\* The list has the tweets of the store, each once, by id.
ListsTweets(tweets, n, order) ==
  /\ order \in [1..n -> Slots(Handles)]
  /\ tweets = [k \in 1..n |-> TweetAt(order[k])]
  /\ \A s \in Slots(Handles) : \E k \in 1..n : order[k] = s
  /\ \A i, j \in 1..n : i < j =>
       order[i] # order[j] /\ TweetAt(order[i]).id <= TweetAt(order[j]).id

LEMMA SnapshotTweets ==
  ASSUME StoreTypeOK, NEW iteration \in Iterations(Handles)
  PROVE  \E n, order : n \in Nat /\ ListsTweets(Snapshot(iteration).tweets, n, order)
<1> DEFINE S == Slots(Handles)
           LowerId(v, w) == v.id < w.id
           Earlier(r, s) == \/ iteration[r[1]] < iteration[s[1]]
                            \/ r[1] = s[1] /\ r[2] < s[2]
           Before(r, s) == \/ LowerId(TweetAt(r), TweetAt(s))
                           \/ ~LowerId(TweetAt(s), TweetAt(r)) /\ Earlier(r, s)
           pred == [x \in S |-> {y \in S : Before(y, x)}]
           order == Arrange(S, Before)
           n == Cardinality(S)
           list == [k \in 1..n |-> order[k]]
<1>1. IsFiniteSet(S)
  BY SlotsFinite
<1>2. /\ \A h \in Handles : iteration[h] \in Nat
      /\ \A h, g \in Handles : iteration[h] = iteration[g] => h = g
  BY IterationOrder
<1>3. \A s \in S : /\ s = <<s[1], s[2]>> /\ s[1] \in Handles /\ s[2] \in Nat
                   /\ TweetAt(s).id \in Nat
  BY SlotType
<1>4. Ordered(S, pred)
  <2> HIDE DEF S
  <2>1. /\ \A x \in S : ~Before(x, x)
        /\ \A x, y, z \in S : Before(z, y) /\ Before(y, x) => Before(z, x)
        /\ \A x, y \in S : x # y => Before(x, y) \/ Before(y, x)
    BY <1>2, <1>3
  <2> HIDE DEF Before
  <2> QED  BY <2>1 DEF Ordered
<1>5. /\ n \in Nat
      /\ \A k \in 1..n : \E x \in S : Cardinality(pred[x]) = k - 1
  <2> HIDE DEF S, pred
  <2> QED  BY <1>1, <1>4, EveryPlaceTaken
<1>6. /\ DOMAIN order = 1..n
      /\ \A k \in 1..n : order[k] \in S /\ Cardinality(pred[order[k]]) = k - 1
  <2> HIDE DEF S, Before
  <2> QED  BY <1>5 DEF Arrange
<1>7. Snapshot(iteration).tweets = [k \in DOMAIN order |-> TweetAt(order[k])]
  BY DEF Snapshot, Sorted
<1>9. /\ \A x \in S : \E k \in 1..n : order[k] = x
      /\ \A i, j \in 1..n : i < j => order[i] \in pred[order[j]]
  <2> HIDE DEF S, pred, order
  <2> QED  BY <1>1, <1>4, <1>6, InOrder
<1>10. \A x, y \in S : x \in pred[y] =>
         x # y /\ TweetAt(x).id <= TweetAt(y).id
  <2> HIDE DEF S
  <2> QED  BY <1>2, <1>3
<1> HIDE DEF S, order, n, pred
<1>11. /\ list \in [1..n -> S]
       /\ \A k \in 1..n : list[k] = order[k]
  BY <1>6
<1> HIDE DEF list
<1>12. Snapshot(iteration).tweets = [k \in 1..n |-> TweetAt(list[k])]
  BY <1>6, <1>7, <1>11
<1>13. \A i, j \in 1..n : i < j =>
         list[i] # list[j] /\ TweetAt(list[i]).id <= TweetAt(list[j]).id
  BY <1>6, <1>9, <1>10, <1>11
<1>14. \A s \in S : \E k \in 1..n : list[k] = s
  BY <1>9, <1>11
<1>15. ListsTweets(Snapshot(iteration).tweets, n, list)
  BY <1>11, <1>12, <1>13, <1>14 DEF ListsTweets, S
<1> QED  BY <1>5, <1>15

\* The list has the registered users, each once, by id.
ListsUsers(list, n, order) ==
  /\ order \in [1..n -> Handles]
  /\ list = [k \in 1..n |-> [id |-> users[order[k]], handle |-> order[k]]]
  /\ \A k \in 1..n : HasUser(order[k])
  /\ \A h \in Handles : HasUser(h) => \E k \in 1..n : order[k] = h
  /\ \A i, j \in 1..n : i < j =>
       order[i] # order[j] /\ users[order[i]] <= users[order[j]]

LEMMA SnapshotUsers ==
  ASSUME StoreTypeOK, NEW iteration \in Iterations(Handles)
  PROVE  \E n, order : n \in Nat /\ ListsUsers(Snapshot(iteration).users, n, order)
<1> DEFINE S == {h \in Handles : HasUser(h)}
           Before(h, g) == \/ users[h] < users[g]
                           \/ users[h] = users[g] /\ iteration[h] < iteration[g]
           pred == [x \in S |-> {y \in S : Before(y, x)}]
           order == Arrange(S, Before)
           n == Cardinality(S)
           list == [k \in 1..n |-> order[k]]
<1>1. IsFiniteSet(S)
  BY HandlesAssumption, FS_Subset
<1>2. /\ \A h \in Handles : iteration[h] \in Nat
      /\ \A h, g \in Handles : iteration[h] = iteration[g] => h = g
  BY IterationOrder
<1>3. \A h \in S : h \in Handles /\ users[h] \in Nat
  BY DEF StoreTypeOK
<1>4. Ordered(S, pred)
  <2> HIDE DEF S
  <2>1. /\ \A x \in S : ~Before(x, x)
        /\ \A x, y, z \in S : Before(z, y) /\ Before(y, x) => Before(z, x)
        /\ \A x, y \in S : x # y => Before(x, y) \/ Before(y, x)
    BY <1>2, <1>3
  <2> HIDE DEF Before
  <2> QED  BY <2>1 DEF Ordered
<1>5. /\ n \in Nat
      /\ \A k \in 1..n : \E x \in S : Cardinality(pred[x]) = k - 1
  <2> HIDE DEF S, pred
  <2> QED  BY <1>1, <1>4, EveryPlaceTaken
<1>6. /\ DOMAIN order = 1..n
      /\ \A k \in 1..n : order[k] \in S /\ Cardinality(pred[order[k]]) = k - 1
  <2> HIDE DEF S, Before
  <2> QED  BY <1>5 DEF Arrange
<1>7. Snapshot(iteration).users =
        [k \in DOMAIN order |-> [id |-> users[order[k]], handle |-> order[k]]]
  BY DEF Snapshot, UserList
<1>9. /\ \A x \in S : \E k \in 1..n : order[k] = x
      /\ \A i, j \in 1..n : i < j => order[i] \in pred[order[j]]
  <2> HIDE DEF S, pred, order
  <2> QED  BY <1>1, <1>4, <1>6, InOrder
<1>10. \A x, y \in S : x \in pred[y] => x # y /\ users[x] <= users[y]
  <2> HIDE DEF S
  <2> QED  BY <1>2, <1>3
<1>11. \A h : h \in S <=> h \in Handles /\ HasUser(h)
  OBVIOUS
<1> HIDE DEF S, order, n, pred
<1>12. /\ list \in [1..n -> Handles]
       /\ \A k \in 1..n : list[k] = order[k] /\ HasUser(list[k])
  BY <1>6, <1>11
<1> HIDE DEF list
<1>13. Snapshot(iteration).users =
         [k \in 1..n |-> [id |-> users[list[k]], handle |-> list[k]]]
  BY <1>6, <1>7, <1>12
<1>14. \A i, j \in 1..n : i < j =>
         list[i] # list[j] /\ users[list[i]] <= users[list[j]]
  BY <1>6, <1>9, <1>10, <1>12
<1>15. \A h \in Handles : HasUser(h) => \E k \in 1..n : list[k] = h
  BY <1>9, <1>11, <1>12
<1>16. ListsUsers(Snapshot(iteration).users, n, list)
  BY <1>12, <1>13, <1>14, <1>15 DEF ListsUsers
<1> QED  BY <1>5, <1>16

-----------------------------------------------------------------------------
(* What load writes.                                                       *)

\* The list has the tweets of h among the given ones, each once, by id.
ListsOwn(list, h, tweets, n, order) ==
  /\ order \in [1..n -> DOMAIN tweets]
  /\ list = [k \in 1..n |-> tweets[order[k]]]
  /\ \A k \in 1..n : tweets[order[k]].author = h
  /\ \A i \in DOMAIN tweets :
       tweets[i].author = h => \E k \in 1..n : order[k] = i
  /\ \A i, j \in 1..n : i < j =>
       \/ tweets[order[i]].id < tweets[order[j]].id
       \/ tweets[order[i]].id = tweets[order[j]].id /\ order[i] < order[j]

LEMMA ReplaceTweets ==
  ASSUME NEW snap, snap.tweets \in Seq(Tweet), Replace(snap), NEW h \in Handles
  PROVE  \E n, order : n \in Nat /\
           ListsOwn(by_author'[h], h, snap.tweets, n, order)
<1> DEFINE S == {i \in DOMAIN snap.tweets : snap.tweets[i].author = h}
           Before(i, j) == \/ snap.tweets[i].id < snap.tweets[j].id
                           \/ snap.tweets[i].id = snap.tweets[j].id /\ i < j
           pred == [x \in S |-> {y \in S : Before(y, x)}]
           order == Arrange(S, Before)
           n == Cardinality(S)
           list == [k \in 1..n |-> order[k]]
<1>1. IsFiniteSet(S)
  <2>1. PICK m \in Nat : DOMAIN snap.tweets = 1..m
    OBVIOUS
  <2>2. IsFiniteSet(DOMAIN snap.tweets)
    BY <2>1, FS_Interval
  <2> QED  BY <2>2, FS_Subset
<1>2. ASSUME NEW i \in S PROVE i \in Nat /\ snap.tweets[i].id \in Nat
  <2>1. snap.tweets[i] \in Tweet
    OBVIOUS
  <2> QED  BY <2>1 DEF Tweet
<1>3. Ordered(S, pred)
  <2> HIDE DEF S
  <2>1. /\ \A x \in S : ~Before(x, x)
        /\ \A x, y, z \in S : Before(z, y) /\ Before(y, x) => Before(z, x)
        /\ \A x, y \in S : x # y => Before(x, y) \/ Before(y, x)
    BY <1>2
  <2> HIDE DEF Before
  <2> QED  BY <2>1 DEF Ordered
<1>4. /\ n \in Nat
      /\ \A k \in 1..n : \E x \in S : Cardinality(pred[x]) = k - 1
  <2> HIDE DEF S, pred
  <2> QED  BY <1>1, <1>3, EveryPlaceTaken
<1>5. /\ DOMAIN order = 1..n
      /\ \A k \in 1..n : order[k] \in S /\ Cardinality(pred[order[k]]) = k - 1
  <2> HIDE DEF S, Before
  <2> QED  BY <1>4 DEF Arrange
<1>6. by_author'[h] = [k \in DOMAIN order |-> snap.tweets[order[k]]]
  BY DEF Replace
<1>8. /\ \A x \in S : \E k \in 1..n : order[k] = x
      /\ \A i, j \in 1..n : i < j => order[i] \in pred[order[j]]
  <2> HIDE DEF S, pred, order
  <2> QED  BY <1>1, <1>3, <1>5, InOrder
<1>9. \A x, y \in S : x \in pred[y] => Before(x, y)
  <2> HIDE DEF S, Before
  <2> QED  OBVIOUS
<1>10. \A i : i \in S <=>
         i \in DOMAIN snap.tweets /\ snap.tweets[i].author = h
  OBVIOUS
<1> HIDE DEF S, order, n, pred
<1>11. /\ list \in [1..n -> DOMAIN snap.tweets]
       /\ \A k \in 1..n : list[k] = order[k] /\ snap.tweets[list[k]].author = h
  BY <1>5, <1>10
<1> HIDE DEF list
<1>12. by_author'[h] = [k \in 1..n |-> snap.tweets[list[k]]]
  BY <1>5, <1>6, <1>11
<1>13. \A i, j \in 1..n : i < j => Before(list[i], list[j])
  BY <1>5, <1>8, <1>9, <1>11
<1>14. \A i \in DOMAIN snap.tweets :
         snap.tweets[i].author = h => \E k \in 1..n : list[k] = i
  BY <1>8, <1>10, <1>11
<1>15. ListsOwn(by_author'[h], h, snap.tweets, n, list)
  BY <1>11, <1>12, <1>13, <1>14 DEF ListsOwn
<1> QED  BY <1>4, <1>15

-----------------------------------------------------------------------------
(* Type correctness.                                                       *)

LEMMA SnapshotType ==
  ASSUME StoreTypeOK, NEW iteration \in Iterations(Handles)
  PROVE  Snapshot(iteration) \in StoreSnapshot
<1>1. Snapshot(iteration).tweets \in Seq(Tweet)
  <2>1. PICK n, order : n \in Nat /\ ListsTweets(Snapshot(iteration).tweets, n, order)
    BY SnapshotTweets
  <2>2. \A k \in 1..n : TweetAt(order[k]) \in Tweet
    BY <2>1, SlotType DEF ListsTweets
  <2> QED  BY <2>1, <2>2 DEF ListsTweets
<1>2. Snapshot(iteration).users \in Seq([id : Nat, handle : Handles])
  <2>1. PICK n, order : n \in Nat /\ ListsUsers(Snapshot(iteration).users, n, order)
    BY SnapshotUsers
  <2> DEFINE User == [id : Nat, handle : Handles]
  <2>2. \A k \in 1..n : [id |-> users[order[k]], handle |-> order[k]] \in User
    BY <2>1 DEF StoreTypeOK, ListsUsers
  <2> HIDE DEF User
  <2>3. Snapshot(iteration).users \in Seq(User)
    BY <2>1, <2>2 DEF ListsUsers
  <2> QED  BY <2>3 DEF User
<1>3. Snapshot(iteration).follows \in SUBSET Follow
  BY DEF Snapshot
<1>4. Snapshot(iteration) = [users |-> Snapshot(iteration).users,
                             follows |-> Snapshot(iteration).follows,
                             tweets |-> Snapshot(iteration).tweets]
  BY DEF Snapshot
<1> QED  BY <1>1, <1>2, <1>3, <1>4 DEF StoreSnapshot

\* The id load gives a handle is that of a user of the list, if it has one.
LEMMA ReplaceUsers ==
  ASSUME NEW snap \in StoreSnapshot, Replace(snap), NEW h \in Handles
  PROVE  \/ /\ users'[h] = NoUser
            /\ \A j \in DOMAIN snap.users : snap.users[j].handle # h
         \/ \E j \in DOMAIN snap.users :
              snap.users[j].handle = h /\ users'[h] = snap.users[j].id
<1> DEFINE S == {j \in DOMAIN snap.users : snap.users[j].handle = h}
           last == {i \in DOMAIN snap.users :
                      /\ snap.users[i].handle = h
                      /\ \A j \in DOMAIN snap.users :
                           snap.users[j].handle = h => j <= i}
           pred == [x \in S |-> {y \in S : y < x}]
<1>1. users'[h] = IF last = {} THEN NoUser
                  ELSE snap.users[CHOOSE i \in last : TRUE].id
  BY DEF Replace
<1>2. PICK m \in Nat : DOMAIN snap.users = 1..m
  BY DEF StoreSnapshot
<1>3. IsFiniteSet(S)
  BY <1>2, FS_Interval, FS_Subset
<1>4. \A x \in S : x \in Nat
  BY <1>2
<1>5. Ordered(S, pred)
  <2> HIDE DEF S
  <2> QED  BY <1>4 DEF Ordered
<1>6. S # {} => last # {}
  <2> SUFFICES ASSUME S # {} PROVE last # {}
    OBVIOUS
  <2>1. Cardinality(S) \in Nat /\ Cardinality(S) # 0
    BY <1>3, FS_CardinalityType, FS_EmptySet
  <2>2. PICK x \in S : Cardinality(pred[x]) = Cardinality(S) - 1
    <3> HIDE DEF S, pred
    <3>1. Cardinality(S) \in 1..Cardinality(S)
      BY <2>1
    <3> QED  BY <1>3, <1>5, <3>1, EveryPlaceTaken
  <2>3. \A y \in S : x \notin pred[y]
    <3> HIDE DEF S, pred
    <3> QED  BY <1>3, <1>5, <2>1, <2>2, Places
  <2>4. \A y \in S : y <= x
    <3> HIDE DEF S
    <3> QED  BY <1>4, <2>3
  <2>5. x \in last
    BY <2>4
  <2> QED  BY <2>5
<1>7. last # {} => (CHOOSE i \in last : TRUE) \in last
  BY Zenon
<1>8. \A i : i \in last =>
        i \in DOMAIN snap.users /\ snap.users[i].handle = h
  OBVIOUS
<1> HIDE DEF last
<1> QED  BY <1>1, <1>6, <1>7, <1>8

LEMMA ReplaceType ==
  ASSUME NEW snap \in StoreSnapshot, Replace(snap)
  PROVE  StoreTypeOK'
<1>1. ASSUME NEW h \in Handles PROVE users'[h] \in Nat
  <2>1. CASE users'[h] = NoUser
    BY <2>1 DEF NoUser
  <2>2. ASSUME NEW j \in DOMAIN snap.users, users'[h] = snap.users[j].id
        PROVE  users'[h] \in Nat
    <3>1. snap.users[j] \in [id : Nat, handle : Handles]
      <4> DEFINE User == [id : Nat, handle : Handles]
      <4>1. snap.users \in Seq(User)
        BY DEF StoreSnapshot
      <4> HIDE DEF User
      <4>2. snap.users[j] \in User
        BY <4>1
      <4> QED  BY <4>2 DEF User
    <3> QED  BY <2>2, <3>1
  <2> QED  BY <2>1, <2>2, ReplaceUsers
<1>2. ASSUME NEW h \in Handles PROVE by_author'[h] \in Seq(Tweet)
  <2>1. snap.tweets \in Seq(Tweet)
    BY DEF StoreSnapshot
  <2>2. PICK n, order : n \in Nat /\ ListsOwn(by_author'[h], h, snap.tweets, n, order)
    BY <2>1, ReplaceTweets
  <2>3. \A k \in 1..n : snap.tweets[order[k]] \in Tweet
    BY <2>1, <2>2 DEF ListsOwn
  <2> QED  BY <2>2, <2>3 DEF ListsOwn
<1>3. users' = [h \in Handles |-> users'[h]]
  <2> DEFINE last(h) == {i \in DOMAIN snap.users :
                           /\ snap.users[i].handle = h
                           /\ \A j \in DOMAIN snap.users :
                                snap.users[j].handle = h => j <= i}
             IdOf(h) == IF last(h) = {} THEN NoUser
                        ELSE snap.users[CHOOSE i \in last(h) : TRUE].id
  <2>1. users' = [h \in Handles |-> IdOf(h)]
    BY DEF Replace
  <2> HIDE DEF IdOf
  <2> QED  BY <2>1
<1>4. by_author' = [h \in Handles |-> by_author'[h]]
  BY DEF Replace
<1>5. follows' \in [Handles -> SUBSET Handles]
  BY DEF Replace
<1> QED  BY <1>1, <1>2, <1>3, <1>4, <1>5 DEF StoreTypeOK

LEMMA RestartType == ASSUME Restarted PROVE TypeInv'
<1>1. StoreTypeOK'
  BY DEF Restarted, StoreTypeOK, NoUser
<1>2. TypeOK'
  BY <1>1 DEF Restarted, TypeOK, Labels, NoRequest, NoDraft, NotBegun
<1>3. ControlOK'
  BY DEF Restarted, ControlOK
<1> QED  BY <1>2, <1>3 DEF TypeInv

\* The step of an operator moves the operator, not the clients.
LEMMA LoadType ==
  ASSUME TypeInv, UNCHANGED threadVars, StoreTypeOK',
         now' \in Nat, user_ids' \in Nat, tweet_ids' \in Nat
  PROVE  TypeInv'
  BY DEF TypeInv, TypeOK, ControlOK, threadVars

AdminLabels == {"idle", "snap_user_ids", "snap_tweet_ids", "snap_store",
                "load_user_ids", "load_tweet_ids", "load_clock"}

OperatorsOK ==
  /\ apc \in [Admins -> AdminLabels]
  /\ held \in [Admins -> ServiceState]
  /\ archive \subseteq ServiceState

LEMMA MoveOK ==
  ASSUME OperatorsOK, NEW a \in Admins, NEW label \in AdminLabels,
         Move(a, label), NEW state \in ServiceState,
         held' = [held EXCEPT ![a] = state], archive' \subseteq ServiceState
  PROVE  OperatorsOK'
  BY DEF OperatorsOK, Move

LEMMA NothingOK == Nothing \in ServiceState
<1> DEFINE User == [id : Nat, handle : Handles]
<1>1. <<>> \in Seq(User) /\ <<>> \in Seq(Tweet)
  OBVIOUS
<1> HIDE DEF User
<1>2. [users |-> <<>>, follows |-> {}, tweets |-> <<>>] \in
        [users : Seq(User), follows : SUBSET Follow, tweets : Seq(Tweet)]
  BY <1>1
<1> QED  BY <1>2 DEF Nothing, ServiceState, StoreSnapshot, User

\* A snapshot under way, with one field more.
LEMMA FieldOK ==
  ASSUME NEW state \in ServiceState, NEW n \in Nat
  PROVE  /\ [state EXCEPT !.clock_now = n] \in ServiceState
         /\ [state EXCEPT !.user_ids = n] \in ServiceState
         /\ [state EXCEPT !.tweet_ids = n] \in ServiceState
         /\ \A store \in StoreSnapshot :
              [state EXCEPT !.store = store] \in ServiceState
  BY DEF ServiceState

LEMMA LoadStoreType ==
  ASSUME TypeInv, OperatorsOK, NEW a \in Admins, NEW snap \in ServiceState,
         LoadStore(a, snap)
  PROVE  TypeInv' /\ OperatorsOK'
<1>1. snap.store \in StoreSnapshot /\ "load_user_ids" \in AdminLabels
  BY DEF ServiceState, AdminLabels
<1>2. StoreTypeOK'
  BY <1>1, ReplaceType DEF LoadStore
<1>3. TypeInv'
  BY <1>2, LoadType DEF LoadStore, TypeInv, TypeOK
<1>4. OperatorsOK'
  BY <1>1, MoveOK DEF LoadStore, OperatorsOK
<1> QED  BY <1>3, <1>4

LEMMA AdminStepType ==
  ASSUME TypeInv, OperatorsOK, NEW a \in Admins, AdminStep(a)
  PROVE  TypeInv' /\ OperatorsOK'
<1>1. /\ now \in Nat /\ user_ids \in Nat /\ tweet_ids \in Nat /\ StoreTypeOK
      /\ held[a] \in ServiceState /\ archive \subseteq ServiceState
      /\ held[a].clock_now \in Nat /\ held[a].user_ids \in Nat
      /\ held[a].tweet_ids \in Nat
  BY DEF TypeInv, TypeOK, OperatorsOK, ServiceState
<1>2. \A label : Move(a, label) => apc' = [apc EXCEPT ![a] = label]
  BY DEF Move
<1>3. /\ "idle" \in AdminLabels /\ "snap_user_ids" \in AdminLabels
      /\ "snap_tweet_ids" \in AdminLabels /\ "snap_store" \in AdminLabels
      /\ "load_user_ids" \in AdminLabels /\ "load_tweet_ids" \in AdminLabels
      /\ "load_clock" \in AdminLabels
  BY DEF AdminLabels
<1>4. CASE SnapshotClock(a)
  <2> DEFINE state == [held[a] EXCEPT !.clock_now = now]
  <2>1. state \in ServiceState
    BY <1>1, FieldOK
  <2>2. /\ held' = [held EXCEPT ![a] = state] /\ Move(a, "snap_user_ids")
        /\ UNCHANGED <<vars, archive>>
    BY <1>4 DEF SnapshotClock, Clock!Now
  <2> HIDE DEF state
  <2> QED  BY <1>1, <1>3, <2>1, <2>2, MoveOK, StutterType
<1>5. CASE SnapshotUserIds(a)
  <2> DEFINE state == [held[a] EXCEPT !.user_ids = user_ids]
  <2>1. state \in ServiceState
    BY <1>1, FieldOK
  <2>2. /\ held' = [held EXCEPT ![a] = state] /\ Move(a, "snap_tweet_ids")
        /\ UNCHANGED <<vars, archive>>
    BY <1>5 DEF SnapshotUserIds, UserIds!Current
  <2> HIDE DEF state
  <2> QED  BY <1>1, <1>3, <2>1, <2>2, MoveOK, StutterType
<1>6. CASE SnapshotTweetIds(a)
  <2> DEFINE state == [held[a] EXCEPT !.tweet_ids = tweet_ids]
  <2>1. state \in ServiceState
    BY <1>1, FieldOK
  <2>2. /\ held' = [held EXCEPT ![a] = state] /\ Move(a, "snap_store")
        /\ UNCHANGED <<vars, archive>>
    BY <1>6 DEF SnapshotTweetIds, TweetIds!Current
  <2> HIDE DEF state
  <2> QED  BY <1>1, <1>3, <2>1, <2>2, MoveOK, StutterType
<1>7. CASE SnapshotStore(a)
  <2>1. PICK iteration \in Iterations(Handles) :
          archive' = archive \cup {[held[a] EXCEPT !.store = Snapshot(iteration)]}
    BY <1>7 DEF SnapshotStore
  <2>2. [held[a] EXCEPT !.store = Snapshot(iteration)] \in ServiceState
    BY <1>1, SnapshotType, FieldOK
  <2>3. archive' \subseteq ServiceState
    BY <1>1, <2>1, <2>2
  <2> QED  BY <1>3, <1>7, <2>3, MoveOK, NothingOK, StutterType DEF SnapshotStore
<1>8. ASSUME NEW snap \in archive, LoadStore(a, snap)
      PROVE  TypeInv' /\ OperatorsOK'
  BY <1>1, <1>8, LoadStoreType
<1>9. CASE \/ LoadUserIds(a) \/ LoadTweetIds(a)
  <2>1. /\ UNCHANGED <<storeVars, now, threadVars, held, archive>>
        /\ user_ids' \in Nat /\ tweet_ids' \in Nat
        /\ Move(a, "load_tweet_ids") \/ Move(a, "load_clock")
    BY <1>1, <1>9 DEF LoadUserIds, LoadTweetIds, UserIds!SetCurrent,
                      TweetIds!SetCurrent
  <2>2. StoreTypeOK'
    BY <1>1, <2>1 DEF StoreTypeOK, storeVars
  <2>3. TypeInv'
    BY <1>1, <2>1, <2>2, LoadType
  <2>4. OperatorsOK'
    BY <1>3, <2>1 DEF OperatorsOK, Move
  <2> QED  BY <2>3, <2>4
<1>10. CASE LoadClock(a)
  <2>1. /\ UNCHANGED <<storeVars, user_ids, tweet_ids, threadVars, archive>>
        /\ now' \in Nat /\ Move(a, "idle")
        /\ held' = [held EXCEPT ![a] = Nothing]
    BY <1>1, <1>10 DEF LoadClock, Clock!SetNow
  <2>2. StoreTypeOK'
    BY <1>1, <2>1 DEF StoreTypeOK, storeVars
  <2>3. TypeInv'
    BY <1>1, <2>1, <2>2, LoadType
  <2>4. OperatorsOK'
    BY <1>1, <1>3, <2>1, MoveOK, NothingOK
  <2> QED  BY <2>3, <2>4
<1> QED  BY <1>4, <1>5, <1>6, <1>7, <1>8, <1>9, <1>10 DEF AdminStep

LEMMA AdminTypeStep ==
  ASSUME TypeInv, OperatorsOK, [AdminNext]_allVars
  PROVE  TypeInv' /\ OperatorsOK'
<1>1. CASE ClientNext \/ UNCHANGED allVars
  <2>1. [Next]_vars /\ UNCHANGED adminVars
    BY <1>1 DEF ClientNext, Next, allVars
  <2> QED  BY <2>1, TypeStep, AnyRequest DEF OperatorsOK, adminVars
<1>2. ASSUME NEW a \in Admins, AdminStep(a) PROVE TypeInv' /\ OperatorsOK'
  BY <1>2, AdminStepType
<1>3. CASE Restart
  <2>1. OperatorsOK'
    BY <1>3, NothingOK DEF Restart, OperatorsOK, AdminLabels
  <2> QED  BY <1>3, <2>1, RestartType DEF Restart
<1> QED  BY <1>1, <1>2, <1>3 DEF AdminNext

\* Every state is well typed, whatever snapshots are loaded when, if those
\* written by hand are.
THEOREM AdminTypeCorrect ==
  HandMade \subseteq ServiceState => (AdminSpec => []AdminTypeOK)
<1>1. HandMade \subseteq ServiceState /\ AdminInit => TypeInv /\ OperatorsOK
  BY TypeInit, NothingOK DEF AdminInit, OperatorsOK, AdminLabels
<1>2. TypeInv /\ OperatorsOK /\ [AdminNext]_allVars => TypeInv' /\ OperatorsOK'
  BY AdminTypeStep
<1>3. TypeInv /\ OperatorsOK => AdminTypeOK
  BY DEF TypeInv, OperatorsOK, AdminTypeOK, AdminLabels
<1> QED  BY <1>1, <1>2, <1>3, PTL DEF AdminSpec

-----------------------------------------------------------------------------
(* References.                                                             *)

\* A user of the list goes by the handle; users have ids other than that of
\* no user.
Names(store, h) == \E j \in DOMAIN store.users : store.users[j].handle = h

Closed(store) ==
  /\ \A j \in DOMAIN store.users : store.users[j].id # NoUser
  /\ \A e \in store.follows : /\ e.from # e.to
                              /\ Names(store, e.from) /\ Names(store, e.to)
  /\ \A i \in DOMAIN store.tweets : Names(store, store.tweets[i].author)

\* What is captured in one lock section is closed.
LEMMA SnapshotClosed ==
  ASSUME StoreTypeOK, NoOrphans, NEW iteration \in Iterations(Handles)
  PROVE  Closed(Snapshot(iteration))
<1> DEFINE store == Snapshot(iteration)
<1>1. PICK n, order : n \in Nat /\ ListsUsers(store.users, n, order)
  BY SnapshotUsers
<1>2. /\ DOMAIN store.users = 1..n
      /\ \A k \in 1..n : /\ store.users[k].handle = order[k]
                         /\ store.users[k].id = users[order[k]]
                         /\ order[k] \in Handles
  <2> HIDE DEF store
  <2> QED  BY <1>1 DEF ListsUsers
<1>3. \A h \in Handles : HasUser(h) => Names(store, h)
  <2> HIDE DEF store
  <2> QED  BY <1>1, <1>2 DEF ListsUsers, Names
<1>4. \A j \in DOMAIN store.users : store.users[j].id # NoUser
  <2> HIDE DEF store
  <2> QED  BY <1>1, <1>2 DEF ListsUsers, HasUser
<1>5. ASSUME NEW e \in store.follows
      PROVE  e.from # e.to /\ Names(store, e.from) /\ Names(store, e.to)
  <2>1. e.from \in Handles /\ e.to \in Handles /\ e.to \in follows[e.from]
    BY DEF Snapshot, Follow
  <2> HIDE DEF store
  <2> QED  BY <1>3, <2>1 DEF NoOrphans
<1>6. ASSUME NEW i \in DOMAIN store.tweets
      PROVE  Names(store, store.tweets[i].author)
  <2>1. PICK m, slot : m \in Nat /\ ListsTweets(store.tweets, m, slot)
    BY SnapshotTweets
  <2> HIDE DEF store
  <2>2. slot[i] \in Slots(Handles) /\ store.tweets[i] = TweetAt(slot[i])
    BY <2>1 DEF ListsTweets
  <2>3. TweetAt(slot[i]).author \in Handles /\ HasUser(TweetAt(slot[i]).author)
    BY <2>2, SlotType DEF NoOrphans, TweetSlots, Tweet
  <2> QED  BY <1>3, <2>2, <2>3
<1> QED  BY <1>4, <1>5, <1>6 DEF Closed

LEMMA ReplaceClosed ==
  ASSUME NEW snap \in StoreSnapshot, Closed(snap), Replace(snap)
  PROVE  NoOrphans'
<1>1. ASSUME NEW h \in Handles, Names(snap, h) PROVE HasUser(h)'
  <2>1. PICK j \in DOMAIN snap.users : users'[h] = snap.users[j].id
    BY <1>1, ReplaceUsers DEF Names
  <2> QED  BY <2>1 DEF Closed, HasUser
<1>2. ASSUME NEW f \in Handles, NEW g \in follows'[f]
      PROVE  f # g /\ HasUser(f)' /\ HasUser(g)'
  <2>1. g \in Handles /\ [from |-> f, to |-> g] \in snap.follows
    BY DEF Replace
  <2>2. f # g /\ Names(snap, f) /\ Names(snap, g)
    BY <2>1 DEF Closed
  <2> QED  BY <1>1, <2>1, <2>2
<1>3. ASSUME NEW s \in Slots(Handles)'
      PROVE  TweetAt(s)'.author = s[1] /\ HasUser(s[1])'
  <2>1. s[1] \in Handles /\ s[2] \in DOMAIN by_author'[s[1]]
    BY DEF Slots
  <2>2. snap.tweets \in Seq(Tweet)
    BY DEF StoreSnapshot
  <2>3. PICK n, order : n \in Nat /\
          ListsOwn(by_author'[s[1]], s[1], snap.tweets, n, order)
    BY <2>1, <2>2, ReplaceTweets
  <2>4. /\ by_author'[s[1]][s[2]].author = s[1]
        /\ \E i \in DOMAIN snap.tweets : snap.tweets[i].author = s[1]
    BY <2>1, <2>3 DEF ListsOwn
  <2>5. Names(snap, s[1])
    BY <2>4 DEF Closed
  <2> QED  BY <1>1, <2>1, <2>4, <2>5 DEF TweetAt
<1> QED  BY <1>2, <1>3 DEF NoOrphans, TweetSlots

ReferencesInv ==
  /\ TypeInv /\ OperatorsOK /\ NoOrphans
  /\ \A s \in archive : Closed(s.store)

LEMMA ReferencesStep ==
  ASSUME ReferencesInv, [AdminNext]_allVars PROVE ReferencesInv'
<1>1. TypeInv' /\ OperatorsOK'
  BY AdminTypeStep DEF ReferencesInv
<1>2. CASE ClientNext \/ UNCHANGED allVars
  <2>1. [Next]_vars /\ UNCHANGED adminVars
    BY <1>2 DEF ClientNext, Next, allVars
  <2> QED  BY <1>1, <2>1, OrphansStep, AnyRequest DEF ReferencesInv, adminVars
<1>3. ASSUME NEW a \in Admins, SnapshotStore(a) PROVE ReferencesInv'
  <2>1. PICK iteration \in Iterations(Handles) :
          archive' = archive \cup {[held[a] EXCEPT !.store = Snapshot(iteration)]}
    BY <1>3 DEF SnapshotStore
  <2>2. UNCHANGED storeVars
    BY <1>3 DEF SnapshotStore, vars, storeVars
  <2>3. held[a] \in ServiceState
    BY DEF ReferencesInv, OperatorsOK
  <2>4. [held[a] EXCEPT !.store = Snapshot(iteration)].store = Snapshot(iteration)
    BY <2>3 DEF ServiceState
  <2>5. Closed(Snapshot(iteration))
    BY SnapshotClosed DEF ReferencesInv, TypeInv, TypeOK
  <2>6. \A s \in archive' : Closed(s.store)
    BY <2>1, <2>4, <2>5 DEF ReferencesInv
  <2> QED  BY <1>1, <2>2, <2>6, OrphansKept DEF ReferencesInv
<1>4. ASSUME NEW a \in Admins, NEW snap \in archive, LoadStore(a, snap)
      PROVE  ReferencesInv'
  <2>1. snap.store \in StoreSnapshot /\ Closed(snap.store)
    BY DEF ReferencesInv, OperatorsOK, ServiceState
  <2>2. NoOrphans' /\ archive' = archive
    BY <1>4, <2>1, ReplaceClosed DEF LoadStore
  <2> QED  BY <1>1, <2>2 DEF ReferencesInv
<1>5. ASSUME NEW a \in Admins,
             \/ SnapshotClock(a) \/ SnapshotUserIds(a) \/ SnapshotTweetIds(a)
             \/ LoadUserIds(a) \/ LoadTweetIds(a) \/ LoadClock(a)
      PROVE  ReferencesInv'
  <2>1. UNCHANGED storeVars /\ archive' = archive
    BY <1>5 DEF SnapshotClock, SnapshotUserIds, SnapshotTweetIds, LoadUserIds,
                LoadTweetIds, LoadClock, vars, storeVars
  <2> QED  BY <1>1, <2>1, OrphansKept DEF ReferencesInv
<1>6. CASE Restart
  <2>1. NoOrphans' /\ archive' = archive
    BY <1>6 DEF Restart, Restarted, NoOrphans, TweetSlots, Slots
  <2> QED  BY <1>1, <2>1 DEF ReferencesInv
<1> QED  BY <1>2, <1>3, <1>4, <1>5, <1>6 DEF AdminNext, AdminStep

\* F4, F6 and F9 while snapshots are taken and loaded beside the clients and
\* the process restarts at any moment: load checks nothing, and nothing has to
\* be checked as long as what it is given was captured, or is closed like what
\* is captured.  A call in flight that found its user before a load took the
\* user away does no harm.
THEOREM ReferencesUnderLoads ==
  HandMade \subseteq {s \in ServiceState : Closed(s.store)} =>
    (AdminSpec => []NoOrphans)
<1>1. HandMade \subseteq {s \in ServiceState : Closed(s.store)} /\ AdminInit
        => ReferencesInv
  BY TypeInit, NothingOK
     DEF AdminInit, ReferencesInv, OperatorsOK, AdminLabels, Init, StoreInit,
         NoOrphans, TweetSlots, Slots
<1>2. ReferencesInv /\ [AdminNext]_allVars => ReferencesInv'
  BY ReferencesStep
<1>3. ReferencesInv => NoOrphans
  BY DEF ReferencesInv
<1> QED  BY <1>1, <1>2, <1>3, PTL DEF AdminSpec

-----------------------------------------------------------------------------
(* Where self-follows come from.                                           *)

NotSelf(store) == \A e \in store.follows : e.from # e.to

StrangersInv ==
  /\ TypeInv /\ OperatorsOK /\ NoSelfFollow
  /\ \A s \in archive : NotSelf(s.store)

\* Follow::new is the only way a client has to an edge.
LEMMA StrangersClients ==
  ASSUME TypeInv, \A h \in Handles : h \notin follows[h], [AnyNext]_vars
  PROVE  \A h \in Handles : h \notin follows'[h]
<1>1. ASSUME NEW t \in Threads, FollowPut(t)
      PROVE  \A h \in Handles : h \notin follows'[h]
  <2>1. req[t].who # req[t].whom
    BY <1>1 DEF FollowPut, FollowNew
  <2>2. \/ follows' = follows
        \/ follows' = [follows EXCEPT ![req[t].who] = @ \cup {req[t].whom}]
    BY <1>1 DEF FollowPut, PutFollow, storeVars
  <2>3. follows \in [Handles -> SUBSET Handles]
    BY DEF TypeInv, TypeOK, StoreTypeOK
  <2>4. ASSUME NEW h \in Handles PROVE h \notin follows'[h]
    <3>1. CASE h = req[t].who
      BY <2>1, <2>2, <2>3, <3>1
    <3>2. CASE h # req[t].who
      BY <2>2, <2>3, <3>2
    <3> QED  BY <3>1, <3>2
  <2> QED  BY <2>4
<1>2. ASSUME NEW t \in Threads, UnfollowDelete(t)
      PROVE  \A h \in Handles : h \notin follows'[h]
  BY <1>2 DEF UnfollowDelete, DeleteFollow, TypeInv, TypeOK, StoreTypeOK
<1>3. ASSUME NEW t \in Threads, Step(t), ~FollowPut(t), ~UnfollowDelete(t)
      PROVE  follows' = follows
  BY <1>3, StepKinds
     DEF CreateUserNextId, CreateUserPut, PostTweetNextId, PostTweetNow,
         PostTweetPut, Reads, PutUser, PutTweet, storeVars
<1>4. CASE \E t \in Threads : FollowPut(t) \/ UnfollowDelete(t)
  BY <1>1, <1>2, <1>4
<1>5. CASE ~\E t \in Threads : FollowPut(t) \/ UnfollowDelete(t)
  BY <1>3, <1>5 DEF AnyNext, Tick, Call, Return, vars, storeVars
<1> QED  BY <1>4, <1>5

LEMMA StrangersStep ==
  ASSUME StrangersInv, [AdminNext]_allVars PROVE StrangersInv'
<1>1. TypeInv' /\ OperatorsOK'
  BY AdminTypeStep DEF StrangersInv
<1>2. /\ \A h \in Handles : h \notin follows[h]
      /\ \A a \in Admins : held[a] \in ServiceState /\ NotSelf(held[a].store)
      /\ \A s \in archive : s \in ServiceState /\ NotSelf(s.store)
  BY DEF StrangersInv, OperatorsOK, NoSelfFollow, NotSelf
<1>3. SUFFICES /\ \A h \in Handles : h \notin follows'[h]
               /\ \A a \in Admins : NotSelf(held'[a].store)
               /\ \A s \in archive' : NotSelf(s.store)
  BY <1>1 DEF StrangersInv, NoSelfFollow, NotSelf
<1>4. NotSelf(Nothing.store)
  BY DEF NotSelf, Nothing
<1>5. CASE ClientNext \/ UNCHANGED allVars
  <2>1. [Next]_vars /\ UNCHANGED adminVars
    BY <1>5 DEF ClientNext, Next, allVars
  <2>2. TypeInv
    BY DEF StrangersInv
  <2> QED  BY <1>2, <2>1, <2>2, StrangersClients, AnyRequest DEF adminVars
<1>6. ASSUME NEW a \in Admins, SnapshotStore(a)
      PROVE  /\ \A h \in Handles : h \notin follows'[h]
             /\ \A b \in Admins : NotSelf(held'[b].store)
             /\ \A s \in archive' : NotSelf(s.store)
  <2>1. PICK iteration \in Iterations(Handles) :
          archive' = archive \cup {[held[a] EXCEPT !.store = Snapshot(iteration)]}
    BY <1>6 DEF SnapshotStore
  <2>2. [held[a] EXCEPT !.store = Snapshot(iteration)].store = Snapshot(iteration)
    BY <1>2 DEF ServiceState
  <2>3. ASSUME NEW e \in Snapshot(iteration).follows PROVE e.from # e.to
    BY <1>2, <2>3 DEF Snapshot, Follow
  <2>4. \A s \in archive' : NotSelf(s.store)
    BY <1>2, <2>1, <2>2, <2>3 DEF NotSelf
  <2>5. held' = [held EXCEPT ![a] = Nothing] /\ follows' = follows
    BY <1>6 DEF SnapshotStore, vars
  <2>6. \A b \in Admins : NotSelf(held'[b].store)
    BY <1>2, <1>4, <2>5 DEF StrangersInv, OperatorsOK
  <2> QED  BY <1>2, <2>4, <2>5, <2>6
<1>7. ASSUME NEW a \in Admins, NEW snap \in archive, LoadStore(a, snap)
      PROVE  /\ \A h \in Handles : h \notin follows'[h]
             /\ \A b \in Admins : NotSelf(held'[b].store)
             /\ archive' = archive
  <2>1. /\ Replace(snap.store) /\ held' = [held EXCEPT ![a] = snap]
        /\ archive' = archive /\ NotSelf(snap.store)
    BY <1>2, <1>7 DEF LoadStore
  <2>2. ASSUME NEW h \in Handles, h \in follows'[h] PROVE FALSE
    <3>1. [from |-> h, to |-> h] \in snap.store.follows
      BY <2>1, <2>2 DEF Replace
    <3> QED  BY <2>1, <3>1 DEF NotSelf
  <2>3. \A b \in Admins : NotSelf(held'[b].store)
    BY <1>2, <2>1 DEF StrangersInv, OperatorsOK
  <2> QED  BY <2>1, <2>2, <2>3
<1>8. ASSUME NEW a \in Admins,
             \/ SnapshotClock(a) \/ SnapshotUserIds(a) \/ SnapshotTweetIds(a)
             \/ LoadUserIds(a) \/ LoadTweetIds(a)
      PROVE  /\ follows' = follows /\ archive' = archive
             /\ \A b \in Admins : NotSelf(held'[b].store)
  <2>1. /\ follows' = follows /\ archive' = archive
        /\ \/ held' = held
           \/ \E n : \/ held' = [held EXCEPT ![a].clock_now = n]
                     \/ held' = [held EXCEPT ![a].user_ids = n]
                     \/ held' = [held EXCEPT ![a].tweet_ids = n]
    BY <1>8 DEF SnapshotClock, SnapshotUserIds, SnapshotTweetIds, LoadUserIds,
                LoadTweetIds, vars, storeVars
  <2>2. \A b \in Admins : held'[b].store = held[b].store
    BY <1>2, <2>1 DEF StrangersInv, OperatorsOK, ServiceState
  <2> QED  BY <1>2, <2>1, <2>2
<1>9. ASSUME NEW a \in Admins, LoadClock(a)
      PROVE  /\ follows' = follows /\ archive' = archive
             /\ \A b \in Admins : NotSelf(held'[b].store)
  <2>1. /\ follows' = follows /\ archive' = archive
        /\ held' = [held EXCEPT ![a] = Nothing]
    BY <1>9 DEF LoadClock, storeVars
  <2> QED  BY <1>2, <1>4, <2>1 DEF StrangersInv, OperatorsOK
<1>10. CASE Restart
  BY <1>2, <1>4, <1>10 DEF Restart, Restarted
<1> QED
  BY <1>2, <1>5, <1>6, <1>7, <1>8, <1>9, <1>10 DEF AdminNext, AdminStep

\* F4 wherever a Follow is held, with the one exception NoSelfFollow's run
\* shows taken away: "no Follow value with from == to can exist anywhere in the
\* program" as long as no snapshot written by hand brings one.  Clients,
\* captures torn or whole, loads beside calls and restarts never make one.
THEOREM SelfFollowsAreHandMade ==
  HandMade \subseteq {s \in ServiceState : NotSelf(s.store)} =>
    (AdminSpec => []NoSelfFollow)
<1>1. HandMade \subseteq {s \in ServiceState : NotSelf(s.store)} /\ AdminInit
        => StrangersInv
  <2> SUFFICES ASSUME HandMade \subseteq {s \in ServiceState : NotSelf(s.store)},
                      AdminInit
               PROVE  StrangersInv
    OBVIOUS
  <2>1. TypeInv /\ OperatorsOK
    BY TypeInit, NothingOK DEF AdminInit, OperatorsOK, AdminLabels
  <2> QED  BY <2>1 DEF StrangersInv, NoSelfFollow, AdminInit, Init, StoreInit,
                       Nothing
<1>2. StrangersInv /\ [AdminNext]_allVars => StrangersInv'
  BY StrangersStep
<1>3. StrangersInv => NoSelfFollow
  BY DEF StrangersInv
<1> QED  BY <1>1, <1>2, <1>3, PTL DEF AdminSpec

==============================================================================
