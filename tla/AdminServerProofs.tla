------------------------- MODULE AdminServerProofs --------------------------
(***************************************************************************)
(* Proofs about the process: main, the admin routes and the service, for   *)
(* any demo, clients, operators, uploaded bodies and bounds, when          *)
(* operators keep clients away from captures and loads.  First that a      *)
(* snapshot can be listed in one way and restores what it captured, then   *)
(* that ids go on where it left off, then the process.                     *)
(***************************************************************************)
EXTENDS AdminServer, ServiceAdminProofs, ServiceOrderProofs

-----------------------------------------------------------------------------
(* There is one way to list a set in order.                                *)

Enumerates(S, pred, n, f) ==
  /\ f \in [1..n -> S]
  /\ \A x \in S : \E k \in 1..n : f[k] = x
  /\ \A i, j \in 1..n : i < j => f[i] \in pred[f[j]]

LEMMA EnumeratedPlaces ==
  ASSUME NEW S, IsFiniteSet(S), NEW pred, Ordered(S, pred),
         NEW n \in Nat, NEW f, Enumerates(S, pred, n, f)
  PROVE  /\ n = Cardinality(S)
         /\ \A k \in 1..n : Cardinality(pred[f[k]]) = k - 1
<1>1. \A i, j \in 1..n : i # j => f[i] # f[j]
  BY DEF Enumerates, Ordered
<1>2. \A m \in Nat : IsFiniteSet(1..m) /\ Cardinality(1..m) = m
  <2> TAKE m \in Nat
  <2>1. /\ IsFiniteSet(1..m)
        /\ Cardinality(1..m) = IF 1 > m THEN 0 ELSE m - 1 + 1
    BY FS_Interval
  <2> QED  BY <2>1
<1>3. n = Cardinality(S)
  <2>1. f \in Bijection(1..n, S)
    BY <1>1 DEF Enumerates, Bijection, Injection, Surjection, IsInjective
  <2>2. ExistsBijection(1..n, S)
    BY <2>1 DEF ExistsBijection
  <2> QED  BY <1>2, <2>2, FS_Bijection
<1>4. ASSUME NEW k \in 1..n PROVE Cardinality(pred[f[k]]) = k - 1
  <2> DEFINE g == [i \in 1..(k - 1) |-> f[i]]
             T == pred[f[k]]
  <2>1. k - 1 \in Nat /\ \A i \in 1..(k - 1) : i \in 1..n /\ i < k
    OBVIOUS
  <2>2. \A i \in 1..(k - 1) : g[i] \in T
    BY <2>1 DEF Enumerates
  <2>3. ASSUME NEW x \in T PROVE \E i \in 1..(k - 1) : g[i] = x
    <3>1. f[k] \in S /\ x \in S
      BY DEF Enumerates, Ordered
    <3>2. PICK i \in 1..n : f[i] = x
      BY <3>1 DEF Enumerates
    <3>3. i < k
      <4>1. i # k
        BY <3>1, <3>2 DEF Ordered
      <4>2. ~(k < i)
        BY <3>1, <3>2 DEF Enumerates, Ordered
      <4> QED  BY <4>1, <4>2
    <3> QED  BY <3>2, <3>3
  <2>4. g \in Bijection(1..(k - 1), T)
    BY <1>1, <2>1, <2>2, <2>3 DEF Bijection, Injection, Surjection, IsInjective
  <2>5. ExistsBijection(1..(k - 1), T)
    BY <2>4 DEF ExistsBijection
  <2> HIDE DEF T
  <2>6. Cardinality(T) = k - 1
    BY <1>2, <2>1, <2>5, FS_Bijection
  <2> QED  BY <2>6 DEF T
<1> QED  BY <1>3, <1>4

LEMMA OneEnumeration ==
  ASSUME NEW S, IsFiniteSet(S), NEW pred, Ordered(S, pred),
         NEW n \in Nat, NEW f, Enumerates(S, pred, n, f),
         NEW m \in Nat, NEW g, Enumerates(S, pred, m, g)
  PROVE  n = m /\ \A k \in 1..n : f[k] = g[k]
<1>1. n = m
  BY EnumeratedPlaces
<1>2. ASSUME NEW k \in 1..n PROVE f[k] = g[k]
  <2>1. Cardinality(pred[f[k]]) = k - 1
    BY EnumeratedPlaces
  <2>2. Cardinality(pred[g[k]]) = k - 1
    BY <1>1, EnumeratedPlaces
  <2>3. f[k] \in S /\ g[k] \in S
    BY <1>1 DEF Enumerates
  <2>4. /\ g[k] \in pred[f[k]] => Cardinality(pred[g[k]]) < Cardinality(pred[f[k]])
        /\ f[k] \in pred[g[k]] => Cardinality(pred[f[k]]) < Cardinality(pred[g[k]])
    BY <2>3, Places
  <2> QED  BY <2>1, <2>2, <2>3, <2>4 DEF Ordered
<1> QED  BY <1>1, <1>2

-----------------------------------------------------------------------------
(* When ids are unique the order of the maps does not show in a snapshot.  *)

DistinctUsers ==
  \A h, g \in Handles : HasUser(h) /\ users[h] = users[g] => h = g

LEMMA OneUserList ==
  ASSUME StoreTypeOK, DistinctUsers, NEW iteration \in Iterations(Handles),
         NEW list, NEW n \in Nat, NEW order, ListsUsers(list, n, order)
  PROVE  Snapshot(iteration).users = list
<1> DEFINE S == {h \in Handles : HasUser(h)}
           pred == [x \in S |-> {y \in S : users[y] < users[x]}]
<1>1. IsFiniteSet(S)
  BY HandlesAssumption, FS_Subset
<1>2. Ordered(S, pred)
  BY DEF Ordered, StoreTypeOK, DistinctUsers
<1>3. ASSUME NEW l, NEW m \in Nat, NEW f, ListsUsers(l, m, f)
      PROVE  Enumerates(S, pred, m, f)
  <2>1. f \in [1..m -> S] /\ \A x \in S : \E k \in 1..m : f[k] = x
    BY <1>3 DEF ListsUsers
  <2>2. ASSUME NEW i \in 1..m, NEW j \in 1..m, i < j
        PROVE  f[i] \in pred[f[j]]
    <3>1. /\ f[i] \in S /\ f[j] \in S /\ f[i] # f[j]
          /\ users[f[i]] <= users[f[j]]
      BY <1>3, <2>1, <2>2 DEF ListsUsers
    <3>2. users[f[i]] # users[f[j]] /\ users[f[i]] \in Nat /\ users[f[j]] \in Nat
      BY <3>1 DEF DistinctUsers, StoreTypeOK
    <3> QED  BY <3>1, <3>2
  <2> HIDE DEF S, pred
  <2> QED  BY <2>1, <2>2 DEF Enumerates
<1>4. PICK m, f : m \in Nat /\ ListsUsers(Snapshot(iteration).users, m, f)
  BY SnapshotUsers
<1>5. n = m /\ \A k \in 1..n : order[k] = f[k]
  <2>1. Enumerates(S, pred, n, order) /\ Enumerates(S, pred, m, f)
    BY <1>3, <1>4
  <2> HIDE DEF S, pred
  <2> QED  BY <1>1, <1>2, <1>4, <2>1, OneEnumeration
<1> QED  BY <1>4, <1>5 DEF ListsUsers

LEMMA OneTweetList ==
  ASSUME StoreTypeOK, NoTwinTweets, NEW iteration \in Iterations(Handles),
         NEW list, NEW n \in Nat, NEW order, ListsTweets(list, n, order)
  PROVE  Snapshot(iteration).tweets = list
<1> DEFINE S == Slots(Handles)
           pred == [x \in S |-> {y \in S : TweetAt(y).id < TweetAt(x).id}]
<1>1. IsFiniteSet(S)
  BY SlotsFinite
<1>2. /\ \A x \in S : TweetAt(x).id \in Nat
      /\ \A x, y \in S : TweetAt(x).id = TweetAt(y).id => x = y
  BY SlotType DEF NoTwinTweets, TweetSlots
<1>3. Ordered(S, pred)
  <2> HIDE DEF S
  <2> QED  BY <1>2 DEF Ordered
<1>4. ASSUME NEW l, NEW m \in Nat, NEW f, ListsTweets(l, m, f)
      PROVE  Enumerates(S, pred, m, f)
  <2>1. f \in [1..m -> S] /\ \A x \in S : \E k \in 1..m : f[k] = x
    BY <1>4 DEF ListsTweets
  <2>2. ASSUME NEW i \in 1..m, NEW j \in 1..m, i < j
        PROVE  f[i] \in pred[f[j]]
    <3>1. /\ f[i] \in S /\ f[j] \in S /\ f[i] # f[j]
          /\ TweetAt(f[i]).id <= TweetAt(f[j]).id
      BY <2>1, <1>4, <2>2 DEF ListsTweets
    <3> HIDE DEF S
    <3> QED  BY <1>2, <3>1
  <2> HIDE DEF S, pred
  <2> QED  BY <2>1, <2>2 DEF Enumerates
<1>5. PICK m, f : m \in Nat /\ ListsTweets(Snapshot(iteration).tweets, m, f)
  BY SnapshotTweets
<1>6. n = m /\ \A k \in 1..n : order[k] = f[k]
  <2>1. Enumerates(S, pred, n, order) /\ Enumerates(S, pred, m, f)
    BY <1>4, <1>5
  <2> HIDE DEF S, pred
  <2> QED  BY <1>1, <1>3, <1>5, <2>1, OneEnumeration
<1> QED  BY <1>5, <1>6 DEF ListsTweets

-----------------------------------------------------------------------------
(* A snapshot restores what it captured.                                   *)

\* The lists as snapshot leaves them when ids are unique.
Canonical(store) ==
  /\ \A j \in DOMAIN store.users : store.users[j].id # NoUser
  /\ \A i, j \in DOMAIN store.users : i < j =>
       /\ store.users[i].id < store.users[j].id
       /\ store.users[i].handle # store.users[j].handle
  /\ \A i, j \in DOMAIN store.tweets : i < j =>
       store.tweets[i].id < store.tweets[j].id

LEMMA SnapshotCanonical ==
  ASSUME StoreTypeOK, DistinctUsers, NoTwinTweets,
         NEW iteration \in Iterations(Handles)
  PROVE  Canonical(Snapshot(iteration))
<1> DEFINE store == Snapshot(iteration)
<1>1. PICK n, order : n \in Nat /\ ListsUsers(store.users, n, order)
  BY SnapshotUsers
<1>2. PICK m, slot : m \in Nat /\ ListsTweets(store.tweets, m, slot)
  BY SnapshotTweets
<1> HIDE DEF store
<1>3. /\ DOMAIN store.users = 1..n
      /\ \A k \in 1..n : /\ store.users[k].handle = order[k]
                         /\ store.users[k].id = users[order[k]]
                         /\ order[k] \in Handles /\ HasUser(order[k])
                         /\ users[order[k]] \in Nat
  BY <1>1 DEF ListsUsers, StoreTypeOK
<1>4. ASSUME NEW i \in 1..n, NEW j \in 1..n, i < j
      PROVE  order[i] # order[j] /\ users[order[i]] < users[order[j]]
  <2>1. order[i] # order[j] /\ users[order[i]] <= users[order[j]]
    BY <1>1, <1>4 DEF ListsUsers
  <2>2. users[order[i]] # users[order[j]]
    BY <1>3, <2>1 DEF DistinctUsers
  <2> QED  BY <1>3, <2>1, <2>2
<1>5. /\ DOMAIN store.tweets = 1..m
      /\ \A k \in 1..m : /\ store.tweets[k] = TweetAt(slot[k])
                         /\ slot[k] \in Slots(Handles)
                         /\ TweetAt(slot[k]).id \in Nat
  BY <1>2, SlotType DEF ListsTweets
<1>6. ASSUME NEW i \in 1..m, NEW j \in 1..m, i < j
      PROVE  store.tweets[i].id < store.tweets[j].id
  <2>1. /\ slot[i] # slot[j]
        /\ TweetAt(slot[i]).id <= TweetAt(slot[j]).id
    BY <1>2, <1>6 DEF ListsTweets
  <2>2. TweetAt(slot[i]).id # TweetAt(slot[j]).id
    BY <1>5, <2>1 DEF NoTwinTweets, TweetSlots
  <2> QED  BY <1>5, <2>1, <2>2
<1>7. \A j \in 1..n : store.users[j].id # NoUser
  BY <1>3 DEF HasUser
<1>8. \A i, j \in 1..n : i < j =>
        /\ store.users[i].id < store.users[j].id
        /\ store.users[i].handle # store.users[j].handle
  BY <1>3, <1>4
<1>9. Canonical(store)
  BY <1>3, <1>5, <1>6, <1>7, <1>8 DEF Canonical
<1> QED  BY <1>9 DEF store

LEMMA ReplaceListsUsers ==
  ASSUME NEW snap \in StoreSnapshot, Canonical(snap), Replace(snap)
  PROVE  /\ DistinctUsers'
         /\ \E n, order : n \in Nat /\ ListsUsers(snap.users, n, order)'
<1> DEFINE User == [id : Nat, handle : Handles]
<1>1. snap.users \in Seq(User)
  BY DEF StoreSnapshot
<1>2. PICK n \in Nat : DOMAIN snap.users = 1..n /\ n = Len(snap.users)
  <2> HIDE DEF User
  <2> QED  BY <1>1
<1>3. \A k \in 1..n : snap.users[k] \in User
  <2> HIDE DEF User
  <2> QED  BY <1>1, <1>2
<1> DEFINE order == [k \in 1..n |-> snap.users[k].handle]
<1>4. \A k \in 1..n : /\ snap.users[k].handle \in Handles
                      /\ snap.users[k].id \in Nat /\ snap.users[k].id # NoUser
                      /\ snap.users[k] = [id |-> snap.users[k].id,
                                          handle |-> snap.users[k].handle]
  BY <1>2, <1>3 DEF Canonical
<1>5. \A i, j \in 1..n : snap.users[i].handle = snap.users[j].handle => i = j
  BY <1>2 DEF Canonical
<1>6. \A k \in 1..n : users'[snap.users[k].handle] = snap.users[k].id
  <2> TAKE k \in 1..n
  <2> DEFINE h == snap.users[k].handle
  <2>1. h \in Handles
    BY <1>4
  <2>2. PICK j \in DOMAIN snap.users :
          snap.users[j].handle = h /\ users'[h] = snap.users[j].id
    BY <1>2, <2>1, ReplaceUsers
  <2> QED  BY <1>2, <1>5, <2>2
<1>7. \A h \in Handles : users'[h] # NoUser =>
        \E k \in 1..n : snap.users[k].handle = h
  BY <1>2, ReplaceUsers
<1>8. \A i, j \in 1..n : i < j => snap.users[i].id < snap.users[j].id
  BY <1>2 DEF Canonical
<1> HIDE DEF User
<1>9. snap.users = [k \in 1..n |-> snap.users[k]]
  BY <1>1, <1>2
<1>10. /\ order \in [1..n -> Handles]
       /\ \A k \in 1..n : order[k] = snap.users[k].handle
  BY <1>4
<1> HIDE DEF order
<1>11. snap.users =
         [k \in 1..n |-> [id |-> users'[order[k]], handle |-> order[k]]]
  <2>1. ASSUME NEW k \in 1..n
        PROVE  snap.users[k] = [id |-> users'[order[k]], handle |-> order[k]]
    BY <1>4, <1>6, <1>10
  <2> QED  BY <1>9, <2>1
<1>12. ListsUsers(snap.users, n, order)'
  <2>1. ASSUME NEW i \in 1..n, NEW j \in 1..n, i < j
        PROVE  order[i] # order[j] /\ users'[order[i]] <= users'[order[j]]
    <3>1. order[i] = snap.users[i].handle /\ order[j] = snap.users[j].handle
      BY <1>10
    <3>2. users'[order[i]] = snap.users[i].id /\ users'[order[j]] = snap.users[j].id
      BY <1>6, <3>1
    <3>3. snap.users[i].id < snap.users[j].id
      BY <1>8, <2>1
    <3>4. snap.users[i].id \in Nat /\ snap.users[j].id \in Nat
      BY <1>4
    <3>5. order[i] # order[j]
      BY <1>5, <2>1, <3>1
    <3> QED  BY <3>2, <3>3, <3>4, <3>5
  <2>2. \A h \in Handles : users'[h] # NoUser => \E k \in 1..n : order[k] = h
    BY <1>7, <1>10
  <2>3. ASSUME NEW k \in 1..n PROVE users'[order[k]] # NoUser
    <3>1. order[k] = snap.users[k].handle
      BY <1>10
    <3>2. users'[order[k]] = snap.users[k].id
      BY <1>6, <3>1
    <3> QED  BY <1>4, <3>2
  <2> QED  BY <1>10, <1>11, <2>1, <2>2, <2>3 DEF ListsUsers, HasUser
<1>13. DistinctUsers'
  <2>1. ASSUME NEW h \in Handles, NEW g \in Handles, users'[h] # NoUser,
               users'[h] = users'[g]
        PROVE  h = g
    <3>1. PICK i \in 1..n : snap.users[i].handle = h
      BY <1>7, <2>1
    <3>2. PICK j \in 1..n : snap.users[j].handle = g
      BY <1>7, <2>1
    <3>3. snap.users[i].id = snap.users[j].id
      BY <1>6, <2>1, <3>1, <3>2
    <3>4. i = j
      <4>1. snap.users[i].id \in Nat /\ snap.users[j].id \in Nat
        BY <1>4
      <4>2. ~(i < j) /\ ~(j < i)
        BY <1>8, <3>3, <4>1
      <4> QED  BY <4>2
    <3> QED  BY <3>1, <3>2, <3>4
  <2> QED  BY <2>1 DEF DistinctUsers, HasUser
<1> QED  BY <1>12, <1>13

LEMMA ReplaceListsTweets ==
  ASSUME NEW snap \in StoreSnapshot, Canonical(snap), Replace(snap)
  PROVE  /\ NoTwinTweets'
         /\ \E n, order : n \in Nat /\ ListsTweets(snap.tweets, n, order)'
<1>1. snap.tweets \in Seq(Tweet)
  BY DEF StoreSnapshot
<1>2. PICK n \in Nat : DOMAIN snap.tweets = 1..n
  BY <1>1
<1>3. ASSUME NEW i \in 1..n
      PROVE  snap.tweets[i].id \in Nat /\ snap.tweets[i].author \in Handles
  <2>1. snap.tweets[i] \in Tweet
    BY <1>1, <1>2
  <2> QED  BY <2>1 DEF Tweet
<1>4. /\ \A i, j \in 1..n : i < j => snap.tweets[i].id < snap.tweets[j].id
      /\ \A i, j \in 1..n : snap.tweets[i].id = snap.tweets[j].id => i = j
  <2>1. \A i, j \in 1..n : i < j => snap.tweets[i].id < snap.tweets[j].id
    BY <1>2 DEF Canonical
  <2>2. ASSUME NEW i \in 1..n, NEW j \in 1..n,
               snap.tweets[i].id = snap.tweets[j].id
        PROVE  i = j
    <3>1. snap.tweets[i].id \in Nat /\ snap.tweets[j].id \in Nat
      BY <1>3
    <3>2. ~(i < j) /\ ~(j < i)
      BY <2>1, <2>2, <3>1
    <3> QED  BY <3>2
  <2> QED  BY <2>1, <2>2
<1>5. \A s : s \in Slots(Handles)' <=>
        \E a \in Handles : \E i \in DOMAIN by_author'[a] : s = <<a, i>>
  BY DEF Slots
<1>6. ASSUME NEW s \in Slots(Handles)'
      PROVE  \E i \in 1..n : TweetAt(s)' = snap.tweets[i]
  <2>1. PICK h \in Handles : \E k \in DOMAIN by_author'[h] : s = <<h, k>>
    BY <1>5
  <2>2. PICK k \in DOMAIN by_author'[h] : s = <<h, k>>
    BY <2>1
  <2>3. PICK m, own : m \in Nat /\ ListsOwn(by_author'[h], h, snap.tweets, m, own)
    BY <1>1, ReplaceTweets
  <2>4. k \in 1..m /\ own[k] \in 1..n
    BY <1>2, <2>3 DEF ListsOwn
  <2>5. by_author'[h][k] = snap.tweets[own[k]]
    BY <2>3, <2>4 DEF ListsOwn
  <2> QED  BY <2>2, <2>4, <2>5 DEF TweetAt
<1>7. ASSUME NEW r \in Slots(Handles)', NEW s \in Slots(Handles)',
             TweetAt(r)'.id = TweetAt(s)'.id
      PROVE  r = s
  <2>1. PICK h \in Handles : \E k \in DOMAIN by_author'[h] : r = <<h, k>>
    BY <1>5
  <2>2. PICK k \in DOMAIN by_author'[h] : r = <<h, k>>
    BY <2>1
  <2>3. PICK g \in Handles : \E l \in DOMAIN by_author'[g] : s = <<g, l>>
    BY <1>5
  <2>4. PICK l \in DOMAIN by_author'[g] : s = <<g, l>>
    BY <2>3
  <2>5. PICK m, own : m \in Nat /\ ListsOwn(by_author'[h], h, snap.tweets, m, own)
    BY <1>1, ReplaceTweets
  <2>6. PICK p, its : p \in Nat /\ ListsOwn(by_author'[g], g, snap.tweets, p, its)
    BY <1>1, ReplaceTweets
  <2>7. /\ k \in 1..m /\ own[k] \in 1..n /\ TweetAt(r)' = snap.tweets[own[k]]
        /\ snap.tweets[own[k]].author = h
    BY <1>2, <2>2, <2>5 DEF ListsOwn, TweetAt
  <2>8. /\ l \in 1..p /\ its[l] \in 1..n /\ TweetAt(s)' = snap.tweets[its[l]]
        /\ snap.tweets[its[l]].author = g
    BY <1>2, <2>4, <2>6 DEF ListsOwn, TweetAt
  <2>9. TweetAt(r)' = TweetAt(s)' /\ h = g
    BY <1>4, <1>7, <2>7, <2>8
  <2>10. l \in 1..m /\ own[l] \in 1..n /\ TweetAt(s)' = snap.tweets[own[l]]
    BY <1>2, <2>4, <2>5, <2>9 DEF ListsOwn, TweetAt
  <2>11. own[k] = own[l]
    BY <1>4, <2>7, <2>9, <2>10
  <2>12. k = l
    <3>1. ASSUME NEW i \in 1..m, NEW j \in 1..m, i < j
          PROVE  own[i] # own[j]
      <4>1. own[i] \in 1..n /\ own[j] \in 1..n
        BY <1>2, <2>5 DEF ListsOwn
      <4>2. /\ snap.tweets[own[i]].id \in Nat
            /\ \/ snap.tweets[own[i]].id < snap.tweets[own[j]].id
               \/ own[i] < own[j]
        BY <1>3, <2>5, <3>1, <4>1 DEF ListsOwn
      <4> QED  BY <4>1, <4>2
    <3> QED  BY <2>7, <2>10, <2>11, <3>1
  <2> QED  BY <2>2, <2>4, <2>9, <2>12
<1>8. ASSUME NEW i \in 1..n
      PROVE  \E s \in Slots(Handles)' : TweetAt(s)' = snap.tweets[i]
  <2> DEFINE h == snap.tweets[i].author
  <2>1. h \in Handles
    BY <1>3
  <2>2. PICK m, own : m \in Nat /\ ListsOwn(by_author'[h], h, snap.tweets, m, own)
    BY <1>1, <2>1, ReplaceTweets
  <2>3. PICK k \in 1..m : own[k] = i
    BY <1>2, <2>2 DEF ListsOwn
  <2>4. k \in DOMAIN by_author'[h] /\ by_author'[h][k] = snap.tweets[i]
    BY <2>2, <2>3 DEF ListsOwn
  <2> HIDE DEF h
  <2>5. <<h, k>> \in Slots(Handles)' /\ TweetAt(<<h, k>>)' = snap.tweets[i]
    BY <1>5, <2>1, <2>4 DEF TweetAt
  <2> QED  BY <2>5
<1>9. PICK order : order = [i \in 1..n |->
                              CHOOSE s \in Slots(Handles)' :
                                by_author'[s[1]][s[2]] = snap.tweets[i]]
  OBVIOUS
<1>10. /\ order \in [1..n -> Slots(Handles)']
       /\ \A i \in 1..n : /\ order[i] \in Slots(Handles)'
                          /\ TweetAt(order[i])' = snap.tweets[i]
  BY <1>8, <1>9 DEF TweetAt
<1>11. snap.tweets = [k \in 1..n |-> TweetAt(order[k])']
  <2>1. snap.tweets = [k \in 1..n |-> snap.tweets[k]]
    BY <1>1, <1>2
  <2> QED  BY <1>10, <2>1
<1>12. \A s \in Slots(Handles)' : \E k \in 1..n : order[k] = s
  BY <1>6, <1>7, <1>10
<1>13. \A i, j \in 1..n : i < j =>
         /\ order[i] # order[j]
         /\ TweetAt(order[i])'.id <= TweetAt(order[j])'.id
  BY <1>3, <1>4, <1>10
<1>14. ListsTweets(snap.tweets, n, order)'
  BY <1>10, <1>11, <1>12, <1>13 DEF ListsTweets, TweetAt
<1>15. NoTwinTweets'
  BY <1>7 DEF NoTwinTweets, TweetSlots
<1> QED  BY <1>14, <1>15

LEMMA OneUserListNext ==
  (StoreTypeOK /\ DistinctUsers =>
     \A iteration \in Iterations(Handles), n \in Nat : \A list, order :
       ListsUsers(list, n, order) => Snapshot(iteration).users = list)'
<1>1. StoreTypeOK /\ DistinctUsers =>
        \A iteration \in Iterations(Handles), n \in Nat : \A list, order :
          ListsUsers(list, n, order) => Snapshot(iteration).users = list
  BY OneUserList
<1> QED  BY <1>1, PTL

LEMMA OneTweetListNext ==
  (StoreTypeOK /\ NoTwinTweets =>
     \A iteration \in Iterations(Handles), n \in Nat : \A list, order :
       ListsTweets(list, n, order) => Snapshot(iteration).tweets = list)'
<1>1. StoreTypeOK /\ NoTwinTweets =>
        \A iteration \in Iterations(Handles), n \in Nat : \A list, order :
          ListsTweets(list, n, order) => Snapshot(iteration).tweets = list
  BY OneTweetList
<1> QED  BY <1>1, PTL

\* What snapshot returns after load is what was loaded, to the order.
LEMMA ReplaceRestores ==
  ASSUME NEW snap \in StoreSnapshot, Canonical(snap), Replace(snap)
  PROVE  \A iteration \in Iterations(Handles) : Snapshot(iteration)' = snap
<1>1. StoreTypeOK'
  BY ReplaceType
<1>2. DistinctUsers' /\ NoTwinTweets'
  BY ReplaceListsUsers, ReplaceListsTweets
<1> TAKE iteration \in Iterations(Handles)
<1>5. Snapshot(iteration)'.users = snap.users
  <2>1. PICK n, order : n \in Nat /\ ListsUsers(snap.users, n, order)'
    BY ReplaceListsUsers
  <2> QED  BY <1>1, <1>2, <2>1, OneUserListNext
<1>6. Snapshot(iteration)'.tweets = snap.tweets
  <2>1. PICK n, order : n \in Nat /\ ListsTweets(snap.tweets, n, order)'
    BY ReplaceListsTweets
  <2> QED  BY <1>1, <1>2, <2>1, OneTweetListNext
<1>7. Snapshot(iteration)'.follows = snap.follows
  <2>1. Snapshot(iteration)'.follows = {e \in Follow : e.to \in follows'[e.from]}
    BY DEF Snapshot
  <2>2. \A h \in Handles :
          follows'[h] = {g \in Handles : [from |-> h, to |-> g] \in snap.follows}
    BY DEF Replace
  <2>3. snap.follows \subseteq Follow
    BY DEF StoreSnapshot
  <2>4. \A e \in Follow : /\ e.from \in Handles /\ e.to \in Handles
                          /\ e = [from |-> e.from, to |-> e.to]
    BY DEF Follow
  <2> QED  BY <2>1, <2>2, <2>3, <2>4
<1>8. Snapshot(iteration)' = [users |-> Snapshot(iteration)'.users,
                              follows |-> Snapshot(iteration)'.follows,
                              tweets |-> Snapshot(iteration)'.tweets]
  BY DEF Snapshot
<1>9. snap = [users |-> snap.users, follows |-> snap.follows,
              tweets |-> snap.tweets]
  BY DEF StoreSnapshot
<1> QED  BY <1>5, <1>6, <1>7, <1>8, <1>9

-----------------------------------------------------------------------------
(* Ids go on where a snapshot left off.                                    *)

QuietOperators == {"snapshot_state", "load_state"} \subseteq Quiet

IdsUnique == UniqueTweetIds /\ UniqueUserIds

Numbered(u, w) ==
  /\ \A h \in Handles : users[h] <= u
  /\ \A s \in Slots(Handles) : TweetAt(s).id \in 1..w

\* A state that is safe to load: its counters are past its ids.
Proper(state) ==
  /\ state \in ServiceState
  /\ Canonical(state.store)
  /\ \A j \in DOMAIN state.store.users :
       state.store.users[j].id <= state.user_ids
  /\ \A i \in DOMAIN state.store.tweets :
       state.store.tweets[i].id \in 1..state.tweet_ids

LEMMA IdleUnique ==
  ASSUME \A t \in Threads : pc[t] = "idle", DistinctUsers, NoTwinTweets,
         Numbered(user_ids, tweet_ids)
  PROVE  IdsUnique
<1>1. \A op : Drawn(op) = {}
  BY DEF Drawn
<1> QED  BY <1>1 DEF IdsUnique, UniqueTweetIds, UniqueUserIds, DistinctUsers,
                     NoTwinTweets, TweetSlots, Numbered

LEMMA IdleUniqueNext ==
  ((\A t \in Threads : pc[t] = "idle") /\ DistinctUsers /\ NoTwinTweets
     /\ Numbered(user_ids, tweet_ids) => IdsUnique)'
<1>1. (\A t \in Threads : pc[t] = "idle") /\ DistinctUsers /\ NoTwinTweets
        /\ Numbered(user_ids, tweet_ids) => IdsUnique
  BY IdleUnique
<1> QED  BY <1>1, PTL

LEMMA UniqueIsDistinct ==
  ASSUME IdsUnique
  PROVE  DistinctUsers /\ NoTwinTweets /\ Numbered(user_ids, tweet_ids)
  BY DEF IdsUnique, UniqueTweetIds, UniqueUserIds, DistinctUsers,
         NoTwinTweets, TweetSlots, Numbered

LEMMA UniqueKept ==
  ASSUME IdsUnique, UNCHANGED vars PROVE IdsUnique'
<1>1. /\ users' = users /\ by_author' = by_author
      /\ user_ids' = user_ids /\ tweet_ids' = tweet_ids
      /\ pc' = pc /\ req' = req /\ draft' = draft
  BY DEF vars, threadVars
<1>2. \A op : Drawn(op)' = Drawn(op)
  BY <1>1 DEF Drawn
<1>3. TweetSlots' = TweetSlots /\ \A s : TweetAt(s)' = TweetAt(s)
  BY <1>1 DEF TweetSlots, Slots, TweetAt
<1>4. UniqueUserIds'
  BY <1>1, <1>2 DEF IdsUnique, UniqueUserIds, HasUser
<1>5. UniqueTweetIds'
  BY <1>1, <1>2, <1>3 DEF IdsUnique, UniqueTweetIds
<1> QED  BY <1>1, <1>4, <1>5 DEF IdsUnique

LEMMA UniqueRestarted == ASSUME Restarted PROVE IdsUnique'
<1>1. \A op : Drawn(op)' = {}
  BY DEF Drawn, Restarted
<1>2. TweetSlots' = {}
  BY DEF TweetSlots, Slots, Restarted
<1>3. \A h \in Handles : users'[h] = NoUser
  BY DEF Restarted
<1>4. UniqueTweetIds'
  BY <1>1, <1>2 DEF UniqueTweetIds
<1>5. UniqueUserIds'
  BY <1>1, <1>3 DEF UniqueUserIds, HasUser, Restarted, NoUser
<1> QED  BY <1>4, <1>5 DEF IdsUnique

LEMMA SnapshotProper ==
  ASSUME TypeInv, IdsUnique, NEW iteration \in Iterations(Handles),
         NEW state \in ServiceState, state.user_ids = user_ids,
         state.tweet_ids = tweet_ids, state.store = Snapshot(iteration)
  PROVE  Proper(state)
<1>1. StoreTypeOK /\ DistinctUsers /\ NoTwinTweets /\ Numbered(user_ids, tweet_ids)
  BY UniqueIsDistinct DEF TypeInv, TypeOK
<1>2. Canonical(state.store)
  BY <1>1, SnapshotCanonical
<1>3. PICK n, order : n \in Nat /\ ListsUsers(state.store.users, n, order)
  BY <1>1, SnapshotUsers
<1>4. PICK m, slot : m \in Nat /\ ListsTweets(state.store.tweets, m, slot)
  BY <1>1, SnapshotTweets
<1>5. ASSUME NEW j \in DOMAIN state.store.users
      PROVE  state.store.users[j].id <= state.user_ids
  <2>1. order[j] \in Handles /\ state.store.users[j].id = users[order[j]]
    BY <1>3 DEF ListsUsers
  <2> QED  BY <1>1, <2>1 DEF Numbered
<1>6. ASSUME NEW i \in DOMAIN state.store.tweets
      PROVE  state.store.tweets[i].id \in 1..state.tweet_ids
  <2>1. slot[i] \in Slots(Handles) /\ state.store.tweets[i] = TweetAt(slot[i])
    BY <1>4 DEF ListsTweets
  <2> QED  BY <1>1, <2>1 DEF Numbered
<1> QED  BY <1>2, <1>5, <1>6 DEF Proper

\* After the first lock section of load the store is the one of the snapshot,
\* and the counters the snapshot holds are past its ids.
LEMMA ReplaceProper ==
  ASSUME NEW state, Proper(state), Replace(state.store)
  PROVE  /\ DistinctUsers' /\ NoTwinTweets'
         /\ Numbered(state.user_ids, state.tweet_ids)'
         /\ \A iteration \in Iterations(Handles) :
              Snapshot(iteration)' = state.store
<1>1. /\ state.store \in StoreSnapshot /\ Canonical(state.store)
      /\ state.user_ids \in Nat
  BY DEF Proper, ServiceState
<1>2. ASSUME NEW h \in Handles PROVE users'[h] <= state.user_ids
  <2>1. CASE users'[h] = NoUser
    BY <1>1, <2>1 DEF NoUser
  <2>2. ASSUME NEW j \in DOMAIN state.store.users,
               users'[h] = state.store.users[j].id
        PROVE  users'[h] <= state.user_ids
    BY <2>2 DEF Proper
  <2> QED  BY <1>1, <2>1, <2>2, ReplaceUsers
<1>3. PICK n, order : n \in Nat /\ ListsTweets(state.store.tweets, n, order)'
  BY <1>1, ReplaceListsTweets
<1>4. ASSUME NEW s \in Slots(Handles)'
      PROVE  TweetAt(s)'.id \in 1..state.tweet_ids
  <2>1. PICK k \in 1..n : order[k] = s
    BY <1>3 DEF ListsTweets
  <2>2. k \in DOMAIN state.store.tweets /\ state.store.tweets[k] = TweetAt(s)'
    BY <1>3, <2>1 DEF ListsTweets, TweetAt
  <2> QED  BY <2>2 DEF Proper
<1>5. Numbered(state.user_ids, state.tweet_ids)'
  BY <1>2, <1>4 DEF Numbered
<1> QED  BY <1>1, <1>5, ReplaceListsUsers, ReplaceListsTweets, ReplaceRestores

LEMMA StepBusy == ASSUME NEW t \in Threads, Step(t) PROVE pc[t] # "idle"
  BY DEF Step, At, CreateUserBlank, CreateUserNextId, CreateUserPut,
         HasUserRead, FollowSelf, FollowPut, UnfollowUnknown,
         UnfollowFromKnown, UnfollowToKnown, UnfollowDelete, PostTweetBlank,
         PostTweetUnknown, PostTweetKnown, PostTweetNextId, PostTweetNow,
         PostTweetPut, HomeTimelineRead

-----------------------------------------------------------------------------
(* The invariant.                                                          *)

\* An operator in the middle of a snapshot or a load is alone.
AloneAt(a) ==
  apc[a] # "idle" => /\ \A t \in Threads : pc[t] = "idle"
                     /\ \A b \in Admins \ {a} : apc[b] = "idle"

\* The counters a snapshot under way has read are still those of the service.
CapturedAt(a) ==
  /\ apc[a] \in {"snap_tweet_ids", "snap_store"} => held[a].user_ids = user_ids
  /\ apc[a] = "snap_store" => held[a].tweet_ids = tweet_ids

\* A load under way has written the store, and some of the counters.
RestoredAt(a) ==
  Loading(a) =>
    /\ Proper(held[a])
    /\ DistinctUsers /\ NoTwinTweets
    /\ Numbered(held[a].user_ids, held[a].tweet_ids)
    /\ \A iteration \in Iterations(Handles) :
         Snapshot(iteration) = held[a].store
    /\ apc[a] \in {"load_tweet_ids", "load_clock"} =>
         user_ids = held[a].user_ids
    /\ apc[a] = "load_clock" => tweet_ids = held[a].tweet_ids

QuietInv ==
  /\ TypeInv /\ OperatorsOK
  /\ \A a \in Admins : AloneAt(a) /\ CapturedAt(a) /\ RestoredAt(a)
  /\ (\A a \in Admins : ~Loading(a)) => IdsUnique

\* No one is half way through a snapshot or a load.
NoneBusy == \A a \in Admins : apc[a] = "idle"

LEMMA BeginQuietly ==
  ASSUME QuietOperators, OperatorsOK, NEW a \in Admins,
         \/ Begin(a, {"snapshot_state"})
         \/ Begin(a, {"load_state", "load_start"})
  PROVE  NoneBusy /\ \A t \in Threads : pc[t] = "idle"
  BY DEF QuietOperators, Begin, Alone, NoneBusy

LEMMA IdleUnlessBusy ==
  ASSUME QuietOperators, QuietInv, ClientNext PROVE NoneBusy
<1> SUFFICES ASSUME NEW a \in Admins, apc[a] # "idle" PROVE FALSE
  BY DEF NoneBusy
<1>1. \A t \in Threads : pc[t] = "idle"
  BY DEF QuietInv, AloneAt
<1>2. Capturing(a) \/ Loading(a)
  BY DEF QuietInv, OperatorsOK, AdminLabels, Capturing, Loading
<1>3. ~Open
  BY <1>2 DEF Open, QuietOperators
<1> QED  BY <1>1, <1>3, StepBusy DEF ClientNext, Return

-----------------------------------------------------------------------------
(* Each step keeps it.                                                     *)

QuietRest ==
  /\ \A a \in Admins : AloneAt(a) /\ CapturedAt(a) /\ RestoredAt(a)
  /\ (\A a \in Admins : ~Loading(a)) => IdsUnique

LEMMA NoneBusyQuiet == (NoneBusy /\ IdsUnique => QuietRest)'
<1>1. NoneBusy /\ IdsUnique => QuietRest
  BY DEF NoneBusy, QuietRest, AloneAt, CapturedAt, RestoredAt, Loading
<1> QED  BY <1>1, PTL

\* The operator at work is the only one, and no call is open.
LEMMA AloneMoves ==
  ASSUME QuietInv, NEW a \in Admins, apc[a] # "idle", NEW label, Move(a, label)
  PROVE  /\ apc'[a] = label
         /\ \A b \in Admins \ {a} : apc[b] = "idle" /\ apc'[b] = "idle"
         /\ \A t \in Threads : pc[t] = "idle"
  BY DEF QuietInv, OperatorsOK, AloneAt, Move

LEMMA QuietClients ==
  ASSUME QuietOperators, QuietInv, ClientNext PROVE QuietRest'
<1>1. NoneBusy
  BY IdleUnlessBusy
<1>2. IdsUnique /\ TypeInv
  BY <1>1 DEF QuietInv, NoneBusy, Loading
<1>3. [Next]_vars /\ NoneBusy'
  BY <1>1 DEF ClientNext, Next, NoneBusy, adminVars
<1>4. IdsUnique'
  BY <1>2, <1>3, TweetIdsStep, UserIdsStep, AnyRequest DEF IdsUnique
<1> QED  BY <1>3, <1>4, NoneBusyQuiet

LEMMA QuietRestart == ASSUME Restart PROVE QuietRest'
<1>1. NoneBusy'
  BY DEF Restart, NoneBusy
<1> QED  BY <1>1, UniqueRestarted, NoneBusyQuiet DEF Restart

\* What depends on the store alone.
LEMMA ViewsKept ==
  ASSUME UNCHANGED storeVars
  PROVE  /\ DistinctUsers' <=> DistinctUsers
         /\ NoTwinTweets' <=> NoTwinTweets
         /\ \A u, w : Numbered(u, w)' <=> Numbered(u, w)
         /\ \A iteration : Snapshot(iteration)' = Snapshot(iteration)
<1> USE DEF storeVars
<1>1. \A iteration : Snapshot(iteration)' = Snapshot(iteration)
  BY DEF Snapshot, UserList, Sorted, Slots, TweetAt, HasUser, Arrange
<1> QED  BY <1>1 DEF DistinctUsers, NoTwinTweets, Numbered, HasUser, TweetSlots,
                     Slots, TweetAt

LEMMA QuietStutter == ASSUME QuietInv, UNCHANGED allVars PROVE QuietRest'
<1>1. UNCHANGED vars /\ UNCHANGED adminVars
  BY DEF allVars
<1>2. (\A b \in Admins : ~Loading(b)) => IdsUnique'
  BY <1>1, UniqueKept DEF QuietInv
<1>3. UNCHANGED storeVars /\ UNCHANGED <<user_ids, tweet_ids, pc, apc, held>>
  BY <1>1 DEF vars, storeVars, threadVars, adminVars
<1>4. /\ DistinctUsers' <=> DistinctUsers
      /\ NoTwinTweets' <=> NoTwinTweets
      /\ \A u, w : Numbered(u, w)' <=> Numbered(u, w)
      /\ \A iteration : Snapshot(iteration)' = Snapshot(iteration)
  BY <1>3, ViewsKept
<1> QED  BY <1>2, <1>3, <1>4
     DEF QuietInv, QuietRest, AloneAt, CapturedAt, RestoredAt, Loading

\* While no load is under way there is nothing to restore.
LEMMA RestoredUnlessLoading ==
  (\A a \in Admins : ~Loading(a) => RestoredAt(a))'
<1>1. \A a \in Admins : ~Loading(a) => RestoredAt(a)
  BY DEF RestoredAt
<1> QED  BY <1>1, PTL

LEMMA QuietSnapshotBegins ==
  ASSUME QuietOperators, QuietInv, NEW a \in Admins, SnapshotClock(a)
  PROVE  QuietRest'
<1>1. NoneBusy /\ \A t \in Threads : pc[t] = "idle"
  BY BeginQuietly DEF SnapshotClock, QuietInv
<1>2. /\ apc'[a] = "snap_user_ids"
      /\ \A b \in Admins \ {a} : apc'[b] = "idle"
      /\ \A t \in Threads : pc'[t] = "idle"
      /\ UNCHANGED vars
  BY <1>1 DEF SnapshotClock, Move, NoneBusy, QuietInv, OperatorsOK, vars,
              threadVars
<1>3. \A b \in Admins : ~Loading(b) /\ ~Loading(b)'
  BY <1>1, <1>2 DEF Loading, NoneBusy
<1>4. IdsUnique'
  BY <1>2, <1>3, UniqueKept DEF QuietInv
<1>5. \A b \in Admins : AloneAt(b)' /\ CapturedAt(b)'
  BY <1>2 DEF AloneAt, CapturedAt
<1> QED  BY <1>3, <1>4, <1>5, RestoredUnlessLoading DEF QuietRest

LEMMA QuietSnapshotReads ==
  ASSUME QuietInv, NEW a \in Admins, SnapshotUserIds(a) \/ SnapshotTweetIds(a)
  PROVE  QuietRest'
<1>1. apc[a] \in {"snap_user_ids", "snap_tweet_ids"} /\ UNCHANGED vars
  BY DEF SnapshotUserIds, SnapshotTweetIds
<1>2. \/ /\ SnapshotUserIds(a) /\ apc'[a] = "snap_tweet_ids"
      \/ /\ SnapshotTweetIds(a) /\ apc'[a] = "snap_store"
  BY AloneMoves DEF SnapshotUserIds, SnapshotTweetIds
<1>3. /\ \A b \in Admins \ {a} : apc[b] = "idle" /\ apc'[b] = "idle"
      /\ \A t \in Threads : pc'[t] = "idle"
  BY <1>1, AloneMoves DEF SnapshotUserIds, SnapshotTweetIds, vars, threadVars
<1>4. \A b \in Admins : ~Loading(b) /\ ~Loading(b)'
  BY <1>1, <1>2, <1>3 DEF Loading
<1>5. IdsUnique'
  BY <1>1, <1>4, UniqueKept DEF QuietInv
<1>6. \A b \in Admins : AloneAt(b)'
  BY <1>3 DEF AloneAt
<1>7. held \in [Admins -> ServiceState] /\ held[a] \in ServiceState
  BY DEF QuietInv, OperatorsOK
<1>8. ASSUME NEW b \in Admins PROVE CapturedAt(b)'
  <2>1. CASE b # a
    BY <1>3, <2>1 DEF CapturedAt
  <2>2. CASE b = a /\ SnapshotUserIds(a)
    <3>1. held'[a].user_ids = user_ids
      BY <1>7, <2>2 DEF SnapshotUserIds, ServiceState, UserIds!Current
    <3> QED  BY <1>1, <1>2, <2>2, <3>1 DEF CapturedAt, vars, SnapshotUserIds,
                                               SnapshotTweetIds
  <2>3. CASE b = a /\ SnapshotTweetIds(a)
    <3>1. held'[a].tweet_ids = tweet_ids /\ held'[a].user_ids = held[a].user_ids
      BY <1>7, <2>3 DEF SnapshotTweetIds, ServiceState, TweetIds!Current
    <3>2. held[a].user_ids = user_ids
      BY <2>3 DEF QuietInv, CapturedAt, SnapshotTweetIds
    <3> QED  BY <1>1, <2>3, <3>1, <3>2 DEF CapturedAt, vars
  <2> QED  BY <1>2, <2>1, <2>2, <2>3
<1> QED  BY <1>4, <1>5, <1>6, <1>8, RestoredUnlessLoading DEF QuietRest

\* What is handed out is proper.
LEMMA QuietSnapshotEnds ==
  ASSUME QuietInv, NEW a \in Admins, SnapshotStore(a)
  PROVE  /\ QuietRest'
         /\ \A s \in archive' : s \in archive \/ Proper(s)
<1>1. apc[a] = "snap_store" /\ UNCHANGED vars /\ NoneBusy'
  <2>1. \A b \in Admins \ {a} : apc'[b] = "idle"
    BY AloneMoves DEF SnapshotStore
  <2>2. apc'[a] = "idle"
    BY AloneMoves DEF SnapshotStore
  <2> QED  BY <2>1, <2>2 DEF SnapshotStore, NoneBusy
<1>2. \A b \in Admins : ~Loading(b)
  BY <1>1 DEF QuietInv, AloneAt, Loading
<1>3. IdsUnique /\ TypeInv
  BY <1>2 DEF QuietInv
<1>4. QuietRest'
  BY <1>1, <1>3, UniqueKept, NoneBusyQuiet
<1>5. PICK iteration \in Iterations(Handles) :
        archive' = archive \cup {[held[a] EXCEPT !.store = Snapshot(iteration)]}
  BY DEF SnapshotStore
<1> DEFINE state == [held[a] EXCEPT !.store = Snapshot(iteration)]
<1>6. held[a] \in ServiceState /\ Snapshot(iteration) \in StoreSnapshot
  BY <1>3, SnapshotType DEF QuietInv, OperatorsOK, TypeInv, TypeOK
<1>7. state \in ServiceState
  BY <1>6, FieldOK
<1>8. /\ state.store = Snapshot(iteration)
      /\ state.user_ids = held[a].user_ids /\ state.tweet_ids = held[a].tweet_ids
  BY <1>6 DEF ServiceState
<1>9. held[a].user_ids = user_ids /\ held[a].tweet_ids = tweet_ids
  BY <1>1 DEF QuietInv, CapturedAt
<1> HIDE DEF state
<1>10. Proper(state)
  BY <1>3, <1>7, <1>8, <1>9, SnapshotProper
<1> QED  BY <1>4, <1>5, <1>10 DEF state

LEMMA QuietLoadBegins ==
  ASSUME QuietOperators, QuietInv, NEW a \in Admins, NEW snap, Proper(snap),
         LoadStore(a, snap)
  PROVE  QuietRest'
<1>1. NoneBusy /\ \A t \in Threads : pc[t] = "idle"
  BY BeginQuietly DEF LoadStore, QuietInv
<1>2. /\ apc'[a] = "load_user_ids" /\ held'[a] = snap
      /\ \A b \in Admins \ {a} : apc'[b] = "idle"
      /\ \A t \in Threads : pc'[t] = "idle"
  BY <1>1 DEF LoadStore, Move, NoneBusy, QuietInv, OperatorsOK, threadVars
<1>3. /\ DistinctUsers' /\ NoTwinTweets'
      /\ Numbered(snap.user_ids, snap.tweet_ids)'
      /\ \A iteration \in Iterations(Handles) :
           Snapshot(iteration)' = snap.store
  BY ReplaceProper DEF LoadStore
<1>4. \A b \in Admins : AloneAt(b)' /\ CapturedAt(b)'
  BY <1>2 DEF AloneAt, CapturedAt
<1>5. Loading(a)'
  BY <1>2 DEF Loading
<1>6. RestoredAt(a)'
  BY <1>2, <1>3 DEF RestoredAt, Numbered
<1>7. \A b \in Admins \ {a} : RestoredAt(b)'
  BY <1>2, RestoredUnlessLoading DEF Loading
<1> QED  BY <1>4, <1>5, <1>6, <1>7 DEF QuietRest

LEMMA QuietLoadCounters ==
  ASSUME QuietInv, NEW a \in Admins, LoadUserIds(a) \/ LoadTweetIds(a)
  PROVE  QuietRest'
<1>1. /\ UNCHANGED <<storeVars, now, threadVars, held, archive>>
      /\ \/ /\ LoadUserIds(a) /\ apc[a] = "load_user_ids"
            /\ Move(a, "load_tweet_ids")
            /\ user_ids' = held[a].user_ids
         \/ /\ LoadTweetIds(a) /\ apc[a] = "load_tweet_ids"
            /\ Move(a, "load_clock")
            /\ user_ids' = user_ids /\ tweet_ids' = held[a].tweet_ids
  BY DEF LoadUserIds, LoadTweetIds, UserIds!SetCurrent, TweetIds!SetCurrent
<1>2. /\ \A b \in Admins \ {a} : apc[b] = "idle" /\ apc'[b] = "idle"
      /\ \A t \in Threads : pc'[t] = "idle"
      /\ apc'[a] \in {"load_tweet_ids", "load_clock"}
  BY <1>1, AloneMoves DEF threadVars
<1>3. Loading(a) /\ Loading(a)'
  BY <1>1, <1>2 DEF Loading
<1>4. RestoredAt(a)
  BY DEF QuietInv
<1>5. UNCHANGED storeVars /\ held' = held
  BY <1>1
<1>6. /\ DistinctUsers' <=> DistinctUsers
      /\ NoTwinTweets' <=> NoTwinTweets
      /\ \A u, w : Numbered(u, w)' <=> Numbered(u, w)
      /\ \A iteration : Snapshot(iteration)' = Snapshot(iteration)
  BY <1>5, ViewsKept
<1>7. user_ids' = held[a].user_ids
  BY <1>1, <1>3, <1>4 DEF RestoredAt
<1>8. apc'[a] = "load_clock" => tweet_ids' = held[a].tweet_ids
  BY <1>1, AloneMoves
<1>9. RestoredAt(a)'
  BY <1>3, <1>4, <1>5, <1>6, <1>7, <1>8 DEF RestoredAt
<1>10. \A b \in Admins \ {a} : RestoredAt(b)'
  BY <1>2, RestoredUnlessLoading DEF Loading
<1>11. \A b \in Admins : AloneAt(b)' /\ CapturedAt(b)'
  BY <1>2 DEF AloneAt, CapturedAt
<1> QED  BY <1>3, <1>9, <1>10, <1>11 DEF QuietRest

LEMMA QuietLoadEnds ==
  ASSUME QuietInv, NEW a \in Admins, LoadClock(a)
  PROVE  QuietRest'
<1>1. /\ apc[a] = "load_clock" /\ UNCHANGED storeVars
      /\ UNCHANGED <<user_ids, tweet_ids, threadVars>> /\ Move(a, "idle")
  BY DEF LoadClock
<1>2. NoneBusy' /\ \A t \in Threads : pc'[t] = "idle"
  BY <1>1, AloneMoves DEF NoneBusy, threadVars
<1>3. RestoredAt(a) /\ Loading(a)
  BY <1>1 DEF QuietInv, Loading
<1>4. /\ DistinctUsers /\ NoTwinTweets /\ Numbered(user_ids, tweet_ids)
  BY <1>1, <1>3 DEF RestoredAt
<1>5. DistinctUsers' /\ NoTwinTweets' /\ Numbered(user_ids, tweet_ids)'
  BY <1>1, <1>4, ViewsKept DEF Numbered
<1>6. IdsUnique'
  BY <1>2, <1>5, IdleUniqueNext
<1> QED  BY <1>2, <1>6, NoneBusyQuiet

LoadedInv == QuietInv /\ \A s \in archive : Proper(s)

LEMMA LoadedStep ==
  ASSUME QuietOperators, LoadedInv, [AdminNext]_allVars
  PROVE  LoadedInv'
<1>1. QuietInv /\ TypeInv /\ OperatorsOK
  BY DEF LoadedInv, QuietInv
<1>2. TypeInv' /\ OperatorsOK'
  BY <1>1, AdminTypeStep
<1>3. SUFFICES QuietRest' /\ \A s \in archive' : s \in archive \/ Proper(s)
  <2>1. QuietInv' <=> TypeInv' /\ OperatorsOK' /\ QuietRest'
    BY DEF QuietInv, QuietRest
  <2>2. \A s \in archive : Proper(s)
    BY DEF LoadedInv
  <2> QED  BY <1>2, <2>1, <2>2 DEF LoadedInv, Proper
<1>4. CASE ClientNext
  BY <1>1, <1>4, QuietClients DEF ClientNext, adminVars
<1>5. ASSUME NEW a \in Admins, AdminStep(a)
      PROVE  QuietRest' /\ \A s \in archive' : s \in archive \/ Proper(s)
  <2>1. CASE SnapshotClock(a)
    BY <1>1, <2>1, QuietSnapshotBegins DEF SnapshotClock
  <2>2. CASE SnapshotUserIds(a) \/ SnapshotTweetIds(a)
    BY <1>1, <2>2, QuietSnapshotReads DEF SnapshotUserIds, SnapshotTweetIds
  <2>3. CASE SnapshotStore(a)
    BY <1>1, <2>3, QuietSnapshotEnds
  <2>4. ASSUME NEW snap \in archive, LoadStore(a, snap)
        PROVE  QuietRest' /\ archive' = archive
    BY <1>1, <2>4, QuietLoadBegins DEF LoadedInv, LoadStore
  <2>5. CASE LoadUserIds(a) \/ LoadTweetIds(a)
    BY <1>1, <2>5, QuietLoadCounters DEF LoadUserIds, LoadTweetIds
  <2>6. CASE LoadClock(a)
    BY <1>1, <2>6, QuietLoadEnds DEF LoadClock
  <2> QED  BY <1>5, <2>1, <2>2, <2>3, <2>4, <2>5, <2>6 DEF AdminStep
<1>6. CASE Restart
  BY <1>6, QuietRestart DEF Restart
<1>7. CASE UNCHANGED allVars
  BY <1>1, <1>7, QuietStutter DEF allVars, adminVars
<1> QED  BY <1>4, <1>5, <1>6, <1>7 DEF AdminNext

\* The same for a body that comes with the request.
LEMMA LoadBegins ==
  ASSUME QuietOperators, LoadedInv, NEW a \in Admins, NEW snap, Proper(snap),
         LoadStore(a, snap)
  PROVE  LoadedInv'
<1>1. TypeInv' /\ OperatorsOK'
  BY LoadStoreType DEF LoadedInv, QuietInv, Proper
<1>2. QuietRest'
  BY QuietLoadBegins DEF LoadedInv
<1>3. \A s \in archive' : Proper(s)
  BY DEF LoadedInv, LoadStore
<1> QED  BY <1>1, <1>2, <1>3 DEF LoadedInv, QuietInv, QuietRest, Proper

LEMMA LoadedInit ==
  ASSUME \A s \in HandMade : Proper(s), AdminInit PROVE LoadedInv
<1>1. HandMade \subseteq ServiceState
  BY DEF Proper
<1>2. TypeInv /\ OperatorsOK /\ NoneBusy
  BY <1>1, TypeInit, NothingOK
     DEF AdminInit, OperatorsOK, AdminLabels, NoneBusy
<1>3. \A op : Drawn(op) = {}
  BY DEF AdminInit, Init, Drawn
<1>4. TweetSlots = {}
  BY DEF AdminInit, Init, StoreInit, TweetSlots, Slots
<1>5. UniqueTweetIds
  BY <1>3, <1>4 DEF UniqueTweetIds
<1>6. (\A h \in Handles : users[h] = NoUser) /\ user_ids = 0
  BY DEF AdminInit, Init, StoreInit, UserIds!Init
<1>7. UniqueUserIds
  BY <1>3, <1>6 DEF UniqueUserIds, HasUser, NoUser
<1>8. \A s \in archive : Proper(s)
  BY DEF AdminInit
<1> QED  BY <1>2, <1>5, <1>7, <1>8
         DEF LoadedInv, QuietInv, IdsUnique, NoneBusy, AloneAt, CapturedAt,
             RestoredAt, Loading

\* When the last lock section of load is over the service is the snapshot.
LEMMA LoadEndsRestored ==
  ASSUME LoadedInv, NEW a \in Admins, LoadClock(a),
         NEW iteration \in Iterations(Handles)
  PROVE  StateNow(iteration)' = held[a]
<1>1. /\ apc[a] = "load_clock" /\ UNCHANGED storeVars
      /\ now' = held[a].clock_now
      /\ user_ids' = user_ids /\ tweet_ids' = tweet_ids
  BY DEF LoadClock, Clock!SetNow
<1>2. RestoredAt(a) /\ Loading(a)
  BY <1>1 DEF LoadedInv, QuietInv, Loading
<1>3. /\ user_ids = held[a].user_ids /\ tweet_ids = held[a].tweet_ids
      /\ Snapshot(iteration) = held[a].store
  BY <1>1, <1>2 DEF RestoredAt
<1>4. Snapshot(iteration)' = Snapshot(iteration)
  BY <1>1, ViewsKept
<1>5. held[a] \in ServiceState
  BY DEF LoadedInv, QuietInv, OperatorsOK
<1>6. held[a] = [clock_now |-> held[a].clock_now,
                 user_ids |-> held[a].user_ids,
                 tweet_ids |-> held[a].tweet_ids, store |-> held[a].store]
  BY <1>5 DEF ServiceState
<1> QED  BY <1>1, <1>3, <1>4, <1>6 DEF StateNow

\* The order in which the maps iterate does not show.
LEMMA OneSnapshot ==
  ASSUME StoreTypeOK, IdsUnique,
         NEW i \in Iterations(Handles), NEW j \in Iterations(Handles)
  PROVE  Snapshot(i) = Snapshot(j)
<1>1. DistinctUsers /\ NoTwinTweets
  BY UniqueIsDistinct
<1>2. Snapshot(i).users = Snapshot(j).users
  BY <1>1, SnapshotUsers, OneUserList
<1>3. Snapshot(i).tweets = Snapshot(j).tweets
  BY <1>1, SnapshotTweets, OneTweetList
<1>4. \A k : Snapshot(k) = [users |-> Snapshot(k).users,
                            follows |-> {e \in Follow : e.to \in follows[e.from]},
                            tweets |-> Snapshot(k).tweets]
  BY DEF Snapshot
<1> QED  BY <1>2, <1>3, <1>4

-----------------------------------------------------------------------------
(* What operators upload.                                                  *)

\* What operators upload is safe to load if load-snapshot accepts it.
SafeUploads ==
  \A body \in Uploads : LoadStatus("ok", body) = 200 =>
    Proper(ParseState(body.state))

\* An element of a list with its fields is not one without.
BadItemIsBad == BadItem \notin [id : Nat, handle : Handles] \cup Follow \cup Tweet

-----------------------------------------------------------------------------
(* Bodies.                                                                 *)

LEMMA StateRecord ==
  ASSUME NEW s \in ServiceState
  PROVE  s = [clock_now |-> s.clock_now, user_ids |-> s.user_ids,
              tweet_ids |-> s.tweet_ids,
              store |-> [users |-> s.store.users, follows |-> s.store.follows,
                         tweets |-> s.store.tweets]]
<1>1. s = [clock_now |-> s.clock_now, user_ids |-> s.user_ids,
           tweet_ids |-> s.tweet_ids, store |-> s.store]
  BY DEF ServiceState
<1>2. s.store \in StoreSnapshot
  BY DEF ServiceState
<1>3. s.store = [users |-> s.store.users, follows |-> s.store.follows,
                 tweets |-> s.store.tweets]
  BY <1>2 DEF StoreSnapshot
<1> QED  BY <1>1, <1>3

LEMMA ParsesBack ==
  ASSUME NEW s \in ServiceState
  PROVE  ParseState(SnapshotBody(s).state) = s
<1>1. SnapshotBody(s).state = StateToJson(s)
  BY DEF SnapshotBody
<1>2. ParseState(StateToJson(s)) =
        [clock_now |-> s.clock_now, user_ids |-> s.user_ids,
         tweet_ids |-> s.tweet_ids,
         store |-> [users |-> s.store.users, follows |-> s.store.follows,
                    tweets |-> s.store.tweets]]
  BY DEF ParseState, StateToJson
<1> QED  BY <1>1, <1>2, StateRecord

LEMMA BodyAccepted ==
  ASSUME BadItemIsBad, NEW s \in ServiceState
  PROVE  LoadStatus("ok", SnapshotBody(s)) = 200
<1> DEFINE j == StateToJson(s)
           User == [id : Nat, handle : Handles]
<1>1. /\ SnapshotBody(s).json /\ SnapshotBody(s).snapshot_version = 1
      /\ SnapshotBody(s).state = j
  BY DEF SnapshotBody, CurrentVersion
<1>2. Fields \subseteq DOMAIN j
  BY DEF StateToJson, Fields
<1>3. /\ j.users = s.store.users /\ j.follows = s.store.follows
      /\ j.tweets = s.store.tweets
  BY DEF StateToJson
<1>4. /\ s.store.users \in Seq(User) /\ s.store.follows \subseteq Follow
      /\ s.store.tweets \in Seq(Tweet)
  BY DEF ServiceState, StoreSnapshot
<1>5. BadItem \notin User /\ BadItem \notin Follow /\ BadItem \notin Tweet
  BY DEF BadItemIsBad
<1> HIDE DEF j, User
<1>6. /\ \A i \in DOMAIN j.users : j.users[i] # BadItem
      /\ BadItem \notin j.follows
      /\ \A i \in DOMAIN j.tweets : j.tweets[i] # BadItem
  BY <1>3, <1>4, <1>5
<1>7. Parses(j)
  BY <1>2, <1>6 DEF Parses
<1> QED  BY <1>1, <1>7 DEF LoadStatus, SupportedVersions, CurrentVersion, NoVersion

-----------------------------------------------------------------------------
(* The process is well typed, and its router waits for the seed, whatever  *)
(* operators upload and when, as long as what is accepted has the types    *)
(* serde gives it.                                                         *)

TypedUploads ==
  \A body \in Uploads : LoadStatus("ok", body) = 200 =>
    ParseState(body.state) \in ServiceState

TypedInv ==
  /\ TypeInv /\ OperatorsOK
  /\ fresh \in BOOLEAN /\ seed \in Seq(Requests)
  /\ seed # <<>> => fresh /\ NoneBusy

LEMMA DemoFits == Demo \in Seq(Requests) /\ <<>> \in Seq(Requests)
  BY ServerAssumption

LEMMA BodiesAreTyped ==
  ASSUME TypedUploads, OperatorsOK, NEW a \in Admins, NEW auth \in Auths,
         NEW body \in Bodies, PostLoad(a, auth, body)
  PROVE  \E snap \in ServiceState : LoadStore(a, snap)
<1>1. auth = "ok" /\ LoadStatus("ok", body) = 200
  BY DEF PostLoad, LoadStatus, AuthStatus, Auths
<1>2. LoadStore(a, ParseState(body.state))
  BY DEF PostLoad
<1>3. CASE body \in Uploads
  BY <1>1, <1>2, <1>3 DEF TypedUploads
<1>4. ASSUME NEW s \in archive, body = SnapshotBody(s)
      PROVE  \E snap \in ServiceState : LoadStore(a, snap)
  <2>1. s \in ServiceState
    BY DEF OperatorsOK
  <2> QED  BY <1>2, <1>4, <2>1, ParsesBack
<1> QED  BY <1>3, <1>4 DEF Bodies

\* main seeds as one client, beside no one.
LEMMA SeedIsClient ==
  ASSUME TypedInv, SeedDemo
  PROVE  ClientNext /\ NoneBusy' /\ fresh' = fresh /\ seed' \in Seq(Requests)
<1>1. NoneBusy /\ Main \in Threads /\ Head(seed) \in Requests
  BY ServerAssumption DEF TypedInv, SeedDemo
<1>2. Open
  BY <1>1 DEF Open, NoneBusy, Capturing, Loading
<1>3. ClientNext
  BY <1>1, <1>2 DEF SeedDemo, ClientNext
<1>4. NoneBusy' /\ fresh' = fresh
  BY <1>1 DEF SeedDemo, NoneBusy, adminVars
<1>5. seed' \in Seq(Requests)
  BY DEF SeedDemo, TypedInv
<1> QED  BY <1>3, <1>4, <1>5

LEMMA TypedStep ==
  ASSUME TypedUploads, TypedInv, [ServerNext]_processVars
  PROVE  TypedInv'
<1>1. TypeInv /\ OperatorsOK
  BY DEF TypedInv
<1>2. ASSUME AdminNext \/ UNCHANGED allVars PROVE TypeInv' /\ OperatorsOK'
  BY <1>1, <1>2, AdminTypeStep
<1>3. CASE SeedDemo
  BY <1>2, <1>3, SeedIsClient DEF TypedInv, AdminNext, SeedDemo
<1>4. CASE Listening /\ ClientNext /\ UNCHANGED serverVars
  BY <1>2, <1>4 DEF AdminNext, TypedInv, serverVars, Listening
<1>5. ASSUME Listening, UNCHANGED seed, NEW a \in Admins, ServerAdminStep(a)
      PROVE  TypedInv'
  <2>1. ASSUME NEW auth \in Auths, NEW body \in Bodies, PostLoad(a, auth, body)
        PROVE  TypeInv' /\ OperatorsOK'
    BY <1>1, <2>1, BodiesAreTyped, LoadStoreType
  <2>2. ASSUME AdminStep(a) PROVE TypeInv' /\ OperatorsOK'
    BY <1>2, <2>2 DEF AdminNext
  <2>3. TypeInv' /\ OperatorsOK' /\ fresh' \in BOOLEAN
    BY <1>5, <2>1, <2>2 DEF ServerAdminStep, PostSnapshot, AdminStep, TypedInv
  <2> QED  BY <1>5, <2>3 DEF TypedInv, Listening
<1>6. CASE ServerRestart
  <2>1. NoneBusy' /\ TypeInv' /\ OperatorsOK'
    BY <1>2, <1>6 DEF ServerRestart, Restart, NoneBusy, AdminNext
  <2> QED  BY <1>6, <2>1, DemoFits DEF TypedInv, ServerRestart
<1>7. CASE UNCHANGED processVars
  <2>1. UNCHANGED allVars /\ UNCHANGED serverVars
    BY <1>7 DEF processVars
  <2> QED  BY <1>2, <2>1 DEF TypedInv, serverVars, allVars, adminVars, NoneBusy
<1> QED  BY <1>3, <1>4, <1>5, <1>6, <1>7 DEF ServerNext

LEMMA TypedInitially ==
  ASSUME HandMade \subseteq ServiceState, ServerInit PROVE TypedInv
  BY TypeInit, NothingOK, DemoFits
     DEF ServerInit, AdminInit, OperatorsOK, AdminLabels, TypedInv, NoneBusy

\* Every state of the process is well typed, while main seeds it, while it
\* serves, and whatever snapshots it takes and loads when, be operators quiet
\* or not, as long as what it loads has the types that parsing gives it.
THEOREM ServerTypeCorrect ==
  ASSUME TypedUploads, HandMade \subseteq ServiceState
  PROVE  ServerSpec => []ServerTypeOK
<1>1. ServerInit => TypedInv
  BY TypedInitially
<1>2. TypedInv /\ [ServerNext]_processVars => TypedInv'
  BY TypedStep
<1>3. TypedInv => ServerTypeOK
  BY DEF TypedInv, TypeInv, OperatorsOK, AdminLabels, ServerTypeOK, AdminTypeOK
<1> QED  BY <1>1, <1>2, <1>3, PTL DEF ServerSpec

-----------------------------------------------------------------------------
(* The process only does what the service with its admin path does, and    *)
(* loads bodies.                                                           *)

ServerInv == LoadedInv /\ TypedInv

LEMMA SafeIsTyped == SafeUploads => TypedUploads
  BY DEF SafeUploads, TypedUploads, Proper

\* A body loads a state that is safe to load.
LEMMA BodiesAreSafe ==
  ASSUME SafeUploads, LoadedInv, NEW a \in Admins, NEW auth \in Auths,
         NEW body \in Bodies, PostLoad(a, auth, body)
  PROVE  \E snap : Proper(snap) /\ LoadStore(a, snap)
<1>1. CASE body \in Uploads
  <2>1. LoadStatus("ok", body) = 200
    <3>1. auth = "ok"
      BY DEF PostLoad, LoadStatus, AuthStatus, Auths
    <3> QED  BY <3>1 DEF PostLoad
  <2> QED  BY <1>1, <2>1 DEF SafeUploads, PostLoad
<1>2. ASSUME NEW s \in archive, body = SnapshotBody(s)
      PROVE  \E snap : Proper(snap) /\ LoadStore(a, snap)
  <2>1. Proper(s) /\ s \in ServiceState
    BY DEF LoadedInv, Proper
  <2>2. ParseState(body.state) = s
    BY <1>2, <2>1, ParsesBack
  <2> QED  BY <2>1, <2>2 DEF PostLoad
<1> QED  BY <1>1, <1>2 DEF Bodies

LEMMA ServerStep ==
  ASSUME QuietOperators, SafeUploads, ServerInv, [ServerNext]_processVars
  PROVE  ServerInv'
<1>1. LoadedInv /\ TypedInv /\ TypedInv'
  BY SafeIsTyped, TypedStep DEF ServerInv
<1>2. ASSUME AdminNext \/ UNCHANGED allVars PROVE LoadedInv'
  BY <1>1, <1>2, LoadedStep
<1>3. CASE SeedDemo \/ (Listening /\ ClientNext /\ UNCHANGED serverVars)
  BY <1>1, <1>2, <1>3, SeedIsClient DEF AdminNext, ServerInv
<1>4. ASSUME NEW a \in Admins, ServerAdminStep(a) PROVE LoadedInv'
  <2>1. ASSUME NEW auth \in Auths, NEW body \in Bodies, PostLoad(a, auth, body)
        PROVE  LoadedInv'
    <3>1. PICK snap : Proper(snap) /\ LoadStore(a, snap)
      BY <1>1, <2>1, BodiesAreSafe
    <3> QED  BY <1>1, <3>1, LoadBegins
  <2>2. ASSUME AdminStep(a) PROVE LoadedInv'
    BY <1>2, <2>2 DEF AdminNext
  <2> QED  BY <1>4, <2>1, <2>2 DEF ServerAdminStep, PostSnapshot, AdminStep
<1>5. CASE ServerRestart \/ UNCHANGED processVars
  BY <1>1, <1>2, <1>5 DEF ServerRestart, AdminNext, processVars, ServerInv
<1> QED  BY <1>1, <1>3, <1>4, <1>5 DEF ServerNext, ServerInv

LEMMA ServerInitially ==
  ASSUME \A s \in HandMade : Proper(s), ServerInit PROVE ServerInv
  BY LoadedInit, TypedInitially DEF ServerInit, ServerInv, Proper

-----------------------------------------------------------------------------
(* Times go on where a snapshot left off.                                  *)

\* A state whose clock is not behind its tweets.
Timely(state) ==
  \A i \in DOMAIN state.store.tweets :
    state.store.tweets[i].created_at <= state.clock_now

\* What operators upload has its clock past its tweets.
TimelyUploads ==
  \A body \in Uploads : LoadStatus("ok", body) = 200 =>
    Timely(ParseState(body.state))

TimesAt(a) ==
  /\ Capturing(a) => held[a].clock_now = now
  /\ Loading(a) => Timely(held[a])

\* During a load the tweets may be of the future: the clock comes last.
TimesInv ==
  /\ \A s \in archive : Timely(s)
  /\ \A a \in Admins : TimesAt(a)
  /\ (\A a \in Admins : ~Loading(a)) => OrderInv

\* The maps iterate in some order.
LEMMA IterationsExist == Iterations(Handles) # {}
<1> DEFINE n == Cardinality(Handles)
<1>1. PICK f : f \in Bijection(1..n, Handles)
  BY HandlesAssumption, FS_CardinalityType DEF ExistsBijection
<1>2. \A h \in Handles : \E k \in 1..n : f[k] = h
  BY <1>1 DEF Bijection, Surjection
<1> DEFINE place == [h \in Handles |-> CHOOSE k \in 1..n : f[k] = h]
<1>3. \A h \in Handles : place[h] \in 1..n /\ f[place[h]] = h
  BY <1>2
<1>4. \A g, h \in Handles : place[g] = place[h] => g = h
  BY <1>3
<1>5. place \in [Handles -> 1..n]
  BY <1>3
<1>6. place \in Iterations(Handles)
  BY <1>4, <1>5 DEF Iterations
<1> QED  BY <1>6

LEMMA IdleOrder ==
  ((\A t \in Threads : pc[t] = "idle") /\ TimesPast => OrderInv)'
<1>1. (\A t \in Threads : pc[t] = "idle") /\ TimesPast => OrderInv
  BY DEF OrderInv, PostOrder
<1> QED  BY <1>1, PTL

LEMMA OrderKept == ASSUME OrderInv, UNCHANGED vars PROVE OrderInv'
  BY DEF OrderInv, TimesPast, PostOrder, HasId, HasTime, TweetSlots, Slots,
         TweetAt, vars, threadVars

LEMMA NoneBusyTimes ==
  ASSUME NoneBusy', OrderInv', \A s \in archive' : Timely(s)
  PROVE  TimesInv'
<1>1. \A a \in Admins : TimesAt(a)'
  BY DEF NoneBusy, TimesAt, Capturing, Loading
<1> QED  BY <1>1 DEF TimesInv

LEMMA TimesClients ==
  ASSUME QuietOperators, QuietInv, TimesInv, ClientNext PROVE TimesInv'
<1>1. NoneBusy
  BY IdleUnlessBusy
<1>2. UniqueTweetIds /\ OrderInv /\ TypeInv
  BY <1>1 DEF QuietInv, NoneBusy, Loading, TimesInv, IdsUnique
<1>3. [Next]_vars /\ NoneBusy' /\ archive' = archive
  BY <1>1 DEF ClientNext, Next, NoneBusy, adminVars
<1>4. OrderInv'
  BY <1>2, <1>3, OrderStep, AnyRequest
<1>5. \A s \in archive' : Timely(s)
  BY <1>3 DEF TimesInv
<1> QED  BY <1>3, <1>4, <1>5, NoneBusyTimes

LEMMA TimesRestart == ASSUME TimesInv, Restart PROVE TimesInv'
<1>1. NoneBusy' /\ archive' = archive
  BY DEF Restart, NoneBusy
<1>2. \A t \in Threads : pc'[t] = "idle"
  BY DEF Restart, Restarted
<1>3. TimesPast'
  BY DEF TimesPast, TweetSlots, Slots, Restart, Restarted
<1>4. OrderInv'
  BY <1>2, <1>3, IdleOrder
<1>5. \A s \in archive' : Timely(s)
  BY <1>1 DEF TimesInv
<1> QED  BY <1>1, <1>4, <1>5, NoneBusyTimes

LEMMA TimesStutter == ASSUME TimesInv, UNCHANGED allVars PROVE TimesInv'
<1>1. UNCHANGED vars /\ UNCHANGED adminVars /\ now' = now
  BY DEF allVars, vars
<1>2. (\A a \in Admins : ~Loading(a)) => OrderInv'
  BY <1>1, OrderKept DEF TimesInv
<1> QED  BY <1>1, <1>2 DEF TimesInv, TimesAt, Capturing, Loading, adminVars

\* A snapshot begins by reading the clock, which stands until it is over.
LEMMA TimesSnapshotReads ==
  ASSUME QuietOperators, QuietInv, TimesInv, NEW a \in Admins,
         SnapshotClock(a) \/ SnapshotUserIds(a) \/ SnapshotTweetIds(a)
  PROVE  TimesInv'
<1>1. /\ held \in [Admins -> ServiceState] /\ held[a] \in ServiceState
      /\ apc \in [Admins -> AdminLabels]
  BY DEF QuietInv, OperatorsOK
<1>2. /\ UNCHANGED vars /\ now' = now /\ archive' = archive
  BY DEF SnapshotClock, SnapshotUserIds, SnapshotTweetIds, vars
<1>3. /\ \A b \in Admins \ {a} : apc[b] = "idle" /\ apc'[b] = "idle"
      /\ ~Loading(a) /\ ~Loading(a)'
  <2>1. CASE SnapshotClock(a)
    BY <1>1, <2>1, BeginQuietly
       DEF SnapshotClock, Move, Loading, NoneBusy, QuietInv
  <2>2. CASE SnapshotUserIds(a)
    BY <1>1, <2>2, AloneMoves DEF SnapshotUserIds, Loading
  <2>3. CASE SnapshotTweetIds(a)
    BY <1>1, <2>3, AloneMoves DEF SnapshotTweetIds, Loading
  <2> QED  BY <2>1, <2>2, <2>3
<1>4. held'[a].clock_now = now'
  <2>1. CASE SnapshotClock(a)
    BY <1>1, <1>2, <2>1 DEF SnapshotClock, ServiceState, Clock!Now
  <2>2. CASE SnapshotUserIds(a) \/ SnapshotTweetIds(a)
    <3>1. held'[a].clock_now = held[a].clock_now
      BY <1>1, <2>2 DEF SnapshotUserIds, SnapshotTweetIds, ServiceState
    <3>2. held[a].clock_now = now
      BY <2>2 DEF SnapshotUserIds, SnapshotTweetIds, TimesInv, TimesAt,
                  Capturing
    <3> QED  BY <1>2, <3>1, <3>2
  <2> QED  BY <2>1, <2>2
<1>5. \A b \in Admins : ~Loading(b) /\ ~Loading(b)'
  BY <1>3 DEF Loading
<1>6. OrderInv'
  BY <1>2, <1>5, OrderKept DEF TimesInv
<1>7. \A b \in Admins : TimesAt(b)'
  BY <1>3, <1>4, <1>5 DEF TimesAt, Capturing
<1> QED  BY <1>2, <1>5, <1>6, <1>7 DEF TimesInv

LEMMA TimesSnapshotEnds ==
  ASSUME QuietInv, TimesInv, NEW a \in Admins, SnapshotStore(a)
  PROVE  TimesInv'
<1>1. apc[a] = "snap_store" /\ UNCHANGED vars /\ NoneBusy'
  <2>1. \A b \in Admins \ {a} : apc'[b] = "idle"
    BY AloneMoves DEF SnapshotStore
  <2>2. apc'[a] = "idle"
    BY AloneMoves DEF SnapshotStore
  <2> QED  BY <2>1, <2>2 DEF SnapshotStore, NoneBusy
<1>2. OrderInv /\ StoreTypeOK
  BY <1>1 DEF QuietInv, AloneAt, Loading, TimesInv, TypeInv, TypeOK
<1>3. OrderInv'
  BY <1>1, <1>2, OrderKept
<1>4. PICK iteration \in Iterations(Handles) :
        archive' = archive \cup {[held[a] EXCEPT !.store = Snapshot(iteration)]}
  BY DEF SnapshotStore
<1> DEFINE state == [held[a] EXCEPT !.store = Snapshot(iteration)]
<1>5. held[a] \in ServiceState
  BY DEF QuietInv, OperatorsOK
<1>6. state.store = Snapshot(iteration) /\ state.clock_now = now
  BY <1>1, <1>5 DEF ServiceState, TimesInv, TimesAt, Capturing
<1>7. PICK n, order :
        n \in Nat /\ ListsTweets(Snapshot(iteration).tweets, n, order)
  BY <1>2, SnapshotTweets
<1>8. ASSUME NEW i \in DOMAIN Snapshot(iteration).tweets
      PROVE  Snapshot(iteration).tweets[i].created_at <= now
  <2>1. /\ order[i] \in Slots(Handles)
        /\ Snapshot(iteration).tweets[i] = TweetAt(order[i])
    BY <1>7 DEF ListsTweets
  <2> QED  BY <1>2, <2>1 DEF OrderInv, TimesPast, TweetSlots
<1>9. Timely(state)
  BY <1>6, <1>8 DEF Timely
<1>10. \A s \in archive' : Timely(s)
  BY <1>4, <1>9 DEF TimesInv
<1> QED  BY <1>1, <1>3, <1>10, NoneBusyTimes

LEMMA TimesLoadBegins ==
  ASSUME QuietOperators, QuietInv, TimesInv, NEW a \in Admins, NEW snap,
         Timely(snap), LoadStore(a, snap)
  PROVE  TimesInv'
<1>1. NoneBusy
  BY BeginQuietly DEF LoadStore, QuietInv
<1>2. /\ apc'[a] = "load_user_ids" /\ held'[a] = snap
      /\ \A b \in Admins \ {a} : apc'[b] = "idle"
      /\ archive' = archive
  BY <1>1 DEF LoadStore, Move, NoneBusy, QuietInv, OperatorsOK
<1>3. \A b \in Admins : TimesAt(b)'
  BY <1>2 DEF TimesAt, Capturing, Loading
<1>4. Loading(a)'
  BY <1>2 DEF Loading
<1> QED  BY <1>2, <1>3, <1>4 DEF TimesInv

LEMMA TimesLoadCounters ==
  ASSUME QuietInv, TimesInv, NEW a \in Admins,
         LoadUserIds(a) \/ LoadTweetIds(a)
  PROVE  TimesInv'
<1>1. /\ \A b \in Admins \ {a} : apc'[b] = "idle"
      /\ apc'[a] \in {"load_tweet_ids", "load_clock"}
      /\ apc[a] \in {"load_user_ids", "load_tweet_ids"}
      /\ held' = held /\ archive' = archive
  BY AloneMoves DEF LoadUserIds, LoadTweetIds
<1>2. Loading(a)' /\ Timely(held[a]) /\ ~Capturing(a)'
  BY <1>1 DEF Loading, Capturing, TimesInv, TimesAt
<1>3. \A b \in Admins : TimesAt(b)'
  BY <1>1, <1>2 DEF TimesAt, Capturing, Loading
<1> QED  BY <1>1, <1>2, <1>3 DEF TimesInv

LEMMA TimesLoadEnds ==
  ASSUME QuietInv, TimesInv, NEW a \in Admins, LoadClock(a)
  PROVE  TimesInv'
<1>1. /\ apc[a] = "load_clock" /\ UNCHANGED storeVars
      /\ now' = held[a].clock_now /\ archive' = archive
      /\ UNCHANGED threadVars /\ Move(a, "idle")
  BY DEF LoadClock, Clock!SetNow
<1>2. NoneBusy' /\ \A t \in Threads : pc'[t] = "idle"
  BY <1>1, AloneMoves DEF NoneBusy, threadVars
<1>3. Timely(held[a]) /\ RestoredAt(a) /\ Loading(a) /\ StoreTypeOK
  BY <1>1 DEF QuietInv, Loading, TimesInv, TimesAt, TypeInv, TypeOK
<1>4. PICK iteration \in Iterations(Handles) : TRUE
  BY IterationsExist
<1>5. Snapshot(iteration) = held[a].store
  BY <1>3 DEF RestoredAt
<1>6. PICK n, order :
        n \in Nat /\ ListsTweets(Snapshot(iteration).tweets, n, order)
  BY <1>3, SnapshotTweets
<1>7. ASSUME NEW s \in Slots(Handles) PROVE TweetAt(s).created_at <= now'
  <2>1. PICK k \in 1..n : order[k] = s
    BY <1>6 DEF ListsTweets
  <2>2. /\ k \in DOMAIN held[a].store.tweets
        /\ held[a].store.tweets[k] = TweetAt(s)
    BY <1>5, <1>6, <2>1 DEF ListsTweets
  <2> QED  BY <1>1, <1>3, <2>2 DEF Timely
<1>8. TimesPast'
  BY <1>1, <1>7 DEF TimesPast, TweetSlots, Slots, TweetAt, storeVars
<1>9. \A s \in archive' : Timely(s)
  BY <1>1 DEF TimesInv
<1> QED  BY <1>2, <1>8, <1>9, IdleOrder, NoneBusyTimes

LEMMA TimesStep ==
  ASSUME QuietOperators, QuietInv, TimesInv, [AdminNext]_allVars
  PROVE  TimesInv'
<1>1. ASSUME NEW a \in Admins, NEW snap \in archive, LoadStore(a, snap)
      PROVE  TimesInv'
  BY <1>1, TimesLoadBegins DEF TimesInv
<1>2. ASSUME NEW a \in Admins, AdminStep(a) PROVE TimesInv'
  BY <1>1, <1>2, TimesSnapshotReads, TimesSnapshotEnds, TimesLoadCounters,
     TimesLoadEnds DEF AdminStep
<1> QED  BY <1>2, TimesClients, TimesRestart, TimesStutter DEF AdminNext

-----------------------------------------------------------------------------
(* The results.                                                            *)

\* "ids continue from where the snapshot left off", for any number of
\* snapshots, loads and restarts in any order, as long as operators take and
\* load snapshots while no call is open and what they write by hand has its
\* counters past its ids, as what they capture has: the next id is never one
\* that a stored user or tweet, or a call under way, already has.
THEOREM IdsContinue ==
  ASSUME QuietOperators, SafeUploads, \A s \in HandMade : Proper(s)
  PROVE  ServerSpec => []IdsContinueAfterLoad
<1>1. ServerInit => ServerInv
  BY ServerInitially
<1>2. ServerInv /\ [ServerNext]_processVars => ServerInv'
  BY ServerStep
<1>3. ServerInv => IdsContinueAfterLoad
  BY DEF ServerInv, LoadedInv, QuietInv, IdsContinueAfterLoad, IdsUnique
<1> QED  BY <1>1, <1>2, <1>3, PTL DEF ServerSpec

\* When the last lock section of load is over the service is the snapshot: a
\* capture taken now would return what was loaded, field by field and, ids
\* being unique, list by list, in whatever order the maps iterate.
THEOREM LoadsRestore ==
  ASSUME QuietOperators, SafeUploads, \A s \in HandMade : Proper(s)
  PROVE  ServerSpec => LoadRestores
<1>1. ServerInit => ServerInv
  BY ServerInitially
<1>2. ServerInv /\ [ServerNext]_processVars => ServerInv'
  BY ServerStep
<1>3. ServerInv /\ [ServerNext]_processVars =>
        [\A a \in Admins : LoadClock(a) =>
           \A iteration \in Iterations(Handles) :
             StateNow(iteration)' = held[a]]_allVars
  BY LoadEndsRestored DEF ServerInv
<1> QED  BY <1>1, <1>2, <1>3, PTL DEF ServerSpec, LoadRestores

\* "Two snapshots of the same logical state are byte-equal": between loads
\* the order in which the maps happen to iterate never shows in a snapshot.
THEOREM SnapshotsAreStable ==
  ASSUME QuietOperators, SafeUploads, \A s \in HandMade : Proper(s)
  PROVE  ServerSpec => []StableSnapshots
<1>1. ServerInit => ServerInv
  BY ServerInitially
<1>2. ServerInv /\ [ServerNext]_processVars => ServerInv'
  BY ServerStep
<1>3. ServerInv => StableSnapshots
  BY OneSnapshot
     DEF ServerInv, LoadedInv, QuietInv, TypeInv, TypeOK, StableSnapshots
<1> QED  BY <1>1, <1>2, <1>3, PTL DEF ServerSpec

\* "Capture and replay state across processes": what snapshot answered is
\* accepted by load-snapshot, by this process and by every later one, and
\* parses to the state that was captured.
THEOREM SnapshotsLoadBack ==
  ASSUME QuietOperators, SafeUploads, \A s \in HandMade : Proper(s),
         BadItemIsBad
  PROVE  ServerSpec => []SnapshotsLoad
<1>1. ServerInit => ServerInv
  BY ServerInitially
<1>2. ServerInv /\ [ServerNext]_processVars => ServerInv'
  BY ServerStep
<1>3. ServerInv => SnapshotsLoad
  <2> SUFFICES ASSUME ServerInv, NEW s \in archive
               PROVE  /\ LoadStatus("ok", SnapshotBody(s)) = 200
                      /\ ParseState(SnapshotBody(s).state) = s
    BY DEF SnapshotsLoad
  <2>1. s \in ServiceState
    BY DEF ServerInv, LoadedInv, Proper
  <2> QED  BY <2>1, ParsesBack, BodyAccepted
<1> QED  BY <1>1, <1>2, <1>3, PTL DEF ServerSpec
-----------------------------------------------------------------------------
(* Times across loads.                                                     *)

TimelyInv == ServerInv /\ TimesInv

\* A body loads a state whose clock is past its tweets.
LEMMA BodiesAreTimely ==
  ASSUME QuietOperators, TimelyUploads, LoadedInv, TimesInv, NEW a \in Admins,
         NEW auth \in Auths, NEW body \in Bodies, PostLoad(a, auth, body)
  PROVE  TimesInv'
<1>1. LoadStatus(auth, body) = 200 /\ LoadStore(a, ParseState(body.state))
  BY DEF PostLoad
<1>2. ASSUME body \in Uploads PROVE Timely(ParseState(body.state))
  <2>1. LoadStatus("ok", body) = 200
    <3>1. auth = "ok"
      BY <1>1 DEF LoadStatus, AuthStatus, Auths
    <3> QED  BY <1>1, <3>1
  <2> QED  BY <1>2, <2>1 DEF TimelyUploads
<1>3. ASSUME NEW s \in archive, body = SnapshotBody(s)
      PROVE  Timely(ParseState(body.state))
  <2>1. s \in ServiceState /\ Timely(s)
    BY DEF LoadedInv, Proper, TimesInv
  <2> QED  BY <1>3, <2>1, ParsesBack
<1>4. Timely(ParseState(body.state))
  BY <1>2, <1>3 DEF Bodies
<1> QED  BY <1>1, <1>4, TimesLoadBegins DEF LoadedInv

LEMMA TimelyStep ==
  ASSUME QuietOperators, SafeUploads, TimelyUploads, TimelyInv,
         [ServerNext]_processVars
  PROVE  TimelyInv'
<1>1. ServerInv /\ LoadedInv /\ QuietInv /\ TimesInv
  BY DEF TimelyInv, ServerInv, LoadedInv
<1>2. ServerInv'
  BY <1>1, ServerStep
<1>3. ASSUME AdminNext \/ UNCHANGED allVars PROVE TimelyInv'
  BY <1>1, <1>2, <1>3, TimesStep DEF TimelyInv
<1>4. CASE SeedDemo \/ (Listening /\ ClientNext /\ UNCHANGED serverVars)
  BY <1>1, <1>3, <1>4, SeedIsClient DEF AdminNext, ServerInv
<1>5. ASSUME NEW a \in Admins, ServerAdminStep(a) PROVE TimelyInv'
  <2>1. ASSUME NEW auth \in Auths, NEW body \in Bodies, PostLoad(a, auth, body)
        PROVE  TimelyInv'
    BY <1>1, <1>2, <2>1, BodiesAreTimely DEF TimelyInv
  <2>2. ASSUME AdminStep(a) PROVE TimelyInv'
    BY <1>3, <2>2 DEF AdminNext
  <2> QED  BY <1>5, <2>1, <2>2 DEF ServerAdminStep, PostSnapshot, AdminStep
<1>6. CASE ServerRestart
  BY <1>3, <1>6 DEF ServerRestart, AdminNext
<1>7. CASE UNCHANGED processVars
  BY <1>3, <1>7 DEF processVars
<1> QED  BY <1>4, <1>5, <1>6, <1>7 DEF ServerNext

LEMMA TimelyInitially ==
  ASSUME \A s \in HandMade : Proper(s) /\ Timely(s), ServerInit
  PROVE  TimelyInv
<1>1. ServerInv
  BY ServerInitially
<1>2. NoneBusy /\ archive = HandMade /\ Init
  BY DEF ServerInit, AdminInit, NoneBusy
<1>3. OrderInv
  BY <1>2 DEF Init, StoreInit, OrderInv, TimesPast, TweetSlots, Slots, PostOrder
<1> QED  BY <1>1, <1>2, <1>3
         DEF TimelyInv, TimesInv, TimesAt, Capturing, Loading, NoneBusy

LEMMA TimelyShows == ASSUME TimelyInv PROVE RealTimeOrder
<1>1. CASE \A a \in Admins : ~Loading(a)
  BY <1>1, OrderShows
     DEF TimelyInv, TimesInv, ServerInv, LoadedInv, QuietInv
<1>2. ASSUME NEW a \in Admins, Loading(a) PROVE RealTimeOrder
  <2>1. \A t \in Threads : pc[t] = "idle"
    BY <1>2 DEF TimelyInv, ServerInv, LoadedInv, QuietInv, AloneAt, Loading
  <2> QED  BY <2>1 DEF RealTimeOrder, At
<1> QED  BY <1>1, <1>2

\* F2 with F7 and F8 across snapshots, loads and restarts: the clock that a
\* load restores is not behind the tweets it restores, so a tweet posted after
\* it still sorts above every tweet its author could have seen.  Operators
\* take and load snapshots while no call is open, and a snapshot written by
\* hand has its clock, like its counters, past its tweets.
THEOREM TimesContinue ==
  ASSUME QuietOperators, SafeUploads, TimelyUploads,
         \A s \in HandMade : Proper(s) /\ Timely(s)
  PROVE  ServerSpec => []RealTimeOrder
<1>1. ServerInit => TimelyInv
  BY TimelyInitially
<1>2. TimelyInv /\ [ServerNext]_processVars => TimelyInv'
  BY TimelyStep
<1>3. TimelyInv => RealTimeOrder
  BY TimelyShows
<1> QED  BY <1>1, <1>2, <1>3, PTL DEF ServerSpec

-----------------------------------------------------------------------------
(* The demo.                                                               *)

\* Each call of seed_demo creates a handle of its own, posts as a user it
\* created before, or stores neither; nothing it sends is blank.
DemoSucceeds ==
  /\ \A k \in DOMAIN Demo :
       Demo[k].op \in {"create_user", "post_tweet"} => ~Demo[k].blank
  /\ \A j, k \in DOMAIN Demo :
       /\ Demo[j].op = "create_user" /\ Demo[k].op = "create_user"
       /\ Demo[j].who = Demo[k].who
       => j = k
  /\ \A k \in DOMAIN Demo : Demo[k].op = "post_tweet" =>
       \E j \in 1..(k - 1) :
         Demo[j].op = "create_user" /\ Demo[j].who = Demo[k].who

\* how many of the first n calls of the demo are of a kind
Count(n, op) == Cardinality({i \in 1..n : Demo[i].op = op})

LEMMA CountType == ASSUME NEW n \in Nat, NEW op PROVE Count(n, op) \in Nat
<1>1. IsFiniteSet(1..n)
  BY FS_Interval
<1>2. IsFiniteSet({i \in 1..n : Demo[i].op = op})
  BY <1>1, FS_Subset
<1> QED  BY <1>2, FS_CardinalityType DEF Count

LEMMA CountNone == ASSUME NEW op PROVE Count(0, op) = 0
<1>1. {i \in 1..0 : Demo[i].op = op} = {}
  OBVIOUS
<1> QED  BY <1>1, FS_EmptySet DEF Count

LEMMA CountStep ==
  ASSUME NEW n \in Nat, NEW op
  PROVE  Count(n + 1, op) =
           IF Demo[n + 1].op = op THEN Count(n, op) + 1 ELSE Count(n, op)
<1> DEFINE S == {i \in 1..n : Demo[i].op = op}
           T == {i \in 1..(n + 1) : Demo[i].op = op}
<1>1. CASE Demo[n + 1].op = op
  <2>1. T = S \cup {n + 1} /\ n + 1 \notin S
    BY <1>1
  <2>2. IsFiniteSet(1..n)
    BY FS_Interval
  <2>3. IsFiniteSet(S)
    BY <2>2, FS_Subset
  <2> HIDE DEF S, T
  <2>4. Cardinality(T) = Cardinality(S) + 1
    BY <2>1, <2>3, FS_AddElement
  <2> QED  BY <1>1, <2>4 DEF Count, S, T
<1>2. CASE Demo[n + 1].op # op
  <2>1. T = S
    BY <1>2
  <2> HIDE DEF S, T
  <2> QED  BY <1>2, <2>1 DEF Count, S, T
<1> QED  BY <1>1, <1>2

LEMMA RankPositive ==
  ASSUME NEW k \in Nat, k # 0
  PROVE  /\ Rank(k) = Count(k, Demo[k].op)
         /\ Rank(k) \in Nat /\ Rank(k) # 0
<1>1. PICK n \in Nat : k = n + 1
  <2>1. k - 1 \in Nat
    OBVIOUS
  <2> QED  BY <2>1
<1>2. Rank(k) = Count(k, Demo[k].op)
  BY DEF Rank, Count
<1>3. Count(n + 1, Demo[n + 1].op) = Count(n, Demo[n + 1].op) + 1
  BY CountStep
<1>4. Count(n, Demo[n + 1].op) \in Nat
  BY CountType
<1> QED  BY <1>1, <1>2, <1>3, <1>4

\* What the demo stored stays: the store only grows while clients call.
LEMMA ServedKept ==
  ASSUME StoreGrows, NEW k \in Nat, k # 0, Demo[k].who \in Handles, Served(k)
  PROVE  Served(k)'
<1>1. Rank(k) # 0
  BY RankPositive
<1>2. users[Demo[k].who] = Rank(k) => users'[Demo[k].who] = Rank(k)
  BY <1>1 DEF StoreGrows, HasUser, NoUser
<1>3. StoredTweets \subseteq StoredTweets'
  BY StoredTweetsGrow
<1> QED  BY <1>2, <1>3 DEF Served, Rank

\* main has made n calls of the demo; the next may be under way.
MadeFor(n, labels) == IF pc[Main] \in labels THEN n + 1 ELSE n

Progress(n) ==
  /\ now = 0
  /\ \A t \in Threads \ {Main} : pc[t] = "idle"
  /\ Len(seed) = Len(Demo) - n
  /\ \A i \in 1..Len(seed) : seed[i] = Demo[n + i]
  /\ pc[Main] # "idle" => req[Main] = Demo[n + 1]
  /\ user_ids = Count(MadeFor(n, {"put_user", "done"}), "create_user")
  /\ tweet_ids = Count(MadeFor(n, {"now", "put_tweet", "done"}), "post_tweet")
  /\ pc[Main] = "put_user" => draft[Main].id = user_ids
  /\ pc[Main] \in {"now", "put_tweet"} => draft[Main].id = tweet_ids
  /\ pc[Main] = "put_tweet" => draft[Main].created_at = 0
  /\ \A k \in 1..MadeFor(n, {"done"}) : Served(k)
  /\ \A h \in Handles : HasUser(h) =>
       \E k \in 1..MadeFor(n, {"done"}) :
         Demo[k].op = "create_user" /\ Demo[k].who = h

SeedInv ==
  /\ TypedInv
  /\ seed # <<>> => \E n \in 0..(Len(Demo) - 1) : Progress(n)
  /\ SeedServed

LEMMA DemoTypes ==
  /\ Len(Demo) \in Nat /\ DOMAIN Demo = 1..Len(Demo)
  /\ \A k \in 1..Len(Demo) : Demo[k] \in Request /\ Demo[k].who \in Handles
<1>1. /\ Demo \in Seq(Requests) /\ Requests \subseteq Request
  BY ServerAssumption, ServiceAssumption
<1>2. \A k \in 1..Len(Demo) : Demo[k] \in Request
  BY <1>1
<1> QED  BY <1>1, <1>2 DEF Request

\* main starts a call of the demo.
LEMMA ProgressCall ==
  ASSUME TypeInv, NEW n \in 0..(Len(Demo) - 1), Progress(n), seed # <<>>,
         seed \in Seq(Requests), Call(Main, Head(seed)), UNCHANGED seed
  PROVE  Progress(n)'
<1>1. Head(seed) = Demo[n + 1]
  BY DEF Progress
<1>2. /\ pc[Main] = "idle" /\ pc' = [pc EXCEPT ![Main] = "called"]
      /\ req' = [req EXCEPT ![Main] = Head(seed)]
      /\ UNCHANGED <<storeVars, now, user_ids, tweet_ids, draft>>
  BY DEF Call
<1>3. /\ pc'[Main] = "called" /\ req'[Main] = Demo[n + 1]
      /\ \A t \in Threads \ {Main} : pc'[t] = pc[t]
  BY <1>1, <1>2, ServerAssumption DEF TypeInv, TypeOK
<1>4. /\ MadeFor(n, {"put_user", "done"})' = n
      /\ MadeFor(n, {"now", "put_tweet", "done"})' = n
      /\ MadeFor(n, {"done"})' = n
      /\ MadeFor(n, {"put_user", "done"}) = n
      /\ MadeFor(n, {"now", "put_tweet", "done"}) = n
      /\ MadeFor(n, {"done"}) = n
  BY <1>2, <1>3 DEF MadeFor
<1>5. \A k : Served(k)' <=> Served(k)
  BY <1>2 DEF Served, Rank, StoredTweets, Slots, TweetAt, storeVars
<1>6. \A h : HasUser(h)' <=> HasUser(h)
  BY <1>2 DEF HasUser, storeVars
<1>7. now' = 0 /\ \A t \in Threads \ {Main} : pc'[t] = "idle"
  BY <1>2, <1>3 DEF Progress
<1>8. /\ user_ids' = Count(n, "create_user")
      /\ tweet_ids' = Count(n, "post_tweet")
  BY <1>2, <1>4 DEF Progress
<1>9. \A k \in 1..n : Served(k)'
  BY <1>4, <1>5 DEF Progress
<1>10. \A h \in Handles : HasUser(h)' =>
         \E k \in 1..n : Demo[k].op = "create_user" /\ Demo[k].who = h
  BY <1>4, <1>6 DEF Progress
<1>11. /\ Len(seed') = Len(Demo) - n
       /\ \A i \in 1..Len(seed') : seed'[i] = Demo[n + i]
  BY DEF Progress
<1> QED
  BY <1>3, <1>4, <1>7, <1>8, <1>9, <1>10, <1>11 DEF Progress, Count

\* A step of the demo that neither draws an id, nor stores, nor ends a call
\* that should have.
Plain ==
  /\ pc[Main] \notin {"put_user", "done", "now", "put_tweet"}
  /\ pc'[Main] \notin {"put_user", "now", "put_tweet"}
  /\ pc'[Main] = "done" => req[Main].op \notin {"create_user", "post_tweet"}
  /\ UNCHANGED <<users, by_author, now, user_ids, tweet_ids>>

LEMMA PlainStep ==
  ASSUME TypeInv, Step(Main),
         req[Main].op \in {"create_user", "post_tweet"} => ~req[Main].blank,
         req[Main].op = "post_tweet" => HasUser(req[Main].who)
  PROVE  \/ CreateUserNextId(Main) \/ CreateUserPut(Main)
         \/ PostTweetNextId(Main) \/ PostTweetNow(Main) \/ PostTweetPut(Main)
         \/ Plain
<1> USE ServerAssumption DEF TypeInv, TypeOK
<1>1. ASSUME NEW result, Respond(Main, result) PROVE pc'[Main] = "done"
  BY <1>1 DEF Respond
<1>2. ASSUME NEW label, Goto(Main, label) PROVE pc'[Main] = label
  BY <1>2 DEF Goto
<1>3. pc[Main] \in {"unfollow_to", "delete_follow"} => req[Main].op = "unfollow"
  BY DEF ControlOK, OpOf, Labels
<1>4. ~CreateUserBlank(Main) /\ ~PostTweetBlank(Main) /\ ~PostTweetUnknown(Main)
  BY DEF CreateUserBlank, PostTweetBlank, PostTweetUnknown, At
<1>5. CASE HasUserRead(Main) \/ FollowSelf(Main) \/ HomeTimelineRead(Main)
  BY <1>1, <1>5 DEF HasUserRead, FollowSelf, HomeTimelineRead, At, Answer,
                    Plain, storeVars
<1>6. CASE FollowPut(Main) \/ UnfollowDelete(Main)
  BY <1>1, <1>3, <1>6 DEF FollowPut, UnfollowDelete, At, Plain, PutFollow,
                          DeleteFollow, storeVars
<1>7. CASE UnfollowUnknown(Main)
  BY <1>1, <1>3, <1>7 DEF UnfollowUnknown, At, Answer, Plain, storeVars
<1>8. CASE \/ UnfollowFromKnown(Main) \/ UnfollowToKnown(Main)
           \/ PostTweetKnown(Main)
  BY <1>2, <1>8 DEF UnfollowFromKnown, UnfollowToKnown, PostTweetKnown, At,
                    Plain, storeVars
<1> QED  BY <1>4, <1>5, <1>6, <1>7, <1>8 DEF Step

\* What every step of main leaves of the progress it makes.
LEMMA ProgressFrom ==
  ASSUME TypeInv, NEW n \in 0..(Len(Demo) - 1), Progress(n),
         Step(Main), UNCHANGED <<seed, now>>,
         user_ids' = Count(MadeFor(n, {"put_user", "done"})', "create_user"),
         tweet_ids' = Count(MadeFor(n, {"now", "put_tweet", "done"})',
                            "post_tweet"),
         pc'[Main] = "put_user" => draft'[Main].id = user_ids',
         pc'[Main] \in {"now", "put_tweet"} => draft'[Main].id = tweet_ids',
         pc'[Main] = "put_tweet" => draft'[Main].created_at = 0,
         pc'[Main] = "done" => Served(n + 1)',
         \A h \in Handles : HasUser(h)' =>
           \/ HasUser(h)
           \/ pc'[Main] = "done" /\ Demo[n + 1].op = "create_user"
                                 /\ Demo[n + 1].who = h
  PROVE  Progress(n)'
<1>1. /\ pc[Main] # "idle" /\ req'[Main] = req[Main] /\ req[Main] = Demo[n + 1]
      /\ \A t \in Threads \ {Main} : pc'[t] = "idle"
  BY StepBusy, StepOp, StepLocal, ServerAssumption DEF Local, Progress
<1>2. pc[Main] # "done"
  BY DEF Step, At, CreateUserBlank, CreateUserNextId, CreateUserPut,
         HasUserRead, FollowSelf, FollowPut, UnfollowUnknown,
         UnfollowFromKnown, UnfollowToKnown, UnfollowDelete, PostTweetBlank,
         PostTweetUnknown, PostTweetKnown, PostTweetNextId, PostTweetNow,
         PostTweetPut, HomeTimelineRead
<1>3. MadeFor(n, {"done"}) = n
  BY <1>2 DEF MadeFor
<1>4. StoreGrows
  BY StoreStep, ServerAssumption DEF AnyNext
<1>5. \A k \in 1..n : k \in 1..Len(Demo) /\ k \in Nat /\ k # 0
  BY DemoTypes
<1>6. ASSUME NEW k \in 1..n PROVE Served(k)'
  BY <1>3, <1>4, <1>5, ServedKept, DemoTypes DEF Progress
<1>7. \A k \in 1..MadeFor(n, {"done"})' : Served(k)'
  <2>1. ASSUME NEW k \in 1..(n + 1) PROVE k \in 1..n \/ k = n + 1
    OBVIOUS
  <2>2. CASE pc'[Main] = "done"
    BY <1>6, <2>1, <2>2 DEF MadeFor
  <2>3. CASE pc'[Main] # "done"
    BY <1>6, <2>3 DEF MadeFor
  <2> QED  BY <2>2, <2>3
<1>8. ASSUME NEW h \in Handles, HasUser(h)'
      PROVE  \E k \in 1..MadeFor(n, {"done"})' :
               Demo[k].op = "create_user" /\ Demo[k].who = h
  <2>1. CASE HasUser(h)
    <3>1. PICK k \in 1..n : Demo[k].op = "create_user" /\ Demo[k].who = h
      BY <1>3, <2>1 DEF Progress
    <3>2. k \in 1..MadeFor(n, {"done"})'
      BY DEF MadeFor
    <3> QED  BY <3>1, <3>2
  <2>2. CASE /\ pc'[Main] = "done" /\ Demo[n + 1].op = "create_user"
             /\ Demo[n + 1].who = h
    <3>1. n + 1 \in 1..MadeFor(n, {"done"})'
      BY <2>2 DEF MadeFor
    <3> QED  BY <2>2, <3>1
  <2> QED  BY <1>8, <2>1, <2>2
<1>9. /\ now' = 0 /\ Len(seed') = Len(Demo) - n
      /\ \A i \in 1..Len(seed') : seed'[i] = Demo[n + i]
  BY DEF Progress
<1> QED  BY <1>1, <1>7, <1>8, <1>9 DEF Progress, Count

\* The call main is in: what the demo says of it, and what is stored before.
LEMMA SeedingCall ==
  ASSUME DemoSucceeds, TypeInv, NEW n \in 0..(Len(Demo) - 1), Progress(n),
         Step(Main)
  PROVE  LET r == Demo[n + 1] IN
         /\ n + 1 \in 1..Len(Demo) /\ n \in Nat /\ n + 1 # 0
         /\ req[Main] = r /\ req'[Main] = r
         /\ r.who \in Handles /\ r.op \in OpOf[pc[Main]]
         /\ r.op \in {"create_user", "post_tweet"} => ~r.blank
         /\ r.op = "create_user" /\ pc[Main] = "put_user" => ~HasUser(r.who)
         /\ r.op = "post_tweet" => HasUser(r.who)
<1> DEFINE r == Demo[n + 1]
<1>1. n + 1 \in 1..Len(Demo) /\ n \in Nat /\ n + 1 # 0
  BY DemoTypes
<1>2. pc[Main] # "idle" /\ req[Main] = r /\ req'[Main] = r
  BY StepBusy, StepOp, ServerAssumption DEF Progress
<1>3. r.who \in Handles /\ r.op \in OpOf[pc[Main]]
  BY <1>1, <1>2, DemoTypes, ServerAssumption DEF TypeInv, ControlOK
<1>4. r.op \in {"create_user", "post_tweet"} => ~r.blank
  BY <1>1, DemoTypes DEF DemoSucceeds
<1>5. ASSUME r.op = "create_user", pc[Main] = "put_user", HasUser(r.who)
      PROVE  FALSE
  <2>1. MadeFor(n, {"done"}) = n
    BY <1>5 DEF MadeFor
  <2>2. PICK k \in 1..n : Demo[k].op = "create_user" /\ Demo[k].who = r.who
    BY <1>3, <1>5, <2>1 DEF Progress
  <2>3. k \in DOMAIN Demo /\ n + 1 \in DOMAIN Demo /\ k # n + 1
    BY <1>1, DemoTypes
  <2> QED  BY <1>5, <2>2, <2>3 DEF DemoSucceeds
<1>6. ASSUME r.op = "post_tweet" PROVE HasUser(r.who)
  <2>1. PICK j \in 1..(n + 1 - 1) : Demo[j].op = "create_user" /\ Demo[j].who = r.who
    BY <1>1, <1>6, DemoTypes DEF DemoSucceeds
  <2>2. j \in 1..MadeFor(n, {"done"}) /\ j \in Nat /\ j # 0
    BY <1>1, <2>1 DEF MadeFor
  <2>3. users[r.who] = Rank(j)
    BY <2>1, <2>2 DEF Progress, Served
  <2> QED  BY <2>2, <2>3, RankPositive DEF HasUser, NoUser
<1> QED  BY <1>1, <1>2, <1>3, <1>4, <1>5, <1>6

LEMMA ProgressCreate ==
  ASSUME DemoSucceeds, TypeInv, NEW n \in 0..(Len(Demo) - 1), Progress(n),
         UNCHANGED seed, Step(Main), CreateUserNextId(Main)
  PROVE  Progress(n)'
<1> USE ServerAssumption DEF TypeInv, TypeOK
<1>1. /\ pc[Main] = "called" /\ pc'[Main] = "put_user"
      /\ req[Main].op = "create_user"
      /\ user_ids' = user_ids + 1 /\ draft'[Main].id = user_ids'
      /\ UNCHANGED <<now, tweet_ids, users>>
  BY DEF CreateUserNextId, At, Goto, UserIds!NextId, storeVars
<1>2. n \in Nat /\ Demo[n + 1].op = "create_user"
  BY <1>1, SeedingCall
<1>3. user_ids' = Count(MadeFor(n, {"put_user", "done"})', "create_user")
  <2>1. user_ids = Count(n, "create_user")
    BY <1>1 DEF MadeFor, Progress
  <2>2. Count(n + 1, "create_user") = Count(n, "create_user") + 1
    BY <1>2, CountStep
  <2>3. MadeFor(n, {"put_user", "done"})' = n + 1
    BY <1>1 DEF MadeFor
  <2> QED  BY <1>1, <2>1, <2>2, <2>3
<1>4. tweet_ids' = Count(MadeFor(n, {"now", "put_tweet", "done"})', "post_tweet")
  BY <1>1 DEF MadeFor, Progress
<1> QED  BY <1>1, <1>3, <1>4, ProgressFrom DEF HasUser

LEMMA ProgressCreated ==
  ASSUME DemoSucceeds, TypeInv, NEW n \in 0..(Len(Demo) - 1), Progress(n),
         UNCHANGED seed, Step(Main), CreateUserPut(Main)
  PROVE  Progress(n)'
<1> USE ServerAssumption DEF TypeInv, TypeOK
<1>1. PICK result \in Results :
        PutUser(req[Main].who, draft[Main].id, result) /\ Respond(Main, result)
  BY DEF CreateUserPut
<1>2. pc[Main] = "put_user" /\ UNCHANGED <<now, user_ids, tweet_ids>>
  BY DEF CreateUserPut
<1>3. pc'[Main] = "done" /\ draft[Main].id = user_ids
  BY <1>1, <1>2 DEF Respond, Progress
<1>4. /\ n \in Nat /\ n + 1 # 0 /\ Demo[n + 1].op = "create_user"
      /\ req[Main].who = Demo[n + 1].who /\ Demo[n + 1].who \in Handles
      /\ ~HasUser(Demo[n + 1].who)
  BY <1>2, SeedingCall DEF OpOf, Labels
<1>5. users' = [users EXCEPT ![Demo[n + 1].who] = user_ids]
  BY <1>1, <1>3, <1>4 DEF PutUser
<1>6. user_ids = Count(n + 1, "create_user")
  BY <1>2 DEF Progress, MadeFor
<1>7. user_ids' = Count(MadeFor(n, {"put_user", "done"})', "create_user")
  BY <1>2, <1>3, <1>6 DEF MadeFor
<1>8. tweet_ids' = Count(MadeFor(n, {"now", "put_tweet", "done"})', "post_tweet")
  <2>1. tweet_ids = Count(n, "post_tweet")
    BY <1>2 DEF MadeFor, Progress
  <2>2. Count(n + 1, "post_tweet") = Count(n, "post_tweet")
    BY <1>4, CountStep
  <2>3. MadeFor(n, {"now", "put_tweet", "done"})' = n + 1
    BY <1>3 DEF MadeFor
  <2> QED  BY <1>2, <2>1, <2>2, <2>3
<1>9. Served(n + 1)'
  <2>1. Rank(n + 1) = user_ids
    <3>1. n + 1 \in Nat /\ n + 1 # 0
      BY <1>4
    <3>2. Rank(n + 1) = Count(n + 1, Demo[n + 1].op)
      BY <3>1, RankPositive
    <3> QED  BY <1>4, <1>6, <3>2
  <2>2. users'[Demo[n + 1].who] = user_ids
    BY <1>4, <1>5 DEF StoreTypeOK
  <2> QED  BY <1>4, <2>1, <2>2 DEF Served, Rank
<1>10. \A h \in Handles : HasUser(h)' => HasUser(h) \/ Demo[n + 1].who = h
  BY <1>4, <1>5 DEF HasUser, StoreTypeOK
<1> QED  BY <1>2, <1>3, <1>4, <1>7, <1>8, <1>9, <1>10, ProgressFrom

LEMMA ProgressPost ==
  ASSUME DemoSucceeds, TypeInv, NEW n \in 0..(Len(Demo) - 1), Progress(n),
         UNCHANGED seed, Step(Main),
         PostTweetNextId(Main) \/ PostTweetNow(Main)
  PROVE  Progress(n)'
<1> USE ServerAssumption DEF TypeInv, TypeOK
<1>1. CASE PostTweetNextId(Main)
  <2>1. /\ pc[Main] = "next_id" /\ pc'[Main] = "now"
        /\ tweet_ids' = tweet_ids + 1 /\ draft'[Main].id = tweet_ids'
        /\ UNCHANGED <<now, user_ids, users>>
    BY <1>1 DEF PostTweetNextId, Goto, TweetIds!NextId, storeVars
  <2>2. n \in Nat /\ Demo[n + 1].op = "post_tweet"
    BY <2>1, SeedingCall DEF OpOf, Labels
  <2>3. user_ids' = Count(MadeFor(n, {"put_user", "done"})', "create_user")
    BY <2>1 DEF MadeFor, Progress
  <2>4. tweet_ids' = Count(MadeFor(n, {"now", "put_tweet", "done"})', "post_tweet")
    <3>1. tweet_ids = Count(n, "post_tweet")
      BY <2>1 DEF MadeFor, Progress
    <3>2. Count(n + 1, "post_tweet") = Count(n, "post_tweet") + 1
      BY <2>2, CountStep
    <3>3. MadeFor(n, {"now", "put_tweet", "done"})' = n + 1
      BY <2>1 DEF MadeFor
    <3> QED  BY <2>1, <3>1, <3>2, <3>3
  <2> QED  BY <2>1, <2>3, <2>4, ProgressFrom DEF HasUser
<1>2. CASE PostTweetNow(Main)
  <2>1. /\ pc[Main] = "now" /\ pc'[Main] = "put_tweet"
        /\ draft'[Main].id = draft[Main].id /\ draft'[Main].created_at = now
        /\ UNCHANGED <<now, user_ids, tweet_ids, users>>
    BY <1>2 DEF PostTweetNow, Goto, Clock!Now, storeVars
  <2>2. user_ids' = Count(MadeFor(n, {"put_user", "done"})', "create_user")
    BY <2>1 DEF MadeFor, Progress
  <2>3. tweet_ids' = Count(MadeFor(n, {"now", "put_tweet", "done"})', "post_tweet")
    BY <2>1 DEF MadeFor, Progress
  <2>4. draft'[Main].id = tweet_ids' /\ draft'[Main].created_at = 0
    BY <2>1 DEF Progress
  <2> QED  BY <2>1, <2>2, <2>3, <2>4, ProgressFrom DEF HasUser
<1> QED  BY <1>1, <1>2

LEMMA ProgressPosted ==
  ASSUME DemoSucceeds, TypeInv, NEW n \in 0..(Len(Demo) - 1), Progress(n),
         UNCHANGED seed, Step(Main), PostTweetPut(Main)
  PROVE  Progress(n)'
<1> USE ServerAssumption DEF TypeInv, TypeOK
<1>1. PICK result \in Results :
        PutTweet(TweetOf(Main), result) /\ Respond(Main, result)
  BY DEF PostTweetPut
<1>2. pc[Main] = "put_tweet" /\ UNCHANGED <<now, user_ids, tweet_ids>>
  BY DEF PostTweetPut
<1>3. /\ pc'[Main] = "done" /\ draft[Main].id = tweet_ids
      /\ draft[Main].created_at = 0
  BY <1>1, <1>2 DEF Respond, Progress
<1>4. /\ n \in Nat /\ n + 1 # 0 /\ Demo[n + 1].op = "post_tweet"
      /\ req[Main].who = Demo[n + 1].who
      /\ HasUser(Demo[n + 1].who)
  BY <1>2, SeedingCall DEF OpOf, Labels
<1>5. TweetOf(Main) =
        [id |-> tweet_ids, author |-> Demo[n + 1].who, created_at |-> 0]
  BY <1>3, <1>4 DEF TweetOf
<1>6. TweetOf(Main) \in Tweet /\ HasUser(TweetOf(Main).author)
  BY <1>2, <1>4, <1>5, TweetOfType
<1>7. TweetOf(Main) \in StoredTweets'
  BY <1>1, <1>6, GrowsPutTweet DEF StoredTweets, TweetSlots
<1>8. tweet_ids = Count(n + 1, "post_tweet")
  BY <1>2 DEF Progress, MadeFor
<1>9. user_ids' = Count(MadeFor(n, {"put_user", "done"})', "create_user")
  <2>1. user_ids = Count(n, "create_user")
    BY <1>2 DEF MadeFor, Progress
  <2>2. Count(n + 1, "create_user") = Count(n, "create_user")
    BY <1>4, CountStep
  <2>3. MadeFor(n, {"put_user", "done"})' = n + 1
    BY <1>3 DEF MadeFor
  <2> QED  BY <1>2, <2>1, <2>2, <2>3
<1>10. tweet_ids' = Count(MadeFor(n, {"now", "put_tweet", "done"})', "post_tweet")
  BY <1>2, <1>3, <1>8 DEF MadeFor
<1>11. Served(n + 1)'
  <2>1. Rank(n + 1) = tweet_ids
    BY <1>4, <1>8, RankPositive
  <2> QED  BY <1>4, <1>5, <1>7, <2>1 DEF Served, Rank
<1>12. UNCHANGED users
  BY <1>1 DEF PutTweet, storeVars
<1> QED  BY <1>2, <1>3, <1>9, <1>10, <1>11, <1>12, ProgressFrom DEF HasUser

LEMMA ProgressPlain ==
  ASSUME DemoSucceeds, TypeInv, NEW n \in 0..(Len(Demo) - 1), Progress(n),
         UNCHANGED seed, Step(Main), Plain
  PROVE  Progress(n)'
<1>1. n \in Nat /\ req[Main] = Demo[n + 1]
  BY SeedingCall
<1>2. user_ids = Count(n, "create_user") /\ tweet_ids = Count(n, "post_tweet")
  BY DEF Plain, Progress, MadeFor
<1>3. pc'[Main] = "done" =>
        /\ Demo[n + 1].op # "create_user" /\ Demo[n + 1].op # "post_tweet"
  BY <1>1 DEF Plain
<1>4. pc'[Main] = "done" => /\ Count(n + 1, "create_user") = user_ids
                            /\ Count(n + 1, "post_tweet") = tweet_ids
  BY <1>1, <1>2, <1>3, CountStep
<1>5. user_ids' = Count(MadeFor(n, {"put_user", "done"})', "create_user")
  BY <1>2, <1>4 DEF MadeFor, Plain
<1>6. tweet_ids' = Count(MadeFor(n, {"now", "put_tweet", "done"})', "post_tweet")
  BY <1>2, <1>4 DEF MadeFor, Plain
<1>7. pc'[Main] = "done" => Served(n + 1)'
  BY <1>3 DEF Served
<1> QED  BY <1>5, <1>6, <1>7, ProgressFrom DEF Plain, HasUser

\* The call is answered: main goes on to the next, or opens the router.
LEMMA ProgressReturn ==
  ASSUME TypeInv, NEW n \in 0..(Len(Demo) - 1), Progress(n), seed # <<>>,
         seed \in Seq(Requests), Return(Main), seed' = Tail(seed)
  PROVE  /\ seed' # <<>> => /\ n + 1 \in 0..(Len(Demo) - 1)
                            /\ Progress(n + 1)'
         /\ seed' = <<>> => SeedServed'
<1>1. /\ pc[Main] = "done" /\ pc'[Main] = "idle"
      /\ \A t \in Threads \ {Main} : pc'[t] = "idle"
      /\ UNCHANGED <<storeVars, now, user_ids, tweet_ids>>
  BY ServerAssumption DEF Return, TypeInv, TypeOK, Progress
<1>2. /\ Len(seed') = Len(seed) - 1 /\ seed' \in Seq(Requests)
      /\ \A i \in 1..Len(seed') : seed'[i] = seed[i + 1] /\ i + 1 \in 1..Len(seed)
  OBVIOUS
<1>3. Len(Demo) \in Nat /\ n \in Nat /\ DOMAIN Demo = 1..Len(Demo)
  BY DemoTypes
<1>4. /\ Len(seed') = Len(Demo) - (n + 1)
      /\ \A i \in 1..Len(seed') : seed'[i] = Demo[n + 1 + i]
  <2>1. Len(seed) = Len(Demo) - n
    BY DEF Progress
  <2>2. ASSUME NEW i \in 1..Len(seed') PROVE seed'[i] = Demo[n + 1 + i]
    <3>1. seed[i + 1] = Demo[n + (i + 1)]
      BY <1>2 DEF Progress
    <3>2. n + (i + 1) = n + 1 + i
      BY <1>3
    <3> QED  BY <1>2, <3>1, <3>2
  <2> QED  BY <1>2, <1>3, <2>1, <2>2
<1>5. /\ \A k \in 1..(n + 1) : Served(k)'
      /\ \A h \in Handles : HasUser(h)' =>
           \E k \in 1..(n + 1) : Demo[k].op = "create_user" /\ Demo[k].who = h
  <2>1. MadeFor(n, {"done"}) = n + 1
    BY <1>1 DEF MadeFor
  <2>2. \A k : Served(k)' <=> Served(k)
    BY <1>1 DEF Served, Rank, StoredTweets, Slots, TweetAt, storeVars
  <2>3. \A h : HasUser(h)' <=> HasUser(h)
    BY <1>1 DEF HasUser, storeVars
  <2> QED  BY <2>1, <2>2, <2>3 DEF Progress
<1>6. /\ user_ids' = Count(n + 1, "create_user")
      /\ tweet_ids' = Count(n + 1, "post_tweet")
  BY <1>1 DEF Progress, MadeFor
<1>7. /\ MadeFor(n + 1, {"put_user", "done"})' = n + 1
      /\ MadeFor(n + 1, {"now", "put_tweet", "done"})' = n + 1
      /\ MadeFor(n + 1, {"done"})' = n + 1
  BY <1>1 DEF MadeFor
<1>8. ASSUME seed' # <<>>
      PROVE  n + 1 \in 0..(Len(Demo) - 1) /\ Progress(n + 1)'
  <2>1. Len(seed') > 0
    BY <1>2, <1>8
  <2>2. n + 1 \in 0..(Len(Demo) - 1)
    BY <1>3, <1>4, <2>1
  <2>3. now' = 0
    BY <1>1 DEF Progress
  <2>4. PICK m : m = n + 1
    OBVIOUS
  <2>5. /\ user_ids' = Count(MadeFor(m, {"put_user", "done"})', "create_user")
        /\ tweet_ids'
             = Count(MadeFor(m, {"now", "put_tweet", "done"})', "post_tweet")
    BY <1>6, <1>7, <2>4
  <2>6. /\ \A k \in 1..MadeFor(m, {"done"})' : Served(k)'
        /\ \A h \in Handles : HasUser(h)' =>
             \E k \in 1..MadeFor(m, {"done"})' :
               Demo[k].op = "create_user" /\ Demo[k].who = h
    BY <1>5, <1>7, <2>4
  <2>7. /\ Len(seed') = Len(Demo) - m
        /\ \A i \in 1..Len(seed') : seed'[i] = Demo[m + i]
    BY <1>4, <2>4
  <2>8. Progress(m)'
    BY <1>1, <2>3, <2>5, <2>6, <2>7 DEF Progress
  <2> QED  BY <2>2, <2>4, <2>8
<1>9. ASSUME seed' = <<>> PROVE SeedServed'
  <2>1. Len(Demo) = n + 1
    <3>1. seed' \in Seq(Requests) /\ (seed' = <<>> => Len(seed') = 0)
      BY <1>2
    <3>2. Len(seed') = Len(Demo) - (n + 1)
      BY <1>4
    <3>3. Len(Demo) \in Nat /\ n \in Nat
      BY <1>3
    <3>4. Len(seed') = 0
      BY <1>9, <3>1, Zenon
    <3>5. 0 = Len(Demo) - (n + 1)
      BY <3>2, <3>4, Zenon
    <3> HIDE <1>9
    <3> QED  BY <3>3, <3>5
  <2> QED  BY <1>3, <1>5, <2>1 DEF SeedServed
<1> QED  BY <1>8, <1>9

\* A process in which nothing has happened yet.
Untouched ==
  /\ now = 0 /\ user_ids = 0 /\ tweet_ids = 0
  /\ \A t \in Threads : pc[t] = "idle"
  /\ \A h \in Handles : users[h] = NoUser
  /\ seed = IF fresh THEN Demo ELSE <<>>

LEMMA ProgressBegins ==
  Untouched => /\ seed # <<>> => \E n \in 0..(Len(Demo) - 1) : Progress(n)
               /\ SeedServed
<1> SUFFICES ASSUME Untouched
             PROVE  /\ seed # <<>> =>
                         \E n \in 0..(Len(Demo) - 1) : Progress(n)
                    /\ SeedServed
  OBVIOUS
<1>1. ASSUME seed # <<>> PROVE 0 \in 0..(Len(Demo) - 1) /\ Progress(0)
  <2>1. seed = Demo /\ Len(Demo) \in Nat /\ Len(Demo) # 0
    BY <1>1, ServerAssumption DEF Untouched
  <2>2. pc[Main] = "idle" /\ \A t \in Threads \ {Main} : pc[t] = "idle"
    BY ServerAssumption DEF Untouched
  <2>3. /\ MadeFor(0, {"put_user", "done"}) = 0
        /\ MadeFor(0, {"now", "put_tweet", "done"}) = 0
        /\ MadeFor(0, {"done"}) = 0
    BY <2>2 DEF MadeFor
  <2>4. \A i \in 1..Len(seed) : seed[i] = Demo[0 + i]
    BY <2>1
  <2>5. Len(seed) = Len(Demo) - 0
    BY <2>1
  <2>6. user_ids = Count(0, "create_user") /\ tweet_ids = Count(0, "post_tweet")
    BY CountNone DEF Untouched
  <2> QED  BY <2>1, <2>2, <2>3, <2>4, <2>5, <2>6
           DEF Progress, HasUser, Untouched
<1>2. SeedServed
  <2>1. DOMAIN <<>> = {}
    OBVIOUS
  <2> QED  BY <2>1 DEF SeedServed, Untouched
<1> QED  BY <1>1, <1>2

LEMMA SeedInitially ==
  ASSUME HandMade \subseteq ServiceState, ServerInit PROVE SeedInv
<1>1. Untouched
  BY DEF Untouched, ServerInit, AdminInit, Init, StoreInit, Clock!Init,
         UserIds!Init, TweetIds!Init
<1> QED  BY <1>1, TypedInitially, ProgressBegins DEF SeedInv

LEMMA ProgressKept ==
  ASSUME UNCHANGED <<vars, seed>>, NEW n, Progress(n) PROVE Progress(n)'
<1>1. \A k : Served(k)' <=> Served(k)
  BY DEF Served, Rank, StoredTweets, Slots, TweetAt, vars
<1>2. \A labels : MadeFor(n, labels)' = MadeFor(n, labels)
  BY DEF MadeFor, vars, threadVars
<1>3. /\ users' = users /\ now' = now /\ seed' = seed
      /\ user_ids' = user_ids /\ tweet_ids' = tweet_ids
      /\ pc' = pc /\ req' = req /\ draft' = draft
  BY DEF vars, threadVars
<1> QED  BY <1>1, <1>2, <1>3 DEF Progress, HasUser

LEMMA SeedStep ==
  ASSUME DemoSucceeds, TypedUploads, SeedInv, [ServerNext]_processVars
  PROVE  SeedInv'
<1>1. TypedInv /\ TypeInv /\ TypedInv'
  BY TypedStep DEF SeedInv, TypedInv
<1>2. \A k \in 1..Len(Demo) : k \in Nat /\ k # 0 /\ Demo[k].who \in Handles
  BY DemoTypes
<1>3. ASSUME StoreGrows, SeedServed, UNCHANGED serverVars PROVE SeedServed'
  BY <1>2, <1>3, ServedKept, DemoTypes DEF SeedServed, serverVars
<1>4. CASE SeedDemo
  <2>1. /\ seed # <<>> /\ seed \in Seq(Requests) /\ fresh' = fresh
        /\ Main \in Threads
    BY <1>1, <1>4, ServerAssumption DEF TypedInv, SeedDemo
  <2>2. PICK n \in 0..(Len(Demo) - 1) : Progress(n)
    BY <2>1 DEF SeedInv
  <2>3. CASE Call(Main, Head(seed)) /\ UNCHANGED seed
    BY <1>1, <2>1, <2>2, <2>3, ProgressCall DEF SeedInv, SeedServed
  <2>4. CASE Step(Main) /\ UNCHANGED seed
    <3>1. /\ req[Main] = Demo[n + 1]
          /\ Demo[n + 1].op \in {"create_user", "post_tweet"} =>
               ~Demo[n + 1].blank
          /\ Demo[n + 1].op = "post_tweet" => HasUser(Demo[n + 1].who)
      BY <1>1, <2>2, <2>4, SeedingCall
    <3>2. \/ CreateUserNextId(Main) \/ CreateUserPut(Main)
          \/ PostTweetNextId(Main) \/ PostTweetNow(Main) \/ PostTweetPut(Main)
          \/ Plain
      BY <1>1, <2>4, <3>1, PlainStep
    <3>3. Progress(n)'
      BY <1>1, <2>2, <2>4, <3>2, ProgressCreate, ProgressCreated,
         ProgressPost, ProgressPosted, ProgressPlain
    <3> QED  BY <1>1, <2>1, <2>4, <3>3 DEF SeedInv, SeedServed
  <2>5. CASE Return(Main) /\ seed' = Tail(seed)
    BY <1>1, <2>1, <2>2, <2>5, ProgressReturn DEF SeedInv, SeedServed
  <2> QED  BY <1>4, <2>3, <2>4, <2>5 DEF SeedDemo
<1>5. CASE Listening /\ ClientNext /\ UNCHANGED serverVars
  <2>1. StoreGrows
    <3>1. [Next]_vars
      BY <1>5 DEF ClientNext, Next
    <3> QED  BY <1>1, <3>1, StoreStep, AnyRequest
  <2> QED  BY <1>1, <1>3, <1>5, <2>1 DEF SeedInv, Listening, serverVars
<1>6. ASSUME Listening, UNCHANGED seed, NEW a \in Admins, ServerAdminStep(a)
      PROVE  SeedInv'
  <2>1. ASSUME UNCHANGED fresh, UNCHANGED storeVars PROVE SeedServed'
    <3>1. StoreGrows
      BY <2>1, GrowsUnchanged DEF storeVars
    <3> QED  BY <1>3, <1>6, <2>1, <3>1 DEF SeedInv, serverVars
  <2>2. CASE fresh' = FALSE
    BY <1>1, <1>6, <2>2 DEF SeedInv, SeedServed, Listening
  <2>3. ASSUME ~(fresh' = FALSE) PROVE UNCHANGED fresh /\ UNCHANGED storeVars
    BY <1>6, <2>3 DEF ServerAdminStep, PostSnapshot, SnapshotClock,
       SnapshotUserIds, SnapshotTweetIds, SnapshotStore, LoadUserIds,
       LoadTweetIds, LoadClock, vars, storeVars
  <2> QED  BY <1>1, <1>6, <2>1, <2>2, <2>3 DEF SeedInv, Listening
<1>7. CASE ServerRestart
  <2>1. Untouched'
    BY <1>7 DEF Untouched, ServerRestart, Restart, Restarted
  <2>2. (Untouched => /\ seed # <<>> => \E n \in 0..(Len(Demo) - 1) : Progress(n)
                      /\ SeedServed)'
    BY ProgressBegins, PTL
  <2> QED  BY <1>1, <2>1, <2>2 DEF SeedInv
<1>8. CASE UNCHANGED processVars
  <2>1. UNCHANGED vars /\ UNCHANGED serverVars
    BY <1>8 DEF processVars, allVars
  <2>2. StoreGrows
    BY <2>1, GrowsUnchanged DEF vars
  <2>3. seed # <<>> => \E n \in 0..(Len(Demo) - 1) : Progress(n)'
    BY <2>1, ProgressKept DEF SeedInv, serverVars
  <2> QED  BY <1>1, <1>3, <2>1, <2>2, <2>3 DEF SeedInv, serverVars
<1> QED  BY <1>4, <1>5, <1>6, <1>7, <1>8 DEF ServerNext

\* "Anyone hitting the live URL fresh sees alice/bob/carol with sample
\* tweets": main seeds before it listens, so the router answers no request of
\* a process with SEED_DEMO before every user and every tweet of the demo is
\* stored, each under the id that its place in the demo gives it; and no
\* client, capture, failed load or racing call takes one of them away.  Only
\* a load replaces them.  For any demo that posts as users it has created,
\* any clients, operators that need not be quiet, and any typed uploads.
THEOREM DemoIsServed ==
  ASSUME DemoSucceeds, TypedUploads, HandMade \subseteq ServiceState
  PROVE  ServerSpec => []SeedServed
<1>1. ServerInit => SeedInv
  BY SeedInitially
<1>2. SeedInv /\ [ServerNext]_processVars => SeedInv'
  BY SeedStep
<1>3. SeedInv => SeedServed
  BY DEF SeedInv
<1> QED  BY <1>1, <1>2, <1>3, PTL DEF ServerSpec

\* F8 over the life of the process, where the runs with racing operators show
\* that it fails: with captures and loads made while no call is open, no two
\* stored tweets ever have the same id, not even half way through a load.
THEOREM NoTwinsWhenQuiet ==
  ASSUME QuietOperators, SafeUploads, \A s \in HandMade : Proper(s)
  PROVE  ServerSpec => []NoTwinTweets
<1>1. ServerInit => ServerInv
  BY ServerInitially
<1>2. ServerInv /\ [ServerNext]_processVars => ServerInv'
  BY ServerStep
<1>3. ServerInv => NoTwinTweets
  <2>1. ASSUME ServerInv, NEW a \in Admins, Loading(a) PROVE NoTwinTweets
    BY <2>1 DEF ServerInv, LoadedInv, QuietInv, RestoredAt
  <2>2. ASSUME ServerInv, \A a \in Admins : ~Loading(a) PROVE NoTwinTweets
    BY <2>2 DEF ServerInv, LoadedInv, QuietInv, IdsUnique, UniqueTweetIds,
                NoTwinTweets
  <2> QED  BY <2>1, <2>2
<1> QED  BY <1>1, <1>2, <1>3, PTL DEF ServerSpec

==============================================================================
