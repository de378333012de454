----------------------- MODULE ServerRefinementProofs ------------------------
(***************************************************************************)
(* Proof, for any demo, uploads, handles, threads and operators, that the  *)
(* seeded process implements TwitterProcess when operators work on a quiet *)
(* service: captures and loads, each a sequence of lock sections, cannot   *)
(* be told from ones that take effect at one instant.                      *)
(***************************************************************************)
EXTENDS AdminServerProofs, ServiceRefinementProofs, ServerRefinement

-----------------------------------------------------------------------------
(* The clock of the mapping.                                               *)

NoLoad == \A a \in Admins : ~Loading(a)

LoadOf(a) == Loading(a) /\ \A b \in Admins \ {a} : ~Loading(b)

LEMMA ClockIs ==
  /\ NoLoad => AbsClock = now
  /\ \A a \in Admins : LoadOf(a) => AbsClock = held[a].clock_now
<1>1. ASSUME NEW a \in Admins, LoadOf(a)
      PROVE  AbsClock = held[a].clock_now
  <2>1. (CHOOSE b \in Admins : Loading(b)) = a
    BY <1>1 DEF LoadOf
  <2> QED  BY <1>1, <2>1 DEF AbsClock, LoadOf
<1> QED  BY <1>1 DEF AbsClock, NoLoad

LEMMA ClockIsNext ==
  /\ NoLoad' => AbsClock' = now'
  /\ \A a \in Admins : LoadOf(a)' => AbsClock' = held'[a].clock_now
<1>1. /\ NoLoad => AbsClock = now
      /\ \A a \in Admins : LoadOf(a) => AbsClock = held[a].clock_now
  BY ClockIs
<1>2. (/\ NoLoad => AbsClock = now
       /\ \A a \in Admins : LoadOf(a) => AbsClock = held[a].clock_now)'
  BY <1>1, PTL
<1> QED  BY <1>2

-----------------------------------------------------------------------------
(* Between loads a call does in TwitterProcess what it does in Twitter.    *)

LEMMA SameAnswers ==
  ASSUME NEW t \in Threads
  PROVE  /\ P!Error(t) = Abs!Error(t)
         /\ \A op : P!Perform(t, op) <=> Abs!Perform(t, op)
         /\ \A v, w : P!Newer(v, w) <=> Abs!Newer(v, w)
  BY DEF P!Error, Abs!Error, P!Registered, Abs!Registered, P!NoUser, Abs!NoUser,
         P!Perform, Abs!Perform, P!Newer, Abs!Newer

LEMMA SameEffects ==
  ASSUME AbsClock = now, AbsClock' = now', NEW t \in Threads
  PROVE  /\ \A result : P!Done(t, result) <=> Abs!Done(t, result)
         /\ \A result : P!Refuse(t, result) <=> Abs!Refuse(t, result)
<1>1. \A result : P!Done(t, result) <=> Abs!Done(t, result)
  BY DEF P!Done, Abs!Done
<1> QED  BY <1>1 DEF P!Refuse, Abs!Refuse

LEMMA SameCalls ==
  ASSUME AbsClock = now, AbsClock' = now', NEW t \in Threads
  PROVE  /\ Abs!Tick => P!Tick
         /\ \A r : Abs!Call(t, r) => P!Call(t, r)
         /\ Abs!Return(t) => P!Return(t)
<1>1. Abs!Tick => P!Tick
  BY DEF Abs!Tick, P!Tick, Abs!callVars, P!callVars
<1>2. \A r : Abs!Call(t, r) => P!Call(t, r)
  BY DEF Abs!Call, P!Call
<1>3. Abs!Return(t) => P!Return(t)
  BY DEF Abs!Return, P!Return, Abs!NoRequest, P!NoRequest, Abs!NoAnswer,
         P!NoAnswer, Abs!NotBegun, P!NotBegun
<1> QED  BY <1>1, <1>2, <1>3

LEMMA SameTimelines ==
  ASSUME NEW seq, NEW h, NEW limit, Abs!IsTimeline(seq, h, limit)
  PROVE  P!IsTimeline(seq, h, limit)
<1>1. \A S : P!Cardinality(S) = Abs!Cardinality(S)
  BY DEF P!Cardinality, Abs!Cardinality
<1>2. \A v, w : P!Newer(v, w) <=> Abs!Newer(v, w)
  BY DEF P!Newer, Abs!Newer
<1> QED  BY <1>1, <1>2 DEF Abs!IsTimeline, P!IsTimeline

LEMMA SameTakesEffect ==
  ASSUME AbsClock = now, AbsClock' = now', NEW t \in Threads, Abs!TakesEffect(t)
  PROVE  P!TakesEffect(t)
<1>1. CASE Abs!Fail(t)
  BY <1>1, SameAnswers, SameEffects DEF Abs!Fail, P!Fail, P!TakesEffect
<1>2. CASE Abs!CreateUser(t)
  BY <1>2, SameAnswers, SameEffects
     DEF Abs!CreateUser, P!CreateUser, P!TakesEffect
<1>3. CASE Abs!HasUser(t)
  BY <1>3, SameAnswers, SameEffects DEF Abs!HasUser, P!HasUser, P!TakesEffect
<1>4. CASE Abs!Follows(t)
  BY <1>4, SameAnswers, SameEffects DEF Abs!Follows, P!Follows, P!TakesEffect
<1>5. CASE Abs!Unfollow(t)
  BY <1>5, SameAnswers, SameEffects DEF Abs!Unfollow, P!Unfollow, P!TakesEffect
<1>6. CASE Abs!PostTweet(t)
  BY <1>6, SameAnswers, SameEffects
     DEF Abs!PostTweet, P!PostTweet, P!TakesEffect
<1>7. CASE Abs!HomeTimeline(t)
  BY <1>7, SameAnswers, SameEffects, SameTimelines
     DEF Abs!HomeTimeline, P!HomeTimeline, P!TakesEffect
<1> QED  BY <1>1, <1>2, <1>3, <1>4, <1>5, <1>6, <1>7 DEF Abs!TakesEffect

LEMMA SameSteps ==
  ASSUME AbsClock = now, AbsClock' = now', [Abs!Next]_(Abs!vars)
  PROVE  [P!Next]_(P!vars)
<1>1. CASE Abs!Tick
  <2>1. P!Tick
    BY <1>1 DEF Abs!Tick, P!Tick, Abs!callVars, P!callVars
  <2> QED  BY <2>1 DEF P!Next
<1>2. ASSUME NEW t \in Threads,
             \/ \E r \in Requests : Abs!Call(t, r)
             \/ Abs!TakesEffect(t) \/ Abs!Return(t)
      PROVE  P!Next
  BY <1>2, SameCalls, SameTakesEffect DEF P!Next
<1>3. CASE UNCHANGED Abs!vars
  BY <1>3 DEF Abs!vars, Abs!callVars, P!vars, P!callVars
<1> QED  BY <1>1, <1>2, <1>3 DEF Abs!Next

-----------------------------------------------------------------------------
(* What a snapshot stands for.                                             *)

LEMMA ListedUsers ==
  ASSUME StoreTypeOK, NEW list, NEW n \in Nat, NEW order,
         ListsUsers(list, n, order)
  PROVE  [h \in Handles |-> ListedId(list, h)] = users
<1>1. /\ DOMAIN list = 1..n
      /\ \A k \in 1..n :
           list[k] = [id |-> users[order[k]], handle |-> order[k]]
      /\ \A i, j \in 1..n : order[i] = order[j] => i = j
  <2>1. \A i, j \in 1..n : i < j => order[i] # order[j]
    BY DEF ListsUsers
  <2>2. ASSUME NEW i \in 1..n, NEW j \in 1..n, order[i] = order[j]
        PROVE  i = j
    <3>1. ~(i < j) /\ ~(j < i)
      BY <2>1, <2>2
    <3> QED  BY <3>1
  <2> QED  BY <2>2 DEF ListsUsers
<1>2. ASSUME NEW h \in Handles PROVE ListedId(list, h) = users[h]
  <2> DEFINE at == {j \in DOMAIN list : list[j].handle = h}
  <2>1. CASE HasUser(h)
    <3>1. PICK k \in 1..n : order[k] = h
      BY <2>1 DEF ListsUsers
    <3>2. at = {k}
      BY <1>1, <3>1
    <3>3. (CHOOSE j \in at : \A i \in at : i <= j) = k
      BY <3>2
    <3>4. ListedId(list, h) = list[k].id
      BY <3>2, <3>3 DEF ListedId
    <3> QED  BY <1>1, <3>1, <3>4
  <2>2. CASE ~HasUser(h)
    <3>1. at = {}
      BY <1>1, <2>2 DEF ListsUsers
    <3> QED  BY <2>2, <3>1 DEF ListedId, HasUser
  <2> QED  BY <2>1, <2>2
<1> QED  BY <1>2 DEF StoreTypeOK

LEMMA ListedTweets ==
  ASSUME NEW list, NEW n \in Nat, NEW order, ListsTweets(list, n, order)
  PROVE  {list[i] : i \in DOMAIN list} = StoredTweets
<1>1. /\ DOMAIN list = 1..n /\ \A k \in 1..n : list[k] = TweetAt(order[k])
      /\ \A k \in 1..n : order[k] \in Slots(Handles)
      /\ \A s \in Slots(Handles) : \E k \in 1..n : order[k] = s
  BY DEF ListsTweets
<1> QED  BY <1>1 DEF StoredTweets

LEMMA ListedEdges ==
  ASSUME NEW iteration
  PROVE  {<<e.from, e.to>> : e \in Snapshot(iteration).follows} = AbsGraph
<1>1. Snapshot(iteration).follows = {e \in Follow : e.to \in follows[e.from]}
  BY DEF Snapshot
<1>2. ASSUME NEW x \in AbsGraph
      PROVE  \E e \in Snapshot(iteration).follows : x = <<e.from, e.to>>
  <2>1. /\ x = <<x[1], x[2]>> /\ x[1] \in Handles /\ x[2] \in Handles
        /\ x[2] \in follows[x[1]]
    BY DEF AbsGraph
  <2>2. [from |-> x[1], to |-> x[2]] \in Snapshot(iteration).follows
    BY <1>1, <2>1 DEF Follow
  <2> QED  BY <2>1, <2>2
<1>3. ASSUME NEW e \in Snapshot(iteration).follows
      PROVE  <<e.from, e.to>> \in AbsGraph
  BY <1>1, <1>3 DEF AbsGraph, Follow
<1> QED  BY <1>2, <1>3

\* The abstract state with the clock at c.
StateAt(c) == [registered |-> users, graph |-> AbsGraph,
               tweets |-> StoredTweets, clock |-> c]

LEMMA SnapshotState ==
  ASSUME StoreTypeOK, NEW iteration \in Iterations(Handles), NEW s,
         s.store = Snapshot(iteration)
  PROVE  AbsState(s) = StateAt(s.clock_now)
<1>1. PICK n, order : n \in Nat /\ ListsUsers(s.store.users, n, order)
  BY SnapshotUsers
<1>2. PICK m, slot : m \in Nat /\ ListsTweets(s.store.tweets, m, slot)
  BY SnapshotTweets
<1>3. [h \in Handles |-> ListedId(s.store.users, h)] = users
  BY <1>1, ListedUsers
<1>4. {s.store.tweets[i] : i \in DOMAIN s.store.tweets} = StoredTweets
  BY <1>2, ListedTweets
<1>5. {<<e.from, e.to>> : e \in s.store.follows} = AbsGraph
  BY ListedEdges
<1> QED  BY <1>3, <1>4, <1>5 DEF AbsState, StateAt

LEMMA SnapshotStateNext ==
  ASSUME NEW iteration \in Iterations(Handles), NEW s
  PROVE  StoreTypeOK' /\ s.store = Snapshot(iteration)'
           => AbsState(s) = StateAt(s.clock_now)'
<1>1. StoreTypeOK /\ s.store = Snapshot(iteration)
        => AbsState(s) = StateAt(s.clock_now)
  BY SnapshotState
<1>2. (StoreTypeOK /\ s.store = Snapshot(iteration)
         => AbsState(s) = StateAt(s.clock_now))'
  BY <1>1, PTL
<1> QED  BY <1>2

-----------------------------------------------------------------------------
(* What calls know, beside snapshots and loads.                            *)

KnownInv ==
  PosterKnown /\ Checked /\ ByAuthor /\ \A t \in Threads : DraftOK(t)

LEMMA KnownClients ==
  ASSUME TypeInv, KnownInv, [Next]_vars PROVE KnownInv'
<1>1. [AnyNext]_vars
  BY AnyRequest
<1>2. \A t \in Threads : DraftOK(t)'
  BY <1>1, DraftStep DEF KnownInv
<1> QED  BY <1>1, <1>2, PosterKnownStep, CheckedStep, ByAuthorStep DEF KnownInv

LEMMA IdleKnown ==
  ((\A t \in Threads : pc[t] = "idle") => PosterKnown /\ Checked)'
<1>1. (\A t \in Threads : pc[t] = "idle") => PosterKnown /\ Checked
  BY DEF PosterKnown, Checked, CheckedAt
<1> QED  BY <1>1, PTL

LEMMA KnownAdmin ==
  ASSUME KnownInv, \A t \in Threads : pc[t] = "idle", UNCHANGED threadVars,
         ByAuthor'
  PROVE  KnownInv'
<1>1. UNCHANGED <<pc, draft>> /\ \A t \in Threads : pc'[t] = "idle"
  BY DEF threadVars
<1>2. \A t \in Threads : DraftOK(t)'
  BY <1>1 DEF KnownInv, DraftOK
<1> QED  BY <1>1, <1>2, IdleKnown DEF KnownInv

LEMMA ByAuthorKept == ASSUME ByAuthor, UNCHANGED storeVars PROVE ByAuthor'
  BY DEF ByAuthor, storeVars, Slots, TweetAt

LEMMA ByAuthorReplaced ==
  ASSUME NEW snap \in StoreSnapshot, Replace(snap) PROVE ByAuthor'
<1>1. ASSUME NEW s \in Slots(Handles)' PROVE TweetAt(s)'.author = s[1]
  <2>1. /\ s[1] \in Handles /\ s[2] \in DOMAIN by_author'[s[1]]
        /\ TweetAt(s)' = by_author'[s[1]][s[2]]
    BY DEF Slots, TweetAt
  <2>2. PICK n, order :
          n \in Nat /\ ListsOwn(by_author'[s[1]], s[1], snap.tweets, n, order)
    BY <2>1, ReplaceTweets DEF StoreSnapshot
  <2> QED  BY <2>1, <2>2 DEF ListsOwn
<1> QED  BY <1>1 DEF ByAuthor

LEMMA KnownRestart == ASSUME Restart PROVE KnownInv'
<1>1. \A t \in Threads : pc'[t] = "idle" /\ draft'[t] = NoDraft
  BY DEF Restart, Restarted
<1>2. ByAuthor'
  BY DEF ByAuthor, Slots, Restart, Restarted
<1> QED  BY <1>1, <1>2, IdleKnown DEF KnownInv, DraftOK

LEMMA KnownInitially == ASSUME Init PROVE KnownInv
  BY LinInit DEF LinInv, KnownInv

\* A body that is taken is a state that is safe to load, and one of those the
\* operators have.
LEMMA BodiesAreSaved ==
  ASSUME SafeUploads, LoadedInv, NEW a \in Admins, NEW auth \in Auths,
         NEW body \in Bodies, PostLoad(a, auth, body)
  PROVE  \E snap \in archive \cup UploadedStates :
           Proper(snap) /\ LoadStore(a, snap)
<1>1. LoadStatus("ok", body) = 200 /\ LoadStore(a, ParseState(body.state))
  BY DEF PostLoad, LoadStatus, AuthStatus, Auths
<1>2. CASE body \in Uploads
  <2>1. ParseState(body.state) \in UploadedStates
    BY <1>1, <1>2 DEF UploadedStates, Accepted
  <2> QED  BY <1>1, <1>2, <2>1 DEF SafeUploads
<1>3. ASSUME NEW s \in archive, body = SnapshotBody(s)
      PROVE  ParseState(body.state) = s /\ Proper(s)
  <2>1. Proper(s) /\ s \in ServiceState
    BY DEF LoadedInv, Proper
  <2> QED  BY <1>3, <2>1, ParsesBack
<1> QED  BY <1>1, <1>2, <1>3 DEF Bodies

\* An operator's step leaves the calls alone: there are none.
LEMMA AdminStepQuiet ==
  ASSUME QuietOperators, QuietInv, NEW a \in Admins,
         \/ AdminStep(a) \/ \E snap : LoadStore(a, snap)
  PROVE  (\A t \in Threads : pc[t] = "idle") /\ UNCHANGED threadVars
<1>1. OperatorsOK
  BY DEF QuietInv
<1>2. CASE SnapshotClock(a)
  BY <1>1, <1>2, BeginQuietly DEF SnapshotClock, vars
<1>3. CASE \E snap : LoadStore(a, snap)
  BY <1>1, <1>3, BeginQuietly DEF LoadStore
<1>4. CASE \/ SnapshotUserIds(a) \/ SnapshotTweetIds(a) \/ SnapshotStore(a)
           \/ LoadUserIds(a) \/ LoadTweetIds(a) \/ LoadClock(a)
  BY <1>4 DEF QuietInv, AloneAt, SnapshotUserIds, SnapshotTweetIds,
              SnapshotStore, LoadUserIds, LoadTweetIds, LoadClock, vars
<1> QED  BY <1>2, <1>3, <1>4 DEF AdminStep

-----------------------------------------------------------------------------
(* The invariant.                                                          *)

ProcessInv == TimelyInv /\ KnownInv

LEMMA InvParts ==
  ASSUME ProcessInv
  PROVE  /\ ServerInv /\ TimesInv /\ KnownInv /\ LoadedInv /\ TypedInv
         /\ QuietInv /\ TypeInv /\ OperatorsOK /\ StoreTypeOK
  BY DEF ProcessInv, TimelyInv, ServerInv, LoadedInv, QuietInv, TypeInv, TypeOK

LEMMA KnownStep ==
  ASSUME QuietOperators, SafeUploads, ProcessInv, [ServerNext]_processVars
  PROVE  KnownInv'
<1>1. /\ LoadedInv /\ TypedInv /\ QuietInv /\ TypeInv /\ KnownInv
  BY InvParts
<1>2. CASE SeedDemo \/ (Listening /\ ClientNext /\ UNCHANGED serverVars)
  <2>1. ClientNext
    BY <1>1, <1>2, SeedIsClient
  <2>2. [Next]_vars
    BY <2>1 DEF ClientNext, Next
  <2> QED  BY <1>1, <2>2, KnownClients
<1>3. ASSUME NEW a \in Admins, ServerAdminStep(a) PROVE KnownInv'
  <2>1. ASSUME NEW snap, Proper(snap), LoadStore(a, snap) PROVE KnownInv'
    <3>1. ByAuthor'
      BY <2>1, ByAuthorReplaced DEF Proper, ServiceState, LoadStore
    <3> QED  BY <1>1, <2>1, <3>1, AdminStepQuiet, KnownAdmin
  <2>2. CASE \/ SnapshotClock(a) \/ SnapshotUserIds(a) \/ SnapshotTweetIds(a)
             \/ SnapshotStore(a)
             \/ LoadUserIds(a) \/ LoadTweetIds(a) \/ LoadClock(a)
    <3>1. AdminStep(a)
      BY <2>2 DEF AdminStep
    <3>2. UNCHANGED storeVars
      BY <2>2 DEF SnapshotClock, SnapshotUserIds, SnapshotTweetIds,
                  SnapshotStore, LoadUserIds, LoadTweetIds, LoadClock, vars,
                  storeVars
    <3>3. ByAuthor'
      BY <1>1, <3>2, ByAuthorKept DEF KnownInv
    <3> QED  BY <1>1, <3>1, <3>3, AdminStepQuiet, KnownAdmin
  <2>3. ASSUME NEW auth \in Auths, NEW body \in Bodies, PostLoad(a, auth, body)
        PROVE  KnownInv'
    BY <1>1, <2>1, <2>3, BodiesAreSafe
  <2> QED  BY <1>3, <2>2, <2>3 DEF ServerAdminStep, PostSnapshot
<1>4. CASE ServerRestart
  BY <1>4, KnownRestart DEF ServerRestart
<1>5. CASE UNCHANGED processVars
  <2>1. [Next]_vars
    BY <1>5 DEF processVars, allVars
  <2> QED  BY <1>1, <2>1, KnownClients
<1> QED  BY <1>2, <1>3, <1>4, <1>5 DEF ServerNext

LEMMA ProcessInvStep ==
  ASSUME QuietOperators, SafeUploads, TimelyUploads, ProcessInv,
         [ServerNext]_processVars
  PROVE  ProcessInv'
  BY KnownStep, TimelyStep DEF ProcessInv

-----------------------------------------------------------------------------
(* Each step maps to one of TwitterProcess, or to none.                    *)

LEMMA SavedKept == ASSUME archive' = archive PROVE AbsSaved' = AbsSaved
  BY DEF AbsSaved

LEMMA ClientsMap ==
  ASSUME QuietOperators, ProcessInv, ClientNext
  PROVE  [P!Next]_(P!vars) /\ AbsSaved' = AbsSaved
<1>1. NoneBusy /\ UNCHANGED adminVars
  BY InvParts, IdleUnlessBusy DEF ClientNext
<1>2. NoLoad /\ NoLoad' /\ archive' = archive
  BY <1>1 DEF NoneBusy, NoLoad, Loading, adminVars
<1>3. AbsClock = now /\ AbsClock' = now'
  BY <1>2, ClockIs, ClockIsNext
<1>4. LinInv
  BY <1>2, InvParts
     DEF NoLoad, QuietInv, IdsUnique, TimesInv, KnownInv, LinInv
<1>5. [Next]_vars
  BY DEF ClientNext, Next
<1> QED  BY <1>2, <1>3, <1>4, <1>5, NextMaps, SameSteps, SavedKept

LEMMA NothingSeen ==
  ASSUME UNCHANGED storeVars, UNCHANGED threadVars, AbsClock' = AbsClock,
         archive' = archive
  PROVE  UNCHANGED P!processVars
<1>1. AbsSaved' = AbsSaved
  BY SavedKept
<1> QED  BY <1>1, StillMaps DEF P!processVars, P!vars, P!callVars

LEMMA SnapshotSteps ==
  ASSUME QuietOperators, ProcessInv, NEW a \in Admins,
         SnapshotClock(a) \/ SnapshotUserIds(a) \/ SnapshotTweetIds(a)
  PROVE  UNCHANGED P!processVars
<1>1. /\ UNCHANGED storeVars /\ UNCHANGED threadVars /\ now' = now
      /\ archive' = archive
  BY DEF SnapshotClock, SnapshotUserIds, SnapshotTweetIds, vars, storeVars
<1>2. NoLoad /\ NoLoad'
  <2>1. CASE SnapshotClock(a)
    <3>1. NoneBusy
      BY <2>1, InvParts, BeginQuietly DEF SnapshotClock
    <3> QED  BY <2>1, <3>1, InvParts
             DEF SnapshotClock, Move, NoneBusy, NoLoad, Loading, OperatorsOK
  <2>2. CASE SnapshotUserIds(a) \/ SnapshotTweetIds(a)
    BY <2>2, InvParts, AloneMoves
       DEF SnapshotUserIds, SnapshotTweetIds, NoLoad, Loading
  <2> QED  BY <2>1, <2>2
<1>3. AbsClock' = AbsClock
  BY <1>1, <1>2, ClockIs, ClockIsNext
<1> QED  BY <1>1, <1>3, NothingSeen

\* A snapshot is the state when its last section runs: the clock and the
\* counters it read before have not moved.
LEMMA SnapshotMaps ==
  ASSUME ProcessInv, NEW a \in Admins, SnapshotStore(a)
  PROVE  P!Save
<1>1. /\ UNCHANGED storeVars /\ UNCHANGED threadVars /\ now' = now
      /\ apc[a] = "snap_store"
  BY DEF SnapshotStore, vars, storeVars
<1>2. NoLoad /\ NoLoad'
  BY <1>1, InvParts, AloneMoves DEF SnapshotStore, NoLoad, Loading
<1>3. AbsClock = now /\ AbsClock' = now
  BY <1>1, <1>2, ClockIs, ClockIsNext
<1>4. UNCHANGED P!vars
  BY <1>1, <1>3, StillMaps DEF P!vars, P!callVars
<1>5. PICK iteration \in Iterations(Handles) :
        archive' = archive \cup {[held[a] EXCEPT !.store = Snapshot(iteration)]}
  BY DEF SnapshotStore
<1>6. PICK state : state = [held[a] EXCEPT !.store = Snapshot(iteration)]
  OBVIOUS
<1>7. state.store = Snapshot(iteration) /\ state.clock_now = now
  BY <1>1, <1>6, InvParts
     DEF OperatorsOK, ServiceState, TimesInv, TimesAt, Capturing
<1>8. AbsState(state) = StateAt(now)
  BY <1>7, InvParts, SnapshotState
<1>9. StateAt(now) = P!CurrentState
  BY <1>3 DEF StateAt, P!CurrentState
<1>10. AbsSaved' = AbsSaved \cup {AbsState(state)}
  BY <1>5, <1>6 DEF AbsSaved
<1> QED  BY <1>4, <1>8, <1>9, <1>10 DEF P!Save

\* A load is over when its first section is: the clock it holds counts, and
\* the store is the one of the snapshot.
LEMMA LoadMaps ==
  ASSUME QuietOperators, ProcessInv, NEW a \in Admins,
         NEW snap \in archive \cup UploadedStates, Proper(snap),
         LoadStore(a, snap)
  PROVE  P!Load
<1>1. /\ Replace(snap.store) /\ UNCHANGED threadVars /\ archive' = archive
      /\ held' = [held EXCEPT ![a] = snap] /\ Move(a, "load_user_ids")
  BY DEF LoadStore
<1>2. NoneBusy
  BY InvParts, BeginQuietly DEF LoadStore
<1>3. LoadOf(a)' /\ held'[a] = snap
  BY <1>1, <1>2, InvParts
     DEF Move, NoneBusy, LoadOf, Loading, OperatorsOK
<1>4. AbsClock' = snap.clock_now
  BY <1>3, ClockIsNext
<1>5. StoreTypeOK'
  BY <1>1, ReplaceType DEF Proper, ServiceState
<1>6. PICK iteration \in Iterations(Handles) : TRUE
  BY IterationsExist
<1>7. snap.store = Snapshot(iteration)'
  BY <1>1, ReplaceProper
<1>8. AbsState(snap) = StateAt(snap.clock_now)'
  BY <1>5, <1>7, SnapshotStateNext
<1>9. PICK s : s = AbsState(snap)
  OBVIOUS
<1>10. s \in AbsSaved
  BY <1>9 DEF AbsSaved
<1>11. /\ s.registered = users' /\ s.graph = AbsGraph'
       /\ s.tweets = StoredTweets' /\ s.clock = AbsClock'
  BY <1>4, <1>8, <1>9 DEF StateAt
<1>12. /\ AbsCalls' = AbsCalls /\ AbsAnswers' = AbsAnswers
       /\ UNCHANGED <<req, resp, page, began>>
  BY <1>1 DEF threadVars, AbsCalls, AbsCall, AbsAnswers, AbsAnswer
<1>13. AbsSaved' = AbsSaved
  BY <1>1, SavedKept
<1> QED  BY <1>10, <1>11, <1>12, <1>13 DEF P!Load, P!callVars

LEMMA LoadSteps ==
  ASSUME ProcessInv, NEW a \in Admins,
         LoadUserIds(a) \/ LoadTweetIds(a) \/ LoadClock(a)
  PROVE  UNCHANGED P!processVars
<1>1. UNCHANGED storeVars /\ UNCHANGED threadVars /\ archive' = archive
  BY DEF LoadUserIds, LoadTweetIds, LoadClock
<1>2. LoadOf(a) /\ \A b \in Admins \ {a} : ~Loading(b)'
  BY InvParts, AloneMoves
     DEF LoadUserIds, LoadTweetIds, LoadClock, LoadOf, Loading
<1>3. CASE LoadUserIds(a) \/ LoadTweetIds(a)
  <2>1. LoadOf(a)' /\ held' = held
    BY <1>2, <1>3, InvParts, AloneMoves
       DEF LoadUserIds, LoadTweetIds, LoadOf, Loading
  <2>2. AbsClock' = AbsClock
    BY <1>2, <2>1, ClockIs, ClockIsNext
  <2> QED  BY <1>1, <2>2, NothingSeen
<1>4. CASE LoadClock(a)
  <2>1. NoLoad' /\ now' = held[a].clock_now
    BY <1>2, <1>4, InvParts, AloneMoves
       DEF LoadClock, NoLoad, Loading, Clock!SetNow
  <2>2. AbsClock' = AbsClock
    BY <1>2, <2>1, ClockIs, ClockIsNext
  <2> QED  BY <1>1, <2>2, NothingSeen
<1> QED  BY <1>3, <1>4

LEMMA RestartMaps == ASSUME Restart PROVE P!Restart
<1>1. /\ users' = [h \in Handles |-> P!NoUser]
      /\ follows' = [h \in Handles |-> {}]
      /\ by_author' = [h \in Handles |-> <<>>]
      /\ now' = 0 /\ pc' = [t \in Threads |-> "idle"]
      /\ req' = [t \in Threads |-> P!NoRequest]
      /\ resp' = [t \in Threads |-> "none"]
      /\ page' = [t \in Threads |-> <<>>]
      /\ began' = [t \in Threads |-> P!NotBegun]
  BY DEF Restart, Restarted, P!NoUser, NoUser, P!NoRequest, NoRequest,
         P!NotBegun, NotBegun
<1>2. AbsGraph' = {} /\ StoredTweets' = {}
  BY <1>1 DEF AbsGraph, StoredTweets, Slots
<1>3. /\ AbsCalls' = [t \in Threads |-> "idle"]
      /\ AbsAnswers' = [t \in Threads |-> P!NoAnswer]
  BY <1>1 DEF AbsCalls, AbsCall, AbsAnswers, AbsAnswer, P!NoAnswer, NoDraft
<1>4. NoLoad' /\ archive' = archive
  BY DEF Restart, NoLoad, Loading
<1>5. AbsClock' = 0 /\ AbsSaved' = AbsSaved
  BY <1>1, <1>4, ClockIsNext, SavedKept
<1> QED  BY <1>1, <1>2, <1>3, <1>5 DEF P!Restart

LEMMA ProcessInitMaps == ASSUME ServerInit PROVE P!ProcessInit
<1>1. Init /\ archive = HandMade /\ apc = [a \in Admins |-> "idle"]
  BY DEF ServerInit, AdminInit
<1>2. Abs!Init
  BY <1>1, InitMaps
<1>3. AbsClock = now
  BY <1>1, ClockIs DEF NoLoad, Loading
<1>4. P!Init
  BY <1>2, <1>3 DEF Abs!Init, P!Init, Abs!NoUser, P!NoUser, Abs!NoRequest,
     P!NoRequest, Abs!NoAnswer, P!NoAnswer, Abs!NotBegun, P!NotBegun
<1> QED  BY <1>1, <1>4 DEF P!ProcessInit, AbsSaved

LEMMA ProcessMaps ==
  ASSUME QuietOperators, SafeUploads, ProcessInv, [ServerNext]_processVars
  PROVE  [P!ProcessNext]_(P!processVars)
<1>1. CASE SeedDemo \/ (Listening /\ ClientNext /\ UNCHANGED serverVars)
  <2>1. ClientNext
    BY <1>1, InvParts, SeedIsClient
  <2>2. [P!Next]_(P!vars) /\ AbsSaved' = AbsSaved
    BY <2>1, ClientsMap
  <2> QED  BY <2>2 DEF P!ProcessNext, P!processVars
<1>2. ASSUME NEW a \in Admins, ServerAdminStep(a)
      PROVE  P!ProcessNext \/ UNCHANGED P!processVars
  <2>1. ASSUME NEW auth \in Auths, NEW body \in Bodies, PostLoad(a, auth, body)
        PROVE  P!Load
    <3>1. PICK snap \in archive \cup UploadedStates :
            Proper(snap) /\ LoadStore(a, snap)
      BY <2>1, InvParts, BodiesAreSaved
    <3> QED  BY <3>1, LoadMaps
  <2>2. CASE SnapshotClock(a) \/ SnapshotUserIds(a) \/ SnapshotTweetIds(a)
    BY <2>2, SnapshotSteps
  <2>3. CASE SnapshotStore(a)
    BY <2>3, SnapshotMaps DEF P!ProcessNext
  <2>4. CASE LoadUserIds(a) \/ LoadTweetIds(a) \/ LoadClock(a)
    BY <2>4, LoadSteps
  <2> QED
    BY <1>2, <2>1, <2>2, <2>3, <2>4
       DEF ServerAdminStep, PostSnapshot, P!ProcessNext
<1>3. CASE ServerRestart
  BY <1>3, RestartMaps DEF ServerRestart, P!ProcessNext
<1>4. CASE UNCHANGED processVars
  <2>1. /\ UNCHANGED storeVars /\ UNCHANGED threadVars
        /\ UNCHANGED <<now, apc, held>> /\ archive' = archive
    BY <1>4 DEF processVars, allVars, adminVars, vars, storeVars
  <2>2. AbsClock' = AbsClock
    BY <2>1 DEF AbsClock, Loading
  <2> QED  BY <2>1, <2>2, NothingSeen
<1> QED  BY <1>1, <1>2, <1>3, <1>4 DEF ServerNext

\* "Atomically replaces the inner state", "atomically restore state": snapshots
\* and loads take effect at one instant, beside the calls, which do too, and
\* beside restarts.  Operators keep clients away while one is under way, and
\* what they upload has its clock and its counters past its tweets and ids.
THEOREM SnapshotsAndLoadsAreAtomic ==
  ASSUME QuietOperators, SafeUploads, TimelyUploads,
         \A s \in HandMade : Proper(s) /\ Timely(s)
  PROVE  ServerSpec => LoadsAreAtomic
<1>1. ServerInit => ProcessInv /\ P!ProcessInit
  <2>1. ServerInit => KnownInv
    BY KnownInitially DEF ServerInit, AdminInit
  <2> QED  BY <2>1, TimelyInitially, ProcessInitMaps DEF ProcessInv
<1>2. ProcessInv /\ [ServerNext]_processVars => ProcessInv'
  BY ProcessInvStep
<1>3. ProcessInv /\ [ServerNext]_processVars
        => [P!ProcessNext]_(P!processVars)
  BY ProcessMaps
<1> QED
  BY <1>1, <1>2, <1>3, PTL DEF ServerSpec, LoadsAreAtomic, P!ProcessSpec
=============================================================================
