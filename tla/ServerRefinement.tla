-------------------------- MODULE ServerRefinement ---------------------------
(***************************************************************************)
(* The seeded process, lock section by lock section, implements            *)
(* TwitterProcess.  A snapshot takes effect at its last section, a load at *)
(* its first: the clock it restores last is the one that counts from then  *)
(* on, since nobody may look at the other one.                             *)
(***************************************************************************)
EXTENDS AdminServer, ServiceRefinement

\* the user a list of users registers under h, the last one there is
ListedId(list, h) ==
  LET at == {j \in DOMAIN list : list[j].handle = h}
  IN IF at = {} THEN NoUser
     ELSE list[CHOOSE j \in at : \A k \in at : k <= j].id

AbsState(s) ==
  [registered |-> [h \in Handles |-> ListedId(s.store.users, h)],
   graph |-> {<<e.from, e.to>> : e \in s.store.follows},
   tweets |-> {s.store.tweets[i] : i \in DOMAIN s.store.tweets},
   clock |-> s.clock_now]

\* the uploads that load-snapshot takes
Accepted == {body \in Uploads : LoadStatus("ok", body) = 200}

UploadedStates == {ParseState(body.state) : body \in Accepted}

AbsSaved == {AbsState(s) : s \in archive \cup UploadedStates}

AbsClock == IF \E a \in Admins : Loading(a)
            THEN held[CHOOSE a \in Admins : Loading(a)].clock_now
            ELSE now

P == INSTANCE TwitterProcess WITH
  Ids        <- Nat \ {0},
  Written    <- {AbsState(s) : s \in HandMade \cup UploadedStates},
  registered <- users,
  graph      <- AbsGraph,
  tweets     <- StoredTweets,
  clock      <- AbsClock,
  call       <- AbsCalls,
  answer     <- AbsAnswers,
  saved      <- AbsSaved

\* "Atomically replaces the inner state", "atomically restore state": to its
\* callers and to its operators the seeded process is one whose snapshots and
\* loads take effect at one instant, like its calls, when operators keep
\* clients away while one is under way.  What is loaded is all there is then:
\* ids, edges, timelines and times go on from it.
LoadsAreAtomic == P!ProcessSpec
=============================================================================
