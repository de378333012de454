----------------------------- MODULE AdminServer ----------------------------
(***************************************************************************)
(* The process around ServiceAdmin: main.rs, which seeds the demo before   *)
(* it listens, and the two routes of admin.rs, which ask for the token,    *)
(* the version and the fields of a body before they touch the service.     *)
(* A request that is turned away changes nothing, so only its status is    *)
(* modelled.                                                               *)
(***************************************************************************)
EXTENDS ServiceAdmin

CONSTANTS
  Main,       \* the thread that runs main; a worker once it has seeded
  Demo,       \* the calls of seed_demo, in order
  BadItem,    \* an element of a list without a field, or with a wrong type
  Uploads     \* bodies sent to load-snapshot besides those of snapshots

ASSUME ServerAssumption ==
  /\ Main \in Threads
  /\ Demo \in Seq(Requests)

VARIABLES
  seed,       \* the calls of seed_demo still to make
  fresh       \* history: SEED_DEMO was set for this process, and no snapshot
              \* has been loaded since

serverVars == <<seed, fresh>>
processVars == <<allVars, serverVars>>

-----------------------------------------------------------------------------
(* Bodies.  A JSON object is the function from the fields it has; a field  *)
(* that is not asked for is ignored.                                       *)

CurrentVersion == 1
NoVersion == 0   \* absent, not a number, or out of u32

\* CURRENT - 1 is left out because 0 is no version
SupportedVersions == {CurrentVersion, CurrentVersion + 1}

\* mutant: leaves an empty list of tweets out
StateToJson_OmitsEmpty(s) ==
  LET full == [clock_now |-> s.clock_now,
               id_counter_users |-> s.user_ids,
               id_counter_tweets |-> s.tweet_ids,
               users |-> s.store.users,
               follows |-> s.store.follows,
               tweets |-> s.store.tweets]
  IN IF s.store.tweets # <<>> THEN full
     ELSE [f \in DOMAIN full \ {"tweets"} |-> full[f]]

StateToJson(s) ==
  [clock_now |-> s.clock_now,
   id_counter_users |-> s.user_ids,
   id_counter_tweets |-> s.tweet_ids,
   users |-> s.store.users,
   follows |-> s.store.follows,
   tweets |-> s.store.tweets]

Fields == {"clock_now", "id_counter_users", "id_counter_tweets",
           "users", "follows", "tweets"}

Parses(j) ==
  /\ Fields \subseteq DOMAIN j
  /\ \A i \in DOMAIN j.users : j.users[i] # BadItem
  /\ BadItem \notin j.follows
  /\ \A i \in DOMAIN j.tweets : j.tweets[i] # BadItem

ParseState(j) ==
  [clock_now |-> j.clock_now,
   user_ids |-> j.id_counter_users,
   tweet_ids |-> j.id_counter_tweets,
   store |-> [users |-> j.users, follows |-> j.follows, tweets |-> j.tweets]]

\* what POST /_admin/snapshot answers
SnapshotBody(s) ==
  [json |-> TRUE, snapshot_version |-> CurrentVersion, state |-> StateToJson(s)]

-----------------------------------------------------------------------------
(* The answers.  auth compares the header with ADMIN_TOKEN, read anew for  *)
(* each request: "disabled" when it is unset, else "forbidden" or "ok".    *)

Auths == {"disabled", "forbidden", "ok"}

AuthStatus(auth) ==
  CASE auth = "disabled" -> 503 [] auth = "forbidden" -> 401 [] auth = "ok" -> 200

LoadStatus(auth, body) ==
  IF auth # "ok" THEN AuthStatus(auth)
  ELSE IF ~body.json \/ body.snapshot_version = NoVersion THEN 400
  ELSE IF body.snapshot_version \notin SupportedVersions THEN 422
  ELSE IF ~Parses(body.state) THEN 400
  ELSE 200

-----------------------------------------------------------------------------
(* main: the service, the seed, then the router.                           *)

\* mutant: the router is up while main seeds
Listening_AtOnce == TRUE

Listening == seed = <<>>

ServerInit ==
  /\ AdminInit
  /\ fresh \in BOOLEAN
  /\ seed = IF fresh THEN Demo ELSE <<>>

\* an error is printed and the next call is made
SeedDemo ==
  /\ seed # <<>>
  /\ \/ Call(Main, Head(seed)) /\ UNCHANGED seed
     \/ Step(Main) /\ UNCHANGED seed
     \/ Return(Main) /\ seed' = Tail(seed)
  /\ UNCHANGED <<adminVars, fresh>>

PostSnapshot(a, auth) ==
  /\ AuthStatus(auth) = 200
  /\ SnapshotClock(a)

PostLoad(a, auth, body) ==
  /\ LoadStatus(auth, body) = 200
  /\ LoadStore(a, ParseState(body.state))

Bodies == {SnapshotBody(s) : s \in archive} \cup Uploads

ServerAdminStep(a) ==
  \/ \E auth \in Auths :
       \/ PostSnapshot(a, auth) /\ UNCHANGED fresh
       \/ \E body \in Bodies : PostLoad(a, auth, body) /\ fresh' = FALSE
  \/ /\ \/ SnapshotUserIds(a) \/ SnapshotTweetIds(a) \/ SnapshotStore(a)
        \/ LoadUserIds(a) \/ LoadTweetIds(a) \/ LoadClock(a)
     /\ UNCHANGED fresh

\* the new process may run with another environment
ServerRestart ==
  /\ Restart
  /\ fresh' \in BOOLEAN
  /\ seed' = IF fresh' THEN Demo ELSE <<>>

ServerNext ==
  \/ SeedDemo
  \/ Listening /\ ClientNext /\ UNCHANGED serverVars
  \/ /\ Listening /\ (\E a \in Admins : ServerAdminStep(a))
     /\ UNCHANGED seed
  \/ ServerRestart

ServerSpec == ServerInit /\ [][ServerNext]_processVars

-----------------------------------------------------------------------------
(* Properties.                                                             *)

ServerTypeOK ==
  /\ AdminTypeOK
  /\ fresh \in BOOLEAN
  /\ seed \in Seq(Requests)

\* what call k of the demo leaves behind: ids count the calls of its kind
Rank(k) == Cardinality({i \in 1..k : Demo[i].op = Demo[k].op})

Served(k) ==
  /\ Demo[k].op = "create_user" => users[Demo[k].who] = Rank(k)
  /\ Demo[k].op = "post_tweet" =>
       [id |-> Rank(k), author |-> Demo[k].who, created_at |-> 0]
         \in StoredTweets

\* "Anyone hitting the live URL fresh sees alice/bob/carol with sample
\* tweets": from its first request on a process with SEED_DEMO has the demo's
\* users and tweets, under the ids they always have, whatever clients do;
\* only a load takes them away.
SeedServed ==
  fresh /\ seed = <<>> => \A k \in DOMAIN Demo : Served(k)

\* "Capture and replay state across processes": the body that snapshot
\* answers is accepted by load-snapshot, whichever state it was taken in, and
\* parses to the state that was captured.
SnapshotsLoad ==
  \A s \in archive : /\ LoadStatus("ok", SnapshotBody(s)) = 200
                     /\ ParseState(SnapshotBody(s).state) = s

\* "Two snapshots of the same logical state are byte-equal": whatever order
\* the hash maps iterate in, when ids are unique, as they are outside a load.
StableSnapshots ==
  (\A a \in Admins : ~Loading(a)) =>
    \A i, j \in Iterations(Handles) : Snapshot(i) = Snapshot(j)
=============================================================================
