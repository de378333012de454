---------------------------- MODULE ServiceAdmin ----------------------------
(***************************************************************************)
(* The service with its admin path: Service::snapshot_state and load_state *)
(* run beside the calls of Service, each as a sequence of lock sections,   *)
(* and a restart empties the process, which persists nothing.  Snapshots   *)
(* already handed out stay with the operators who asked for them.          *)
(***************************************************************************)
EXTENDS ServiceProperties

CONSTANTS
  Admins,       \* the threads that serve the admin endpoints
  Quiet,        \* what operators keep clients away from: "snapshot_state" and
                \* "load_state" run alone; at "load_start" no call is open
  HandMade,     \* snapshots written by hand rather than captured
  MaxArchive    \* bound on the snapshots handed out

ASSUME AdminAssumption ==
  /\ Quiet \subseteq {"snapshot_state", "load_state", "load_start"}
  /\ MaxArchive \in Nat

VARIABLES
  apc,          \* where each admin thread is
  held,         \* the ServiceState it assembles, or applies
  archive       \* the snapshots operators hold

adminVars == <<apc, held, archive>>
allVars == <<vars, adminVars>>

\* ServiceState
Nothing == [clock_now |-> 0, user_ids |-> 0, tweet_ids |-> 0,
            store |-> [users |-> <<>>, follows |-> {}, tweets |-> <<>>]]

StoreSnapshot == [users : Seq([id : Nat, handle : Handles]),
                  follows : SUBSET Follow, tweets : Seq(Tweet)]

ServiceState == [clock_now : Nat, user_ids : Nat, tweet_ids : Nat,
                 store : StoreSnapshot]

AdminTypeOK ==
  /\ TypeOK
  /\ apc \in [Admins -> {"idle", "snap_user_ids", "snap_tweet_ids",
                         "snap_store", "load_user_ids", "load_tweet_ids",
                         "load_clock"}]
  /\ held \in [Admins -> ServiceState]
  /\ archive \subseteq ServiceState

AdminInit ==
  /\ Init
  /\ apc = [a \in Admins |-> "idle"]
  /\ held = [a \in Admins |-> Nothing]
  /\ archive = HandMade

Capturing(a) == apc[a] \in {"snap_user_ids", "snap_tweet_ids", "snap_store"}

Loading(a) == apc[a] \in {"load_user_ids", "load_tweet_ids", "load_clock"}

\* while a quiet operation is under way nothing else is opened
Open == \A a \in Admins :
  /\ "snapshot_state" \in Quiet => ~Capturing(a)
  /\ "load_state" \in Quiet => ~Loading(a)

Alone == /\ \A t \in Threads : pc[t] = "idle"
         /\ \A b \in Admins : apc[b] = "idle"

Begin(a, ops) ==
  /\ apc[a] = "idle" /\ Open
  /\ ops \cap Quiet # {} => Alone

Move(a, label) == apc' = [apc EXCEPT ![a] = label]

-----------------------------------------------------------------------------
(* snapshot_state: now, current, current, snapshot: four lock sections.    *)

SnapshotClock(a) ==
  /\ Begin(a, {"snapshot_state"})
  /\ Cardinality(archive) < MaxArchive
  /\ held' = [held EXCEPT ![a].clock_now = Clock!Now]
  /\ Move(a, "snap_user_ids")
  /\ UNCHANGED <<vars, archive>>

SnapshotUserIds(a) ==
  /\ apc[a] = "snap_user_ids"
  /\ held' = [held EXCEPT ![a].user_ids = UserIds!Current]
  /\ Move(a, "snap_tweet_ids")
  /\ UNCHANGED <<vars, archive>>

SnapshotTweetIds(a) ==
  /\ apc[a] = "snap_tweet_ids"
  /\ held' = [held EXCEPT ![a].tweet_ids = TweetIds!Current]
  /\ Move(a, "snap_store")
  /\ UNCHANGED <<vars, archive>>

SnapshotStore(a) ==
  /\ apc[a] = "snap_store"
  /\ \E iteration \in Iterations(Handles) :
       archive' = archive \cup {[held[a] EXCEPT !.store = Snapshot(iteration)]}
  /\ held' = [held EXCEPT ![a] = Nothing]
  /\ Move(a, "idle")
  /\ UNCHANGED vars

-----------------------------------------------------------------------------
(* load_state: replace, set_current, set_current, set_now.                 *)

\* mutant: keeps the store of the snapshot and drops its counters
LoadStore_DropsCounters(a, snap) ==
  /\ Begin(a, {"load_state", "load_start"})
  /\ Replace(snap.store)
  /\ held' = [held EXCEPT ![a] = [store |-> snap.store]]
  /\ Move(a, "load_user_ids")
  /\ UNCHANGED <<now, user_ids, tweet_ids, threadVars, archive>>

LoadStore(a, snap) ==
  /\ Begin(a, {"load_state", "load_start"})
  /\ Replace(snap.store)
  /\ held' = [held EXCEPT ![a] = snap]
  /\ Move(a, "load_user_ids")
  /\ UNCHANGED <<now, user_ids, tweet_ids, threadVars, archive>>

\* mutant: forgets the user generator
LoadUserIds_Skipped(a) ==
  /\ apc[a] = "load_user_ids"
  /\ Move(a, "load_tweet_ids")
  /\ UNCHANGED <<vars, held, archive>>

LoadUserIds(a) ==
  /\ apc[a] = "load_user_ids"
  /\ UserIds!SetCurrent(held[a].user_ids)
  /\ Move(a, "load_tweet_ids")
  /\ UNCHANGED <<storeVars, now, tweet_ids, threadVars, held, archive>>

\* mutant: forgets the tweet generator
LoadTweetIds_Skipped(a) ==
  /\ apc[a] = "load_tweet_ids"
  /\ Move(a, "load_clock")
  /\ UNCHANGED <<vars, held, archive>>

LoadTweetIds(a) ==
  /\ apc[a] = "load_tweet_ids"
  /\ TweetIds!SetCurrent(held[a].tweet_ids)
  /\ Move(a, "load_clock")
  /\ UNCHANGED <<storeVars, now, user_ids, threadVars, held, archive>>

\* mutant: restores the counters and forgets the clock
LoadClock_Skipped(a) ==
  /\ apc[a] = "load_clock"
  /\ held' = [held EXCEPT ![a] = Nothing]
  /\ Move(a, "idle")
  /\ UNCHANGED <<vars, archive>>

\* mutant: the default set_now, which only ticks forward
LoadClock_OnlyForward(a) ==
  /\ apc[a] = "load_clock"
  /\ Clock!SetNow(IF held[a].clock_now > now THEN held[a].clock_now ELSE now)
  /\ held' = [held EXCEPT ![a] = Nothing]
  /\ Move(a, "idle")
  /\ UNCHANGED <<storeVars, user_ids, tweet_ids, threadVars, archive>>

LoadClock(a) ==
  /\ apc[a] = "load_clock"
  /\ Clock!SetNow(held[a].clock_now)
  /\ held' = [held EXCEPT ![a] = Nothing]
  /\ Move(a, "idle")
  /\ UNCHANGED <<storeVars, user_ids, tweet_ids, threadVars, archive>>

-----------------------------------------------------------------------------
(* The process stops and starts again, at any moment, as Service::new.     *)
Restart ==
  /\ Restarted
  /\ apc' = [a \in Admins |-> "idle"]
  /\ held' = [a \in Admins |-> Nothing]
  /\ UNCHANGED archive

AdminStep(a) ==
  \/ SnapshotClock(a) \/ SnapshotUserIds(a) \/ SnapshotTweetIds(a)
  \/ SnapshotStore(a)
  \/ \E snap \in archive : LoadStore(a, snap)
  \/ LoadUserIds(a) \/ LoadTweetIds(a) \/ LoadClock(a)

ClientNext ==
  /\ \/ Tick /\ Open
     \/ \E t \in Threads :
          \/ Open /\ \E r \in Requests : Call(t, r)
          \/ Step(t)
          \/ Return(t)
  /\ UNCHANGED adminVars

AdminNext == ClientNext \/ (\E a \in Admins : AdminStep(a)) \/ Restart

AdminSpec == AdminInit /\ [][AdminNext]_allVars

\* every worker runs on, and one that waits for a lock gets it in the end
AdminFairness ==
  \A t \in Threads : WF_allVars(Step(t) /\ UNCHANGED adminVars)

FairAdminSpec == AdminSpec /\ AdminFairness

-----------------------------------------------------------------------------
(* Properties.                                                             *)

\* the state an outside reader would capture now
StateNow(iteration) ==
  [clock_now |-> now, user_ids |-> user_ids, tweet_ids |-> tweet_ids,
   store |-> Snapshot(iteration)]

\* A snapshot taken and loaded while no call is open is restored exactly:
\* what snapshot_state returns after load_state is what was loaded.
LoadRestores ==
  [][\A a \in Admins : LoadClock(a) =>
       \A iteration \in Iterations(Handles) :
         StateNow(iteration)' = held[a]]_allVars

\* "ids continue from where the snapshot left off": when snapshots are taken
\* and loaded while no call is open, the generators are past every id in the
\* store whichever snapshot was loaded last, and before or after a restart.
IdsContinueAfterLoad ==
  (\A a \in Admins : ~Loading(a)) => UniqueTweetIds /\ UniqueUserIds

\* Every call is answered, unless the process stops first: no method waits for
\* another, no lock is held while a second one is taken, and each check that
\* fails has an answer, also when a load takes away what an earlier section of
\* the call had found.
EveryCallAnswered ==
  \A t \in Threads : pc[t] = "called" ~> pc[t] \in {"done", "idle"}

\* F8 over the life of the process: no two stored tweets have the same id.
NoTwinTweets ==
  \A r, s \in TweetSlots : TweetAt(r).id = TweetAt(s).id => r = s

\* F4 wherever a Follow is held: "no Follow value with from == to can exist
\* anywhere in the program".
NoSelfFollow ==
  /\ \A h \in Handles : h \notin follows[h]
  /\ \A a \in Admins : \A e \in held[a].store.follows : e.from # e.to
=============================================================================
