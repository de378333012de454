# A TLA+ model of the Twitter clone

The program is a small Twitter: users register, follow each other, post, and read
a home timeline. It is a Rust workspace whose core crates (`domain`, `clock`,
`ids`, `store`, `service`) are synchronous and annotated for Verus, and whose
`server` crate puts an axum HTTP shim around them: a JSON API, an HTML UI with
sessions, and two admin endpoints. All state is in memory.

The Verus annotations describe each method alone, as if it ran with exclusive
access to the whole state. What they leave open is what this project is about:
**`Service` has no lock of its own**. It is shared through an `Arc` by all worker
threads; the store, each id generator and the clock have one lock each; and a call
such as `post_tweet` takes four locks one after the other. The models here
interleave those lock sections.

## 1. Inventory

| component (source) | state | operations | how it interacts |
|---|---|---|---|
| domain values (`crates/domain`) | none | `Follow::new` refuses a self-follow (F4) | built by service; admin builds `Follow` without it |
| logical clock (`crates/clock`) | one `i64` behind a mutex | `now`, `tick`, `set_now` | `post_tweet` reads it, load sets it; no production code ticks it |
| id generators (`crates/ids`) | one `i64` behind a mutex, one generator for users and one for tweets | `next_id`, `current`, `set_current` | drawn by `create_user` and `post_tweet`; read and set by snapshot and load |
| store (`crates/store`) | `users`, `follows`, `by_author` maps behind one RwLock | `put_user`, `has_user`, `put_follow`, `delete_follow`, `put_tweet`, `follow_set`, `home_timeline`, `snapshot`, `replace` | each method takes the lock once |
| service (`crates/service`) | the four parts above, no lock | `create_user`, `has_user`, `follow`, `unfollow`, `post_tweet`, `home_timeline`, `tick`, `snapshot_state`, `load_state` | sequences of lock sections of its parts |
| JSON API (`server/handlers.rs`) | none | one handler per call; status mapping, limit parsing | calls service |
| admin endpoints (`server/admin.rs`) | none (`ADMIN_TOKEN` read per request) | `/_admin/snapshot`, `/_admin/load-snapshot`: token, version window, fields | `snapshot_state`, `load_state` beside running calls |
| HTML UI (`server/ui.rs`) | session cookies at the clients, a cookie key per process | register, log in and out, compose, follow, unfollow, home, profile | calls service |
| process (`server/main.rs`) | none on disk | start, `SEED_DEMO`, then listen | seeds through the service before any request; a restart loses everything |
| Verus modules (in the four crates) | ghost views | contracts (`*_ensures`) over trusted shims | compiled by the verifier only |
| metrics (`server/metrics.rs`) | counters, histograms | record a response, count rejections | middleware around every handler; nothing reads them back |

### What is hard here, and what makes each part correct

* *Interleaving and atomicity.* Ids, times and places in the author's list are
  taken under three different locks, and `has_user` is asked under a lock that is
  released before the write. Correct means: ids unique (F8), no tweet of an
  unregistered author and no edge to an unknown user (F6, F9) whatever was
  true when the call checked, no drawn tweet id lost, no registration
  overwritten, what is answered is what is stored.
* *Ordering.* Timelines sort by `(created_at, id)` (F2). A tweet posted
  after another was seen must sort above it, although time and id are drawn
  apart and in that order.
* *Snapshot and load.* Four lock sections each, beside open calls and beside
  restarts. A snapshot can be torn and a load is not atomic.
  The bodies must come out the same whatever order the hash maps iterate in,
  and what one process writes another must accept.
* *Crash.* A restart loses the state; an old snapshot may then be loaded, and
  browsers come back with old cookies.
* *Numeric edges.* `limit` 0 means no limit; a load can set a counter to any
  `i64`, next to the overflow of the increment, which panics under the lock in
  one build and wraps in the other.
* *Under the locks.* Load, add and store of a counter are separate steps, and the
  default `set_now` takes the lock once per tick.
* *Liveness.* A call takes up to four locks in a row: it must be answered.

`PROJECT.json` lists each hazard at its line with the properties that watch it.

## 2. The modules and the code

| module | models | state and actions |
|---|---|---|
| `Domain` | `crates/domain`, sorting | value records; `FollowNew`, the F2 order `Newer` |
| `LogicalClock`, `IdGenerator` | `crates/clock`, `crates/ids`, each method one lock section | one counter and its methods; `Service` instantiates the generator twice |
| `MemStore` | `crates/store` | the three maps; one operator per method, each a single lock section |
| `Service` | `crates/service` | composes the four; one action per lock section, see below |
| `ServiceProperties` | | what the service promises |
| `Twitter` | the contracts as F1, F2, F8 and the `*_ensures` functions state them | abstract: every call takes effect at one instant; no generators, lists or steps |
| `ServiceRefinement` | | the mapping of `Service` to `Twitter` |
| `ServiceContracts` | the `verus_proof` modules of store, service, ids, clock | their ghost views, writing shims and contracts, under the source's names, as action formulas |
| `ServiceAdmin` | `snapshot_state`, `load_state`, restart | runs beside the calls of `Service` |
| `TwitterProcess` | what `snapshot_state`, `load_state` and a new process promise | abstract: `Twitter` with captures, loads and restarts that take effect at one instant; the states operators have saved |
| `ServerRefinement` | | the mapping of `AdminServer` to `TwitterProcess` |
| `AdminServer` | `server/admin.rs`, `server/main.rs` | the seed, then the two routes on top of `ServiceAdmin`, restarts with another environment |
| `WebServer` | `server/handlers.rs`, `ui.rs` | runs on top of the calls of `Service`: sessions, requests, answers and lost answers, restart |
| `WebRefinement` | | the mapping of `WebServer` to `Twitter` |
| `LockedCounter` | `LockState` of ids and clock (the same code), the default `Clock::set_now` | lock, load, add, store, unlock of each method; an `i64` of `MaxInt`, poisoning, both builds |
| `AtomicCounter` | what the modules above take `LockState` for | abstract: each method at one instant |
| `ServiceProofs`, `ServiceOrderProofs`, `ServiceRefinementProofs` | | TLAPS proofs about `Service`: types, ids and references; order; the Verus contracts and the refinement to `Twitter` |
| `ServiceAdminProofs`, `AdminServerProofs`, `ServerRefinementProofs` | | with captures and loads at any moment; with the process and its routes, on a quiet service; the refinement to `TwitterProcess` |
| `WebServerProofs`, `LockedCounterProofs` | | about the HTTP layer; about the steps under the lock |
| `MCCalls`, `MCService`, `MCServiceAdmin`, `MCAdminServer`, `MCWebServer`, `MCLockedCounter` | | request sets, bodies and symmetry for TLC |

How they compose: `LockedCounter` justifies that `IdGenerator` and `LogicalClock`
make a method one step: it implements `AtomicCounter`, and its value moves only by the
actions of these two modules (`GeneratorAndClock`). `Service` puts these and `MemStore` together; `ServiceAdmin`
adds the admin path to it and `AdminServer` the process around both; `WebServer` is
built on `Service` in the same way as `AdminServer` is on `ServiceAdmin`.

A missing key of a map is its neutral value (`NoUser`, `{}`, `<<>>`). No method
of the store tells an absent key from an empty entry.

In `Service` each thread has a program counter `pc[t]`. An action does one lock
section and the lock-free code before it:

| call | actions in order |
|---|---|
| `create_user` | `CreateUserBlank`, or `CreateUserNextId` (user generator's lock) then `CreateUserPut` (write lock) |
| `has_user` | `HasUserRead` |
| `follow` | `FollowSelf`, or `FollowPut` (one write lock) |
| `unfollow` | `UnfollowFromKnown`, `UnfollowToKnown`, `UnfollowDelete` (read, read, write lock); `UnfollowUnknown` from either check |
| `post_tweet` | `PostTweetBlank`, or `PostTweetKnown` (read lock), `PostTweetNextId`, `PostTweetNow`, `PostTweetPut`; `PostTweetUnknown` |
| `home_timeline` | `HomeTimelineRead` (one read lock) |
| `tick` | `Tick`, by any holder of the clock |

`Call` is a request reaching its method and `Return` the caller taking the answer.
`draft` holds the id and the time of the value under construction, `resp` and
`page` the answer. `began` is a history variable, the time and the stored tweets
when a post was called; no guard reads it.

The order in which a hash map or hash set iterates is a choice (`Iterations`):
`home_timeline` and `snapshot` gather in any such order, then sort stably.

`ServiceAdmin` adds admin threads with their own program counter `apc`, the
`ServiceState` each assembles or applies (`held`), and the snapshots operators
hold (`archive`), which survive a restart. `Quiet` says what operators do: while
an operation named in it runs, no call is open (`"load_start"`: only when it
starts). The code enforces nothing of the kind, so the runs compare both.

`AdminServer` is the process: `SeedDemo` lets the main thread make the calls of
`seed_demo` one after the other, and nothing is served before they are over
(`Listening`). `PostSnapshot` and `PostLoad` are the routes up to their call of the
service; the rest of `snapshot_state` and `load_state` are the actions of
`ServiceAdmin`. A body is a JSON object as the function from its fields: `StateToJson`
and `ParseState` convert, `Parses` says which objects have every field with the right
type, `LoadStatus` gives the answer in the order of the checks. A request that is turned
away changes nothing and has no action; its status is still computed for the bodies by
hand. `fresh` is a history variable: this process was seeded and has loaded nothing.

`TwitterProcess` is what all of this should look like from outside: the abstract state
of `Twitter`, a `Save` that keeps it whole, a `Load` that puts a saved one in its place,
a `Restart` that empties it. In `ServerRefinement` a capture takes effect at its last
lock section and a load at its first: nobody sees the counters and the clock that the
other three sections restore. Until the last of them the abstract clock (`AbsClock`) is
the one the load still holds. The generators have no counterpart; that they are right
after a load shows in the ids that later calls answer.

`WebServer` wraps the calls of `Service`: `Serve` is a handler up to its call
(decoding, the early refusals of `Admitted`, the actor of the cookie), `Work` the
steps of the call, `Deliver` the rest of the handler with the answer reaching the
browser, and `Lose` the same with the answer lost; a handler that panics after its
call (a control character in a header it builds) is `Lose` to the browser.
In `WebRefinement` a request that reaches the service is one call of `Twitter`, ended
by `Deliver` and `Lose` alike, and a restart is a new `Twitter`.
`OpenSession` and `CloseSession` are the two routes that only set a cookie. A cookie is
a handle and the key that signed it; `CurrentActor` accepts it if the key is this
process's and the header can be read back (`Unreadable` are the handles for which it
cannot). `secret` is what `UI_COOKIE_HMAC_KEY` holds in this process, another key or
none after a restart. `posted`, `following` and `severed` are history variables: the
tweets clients know stored, told so or shown them on a page, the edges they know to be
there, and those they know not to be. `flight[t].owed` is the part of it that a page
under way must show, `flight[t].barred` whose tweets it must not; both shrink when a
request that could change them is sent (`Doubt`). The production clock never ticks, so neither does this module.

`LockedCounter` goes below the lock sections. Each thread is in at most one method:
`Lock` takes the mutex, `Load`, `Add`, `Store` work on a register, `Unlock` drops the
guard. In a build with overflow checks (`build = "debug"`) the last increment panics
(`AddOverflows`), which poisons the mutex and frees it; from then on `LockPoisoned` is
all a call can do. In a release build it wraps. `Advance` enters the default
`set_now`: one read, then `AdvanceTick` until its own count is at the target; `errand`
holds its two locals. `tainted`, `highest`, `floor` and `errand[t].alone` are history
variables: which calls a set interrupted, the highest id returned since the last set,
that same when a call began, whether nobody else has set the clock.

## 3. Properties and runs

| run | instance | what it shows |
|---|---|---|
| `service` | 2 threads, 2 handles, every call (self-follows, blanks and unknown users included), timelines of 1, 2 user ids, 2 tweet ids, 2 times; 0.4 million states | `NoOrphans`, `UniqueTweetIds`, `UniqueUserIds`, `NoTweetLost`, `AckedIsStored`, `RealTimeOrder`, `AppendOnly`; `ContractsMet` and `OnlyAnswersChange`: the Verus contracts, proved there of `&mut`, hold of interleaved calls; `Linearizable`: the refinement to `Twitter` |
| `online_load` | captures, loads and restarts at any moment of the calls; 0.1 million | `NoOrphans` survives: `put_follow` and `put_tweet` look users up under the lock they write under; `EveryCallAnswered`, also when a load takes away what a call had found |
| `process` | seed, captures and loads with no call open, bodies by hand, restarts at any moment; 0.3 million | `IdsContinueAfterLoad`, `RealTimeOrder` (the loaded clock fits the loaded tweets), `LoadRestores`; `SnapshotsLoad`: what snapshot writes, load accepts and reads back as it was; `StableSnapshots`: the same state gives the same body; `SeedServed`; `LoadsAreAtomic`: the refinement to `TwitterProcess` |
| `web` | 1 browser with 2 tabs, 2 handles, 2 tweets on pages of 1, lost answers, 1 restart with either of two keys; 1.2 million | `PagesAreFresh`: a home page shows what its user was told is stored and what any page has shown before; `UnfollowsAreHonoured`: nothing of whom an unfollow, answered, took off it; `SessionsOutliveRestart`; `HandlersLinearizable`: the refinement to `Twitter`, which a restart begins anew; `NoOrphans` whoever a session claims to be |
| `counter` | 2 threads, a counter of 4 values; 0.3 million | `Atomic`: the refinement to `AtomicCounter`; `GeneratorAndClock`: a call changes the value by one action of `IdGenerator` or `LogicalClock`; `IdsIncreaseOrPanic`, `PoisonIsFinal`, `AdvanceReaches`, `EveryMethodEnds` |
| `torn_snapshot` | loads quiet, captures beside calls | violated: `NoTwinTweets` |
| `load_not_atomic` | captures quiet, loads start quiet but calls come in before they end | violated: `NoTwinTweets` |
| `per_author_order` | two racing posts of one author | violated: `PerAuthorMonotonic` |
| `self_follow_loaded` | a well-formed snapshot with a self-follow | violated: `NoSelfFollow` |
| `profile_page` | a user follows another, both post, pages of 1 | violated: `ProfileShowsOwn` |
| `lost_session` | a handle that a cookie does not carry | violated: `SessionsWork` |
| `counter_wraps` | the counter set to its last value, release build | violated: `IdsIncrease` |

Each passing property has a mutant in `PROJECT.json`: a definition with a
plausible bug (`*_LosesUpdate`, `*_Unchecked`, `*_Skipped`, ...) under which TLC
finds the property violated.

**Findings.** (1) `snapshot_state` reads the counters before the store under
separate locks, so a snapshot taken beside a post can hold a tweet its counter
does not cover; loaded, it makes the next tweet a twin, where the service's test
says ids continue and F8 holds. (2) `load_state` is documented as atomic and is
four separate writes (on a quiet service it cannot be told from one: `LoadsAreAtomic`). (3) F8's per-author monotonicity does not follow from the
shared generator: two posts can draw ids in one order and append in the other. (4)
The documentation of `Follow` says no value with `from == to` can exist; the
admin parser builds one from a literal and load stores it. (5) A profile page cuts
the home timeline of its user before it keeps the user's own tweets, so it can be
empty for a user who has posted. (6) The session cookie is called URL-safe and
carries the handle as typed: with a semicolon, or a letter outside ASCII, the session
is never recognised. (7) `next_id` promises a strictly greater id and, in the release
build that is deployed, wraps to the smallest `i64` after the largest, which only a
loaded counter reaches.

**Bounds.** Two threads show every pairwise race; the code has no step that
involves three calls. Two handles give an edge and its converse, an unknown user
(until it registers), and two authors in one timeline. Two tweet ids give two posts
that race, or a list of two, and a timeline of one that cuts. Two times give
posts at equal and at different times. `MaxUserId`, `MaxTweetId` and `MaxTime` bound
`Call` and `Tick` only, never a step within a call (`WithinBounds` counts the ids still
to be drawn), so no call stops midway. The admin runs keep one client thread and one
admin thread: a tear needs one of each. `MaxArchive` is 1: a snapshot, loaded again at
any later time and in any later process; two in turn are two such loads. `MaxBoot`
is 1: a second restart starts from the same state as the first. A page of one tweet
(`PageLimit`, 50 in the code) is full with one, so that cutting and keeping both occur
with two tweets. The bound is on the stored tweets relative to the page, not on 50
itself, which the code uses in no other way. Two tabs of one browser race with each
other and take turns acting for either handle. `Keys` are
two, so that a restart keeps the key or rotates it; a process without one makes up its
own, which is a rotation at every restart, and `lost_session` runs so. `MaxInt` is 1, so a counter has the four
values -2 to 1 and overflows after one or two increments; `Settings` are a value
below every id and the last but one. Handles and threads are symmetric where
nothing orders them; `web` gives up the symmetry of handles, as only one of them
is followed there, and the runs with fairness use none. Deadlock is checked
everywhere.

**Fairness.** `AdminFairness` has weak fairness on `Step(t)` for each worker: a thread
that serves a call runs on, and gets the lock it waits for. The first is the
runtime's scheduling of its workers. The second holds because each lock section is a
short, loop-free (or data-bounded) piece of code that takes no second lock and
calls nothing that blocks. Every
`Step` of a thread in a call stays enabled until taken or replaced by another
`Step` of the same thread, so weak fairness is enough. Nothing is assumed of
clients, operators, `Tick`, `Return` or restarts. In `LockedCounter` the same
assumption is made of single steps: weak fairness of `Proceed`, a thread inside a method
runs on, and strong fairness of `Acquire`, since a waiting thread sees the lock
taken and freed again and again and std's mutex lets it in at last. Entering a
method is never assumed.

## 4. Proofs

The proof modules build on each other: each EXTENDS the module it is about and the
proofs of the one below. What is proved of a step of `Service` is proved for any request
a client can make (`AnyNext`), so that `ServiceAdmin` and `WebServer`, whose steps these
are too, use the same lemmas.

### The service

`ServiceProofs` and `ServiceOrderProofs` prove for any finite set of handles and any set of threads,
requests and bounds (`HandlesAssumption`, `ServiceAssumption`), about `Service`:

* `TypeCorrect`: `Spec => [](TypeOK /\ ControlOK)`;
* `TweetIdsUnique`: `Spec => []UniqueTweetIds`;
* `UserIdsUnique`: `Spec => []UniqueUserIds`;
* `References`: `Spec => []NoOrphans`;
* `TweetsNotLost`: `Spec => []NoTweetLost`;
* `AcknowledgedIsStored`: `Spec => []AckedIsStored`;
* `TimelinesFollowTime`: `Spec => []RealTimeOrder`;
* `OnlyAppends`: `Spec => AppendOnly`;
* `MonotonicInTurn`: `Spec /\ []AuthorsTakeTurns => []PerAuthorMonotonic`.

`TypeOK` alone is not inductive: `PutTweet` needs to know that the request at
`put_tweet` is one of `post_tweet`, with an author among the handles. `ControlOK`
adds that: the label of a thread tells the method of its request. Uniqueness is
inductive as stated because it speaks of drawn ids as well as of stored ones: an
id in the hands of a thread is at most the counter, in no list, and no other
thread's. The proofs go by kinds of steps: lemma `StepKinds` sorts the
actions into those that only move a thread (they leave the store, the counters and
all other threads alone) and the few that draw or store, and `PutTweetSlots` says
what an append does to the tweets in the lists. Each
invariant then needs one argument for the movers and one for each of the others.

The second module strengthens three of the invariants. `NoTweetLost` needs that a
thread past `has_user` has a registered author (`PosterKnown`), which holds since
no call removes a user: then `put_tweet` cannot fail. `AckedIsStored` needs that an
answered registration has a real id. `RealTimeOrder` needs what was true while
the post ran: stored times are at most `now` and begin times at most stored ones
(`TimesPast`), and a post that has drawn its id has a larger one than every tweet
it found at its begin (`PostOrder`). All rest on `StoreGrows`: a step adds at most
one tweet to the lists and moves none. `OnlyAppends` is the same fact as an action
property. `MonotonicInTurn` is the other side of run `per_author_order`: as long as no two
posts of one author hold a drawn id at the same time (`AuthorsTakeTurns`), ids do grow
along the list.

`ServiceRefinementProofs` proves `CallsMeetContracts` (`Spec => ContractsMet`) and
`OnlyAnswersAreSeen` (`Spec => OnlyAnswersChange`): the contracts Verus proves of each
method run alone hold of any number of interleaved calls. The invariant behind it is
`Checked`: what an earlier section of a call found (its handles registered, its text
not empty) is still so at the section that answers, since no call removes a user. It
is why `unfollow`, which deletes under a lock of its own, still meets its contract,
and why it would not beside a load.

It also proves `ServiceIsLinearizable` (`Spec => Linearizable`): the
lock sections of any number of threads implement `Twitter`, where a call takes effect at
one instant. The sections that check or draw map to no abstract step, a failed check to
`Fail`, the last section to the effect. The invariant `LinInv` collects what the abstract
actions ask: `Checked` and `PosterKnown` that an earlier check still holds when the call
takes effect, `OrderInv` that a new tweet is newer than those before its call, `ByAuthor`
that each list holds the tweets of its author, `DraftOK` that a thread holds nothing
before it has drawn. The ids of `Twitter` are all positive numbers, so no bound enters. The abstract timeline is any sequence with F1 and F2
(`IsTimeline`); the code's is a stable sort of the lists in the order of the hash map, cut
at the limit. No induction is needed for that: `Arrange` puts at place `k` the element
with `k - 1` before it, so places are cardinalities of initial segments (`TimelineIs`).

### Snapshots, loads and the process

`ServiceAdminProofs` lets operators capture and load at any moment of the calls:

* `AdminTypeCorrect`: `[]AdminTypeOK`, if hand-written snapshots are well typed;
* `ReferencesUnderLoads`: `[]NoOrphans`, if those are `Closed` (they name only users
  they have). The invariant adds that every archived snapshot is closed; a capture is,
  since the store is read in one section, and so is the store after `replace`;
* `SelfFollowsAreHandMade`: `[]NoSelfFollow`, if no hand-written snapshot has a self-follow
  (`NotSelf`): what run `self_follow_loaded` shows needs one.

`AdminServerProofs` is about `ServerSpec`, the seeded process with its routes, with loads
and captures on a quiet service (`QuietOperators`), for any demo and any bodies whose
accepted ones are safe to load (`SafeUploads`, and the same of `HandMade`): `Proper`, with
counters past the ids and the lists in order without twins. The instance of run `process` meets all of this.

* `ServerTypeCorrect`: `[]ServerTypeOK`, on a quiet service or not, if only what is
  accepted has the types that parsing gives it (`TypedUploads`);
* `DemoIsServed`: `[]SeedServed`, quiet or not and with `TypedUploads`, for a demo whose
  calls succeed one after the other (`DemoSucceeds`);
* `NoTwinsWhenQuiet`: `[]NoTwinTweets`, in the middle of a load too: what `torn_snapshot`
  and `load_not_atomic` show needs a call beside the capture or the load;
* `IdsContinue`: `[]IdsContinueAfterLoad`;
* `LoadsRestore`: `LoadRestores`, a load ends in the state that was loaded, lists included;
* `SnapshotsAreStable`: `[]StableSnapshots`;
* `SnapshotsLoadBack`: `[]SnapshotsLoad`, if an element with its fields is no `BadItem`;
* `TimesContinue`: `[]RealTimeOrder`, if also no hand-written clock is behind the tweets
  beside it (`Timely`).

`QuietInv` follows an operation through its sections. Whoever is in one is alone
(`AloneAt`); the counters a capture has read are still those of the service
(`CapturedAt`); the store a load has replaced is already the snapshot's, whose counters
are past its ids (`RestoredAt`), although those of the service may not be before the load
ends. `LoadedInv` adds that every archived snapshot is `Proper`, `TimesInv` that its clock
is past its tweets, `ServerInv` that nobody is busy while `main` seeds. That two snapshots
of one state are the same is uniqueness again: a list without repetitions that is sorted
by distinct ids is determined by its elements (`OneEnumeration`). `SeedServed` rests on `SeedInv`: while
`main` seeds there is one thread, so after `k` calls of the demo each generator stands at
the number of its calls among them (`Count`), plus one if the current call has drawn
(`Progress`), and nothing later takes a user or a tweet away but a load.

`ServerRefinementProofs` proves `SnapshotsAndLoadsAreAtomic` (`ServerSpec =>
LoadsAreAtomic`) from the assumptions of `TimesContinue`. `ProcessInv` joins what the
others have: `TimelyInv`, and `KnownInv`, the parts of `LinInv` that are about what calls
know. A client's step finds nobody busy, so `LinInv` holds and the mapping of
`ServiceRefinementProofs` applies (`ClientsMap`). A capture saves the state of its last
section because the clock and the counters it read before have not moved
(`SnapshotMaps`); a load makes the abstract state the saved one because `snapshot` after
`replace` is what was loaded (`LoadMaps`, with `ReplaceProper` and `SnapshotState`: the
abstract state is a function of a snapshot); its other sections change nothing that can be
seen (`LoadSteps`).

### The HTTP layer

`WebServerProofs` is about `WebSpec`, for any browsers, keys, page sizes and number of
restarts:

* `WebTypeCorrect`: `[]WebTypeOK`;
* `WebReferences`: `[]NoOrphans`;
* `PagesStayFresh`: `[]PagesAreFresh`;
* `UnfollowsHonoured`: `[]UnfollowsAreHonoured`;
* `SessionsLast`: `SessionsOutliveRestart`;
* `HandlersImplementTwitter`: `HandlersLinearizable`, the refinement to `Twitter`;
* `WebKeepsPromises`: the invariants of `Service` (unique ids, no tweet lost, answers
  stored, real-time order), restarts included;
* `ProfilesMissOnlyWhenFull`: the profile of a user known to have posted lists none of
  their tweets only if newer ones of others filled the timeline it is cut from, which is
  what run `profile_page` shows.

`WebInv` says that what clients rely on is so and lasts: posted tweets, and those on a page
(`PageOK`: a timeline makes nothing up), are stored, and a
follow relied on has its edge and no `unfollow` of it under way; an unfollow relied on has
removed it and no `follow` is (`HistoryOK`, `SureOK`, `GoneOK`). A
timeline not read yet owes only tweets that are still visible (`OwedOK`), and nobody it
bars is followed (`BarredOK`); one that was read has each of the first or is full of newer
ones, and has nothing of the others (`ReadOK`). The step between the two is
the read under one lock: `Covers` follows from the sort and the cut (`ReadCovers`), the
rest from what is visible (`ReadHonours`).

The refinement needs no invariant of its own: `LinInv` of the service is kept by every
call a client can make and true again after a restart (`FreshMaps`). `Serve` maps to
`Call`, the sections of `Work` to the instant at which the call takes effect or to
nothing (`StepMaps`), `Deliver` and `Lose` alike to `Return`, and what only concerns
sessions to nothing (`WebMaps`).

### Under the lock

`LockedCounterProofs` goes for any `MaxInt`, any threads and any values set:

* `CounterTypeCorrect`: `Spec => [](TypeOK /\ LockInv)`;
* `MethodsAreAtomic`: `Spec => Atomic`, the refinement to `AtomicCounter`;
* `CountersAreGenerators`: `Spec => GeneratorAndClock`;
* `IdsAlwaysIncrease`: `Spec => []IdsIncreaseOrPanic`;
* `IdsIncreaseUnlessWrapped`: `Spec /\ []NoWrap => [](IdsIncrease /\ AdvanceTruthful)`, for
  the deployed build too;
* `AdvanceArrives`: `Spec => []AdvanceReaches`;
* `PoisonStays`: `Spec => PoisonIsFinal`.

`LockInv` says that exactly the owner is between `Lock` and `Unlock`, that what it has
loaded is still the value, and what it is about to store is that value or its
successor. From it each step maps to one of the abstract counter, or to none:
`Load` of a read, `Store` and the two panics are the instants at which a method takes
effect; `Store` alone changes the value. `GrowthInv` adds that the value is at least
every id issued since the last set (`Numbered`) and every count of a `set_now` that
nobody disturbed (`CountedOf`). A step keeps it unless a release build stands at the
last value (`NoWrap`); a debug build never wraps, which gives the two theorems about it.

### Only model-checked

* Liveness (`EveryCallAnswered`, `EveryMethodEnds`), which is out of the prover's reach.
* The seven violations, which are counterexamples. Five of the claims they refute have a
  theorem that says when they do hold: `NoTwinTweets` (`NoTwinsWhenQuiet`),
  `PerAuthorMonotonic` (`MonotonicInTurn`), `NoSelfFollow` (`SelfFollowsAreHandMade`),
  `ProfileShowsOwn` (`ProfilesMissOnlyWhenFull`), `IdsIncrease`
  (`IdsIncreaseUnlessWrapped`).
* `NoOrphans` with loads and `IdsContinueAfterLoad` are proved under the assumptions on
  what operators upload stated above: the code checks none of them, as run
  `self_follow_loaded` shows for F4.
* `SessionsWork` has no theorem: it fails for a handle in `Unreadable`, and for any other
  it says no more than `CurrentActor`.

## 5. Plan

In order of importance:

1. (done) `Domain`, `MemStore`, `IdGenerator`, `LogicalClock`, `Service`,
   `ServiceProperties`: the core and its races; run `service`.
2. (done) `Twitter` and `ServiceRefinement`: linearizability.
3. (done) `ServiceAdmin`: captures, loads and restarts; run `online_load`.
4. (done) `ServiceProofs`: types, both uniqueness invariants, references.
5. (done) `ServiceOrderProofs`: no tweet lost, answers stored, real-time order,
   append-only lists.
6. (done) `ServiceAdminProofs`, `AdminServerProofs`: references under any loads, then ids,
   times and restored states for quiet ones.
7. (done) `ServiceRefinementProofs`: what makes a sequence the sorted one, F1 and F2
   of every page, the refinement to `Twitter`.
8. (done) `WebServer` with rotated keys, `WebServerProofs`: pages stay fresh, and honour
   unfollows.
9. (done) `LockedCounter`, `AtomicCounter` and their proofs: the width of the counter,
   poisoning, the default `set_now`; runs `counter`, `counter_wraps`.
10. (done) `AdminServer`: token, version and fields of a body, the seed, restarts; run
    `process`.
11. (done) `ServiceContracts` and their proofs: the Verus contracts under interleaving.
12. (done) `TwitterProcess`, `ServerRefinement` and their proofs: snapshots and loads are
    atomic on a quiet service; the demo as a theorem.
13. (done) `WebRefinement` and its proof: the handlers implement `Twitter`.
14. Left out: `WebServer` and `ServiceAdmin` in one specification. `ServiceAdmin` lets a
    client send any request at any time, so whatever a session lets through is among its
    behaviours; a load, like a restart, undoes what browsers were told, and promises
    them nothing.

## 6. Not modelled

* The text of tweets and the spelling of handles. Only emptiness (`blank`) and whether a
  cookie carries a handle (`Unreadable`) decide anything; no code in the core reads a
  text back.
* Status codes of the JSON API, JSON itself, HTML, escaping, `/healthz` and `/version`:
  formatting, on which nothing in the program depends.
* Metrics: counters and histograms that observe requests and that no code reads back.
* The size of a body. `load_snapshot` takes it as a `String`, which axum limits to 2 MB
  by default, so a snapshot of a larger state is handed out and not taken back. The
  models have no sizes.
* The versioned cookies and the seven days of grace that `DEPLOY.md` describes for a
  key rotation: the code has one key and one format. What the code does when the key
  changes is modelled.
* Negative ids and times in hand-written snapshots: ids are naturals except in
  `LockedCounter`, where a counter may be set to any value of its width.
* Poisoning of the store's RwLock: it needs a panic inside a section of the store, and
  none is reachable there.
* The conformance, functional and integration tests: drivers of the
  endpoints, read for what they assert.
