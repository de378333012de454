------------------------------ MODULE WebServer -----------------------------
(***************************************************************************)
(* The HTTP layer of crates/server around the service: the JSON API of     *)
(* handlers.rs, and the HTML pages and sessions of ui.rs.  Browsers send   *)
(* requests from several tabs; a worker thread serves each with at most    *)
(* one call of the service.  An answer may be lost, and the process may    *)
(* restart, with another cookie key.                                       *)
(***************************************************************************)
EXTENDS ServiceProperties

CONSTANTS
  Browsers,
  Forms,        \* the requests browsers send
  PageLimit,    \* how many tweets a page asks for: 50 in ui.rs
  Keys,         \* what UI_COOKIE_HMAC_KEY may hold when a process starts
  NoKey,        \* it is not set, or not to a valid key
  Unreadable,   \* the handles with a ; or a letter outside ASCII
  MaxBoot       \* bound on the restarts

Api == {"users", "follow", "unfollow", "tweets", "timeline"}
Pages == {"home", "profile", "register", "compose", "ui_follow", "ui_unfollow"}

(* who is the handle typed, named in the path or sent as author, from or     *)
(* user; the routes that act for the session take it from the cookie.        *)
(* blank is the empty handle or text; malformed a body, form or limit that   *)
(* does not parse, or an empty user.                                         *)
Form == [route : Api \cup Pages, who : Handles, whom : Handles,
         blank : BOOLEAN, malformed : BOOLEAN, limit : Nat]

ASSUME WebAssumption ==
  /\ Forms \subseteq Form /\ PageLimit \in Nat \ {0}
  /\ Unreadable \subseteq Handles /\ Keys # {} /\ MaxBoot \in Nat

VARIABLES
  boot,         \* which process this is
  secret,       \* the value of UI_COOKIE_HMAC_KEY, read once
  cookie,       \* cookie[b]: what the browser holds under acting_handle
  flight,       \* flight[t]: the request thread t serves
  posted,       \* history: the tweets clients of this process know stored,
                \* because a post was answered or a page showed them
  following,    \* history: the edges clients know stored, not deleted since
  severed       \* history: the edges clients know absent, not asked for since

historyVars == <<posted, following, severed>>
webVars == <<vars, boot, secret, cookie, flight, historyVars>>

-----------------------------------------------------------------------------
(* Sessions.  A cookie is a handle and its tag under the key that signed it. *)

NoActor == "no actor"
NoCookie == [handle |-> NoActor]

\* mutant: the environment variable is not read
SigningKey_Ephemeral == boot

\* the key of the environment, or one made up when the process starts
SigningKey == IF secret # NoKey THEN secret ELSE boot

Sign(h) == [handle |-> h, key |-> SigningKey]

\* The handle of a cookie whose tag this process can recompute.  The handle
\* goes into the header as it is spelled: a cookie ends at a ; and to_str
\* refuses a header that is not ASCII, so then nothing verifies.
CurrentActor(b) ==
  IF /\ cookie[b] # NoCookie /\ cookie[b].key = SigningKey
     /\ cookie[b].handle \notin Unreadable
  THEN cookie[b].handle ELSE NoActor

-----------------------------------------------------------------------------
(* From a request to the call of the service it makes.                     *)

ForActor(f) == f.route \in {"home", "compose", "ui_follow", "ui_unfollow"}

Operation(route) ==
  CASE route \in {"users", "register"}             -> "create_user"
    [] route \in {"follow", "ui_follow"}           -> "follow"
    [] route \in {"unfollow", "ui_unfollow"}       -> "unfollow"
    [] route \in {"tweets", "compose"}             -> "post_tweet"
    [] route \in {"timeline", "home", "profile"}   -> "home_timeline"

\* mutant: does not ask for a session
Admitted_Anyone(b, f) ==
  /\ ~f.malformed
  /\ f.route = "register" => ~f.blank

\* The other requests are refused, or shown the login page, without a call,
\* and change nothing.  An empty handle or text reaches the service except at
\* /register.
Admitted(b, f) ==
  /\ ~f.malformed
  /\ f.route = "register" => ~f.blank
  /\ ForActor(f) => CurrentActor(b) # NoActor

RequestOf(b, f) ==
  [op    |-> Operation(f.route),
   who   |-> IF ForActor(f) THEN CurrentActor(b) ELSE f.who,
   whom  |-> f.whom,
   blank |-> f.blank,
   limit |-> CASE f.route \in {"home", "profile"} -> PageLimit
               [] f.route = "timeline"            -> f.limit
               [] OTHER                           -> 0]

-----------------------------------------------------------------------------
(* What clients may rely on, kept for the properties only.                 *)

Edges == {e \in Handles \X Handles : e[1] # e[2]}

Edge(r) == <<r.who, r.whom>>

\* the stored tweets a client knows the timeline of h to contain
Owed(h) == {w \in posted : w.author = h \/ <<h, w.author>> \in following}

\* whose tweets a client knows not to be on it
Barred(h) == {g \in Handles \ {h} : <<h, g>> \in severed}

\* From the moment an unfollow is sent nobody may rely on its edge, nor on a
\* follow still under way to have set it, and the other way round.
Opposed(r, s) == {r.op, s.op} = {"follow", "unfollow"} /\ Edge(r) = Edge(s)

\* what the request r in flight may rely on once s is sent
Doubt(fl, r, s) ==
  [fl EXCEPT !.owed =
                {w \in @ : s.op = "unfollow" => Edge(s) # <<r.who, w.author>>},
             !.barred =
                {h \in @ : s.op = "follow" => Edge(s) # <<r.who, h>>},
             !.sure = @ /\ ~Opposed(r, s)]

NoFlight == [route |-> "none", from |-> NoActor, owed |-> {}, barred |-> {},
             sure |-> FALSE]

Sent(t, b, f, r) ==
  [route  |-> f.route, from |-> b,
   owed   |-> IF r.op = "home_timeline" THEN Owed(r.who) ELSE {},
   barred |-> IF r.op = "home_timeline" THEN Barred(r.who) ELSE {},
   sure   |-> /\ r.op \in {"follow", "unfollow"} /\ Edge(r) \in Edges
              /\ \A u \in Threads : req[u] # NoRequest => ~Opposed(req[u], r)]

Send(t, b, f, r) ==
  /\ following' = IF r.op = "unfollow" THEN following \ {Edge(r)} ELSE following
  /\ severed' = IF r.op = "follow" THEN severed \ {Edge(r)} ELSE severed
  /\ flight' = [u \in Threads |->
       IF u = t THEN Sent(t, b, f, r)
       ELSE IF flight[u] = NoFlight THEN NoFlight
       ELSE Doubt(flight[u], req[u], r)]

\* the tweets on the page, which come in its order: profile drops what others
\* wrote
Shown(t) ==
  {w \in {page[t][k] : k \in DOMAIN page[t]} :
     flight[t].route = "profile" => w.author = req[t].who}

\* nothing else that is under way decides about its edge
Settled(t, op) == req[t].op = op /\ flight[t].sure /\ resp[t] = "ok"

\* the client has the answer to what it asked
Learn(t) ==
  /\ posted' = posted \cup Shown(t) \cup
                 IF req[t].op = "post_tweet" /\ resp[t] = "ok"
                 THEN {TweetOf(t)} ELSE {}
  /\ following' = IF Settled(t, "follow")
                  THEN following \cup {Edge(req[t])} ELSE following
  /\ severed' = IF Settled(t, "unfollow")
                THEN severed \cup {Edge(req[t])} ELSE severed

-----------------------------------------------------------------------------
(* The answers.                                                            *)

\* register opens a session for a new user and for an old one
SetCookie(t) ==
  flight[t].route = "register" /\ resp[t] \in {"ok", "duplicate_user"}

-----------------------------------------------------------------------------
(* Actions.                                                                *)

WebTypeOK ==
  /\ TypeOK
  /\ boot \in 0..MaxBoot /\ secret \in Keys
  /\ cookie \in [Browsers -> {NoCookie} \cup
                               [handle : Handles, key : Keys \cup 0..MaxBoot]]
  /\ flight \in [Threads -> {NoFlight} \cup
       [route : Api \cup Pages, from : Browsers, owed : SUBSET Tweet,
        barred : SUBSET Handles, sure : BOOLEAN]]
  /\ \A t \in Threads : flight[t] = NoFlight <=> pc[t] = "idle"
  /\ posted \subseteq Tweet /\ following \subseteq Edges /\ severed \subseteq Edges

WebInit ==
  /\ Init
  /\ boot = 0 /\ secret \in Keys
  /\ cookie = [b \in Browsers |-> NoCookie]
  /\ flight = [t \in Threads |-> NoFlight]
  /\ posted = {} /\ following = {} /\ severed = Edges

\* POST /_session: signs any handle, registered or not, without a call
OpenSession(b, h) ==
  /\ cookie' = [cookie EXCEPT ![b] = Sign(h)]
  /\ UNCHANGED <<vars, boot, secret, flight, historyVars>>

\* POST /_session/clear
CloseSession(b) ==
  /\ cookie[b] # NoCookie
  /\ cookie' = [cookie EXCEPT ![b] = NoCookie]
  /\ UNCHANGED <<vars, boot, secret, flight, historyVars>>

Serve(t, b, f) ==
  /\ Admitted(b, f)
  /\ LET r == RequestOf(b, f) IN Call(t, r) /\ Send(t, b, f, r)
  /\ UNCHANGED <<boot, secret, cookie, posted>>

\* mutant: a call that failed is made once more
Work_Retries(t) ==
  /\ \/ Step(t)
     \/ /\ pc[t] = "done" /\ resp[t] # "ok"
        /\ pc' = [pc EXCEPT ![t] = "called"]
        /\ UNCHANGED <<storeVars, now, user_ids, tweet_ids>>
        /\ UNCHANGED <<req, draft, resp, page, began>>
  /\ UNCHANGED <<boot, secret, cookie, flight, historyVars>>

Work(t) ==
  Step(t) /\ UNCHANGED <<boot, secret, cookie, flight, historyVars>>

\* the handler ends, and its answer reaches the browser
Deliver(t) ==
  /\ Return(t)
  /\ cookie' = IF SetCookie(t)
               THEN [cookie EXCEPT ![flight[t].from] = Sign(req[t].who)]
               ELSE cookie
  /\ Learn(t)
  /\ flight' = [flight EXCEPT ![t] = NoFlight]
  /\ UNCHANGED <<boot, secret>>

\* the handler ends, and its answer is lost
Lose(t) ==
  /\ Return(t)
  /\ flight' = [flight EXCEPT ![t] = NoFlight]
  /\ UNCHANGED <<boot, secret, cookie, historyVars>>

\* "Nothing persists": the new process is empty, the key of its environment
\* may have been rotated, the browsers keep their cookies
Restart ==
  /\ boot < MaxBoot
  /\ boot' = boot + 1 /\ secret' \in Keys
  /\ Restarted
  /\ flight' = [t \in Threads |-> NoFlight]
  /\ posted' = {} /\ following' = {} /\ severed' = Edges
  /\ UNCHANGED cookie

WebNext ==
  \/ \E b \in Browsers : CloseSession(b) \/ \E h \in Handles : OpenSession(b, h)
  \/ \E t \in Threads :
       \/ \E b \in Browsers, f \in Forms : Serve(t, b, f)
       \/ Work(t) \/ Deliver(t) \/ Lose(t)
  \/ Restart

WebSpec == WebInit /\ [][WebNext]_webVars

-----------------------------------------------------------------------------
(* Properties.                                                             *)

\* F1 and F2 as the end-to-end tests state them, for clients that race: a
\* home page, or a timeline of the API, contains every tweet whose post was
\* answered, or that any page of any client showed, before it was asked for,
\* of its user and of everybody whose follow was answered by then, unless it
\* is full of newer tweets.  Retries, lost answers, other tabs and posts under
\* way change nothing: what was seen once is never missing later.
PagesAreFresh ==
  \A t \in Threads : pc[t] = "done" /\ flight[t].route \in {"home", "timeline"} =>
    \A w \in flight[t].owed :
      \/ \E k \in DOMAIN page[t] : page[t][k] = w
      \/ /\ req[t].limit > 0 /\ Len(page[t]) = req[t].limit
         /\ \A k \in DOMAIN page[t] : Newer(page[t][k], w)

\* F1 the other way, for clients that race: a timeline has no tweet of a user
\* whom nobody asked to follow, or whose unfollow was answered before the page
\* was asked for, until a follow is sent again.
UnfollowsAreHonoured ==
  \A t \in Threads :
    pc[t] = "done" /\ flight[t].route \in {"home", "timeline", "profile"} =>
      \A w \in Shown(t) : w.author \notin flight[t].barred

\* "In prod the key is set as a Fly secret": whatever restarts, while the
\* key of the environment stays the same nobody is logged out or becomes
\* somebody else, only the browser's own requests change who acts for it.
SessionsOutliveRestart ==
  [][secret' = secret /\ (secret # NoKey \/ boot' = boot) =>
       \A b \in Browsers :
         cookie'[b] = cookie[b] => CurrentActor(b)' = CurrentActor(b)]_webVars

\* "Submitting it POSTs to /_session which sets a cookie (URL-safe)", "Every
\* UI write reads the cookie's handle and uses it as the actor": who was
\* given a session by this process acts for its handle.
SessionsWork ==
  \A b \in Browsers :
    cookie[b] # NoCookie /\ cookie[b].key = SigningKey =>
      CurrentActor(b) = cookie[b].handle

\* "@h's tweets", and "No tweets to show" on an empty list: a profile lists
\* the tweets its user is known to have posted, as many as fit on the page.
ProfileShowsOwn ==
  \A t \in Threads : pc[t] = "done" /\ flight[t].route = "profile" =>
    LET own == {w \in flight[t].owed : w.author = req[t].who}
    IN own # {} => Shown(t) # {}
=============================================================================
