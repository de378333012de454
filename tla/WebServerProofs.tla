--------------------------- MODULE WebServerProofs --------------------------
(***************************************************************************)
(* Proofs about the HTTP layer, for any browsers, forms, threads, keys,    *)
(* page sizes and bounds.                                                  *)
(***************************************************************************)
EXTENDS WebRefinement, ServiceRefinementProofs

-----------------------------------------------------------------------------
(* What home_timeline returns.                                             *)

\* The page has the tweet, or is full of newer ones.
Covers(list, limit, w) ==
  \/ \E k \in DOMAIN list : list[k] = w
  \/ /\ limit > 0 /\ Len(list) = limit
     /\ \A k \in DOMAIN list : Newer(list[k], w)

LEMMA TimelineCovers ==
  ASSUME StoreTypeOK, NoOrphans, UniqueTweetIds, NEW h \in Handles,
         NEW limit \in Nat, NEW iteration \in Iterations(Visible(h)),
         NEW w \in StoredTweets, w.author \in Visible(h)
  PROVE  Covers(HomeTimeline(h, limit, iteration), limit, w)
<1> DEFINE list == Sorted(Visible(h), iteration, Newer)
<1>1. Visible(h) \in SUBSET Handles
  BY DEF Visible, FollowSet, StoreTypeOK
<1>2. PICK s \in TweetSlots : TweetAt(s) = w
  BY DEF StoredTweets, TweetSlots
<1>3. s \in Slots(Visible(h))
  <2>1. s[1] \in Visible(h)
    BY <1>2 DEF NoOrphans
  <2>2. s = <<s[1], s[2]>> /\ s[2] \in DOMAIN by_author[s[1]]
    BY <1>2, SlotType DEF TweetSlots
  <2> QED  BY <2>1, <2>2 DEF Slots
<1>4. PICK n, order : Collects(list, Visible(h), n, order)
  BY <1>1, Collected
<1> HIDE DEF list
<1>5. PICK k \in 1..n : order[k] = s /\ n \in Nat
  BY <1>3, <1>4 DEF Collects
<1>6. /\ DOMAIN list = 1..n /\ list \in Seq(Tweet) /\ Len(list) = n
      /\ list[k] = w
  <2>1. \A i \in 1..n : TweetAt(order[i]) \in Tweet
    <3>1. Slots(Visible(h)) \subseteq Slots(Handles)
      BY <1>1 DEF Slots
    <3> QED  BY <1>4, <3>1, SlotType DEF Collects
  <2>2. list = [i \in 1..n |-> TweetAt(order[i])]
    BY <1>4 DEF Collects
  <2> QED  BY <1>2, <1>5, <2>1, <2>2
<1>7. HomeTimeline(h, limit, iteration) =
        IF limit > 0 /\ Len(list) > limit THEN SubSeq(list, 1, limit) ELSE list
  BY DEF HomeTimeline, list
<1>8. CASE ~(limit > 0 /\ n > limit)
  BY <1>5, <1>6, <1>7, <1>8 DEF Covers
<1>9. CASE limit > 0 /\ n > limit
  <2> DEFINE shown == SubSeq(list, 1, limit)
  <2>1. /\ DOMAIN shown = 1..limit /\ Len(shown) = limit
        /\ \A i \in 1..limit : shown[i] = list[i]
    BY <1>6, <1>9
  <2>2. HomeTimeline(h, limit, iteration) = shown
    BY <1>6, <1>7, <1>9
  <2> HIDE DEF shown
  <2>3. CASE k <= limit
    <3>1. k \in DOMAIN shown /\ shown[k] = w
      BY <1>6, <2>1, <2>3
    <3> QED  BY <2>2, <3>1 DEF Covers
  <2>4. ASSUME k > limit, NEW i \in 1..limit PROVE Newer(shown[i], w)
    <3>1. i \in 1..n /\ i < k
      BY <1>5, <1>9, <2>4
    <3>2. /\ order[i] \in TweetSlots /\ order[i] # s
          /\ TweetAt(order[i]) = list[i]
          /\ ~Newer(w, list[i])
      <4>1. Slots(Visible(h)) \subseteq TweetSlots
        BY <1>1 DEF Slots, TweetSlots
      <4> QED  BY <1>2, <1>4, <1>5, <3>1, <4>1 DEF Collects
    <3>3. list[i].id # w.id
      BY <1>2, <3>2 DEF UniqueTweetIds
    <3>4. /\ list[i].id \in Nat /\ list[i].created_at \in Nat
          /\ w.id \in Nat /\ w.created_at \in Nat
      BY <1>2, <3>2, SlotType DEF TweetSlots, Tweet
    <3> QED  BY <2>1, <3>2, <3>3, <3>4 DEF Newer
  <2> QED  BY <1>9, <2>1, <2>2, <2>3, <2>4 DEF Covers
<1> QED  BY <1>8, <1>9

\* It makes nothing up: all it returns is stored, by authors it may show.
LEMMA TimelineStored ==
  ASSUME StoreTypeOK, NoOrphans, NEW h \in Handles, NEW limit \in Nat,
         NEW iteration \in Iterations(Visible(h)),
         NEW k \in DOMAIN HomeTimeline(h, limit, iteration)
  PROVE  /\ HomeTimeline(h, limit, iteration)[k] \in StoredTweets
         /\ HomeTimeline(h, limit, iteration)[k].author \in Visible(h)
<1> DEFINE list == Sorted(Visible(h), iteration, Newer)
           shown == HomeTimeline(h, limit, iteration)
<1>1. Visible(h) \in SUBSET Handles
  BY DEF Visible, FollowSet, StoreTypeOK
<1>2. PICK n, order : Collects(list, Visible(h), n, order)
  BY <1>1, Collected
<1>3. shown = IF limit > 0 /\ Len(list) > limit THEN SubSeq(list, 1, limit)
              ELSE list
  BY DEF HomeTimeline
<1> HIDE DEF list, shown
<1> DEFINE S == {w \in StoredTweets : w.author \in Visible(h)}
<1>4. n \in Nat /\ list \in [1..n -> S]
  <2>1. \A i \in 1..n : TweetAt(order[i]) \in S
    <3>1. ASSUME NEW s \in Slots(Visible(h)) PROVE TweetAt(s) \in S
      <4>1. s \in Slots(Handles) /\ s[1] \in Visible(h)
        BY <1>1 DEF Slots
      <4>2. TweetAt(s).author = s[1]
        BY <4>1 DEF NoOrphans, TweetSlots
      <4> QED  BY <4>1, <4>2 DEF StoredTweets
    <3> QED  BY <1>2, <3>1 DEF Collects
  <2> QED  BY <1>2, <2>1 DEF Collects
<1> HIDE DEF S
<1>5. list \in Seq(S) /\ Len(list) = n
  BY <1>4
<1>6. shown \in Seq(S)
  BY <1>3, <1>5
<1>7. k \in DOMAIN shown
  BY DEF shown
<1> QED  BY <1>6, <1>7 DEF shown, S

-----------------------------------------------------------------------------
(* The invariant.                                                          *)

SessionsOK ==
  /\ boot \in 0..MaxBoot /\ secret \in Keys
  /\ cookie \in [Browsers -> {NoCookie} \cup
                               [handle : Handles, key : Keys \cup 0..MaxBoot]]

FlightType == [route : Api \cup Pages, from : Browsers, owed : SUBSET Tweet,
               barred : SUBSET Handles, sure : BOOLEAN]

FlightsOK ==
  /\ flight \in [Threads -> {NoFlight} \cup FlightType]
  /\ \A t \in Threads : /\ flight[t] = NoFlight <=> pc[t] = "idle"
                        /\ pc[t] # "idle" =>
                             req[t].op = Operation(flight[t].route)

NoFollow(edge) ==
  \A u \in Threads : req[u].op = "follow" => Edge(req[u]) # edge

NoUnfollow(edge) ==
  \A u \in Threads : req[u].op = "unfollow" => Edge(req[u]) # edge

\* An edge stays while no unfollow of it is under way.
Lasting(edge) == edge[2] \in follows[edge[1]] /\ NoUnfollow(edge)

\* One that is not there stays away while no follow is.
Absent(edge) == edge[2] \notin follows[edge[1]] /\ NoFollow(edge)

\* What clients rely on is so, and lasts.
HistoryOK ==
  /\ posted \subseteq StoredTweets
  /\ following \subseteq Edges /\ \A edge \in following : Lasting(edge)
  /\ severed \subseteq Edges /\ \A edge \in severed : Absent(edge)

\* A follow nothing competes with, once answered, has made its edge.
SureOK(t) ==
  flight[t].sure /\ req[t].op = "follow" =>
    /\ Edge(req[t]) \in Edges /\ NoUnfollow(Edge(req[t]))
    /\ pc[t] = "done" /\ resp[t] = "ok" => Lasting(Edge(req[t]))

\* An unfollow alike has removed it.
GoneOK(t) ==
  flight[t].sure /\ req[t].op = "unfollow" =>
    /\ Edge(req[t]) \in Edges /\ NoFollow(Edge(req[t]))
    /\ pc[t] = "done" /\ resp[t] = "ok" => Absent(Edge(req[t]))

\* A timeline not read yet has nothing to miss.
OwedOK(t) ==
  pc[t] = "called" /\ req[t].op = "home_timeline" =>
    \A w \in flight[t].owed :
      /\ w \in StoredTweets
      /\ w.author = req[t].who \/ Lasting(<<req[t].who, w.author>>)

\* Nor can it show what is barred,
BarredOK(t) ==
  pc[t] = "called" /\ req[t].op = "home_timeline" =>
    \A g \in flight[t].barred : g # req[t].who /\ Absent(<<req[t].who, g>>)

\* One that was read misses nothing, and shows nothing else.
ReadOK(t) ==
  pc[t] = "done" /\ req[t].op = "home_timeline" =>
    /\ \A w \in flight[t].owed : Covers(page[t], req[t].limit, w)
    /\ \A k \in DOMAIN page[t] : page[t][k].author \notin flight[t].barred

AnsweredOK(t) ==
  pc[t] = "done" /\ resp[t] = "ok" /\ req[t].op = "post_tweet" =>
    TweetOf(t) \in StoredTweets

\* A page shows what is stored.
PageOK(t) == \A k \in DOMAIN page[t] : page[t][k] \in StoredTweets

ThreadOK(t) ==
  /\ SureOK(t) /\ GoneOK(t) /\ OwedOK(t) /\ BarredOK(t) /\ ReadOK(t)
  /\ AnsweredOK(t) /\ PageOK(t)

ServiceInv == TypeInv /\ NoOrphans /\ UniqueTweetIds

WebInv ==
  /\ ServiceInv /\ SessionsOK /\ FlightsOK /\ HistoryOK
  /\ \A t \in Threads : ThreadOK(t)

-----------------------------------------------------------------------------
(* Requests and sessions.                                                  *)

LEMMA OperationType ==
  ASSUME NEW route \in Api \cup Pages PROVE Operation(route) \in Ops
  BY DEF Api, Pages, Operation, Ops

LEMMA RequestType ==
  ASSUME SessionsOK, NEW b \in Browsers, NEW f \in Forms, Admitted(b, f)
  PROVE  RequestOf(b, f) \in Request /\ f.route \in Api \cup Pages
<1>1. /\ f.route \in Api \cup Pages /\ f.who \in Handles /\ f.whom \in Handles
      /\ f.blank \in BOOLEAN /\ f.limit \in Nat /\ PageLimit \in Nat
  BY WebAssumption DEF Form
<1>2. ForActor(f) => CurrentActor(b) \in Handles
  BY DEF Admitted, CurrentActor, SessionsOK
<1>3. Operation(f.route) \in Ops
  BY <1>1, OperationType
<1>4. (CASE f.route \in {"home", "profile"} -> PageLimit
         [] f.route = "timeline"            -> f.limit
         [] OTHER                           -> 0) \in Nat
  BY <1>1
<1> QED  BY <1>1, <1>2, <1>3, <1>4 DEF RequestOf, Request

LEMMA SignType ==
  ASSUME SessionsOK, NEW h \in Handles
  PROVE  Sign(h) \in [handle : Handles, key : Keys \cup 0..MaxBoot]
  BY DEF SessionsOK, Sign, SigningKey

\* The steps of the service below the HTTP layer.
LEMMA ServiceStep ==
  ASSUME ServiceInv, [AnyNext]_vars
  PROVE  ServiceInv' /\ StoredTweets \subseteq StoredTweets'
  BY TypeStep, OrphansStep, TweetIdsStep, StoreStep, StoredTweetsGrow
     DEF ServiceInv

-----------------------------------------------------------------------------
(* Each step keeps it.                                                     *)

LEMMA StoredTweetsKept ==
  ASSUME UNCHANGED storeVars PROVE StoredTweets' = StoredTweets
  BY DEF storeVars, StoredTweets, Slots, TweetAt

LEMMA SessionStep ==
  ASSUME WebInv, UNCHANGED <<vars, flight, historyVars>>, SessionsOK'
  PROVE  WebInv'
<1>1. ServiceInv'
  BY ServiceStep DEF WebInv
<1>2. StoredTweets' = StoredTweets
  BY StoredTweetsKept DEF vars, storeVars
<1>3. UNCHANGED <<follows, pc, req, draft, resp, page, flight, posted, following,
                  severed>>
  BY DEF vars, threadVars, historyVars
<1>4. FlightsOK'
  BY <1>3 DEF WebInv, FlightsOK
<1>5. HistoryOK'
  BY <1>2, <1>3 DEF WebInv, HistoryOK, Lasting, NoUnfollow, Absent, NoFollow, Edge
<1>6. ASSUME NEW t \in Threads PROVE ThreadOK(t)'
  <2> USE DEF WebInv, ThreadOK
  <2>1. SureOK(t)'
    BY <1>3 DEF SureOK, Lasting, NoUnfollow, Edge
  <2>2. OwedOK(t)'
    BY <1>2, <1>3 DEF OwedOK, Lasting, NoUnfollow, Edge
  <2>6. GoneOK(t)'
    BY <1>3 DEF GoneOK, Absent, NoFollow, Edge
  <2>7. BarredOK(t)'
    BY <1>3 DEF BarredOK, Absent, NoFollow, Edge
  <2>3. ReadOK(t)'
    BY <1>3 DEF ReadOK
  <2>4. AnsweredOK(t)'
    BY <1>2, <1>3 DEF AnsweredOK, TweetOf
  <2>5. PageOK(t)'
    BY <1>2, <1>3 DEF PageOK
  <2> QED  BY <2>1, <2>2, <2>3, <2>4, <2>5, <2>6, <2>7
<1> QED  BY <1>1, <1>4, <1>5, <1>6 DEF WebInv

LEMMA OpposedIs ==
  ASSUME NEW r, NEW s
  PROVE  Opposed(r, s) <=>
           /\ \/ r.op = "follow" /\ s.op = "unfollow"
              \/ r.op = "unfollow" /\ s.op = "follow"
           /\ Edge(r) = Edge(s)
  BY DEF Opposed

\* A doubt only takes away what may be relied on.
LEMMA DoubtType ==
  ASSUME NEW x \in FlightType, NEW r, NEW s
  PROVE  LET d == Doubt(x, r, s) IN
         /\ d \in FlightType
         /\ d.route = x.route
         /\ d.owed = {w \in x.owed :
                       s.op = "unfollow" => Edge(s) # <<r.who, w.author>>}
         /\ d.barred = {h \in x.barred :
                         s.op = "follow" => Edge(s) # <<r.who, h>>}
         /\ d.sure <=> x.sure /\ ~Opposed(r, s)
<1> DEFINE owed == {w \in x.owed :
                      s.op = "unfollow" => Edge(s) # <<r.who, w.author>>}
           barred == {h \in x.barred : s.op = "follow" => Edge(s) # <<r.who, h>>}
           sure == x.sure /\ ~Opposed(r, s)
<1>1. Doubt(x, r, s) =
        [x EXCEPT !.owed = owed, !.barred = barred, !.sure = sure]
  BY DEF Doubt
<1>2. owed \in SUBSET Tweet /\ barred \in SUBSET Handles
  BY DEF FlightType
<1>3. sure \in BOOLEAN
  OBVIOUS
<1> HIDE DEF owed, barred, sure
<1>4. LET d == [x EXCEPT !.owed = owed, !.barred = barred, !.sure = sure] IN
      /\ d \in FlightType /\ d.route = x.route
      /\ d.owed = owed /\ d.barred = barred /\ d.sure = sure
  BY <1>2, <1>3 DEF FlightType
<1> QED  BY <1>1, <1>4 DEF owed, barred, sure

\* What the owner of a request does to the others when it is sent.
LEMMA SendFlights ==
  ASSUME FlightsOK, NEW t \in Threads, NEW b \in Browsers,
         NEW f \in Forms, f.route \in Api \cup Pages, NEW r \in Request,
         Send(t, b, f, r), posted \subseteq Tweet
  PROVE  /\ flight' \in [Threads -> {NoFlight} \cup FlightType]
         /\ flight'[t] = Sent(t, b, f, r) /\ flight'[t] # NoFlight
         /\ \A u \in Threads \ {t} :
              /\ flight'[u] = NoFlight <=> flight[u] = NoFlight
              /\ flight'[u].route = flight[u].route
              /\ flight'[u].owed \subseteq flight[u].owed
              /\ flight'[u].barred \subseteq flight[u].barred
              /\ flight'[u].sure => flight[u].sure
              /\ r.op = "unfollow" => \A w \in flight'[u].owed :
                                        Edge(r) # <<req[u].who, w.author>>
              /\ r.op = "follow" => \A h \in flight'[u].barred :
                                      Edge(r) # <<req[u].who, h>>
              /\ flight'[u].sure => ~Opposed(req[u], r)
<1>1. Sent(t, b, f, r) \in FlightType
  <2>1. Owed(r.who) \subseteq Tweet /\ Barred(r.who) \subseteq Handles
    BY DEF Owed, Barred
  <2>2. Sent(t, b, f, r).sure \in BOOLEAN
    BY DEF Sent
  <2> QED  BY <2>1, <2>2 DEF Sent, FlightType
<1>2. ASSUME NEW x \in FlightType PROVE x # NoFlight
  <2>1. x.route \in Api \cup Pages /\ "none" \notin Api \cup Pages
    BY DEF FlightType, Api, Pages
  <2> QED  BY <2>1 DEF NoFlight
<1>3. flight' = [u \in Threads |->
                   IF u = t THEN Sent(t, b, f, r)
                   ELSE IF flight[u] = NoFlight THEN NoFlight
                   ELSE Doubt(flight[u], req[u], r)]
  BY DEF Send
<1>4. ASSUME NEW u \in Threads, flight[u] # NoFlight
      PROVE  Doubt(flight[u], req[u], r) \in FlightType
  BY <1>4, DoubtType DEF FlightsOK
<1>5. /\ flight'[t] = Sent(t, b, f, r)
      /\ flight' \in [Threads -> {NoFlight} \cup FlightType]
  BY <1>1, <1>3, <1>4
<1>6. flight'[t] # NoFlight
  BY <1>1, <1>2, <1>5
<1>7. ASSUME NEW u \in Threads \ {t}, flight[u] # NoFlight
      PROVE  /\ flight'[u] # NoFlight /\ flight'[u].route = flight[u].route
             /\ flight'[u].owed =
                  {w \in flight[u].owed :
                     r.op = "unfollow" => Edge(r) # <<req[u].who, w.author>>}
             /\ flight'[u].barred =
                  {h \in flight[u].barred :
                     r.op = "follow" => Edge(r) # <<req[u].who, h>>}
             /\ flight'[u].sure <=> flight[u].sure /\ ~Opposed(req[u], r)
  <2>1. flight[u] \in FlightType
    BY <1>7 DEF FlightsOK
  <2>2. flight'[u] = Doubt(flight[u], req[u], r)
    BY <1>3, <1>7
  <2>3. flight'[u] # NoFlight
    BY <1>2, <1>4, <1>7, <2>2
  <2> QED  BY <2>1, <2>2, <2>3, DoubtType
<1>8. ASSUME NEW u \in Threads \ {t}, flight[u] = NoFlight
      PROVE  /\ flight'[u] = flight[u]
             /\ flight[u].owed = {} /\ flight[u].barred = {} /\ ~flight[u].sure
  BY <1>3, <1>8 DEF NoFlight
<1>9. ASSUME NEW u \in Threads \ {t}
      PROVE  /\ flight'[u] = NoFlight <=> flight[u] = NoFlight
             /\ flight'[u].route = flight[u].route
             /\ flight'[u].owed \subseteq flight[u].owed
             /\ flight'[u].barred \subseteq flight[u].barred
             /\ flight'[u].sure => flight[u].sure /\ ~Opposed(req[u], r)
             /\ r.op = "unfollow" => \A w \in flight'[u].owed :
                                       Edge(r) # <<req[u].who, w.author>>
             /\ r.op = "follow" => \A h \in flight'[u].barred :
                                     Edge(r) # <<req[u].who, h>>
  <2>1. CASE flight[u] = NoFlight
    BY <1>8, <2>1
  <2>2. CASE flight[u] # NoFlight
    BY <1>7, <2>2
  <2> QED  BY <2>1, <2>2
<1> QED  BY <1>5, <1>6, <1>9

\* The request of thread t is sent.
Asked(t, r) ==
  /\ pc' = [pc EXCEPT ![t] = "called"] /\ req' = [req EXCEPT ![t] = r]
  /\ UNCHANGED <<storeVars, draft, resp, page>>

\* What it does not undo lasts on.
LEMMA AskedLasting ==
  ASSUME TypeInv, NEW t \in Threads, NEW r, Asked(t, r), NEW edge
  PROVE  /\ ~(r.op = "unfollow" /\ Edge(r) = edge) =>
              /\ NoUnfollow(edge) => NoUnfollow(edge)'
              /\ Lasting(edge) => Lasting(edge)'
         /\ ~(r.op = "follow" /\ Edge(r) = edge) =>
              /\ NoFollow(edge) => NoFollow(edge)'
              /\ Absent(edge) => Absent(edge)'
<1>1. \A u \in Threads : req'[u] = IF u = t THEN r ELSE req[u]
  BY DEF Asked, TypeInv, TypeOK
<1>2. ~(r.op = "unfollow" /\ Edge(r) = edge) /\ NoUnfollow(edge)
        => NoUnfollow(edge)'
  BY <1>1 DEF NoUnfollow, Edge
<1>3. ~(r.op = "follow" /\ Edge(r) = edge) /\ NoFollow(edge) => NoFollow(edge)'
  BY <1>1 DEF NoFollow, Edge
<1> QED  BY <1>2, <1>3 DEF Asked, Lasting, Absent, storeVars

LEMMA ServeStep ==
  ASSUME WebInv, NEW t \in Threads, NEW b \in Browsers, NEW f \in Forms,
         Serve(t, b, f)
  PROVE  WebInv'
<1>0. PICK r : r = RequestOf(b, f)
  OBVIOUS
<1>1. /\ r \in Request /\ f.route \in Api \cup Pages
      /\ r.op = Operation(f.route)
  BY <1>0, RequestType DEF Serve, WebInv, RequestOf
<1>2. /\ Call(t, r) /\ Send(t, b, f, r)
      /\ UNCHANGED <<boot, secret, cookie, posted>>
  BY <1>0 DEF Serve
<1>3. ServiceInv'
  <2>1. AnyNext
    BY <1>1, <1>2 DEF AnyNext
  <2> QED  BY <2>1, ServiceStep DEF WebInv
<1>4. Asked(t, r) /\ pc[t] = "idle" /\ TypeInv
  BY <1>2 DEF Call, Asked, WebInv, ServiceInv
<1>5. /\ StoredTweets' = StoredTweets
      /\ pc'[t] = "called" /\ req'[t] = r
      /\ \A u \in Threads \ {t} : pc'[u] = pc[u] /\ req'[u] = req[u]
      /\ draft' = draft /\ resp' = resp /\ page' = page
  BY <1>4, StoredTweetsKept DEF Asked, TypeInv, TypeOK
<1>6. posted \subseteq Tweet
  BY <1>4, StoredTweetsType DEF WebInv, HistoryOK, TypeInv, TypeOK
<1>7. /\ flight' \in [Threads -> {NoFlight} \cup FlightType]
      /\ flight'[t] = Sent(t, b, f, r) /\ flight'[t] # NoFlight
      /\ \A u \in Threads \ {t} :
           /\ flight'[u] = NoFlight <=> flight[u] = NoFlight
           /\ flight'[u].route = flight[u].route
           /\ flight'[u].owed \subseteq flight[u].owed
           /\ flight'[u].barred \subseteq flight[u].barred
           /\ flight'[u].sure => flight[u].sure
           /\ r.op = "unfollow" => \A w \in flight'[u].owed :
                                     Edge(r) # <<req[u].who, w.author>>
           /\ r.op = "follow" => \A h \in flight'[u].barred :
                                   Edge(r) # <<req[u].who, h>>
           /\ flight'[u].sure => ~Opposed(req[u], r)
  BY <1>1, <1>2, <1>6, SendFlights DEF WebInv
<1>8. SessionsOK'
  BY <1>2 DEF WebInv, SessionsOK
<1>9. FlightsOK'
  BY <1>1, <1>5, <1>7 DEF WebInv, FlightsOK, Sent
<1>10. HistoryOK'
  <2>1. \A edge \in following' :
          edge \in following /\ ~(r.op = "unfollow" /\ Edge(r) = edge)
    BY <1>2 DEF Send
  <2>2. \A edge \in severed' :
          edge \in severed /\ ~(r.op = "follow" /\ Edge(r) = edge)
    BY <1>2 DEF Send
  <2>3. \A edge \in following' : edge \in Edges /\ Lasting(edge)'
    BY <1>4, <2>1, AskedLasting DEF WebInv, HistoryOK
  <2>4. \A edge \in severed' : edge \in Edges /\ Absent(edge)'
    BY <1>4, <2>2, AskedLasting DEF WebInv, HistoryOK
  <2>5. posted' \subseteq StoredTweets'
    BY <1>2, <1>5 DEF WebInv, HistoryOK
  <2> QED  BY <2>3, <2>4, <2>5 DEF HistoryOK
<1>11. ThreadOK(t)'
  <2>0. PICK edge : edge = Edge(r)
    OBVIOUS
  <2>1. flight'[t].sure =>
          /\ edge \in Edges
          /\ r.op = "follow" => NoUnfollow(edge)'
          /\ r.op = "unfollow" => NoFollow(edge)'
    <3>1. SUFFICES ASSUME flight'[t].sure
                   PROVE  /\ edge \in Edges
                          /\ r.op = "follow" => NoUnfollow(edge)'
                          /\ r.op = "unfollow" => NoFollow(edge)'
      OBVIOUS
    <3>2. /\ Edge(r) \in Edges
          /\ \A u \in Threads : req[u] # NoRequest => ~Opposed(req[u], r)
      BY <1>7, <3>1 DEF Sent
    <3>3. /\ r.op = "follow" => NoUnfollow(edge)
          /\ r.op = "unfollow" => NoFollow(edge)
      BY <2>0, <3>2, OpposedIs DEF NoUnfollow, NoFollow, NoRequest
    <3> QED  BY <1>4, <2>0, <3>2, <3>3, AskedLasting
  <2>2. SureOK(t)' /\ GoneOK(t)'
    BY <1>5, <2>0, <2>1 DEF SureOK, GoneOK, NoUnfollow, NoFollow, Edge
  <2>3. OwedOK(t)'
    <3>1. SUFFICES ASSUME r.op = "home_timeline", NEW w \in flight'[t].owed
                   PROVE  /\ w \in StoredTweets'
                          /\ w.author = r.who \/ Lasting(<<r.who, w.author>>)'
      BY <1>5 DEF OwedOK, Lasting, NoUnfollow, Edge
    <3>2. w \in Owed(r.who)
      BY <1>7, <3>1 DEF Sent
    <3>3. w \in posted /\ (w.author = r.who \/ <<r.who, w.author>> \in following)
      BY <3>2 DEF Owed
    <3>4. w.author = r.who \/ Lasting(<<r.who, w.author>>)
      BY <3>3 DEF WebInv, HistoryOK
    <3>5. PICK e : e = <<r.who, w.author>>
      OBVIOUS
    <3>6. Lasting(e) => Lasting(e)'
      BY <1>4, <3>1, AskedLasting
    <3>7. w \in StoredTweets'
      BY <1>5, <3>3 DEF WebInv, HistoryOK
    <3> QED  BY <3>4, <3>5, <3>6, <3>7 DEF Lasting, NoUnfollow, Edge
  <2>4. BarredOK(t)'
    <3>1. SUFFICES ASSUME r.op = "home_timeline", NEW g \in flight'[t].barred
                   PROVE  g # r.who /\ Absent(<<r.who, g>>)'
      BY <1>5 DEF BarredOK, Absent, NoFollow, Edge
    <3>2. PICK e : e = <<r.who, g>>
      OBVIOUS
    <3>3. g # r.who /\ e \in severed
      BY <1>7, <3>1, <3>2 DEF Sent, Barred
    <3>4. Absent(e)'
      BY <1>4, <3>1, <3>3, AskedLasting DEF WebInv, HistoryOK
    <3> QED  BY <3>2, <3>3, <3>4 DEF Absent, NoFollow, Edge
  <2>5. PageOK(t)'
    BY <1>5 DEF WebInv, ThreadOK, PageOK
  <2> QED  BY <1>5, <2>2, <2>3, <2>4, <2>5 DEF ThreadOK, ReadOK, AnsweredOK
<1>12. ASSUME NEW u \in Threads \ {t} PROVE ThreadOK(u)'
  <2> USE DEF WebInv, ThreadOK
  <2>1. /\ pc'[u] = pc[u] /\ req'[u] = req[u] /\ resp'[u] = resp[u]
        /\ draft'[u] = draft[u] /\ page'[u] = page[u]
    BY <1>5
  <2>0. PICK edge : edge = Edge(req[u])
    OBVIOUS
  <2>2. SureOK(u)'
    <3>1. SUFFICES ASSUME flight'[u].sure, req[u].op = "follow"
                   PROVE  /\ Edge(req[u]) \in Edges /\ NoUnfollow(Edge(req[u]))'
                          /\ pc[u] = "done" /\ resp[u] = "ok" =>
                               Lasting(Edge(req[u]))'
      BY <2>1 DEF SureOK, Lasting, NoUnfollow, Edge
    <3>2. /\ edge \in Edges /\ NoUnfollow(edge)
          /\ pc[u] = "done" /\ resp[u] = "ok" => Lasting(edge)
      BY <1>7, <2>0, <3>1 DEF SureOK
    <3>3. ~(r.op = "unfollow" /\ Edge(r) = edge)
      BY <1>7, <2>0, <3>1, OpposedIs
    <3>4. /\ NoUnfollow(edge) => NoUnfollow(edge)'
          /\ Lasting(edge) => Lasting(edge)'
      BY <1>4, <3>3, AskedLasting
    <3> QED  BY <2>0, <2>1, <3>2, <3>4 DEF Lasting, NoUnfollow, Edge
  <2>3. GoneOK(u)'
    <3>1. SUFFICES ASSUME flight'[u].sure, req[u].op = "unfollow"
                   PROVE  /\ Edge(req[u]) \in Edges /\ NoFollow(Edge(req[u]))'
                          /\ pc[u] = "done" /\ resp[u] = "ok" =>
                               Absent(Edge(req[u]))'
      BY <2>1 DEF GoneOK, Absent, NoFollow, Edge
    <3>2. /\ edge \in Edges /\ NoFollow(edge)
          /\ pc[u] = "done" /\ resp[u] = "ok" => Absent(edge)
      BY <1>7, <2>0, <3>1 DEF GoneOK
    <3>3. ~(r.op = "follow" /\ Edge(r) = edge)
      BY <1>7, <2>0, <3>1, OpposedIs
    <3>4. /\ NoFollow(edge) => NoFollow(edge)'
          /\ Absent(edge) => Absent(edge)'
      BY <1>4, <3>3, AskedLasting
    <3> QED  BY <2>0, <2>1, <3>2, <3>4 DEF Absent, NoFollow, Edge
  <2>4. OwedOK(u)'
    <3>1. SUFFICES ASSUME pc[u] = "called", req[u].op = "home_timeline",
                          NEW w \in flight'[u].owed
                   PROVE  /\ w \in StoredTweets'
                          /\ \/ w.author = req[u].who
                             \/ Lasting(<<req[u].who, w.author>>)'
      BY <2>1 DEF OwedOK, Lasting, NoUnfollow, Edge
    <3>2. /\ w \in StoredTweets
          /\ w.author = req[u].who \/ Lasting(<<req[u].who, w.author>>)
      BY <1>7, <3>1 DEF OwedOK
    <3>3. ~(r.op = "unfollow" /\ Edge(r) = <<req[u].who, w.author>>)
      BY <1>7, <3>1
    <3>4. PICK e : e = <<req[u].who, w.author>>
      OBVIOUS
    <3>5. Lasting(e) => Lasting(e)'
      BY <1>4, <3>3, <3>4, AskedLasting
    <3> QED  BY <1>5, <2>1, <3>2, <3>4, <3>5 DEF Lasting, NoUnfollow, Edge
  <2>5. BarredOK(u)'
    <3>1. SUFFICES ASSUME pc[u] = "called", req[u].op = "home_timeline",
                          NEW g \in flight'[u].barred
                   PROVE  g # req[u].who /\ Absent(<<req[u].who, g>>)'
      BY <2>1 DEF BarredOK, Absent, NoFollow, Edge
    <3>2. PICK e : e = <<req[u].who, g>>
      OBVIOUS
    <3>3. g # req[u].who /\ Absent(e)
      BY <1>7, <3>1, <3>2 DEF BarredOK
    <3>4. ~(r.op = "follow" /\ Edge(r) = e)
      BY <1>7, <3>1, <3>2
    <3>5. Absent(e)'
      BY <1>4, <3>3, <3>4, AskedLasting
    <3> QED  BY <2>1, <3>2, <3>3, <3>5 DEF Absent, NoFollow, Edge
  <2>6. ReadOK(u)'
    <3>1. /\ flight'[u].owed \subseteq flight[u].owed
          /\ flight'[u].barred \subseteq flight[u].barred
      BY <1>7
    <3> QED  BY <2>1, <3>1 DEF ReadOK
  <2>7. AnsweredOK(u)' /\ PageOK(u)'
    BY <1>5, <2>1 DEF AnsweredOK, PageOK, TweetOf
  <2> QED  BY <2>2, <2>3, <2>4, <2>5, <2>6, <2>7
<1> QED  BY <1>3, <1>8, <1>9, <1>10, <1>11, <1>12 DEF WebInv

-----------------------------------------------------------------------------
(* The steps of the service a thread makes for its request.                *)

\* An edge in doubt by nobody stays or stays away: an unfollow removes, and a
\* follow makes, only its own.
LEMMA WorkLasting ==
  ASSUME TypeInv, NEW t \in Threads, Step(t), NEW edge \in Edges
  PROVE  /\ NoUnfollow(edge) => NoUnfollow(edge)'
         /\ Lasting(edge) => Lasting(edge)'
         /\ NoFollow(edge) => NoFollow(edge)'
         /\ Absent(edge) => Absent(edge)'
<1>0. edge \in Handles \X Handles
  BY DEF Edges
<1>1. \A u \in Threads : req'[u] = req[u]
  BY StepLocal, StepOp DEF Local
<1>2. /\ NoUnfollow(edge) => NoUnfollow(edge)'
      /\ NoFollow(edge) => NoFollow(edge)'
  BY <1>1 DEF NoUnfollow, NoFollow, Edge
<1>3. ASSUME Lasting(edge) PROVE edge[2] \in follows'[edge[1]]
  <2> USE DEF TypeInv, TypeOK, StoreTypeOK
  <2>1. CASE UnfollowDelete(t)
    <3>1. req[t].op = "unfollow"
      BY <2>1 DEF UnfollowDelete, ControlOK, OpOf, Labels
    <3>2. Edge(req[t]) # edge
      BY <1>3, <3>1 DEF Lasting, NoUnfollow
    <3>3. follows' = [follows EXCEPT ![req[t].who] = @ \ {req[t].whom}]
      BY <2>1 DEF UnfollowDelete, DeleteFollow
    <3> QED  BY <1>0, <1>3, <3>2, <3>3 DEF Lasting, Edge
  <2>2. CASE FollowPut(t)
    <3>1. \/ follows' = follows
          \/ follows' = [follows EXCEPT ![req[t].who] = @ \cup {req[t].whom}]
      BY <2>2 DEF FollowPut, PutFollow, storeVars
    <3>2. ASSUME NEW h \in Handles PROVE follows[h] \subseteq follows'[h]
      <4>1. CASE follows' = follows
        BY <4>1
      <4>2. CASE follows' = [follows EXCEPT ![req[t].who] =
                                               @ \cup {req[t].whom}]
        BY <4>2
      <4> QED  BY <3>1, <4>1, <4>2
    <3> QED  BY <1>0, <1>3, <3>2 DEF Lasting
  <2>3. CASE ~UnfollowDelete(t) /\ ~FollowPut(t)
    <3>1. UNCHANGED follows
      BY <2>3, StepKinds DEF CreateUserNextId, CreateUserPut, PostTweetNextId,
         PostTweetNow, PostTweetPut, Reads, PutUser, PutTweet, storeVars
    <3> QED  BY <1>3, <3>1 DEF Lasting
  <2> QED  BY <2>1, <2>2, <2>3
<1>4. ASSUME Absent(edge) PROVE edge[2] \notin follows'[edge[1]]
  <2> USE DEF TypeInv, TypeOK, StoreTypeOK
  <2>1. CASE FollowPut(t)
    <3>1. req[t].op = "follow"
      BY <2>1 DEF FollowPut, At
    <3>2. Edge(req[t]) # edge
      BY <1>4, <3>1 DEF Absent, NoFollow
    <3>3. \/ follows' = follows
          \/ follows' = [follows EXCEPT ![req[t].who] = @ \cup {req[t].whom}]
      BY <2>1 DEF FollowPut, PutFollow, storeVars
    <3>4. CASE follows' = follows
      BY <1>4, <3>4 DEF Absent
    <3>5. CASE follows' = [follows EXCEPT ![req[t].who] = @ \cup {req[t].whom}]
      BY <1>0, <1>4, <3>2, <3>5 DEF Absent, Edge
    <3> QED  BY <3>3, <3>4, <3>5
  <2>2. CASE UnfollowDelete(t)
    <3>1. follows' = [follows EXCEPT ![req[t].who] = @ \ {req[t].whom}]
      BY <2>2 DEF UnfollowDelete, DeleteFollow
    <3>2. ASSUME NEW h \in Handles PROVE follows'[h] \subseteq follows[h]
      BY <3>1
    <3> QED  BY <1>0, <1>4, <3>2 DEF Absent
  <2>3. CASE ~UnfollowDelete(t) /\ ~FollowPut(t)
    <3>1. UNCHANGED follows
      BY <2>3, StepKinds DEF CreateUserNextId, CreateUserPut, PostTweetNextId,
         PostTweetNow, PostTweetPut, Reads, PutUser, PutTweet, storeVars
    <3> QED  BY <1>4, <3>1 DEF Absent
  <2> QED  BY <2>1, <2>2, <2>3
<1> QED  BY <1>2, <1>3, <1>4 DEF Lasting, Absent

\* Which step answers a follow or an unfollow with Ok, which a home_timeline.
LEMMA AnsweredBy ==
  ASSUME TypeInv, NEW t \in Threads, Step(t)
  PROVE  /\ pc'[t] # "called"
         /\ pc'[t] = "done" =>
              /\ req[t].op = "home_timeline" => HomeTimelineRead(t)
              /\ req[t].op = "follow" /\ resp'[t] = "ok" => FollowPut(t)
              /\ req[t].op = "unfollow" /\ resp'[t] = "ok" => UnfollowDelete(t)
         /\ HomeTimelineRead(t) \/ UNCHANGED page
<1> USE DEF TypeInv, TypeOK
<1>1. ASSUME NEW result, Respond(t, result)
      PROVE  pc'[t] = "done" /\ resp'[t] = result
  BY <1>1 DEF Respond
<1>2. ASSUME NEW label, Goto(t, label) PROVE pc'[t] = label /\ page' = page
  BY <1>2 DEF Goto
<1>3. /\ pc[t] = "put_user" => req[t].op = "create_user"
      /\ pc[t] \in {"next_id", "now", "put_tweet"} => req[t].op = "post_tweet"
      /\ pc[t] \in {"unfollow_to", "delete_follow"} => req[t].op = "unfollow"
  BY DEF ControlOK, OpOf, Labels
<1>4. CASE CreateUserBlank(t) \/ CreateUserNextId(t) \/ CreateUserPut(t)
  BY <1>1, <1>2, <1>3, <1>4 DEF CreateUserBlank, CreateUserNextId,
     CreateUserPut, Answer, At
<1>5. CASE HasUserRead(t) \/ FollowSelf(t) \/ FollowPut(t)
  BY <1>1, <1>5 DEF HasUserRead, FollowSelf, FollowPut, Answer, At
<1>6. CASE UnfollowUnknown(t) \/ UnfollowFromKnown(t) \/ UnfollowToKnown(t)
           \/ UnfollowDelete(t)
  BY <1>1, <1>2, <1>3, <1>6 DEF UnfollowUnknown, UnfollowFromKnown,
     UnfollowToKnown, UnfollowDelete, Answer, At
<1>7. CASE PostTweetBlank(t) \/ PostTweetUnknown(t) \/ PostTweetKnown(t)
           \/ PostTweetNextId(t) \/ PostTweetNow(t) \/ PostTweetPut(t)
  BY <1>1, <1>2, <1>3, <1>7 DEF PostTweetBlank, PostTweetUnknown,
     PostTweetKnown, PostTweetNextId, PostTweetNow, PostTweetPut, Answer, At
<1>8. CASE HomeTimelineRead(t)
  BY <1>1, <1>8 DEF HomeTimelineRead, At
<1> QED  BY <1>4, <1>5, <1>6, <1>7, <1>8 DEF Step

LEMMA FollowMade ==
  ASSUME TypeInv, NEW t \in Threads, FollowPut(t), resp'[t] = "ok"
  PROVE  req[t].whom \in follows'[req[t].who]
<1> USE DEF TypeInv, TypeOK, StoreTypeOK
<1>1. PICK result \in Results :
        PutFollow(req[t].who, req[t].whom, result) /\ Respond(t, result)
  BY DEF FollowPut
<1>2. result = "ok" /\ req[t].who \in Handles
  BY <1>1 DEF Respond, FollowPut, At, ControlOK, Request
<1> QED  BY <1>1, <1>2 DEF PutFollow

LEMMA UnfollowMade ==
  ASSUME TypeInv, NEW t \in Threads, UnfollowDelete(t)
  PROVE  req[t].whom \notin follows'[req[t].who]
<1> USE DEF TypeInv, TypeOK, StoreTypeOK
<1>1. req[t].who \in Handles
  BY DEF UnfollowDelete, ControlOK, Request
<1> QED  BY <1>1 DEF UnfollowDelete, DeleteFollow

LEMMA ReadCovers ==
  ASSUME ServiceInv, NEW t \in Threads, OwedOK(t), HomeTimelineRead(t),
         NEW w \in flight[t].owed
  PROVE  Covers(page'[t], req[t].limit, w)
<1>1. /\ req[t].who \in Handles /\ req[t].limit \in Nat
      /\ pc[t] = "called" /\ req[t].op = "home_timeline"
  BY DEF ServiceInv, TypeInv, ControlOK, HomeTimelineRead, At, Request
<1>2. w \in StoredTweets /\ w.author \in Visible(req[t].who)
  BY <1>1 DEF OwedOK, Lasting, Visible, FollowSet
<1>3. PICK iteration \in Iterations(Visible(req[t].who)) :
        page'[t] = HomeTimeline(req[t].who, req[t].limit, iteration)
  BY DEF HomeTimelineRead, ServiceInv, TypeInv, TypeOK
<1> QED  BY <1>1, <1>2, <1>3, TimelineCovers DEF ServiceInv, TypeInv, TypeOK

LEMMA ReadStored ==
  ASSUME ServiceInv, NEW t \in Threads, HomeTimelineRead(t),
         NEW k \in DOMAIN page'[t]
  PROVE  /\ page'[t][k] \in StoredTweets
         /\ page'[t][k].author \in Visible(req[t].who)
<1>1. req[t].who \in Handles /\ req[t].limit \in Nat
  BY DEF ServiceInv, TypeInv, ControlOK, HomeTimelineRead, At, Request
<1>2. PICK iteration \in Iterations(Visible(req[t].who)) :
        page'[t] = HomeTimeline(req[t].who, req[t].limit, iteration)
  BY DEF HomeTimelineRead, ServiceInv, TypeInv, TypeOK
<1> QED  BY <1>1, <1>2, TimelineStored DEF ServiceInv, TypeInv, TypeOK

LEMMA ReadHonours ==
  ASSUME ServiceInv, NEW t \in Threads, BarredOK(t), HomeTimelineRead(t),
         NEW k \in DOMAIN page'[t]
  PROVE  page'[t][k].author \notin flight[t].barred
<1>1. pc[t] = "called" /\ req[t].op = "home_timeline"
  BY DEF HomeTimelineRead, At
<1>2. \A g \in flight[t].barred : g \notin Visible(req[t].who)
  BY <1>1 DEF BarredOK, Absent, Visible, FollowSet
<1> QED  BY <1>2, ReadStored

LEMMA WorkStep ==
  ASSUME WebInv, NEW t \in Threads, Work(t) PROVE WebInv'
<1>1. Step(t) /\ UNCHANGED <<boot, secret, cookie, flight, posted, following,
                          severed>>
  BY DEF Work, historyVars
<1>2. TypeInv /\ ServiceInv
  BY DEF WebInv, ServiceInv
<1>3. [AnyNext]_vars
  BY <1>1 DEF AnyNext
<1>4. ServiceInv' /\ StoredTweets \subseteq StoredTweets' /\ TypeInv'
  BY <1>2, <1>3, ServiceStep DEF ServiceInv
<1>5. /\ \A u \in Threads : req'[u] = req[u]
      /\ \A u \in Threads \ {t} :
           /\ pc'[u] = pc[u] /\ resp'[u] = resp[u] /\ draft'[u] = draft[u]
           /\ page'[u] = page[u]
      /\ pc[t] # "idle" /\ pc'[t] \notin {"idle", "called"}
  <2>1. HomeTimelineRead(t) => \A u \in Threads \ {t} : page'[u] = page[u]
    BY <1>2 DEF HomeTimelineRead, TypeInv, TypeOK
  <2>2. pc'[t] # "idle"
    BY <1>1, <1>2 DEF Step, CreateUserBlank, CreateUserNextId, CreateUserPut,
       HasUserRead, FollowSelf, FollowPut, UnfollowUnknown, UnfollowFromKnown,
       UnfollowToKnown, UnfollowDelete, PostTweetBlank, PostTweetUnknown,
       PostTweetKnown, PostTweetNextId, PostTweetNow, PostTweetPut,
       HomeTimelineRead, Answer, Respond, Goto, TypeInv, TypeOK
  <2> QED
    BY <1>1, <1>2, <2>1, <2>2, StepLocal, StepOp, AnsweredBy DEF Local
<1>6. SessionsOK'
  BY <1>1 DEF WebInv, SessionsOK
<1>7. FlightsOK'
  BY <1>1, <1>5 DEF WebInv, FlightsOK
<1>8. \A edge \in Edges :
        /\ NoUnfollow(edge) => NoUnfollow(edge)'
        /\ Lasting(edge) => Lasting(edge)'
        /\ NoFollow(edge) => NoFollow(edge)'
        /\ Absent(edge) => Absent(edge)'
  BY <1>1, <1>2, WorkLasting
<1>9. HistoryOK'
  BY <1>1, <1>4, <1>8 DEF WebInv, HistoryOK
<1>10. ASSUME NEW u \in Threads PROVE ThreadOK(u)'
  <2> USE DEF WebInv, ThreadOK
  <2>1. req'[u] = req[u] /\ flight' = flight
    BY <1>1, <1>5
  <2>2. pc[u] # "idle" => req[u] \in Request
    BY <1>2 DEF TypeInv, ControlOK
  <2>0. PICK edge : edge = Edge(req[u])
    OBVIOUS
  <2>3. SureOK(u)'
    <3>1. SUFFICES ASSUME flight[u].sure, req[u].op = "follow"
                   PROVE  /\ Edge(req[u]) \in Edges /\ NoUnfollow(Edge(req[u]))'
                          /\ pc'[u] = "done" /\ resp'[u] = "ok" =>
                               Lasting(Edge(req[u]))'
      BY <2>1 DEF SureOK, Lasting, NoUnfollow, Edge
    <3>2. /\ edge \in Edges /\ NoUnfollow(edge)
          /\ pc[u] = "done" /\ resp[u] = "ok" => Lasting(edge)
      BY <2>0, <3>1 DEF SureOK
    <3>3. NoUnfollow(edge)' /\ (Lasting(edge) => Lasting(edge)')
      BY <1>8, <3>2
    <3>4. u = t /\ pc'[u] = "done" /\ resp'[u] = "ok" =>
            edge[2] \in follows'[edge[1]]
      BY <1>1, <1>2, <2>0, <3>1, AnsweredBy, FollowMade DEF Edge
    <3>5. pc'[u] = "done" /\ resp'[u] = "ok" => Lasting(edge)'
      BY <1>5, <3>2, <3>3, <3>4 DEF Lasting
    <3> QED  BY <2>0, <2>1, <3>2, <3>3, <3>5 DEF Lasting, NoUnfollow, Edge
  <2>8. GoneOK(u)'
    <3>1. SUFFICES ASSUME flight[u].sure, req[u].op = "unfollow"
                   PROVE  /\ Edge(req[u]) \in Edges /\ NoFollow(Edge(req[u]))'
                          /\ pc'[u] = "done" /\ resp'[u] = "ok" =>
                               Absent(Edge(req[u]))'
      BY <2>1 DEF GoneOK, Absent, NoFollow, Edge
    <3>2. /\ edge \in Edges /\ NoFollow(edge)
          /\ pc[u] = "done" /\ resp[u] = "ok" => Absent(edge)
      BY <2>0, <3>1 DEF GoneOK
    <3>3. NoFollow(edge)' /\ (Absent(edge) => Absent(edge)')
      BY <1>8, <3>2
    <3>4. u = t /\ pc'[u] = "done" /\ resp'[u] = "ok" =>
            edge[2] \notin follows'[edge[1]]
      BY <1>1, <1>2, <2>0, <3>1, AnsweredBy, UnfollowMade DEF Edge
    <3>5. pc'[u] = "done" /\ resp'[u] = "ok" => Absent(edge)'
      BY <1>5, <3>2, <3>3, <3>4 DEF Absent
    <3> QED  BY <2>0, <2>1, <3>2, <3>3, <3>5 DEF Absent, NoFollow, Edge
  <2>4. OwedOK(u)'
    <3>1. SUFFICES ASSUME pc'[u] = "called", req[u].op = "home_timeline",
                          NEW w \in flight[u].owed
                   PROVE  /\ w \in StoredTweets'
                          /\ \/ w.author = req[u].who
                             \/ Lasting(<<req[u].who, w.author>>)'
      BY <2>1 DEF OwedOK, Lasting, NoUnfollow, Edge
    <3>2. u # t /\ pc[u] = "called"
      BY <1>5, <3>1
    <3>3. /\ w \in StoredTweets
          /\ w.author = req[u].who \/ Lasting(<<req[u].who, w.author>>)
      BY <3>1, <3>2 DEF OwedOK
    <3>4. req[u].who \in Handles /\ w.author \in Handles
      BY <1>2, <2>2, <3>2, <3>3, StoredTweetsType
         DEF TypeInv, TypeOK, Request, Tweet
    <3>5. PICK e : e = <<req[u].who, w.author>>
      OBVIOUS
    <3>6. w.author # req[u].who => (Lasting(e) => Lasting(e)')
      BY <1>8, <3>4, <3>5 DEF Edges
    <3> QED
      BY <1>4, <2>1, <3>3, <3>5, <3>6 DEF Lasting, NoUnfollow, Edge
  <2>9. BarredOK(u)'
    <3>1. SUFFICES ASSUME pc'[u] = "called", req[u].op = "home_timeline",
                          NEW g \in flight[u].barred
                   PROVE  g # req[u].who /\ Absent(<<req[u].who, g>>)'
      BY <2>1 DEF BarredOK, Absent, NoFollow, Edge
    <3>2. u # t /\ pc[u] = "called"
      BY <1>5, <3>1
    <3>3. PICK e : e = <<req[u].who, g>>
      OBVIOUS
    <3>4. g # req[u].who /\ Absent(e)
      BY <3>1, <3>2, <3>3 DEF BarredOK
    <3>5. req[u].who \in Handles /\ g \in Handles
      <4>1. flight[u] \in FlightType
        BY <3>2 DEF FlightsOK
      <4> QED  BY <2>2, <3>1, <3>2, <4>1 DEF Request, FlightType
    <3>6. Absent(e)'
      BY <1>8, <3>3, <3>4, <3>5 DEF Edges
    <3> QED  BY <2>1, <3>3, <3>4, <3>6 DEF Absent, NoFollow, Edge
  <2>5. ReadOK(u)'
    <3>1. CASE u = t
      <4>1. SUFFICES ASSUME pc'[t] = "done", req[t].op = "home_timeline"
                     PROVE  /\ \A w \in flight[t].owed :
                                 Covers(page'[t], req[t].limit, w)
                            /\ \A k \in DOMAIN page'[t] :
                                 page'[t][k].author \notin flight[t].barred
        BY <2>1, <3>1 DEF ReadOK
      <4>2. HomeTimelineRead(t)
        BY <1>1, <1>2, <4>1, AnsweredBy
      <4> QED  BY <1>2, <4>2, ReadCovers, ReadHonours
    <3>2. CASE u # t
      BY <1>5, <2>1, <3>2 DEF ReadOK
    <3> QED  BY <3>1, <3>2
  <2>6. AnsweredOK(u)'
    <3>1. CASE u = t
      BY <1>1, <1>2, <1>5, <3>1, OkByPut, AckedPost DEF AnsweredOK
    <3>2. CASE u # t
      BY <1>4, <1>5, <3>2 DEF AnsweredOK, TweetOf
    <3> QED  BY <3>1, <3>2
  <2>7. PageOK(u)'
    <3>1. CASE u = t /\ HomeTimelineRead(t)
      <4>1. \A k \in DOMAIN page'[t] : page'[t][k] \in StoredTweets
        BY <1>2, <3>1, ReadStored
      <4> QED  BY <1>4, <3>1, <4>1 DEF PageOK
    <3>2. CASE ~(u = t /\ HomeTimelineRead(t))
      <4>1. page'[u] = page[u]
        BY <1>1, <1>2, <1>5, <3>2, AnsweredBy
      <4> QED  BY <1>4, <4>1 DEF PageOK
    <3> QED  BY <3>1, <3>2
  <2> QED  BY <2>3, <2>4, <2>5, <2>6, <2>7, <2>8, <2>9
<1> QED  BY <1>4, <1>6, <1>7, <1>9, <1>10 DEF WebInv

-----------------------------------------------------------------------------
(* A request ends, its answer delivered or lost; the process restarts.     *)

LEMMA EndStep ==
  ASSUME WebInv, NEW t \in Threads, Return(t),
         flight' = [flight EXCEPT ![t] = NoFlight], SessionsOK',
         posted' \subseteq StoredTweets,
         following' \subseteq Edges, \A edge \in following' : Lasting(edge),
         severed' \subseteq Edges, \A edge \in severed' : Absent(edge)
  PROVE  WebInv'
<1>1. ServiceInv' /\ TypeInv
  <2>1. AnyNext
    BY DEF AnyNext
  <2> QED  BY <2>1, ServiceStep DEF WebInv, ServiceInv
<1>2. StoredTweets' = StoredTweets /\ follows' = follows
  BY StoredTweetsKept DEF Return, storeVars
<1>3. /\ pc'[t] = "idle" /\ req'[t] = NoRequest /\ flight'[t] = NoFlight
      /\ page'[t] = <<>>
      /\ \A u \in Threads \ {t} :
           /\ pc'[u] = pc[u] /\ req'[u] = req[u] /\ resp'[u] = resp[u]
           /\ draft'[u] = draft[u] /\ page'[u] = page[u]
           /\ flight'[u] = flight[u]
      /\ flight' \in [Threads -> {NoFlight} \cup FlightType]
  BY <1>1 DEF Return, TypeInv, TypeOK, WebInv, FlightsOK
<1>4. FlightsOK'
  BY <1>3 DEF WebInv, FlightsOK
<1>5. ASSUME NEW edge
      PROVE  /\ NoUnfollow(edge) => NoUnfollow(edge)'
             /\ Lasting(edge) => Lasting(edge)'
             /\ NoFollow(edge) => NoFollow(edge)'
             /\ Absent(edge) => Absent(edge)'
  <2>1. NoUnfollow(edge) => NoUnfollow(edge)'
    BY <1>3 DEF NoUnfollow, Edge, NoRequest
  <2>2. NoFollow(edge) => NoFollow(edge)'
    BY <1>3 DEF NoFollow, Edge, NoRequest
  <2> QED  BY <1>2, <2>1, <2>2 DEF Lasting, Absent
<1>6. HistoryOK'
  BY <1>2, <1>5 DEF HistoryOK
<1>7. ThreadOK(t)'
  BY <1>3 DEF ThreadOK, SureOK, GoneOK, OwedOK, BarredOK, ReadOK, AnsweredOK,
              PageOK, NoFlight
<1>8. ASSUME NEW u \in Threads \ {t} PROVE ThreadOK(u)'
  <2> USE DEF WebInv, ThreadOK
  <2>1. /\ pc'[u] = pc[u] /\ req'[u] = req[u] /\ resp'[u] = resp[u]
        /\ draft'[u] = draft[u] /\ page'[u] = page[u] /\ flight'[u] = flight[u]
    BY <1>3
  <2>2. SureOK(u)'
    <3>1. CASE flight[u].sure /\ req[u].op = "follow"
      <4>1. PICK edge : edge = Edge(req[u])
        OBVIOUS
      <4>2. /\ edge \in Edges /\ NoUnfollow(edge)
            /\ pc[u] = "done" /\ resp[u] = "ok" => Lasting(edge)
        BY <3>1, <4>1 DEF SureOK
      <4>3. /\ NoUnfollow(edge)'
            /\ pc[u] = "done" /\ resp[u] = "ok" => Lasting(edge)'
        BY <1>5, <4>2
      <4>4. Edge(req'[u]) = edge
        BY <2>1, <4>1
      <4> QED
        BY <2>1, <4>2, <4>3, <4>4 DEF SureOK, Lasting, NoUnfollow, Edge, Edges
    <3>2. CASE ~(flight[u].sure /\ req[u].op = "follow")
      BY <2>1, <3>2 DEF SureOK
    <3> QED  BY <3>1, <3>2
  <2>7. GoneOK(u)'
    <3>1. CASE flight[u].sure /\ req[u].op = "unfollow"
      <4>1. PICK edge : edge = Edge(req[u])
        OBVIOUS
      <4>2. /\ edge \in Edges /\ NoFollow(edge)
            /\ pc[u] = "done" /\ resp[u] = "ok" => Absent(edge)
        BY <3>1, <4>1 DEF GoneOK
      <4>3. /\ NoFollow(edge)'
            /\ pc[u] = "done" /\ resp[u] = "ok" => Absent(edge)'
        BY <1>5, <4>2
      <4>4. Edge(req'[u]) = edge
        BY <2>1, <4>1
      <4> QED
        BY <2>1, <4>2, <4>3, <4>4 DEF GoneOK, Absent, NoFollow, Edge, Edges
    <3>2. CASE ~(flight[u].sure /\ req[u].op = "unfollow")
      BY <2>1, <3>2 DEF GoneOK
    <3> QED  BY <3>1, <3>2
  <2>8. BarredOK(u)'
    <3>1. SUFFICES ASSUME pc[u] = "called", req[u].op = "home_timeline",
                          NEW g \in flight[u].barred
                   PROVE  g # req[u].who /\ Absent(<<req[u].who, g>>)'
      BY <2>1 DEF BarredOK, Absent, NoFollow, Edge
    <3>2. PICK edge : edge = <<req[u].who, g>>
      OBVIOUS
    <3>3. g # req[u].who /\ Absent(edge)'
      BY <1>5, <3>1, <3>2 DEF BarredOK
    <3> QED  BY <2>1, <3>2, <3>3 DEF Absent, NoFollow, Edge
  <2>3. OwedOK(u)'
    <3>1. SUFFICES ASSUME pc[u] = "called", req[u].op = "home_timeline",
                          NEW w \in flight[u].owed
                   PROVE  /\ w \in StoredTweets'
                          /\ \/ w.author = req[u].who
                             \/ Lasting(<<req[u].who, w.author>>)'
      BY <2>1 DEF OwedOK, Lasting, NoUnfollow, Edge
    <3>2. /\ w \in StoredTweets
          /\ w.author = req[u].who \/ Lasting(<<req[u].who, w.author>>)
      BY <3>1 DEF OwedOK
    <3>3. PICK edge : edge = <<req[u].who, w.author>>
      OBVIOUS
    <3>4. Lasting(edge) => Lasting(edge)'
      BY <1>5
    <3> QED  BY <1>2, <2>1, <3>2, <3>3, <3>4 DEF Lasting, NoUnfollow, Edge
  <2>4. ReadOK(u)'
    BY <2>1 DEF ReadOK
  <2>5. AnsweredOK(u)'
    BY <1>2, <2>1 DEF AnsweredOK, TweetOf
  <2>6. PageOK(u)'
    BY <1>2, <2>1 DEF PageOK
  <2> QED  BY <2>2, <2>3, <2>4, <2>5, <2>6, <2>7, <2>8
<1> QED  BY <1>1, <1>4, <1>6, <1>7, <1>8 DEF WebInv

LEMMA LoseStep ==
  ASSUME WebInv, NEW t \in Threads, Lose(t) PROVE WebInv'
<1>1. UNCHANGED <<boot, secret, cookie, posted, following, severed>>
  BY DEF Lose, historyVars
<1>2. SessionsOK'
  BY <1>1 DEF WebInv, SessionsOK
<1> QED  BY <1>1, <1>2, EndStep DEF Lose, WebInv, HistoryOK

\* What the answer tells the client is so, and lasts.
LEMMA DeliverStep ==
  ASSUME WebInv, NEW t \in Threads, Deliver(t) PROVE WebInv'
<1>1. pc[t] = "done" /\ req[t] \in Request
  BY DEF Deliver, Return, WebInv, ServiceInv, TypeInv, ControlOK
<1>2. flight[t] \in FlightType
  BY <1>1 DEF WebInv, FlightsOK
<1>3. SessionsOK'
  <2>1. flight[t].from \in Browsers
    BY <1>2 DEF FlightType
  <2>2. Sign(req[t].who) \in [handle : Handles, key : Keys \cup 0..MaxBoot]
    BY <1>1, SignType DEF WebInv, Request
  <2>3. cookie' = [cookie EXCEPT ![flight[t].from] = Sign(req[t].who)]
          \/ cookie' = cookie
    BY DEF Deliver
  <2> QED  BY <2>1, <2>2, <2>3 DEF Deliver, WebInv, SessionsOK
<1>4. posted' \subseteq StoredTweets
  <2>1. Shown(t) \subseteq StoredTweets
    BY DEF Shown, WebInv, ThreadOK, PageOK
  <2>2. req[t].op = "post_tweet" /\ resp[t] = "ok" => TweetOf(t) \in StoredTweets
    BY <1>1 DEF WebInv, ThreadOK, AnsweredOK
  <2> QED  BY <2>1, <2>2 DEF Deliver, Learn, WebInv, HistoryOK
<1>5. /\ following' \subseteq Edges /\ \A edge \in following' : Lasting(edge)
      /\ severed' \subseteq Edges /\ \A edge \in severed' : Absent(edge)
  <2>0. PICK edge : edge = Edge(req[t])
    OBVIOUS
  <2>1. Settled(t, "follow") => edge \in Edges /\ Lasting(edge)
    BY <1>1, <2>0 DEF Settled, WebInv, ThreadOK, SureOK
  <2>2. Settled(t, "unfollow") => edge \in Edges /\ Absent(edge)
    BY <1>1, <2>0 DEF Settled, WebInv, ThreadOK, GoneOK
  <2>3. /\ following' = IF Settled(t, "follow") THEN following \cup {edge}
                        ELSE following
        /\ severed' = IF Settled(t, "unfollow") THEN severed \cup {edge}
                      ELSE severed
    BY <2>0 DEF Deliver, Learn
  <2> QED  BY <2>1, <2>2, <2>3 DEF WebInv, HistoryOK
<1> QED  BY <1>3, <1>4, <1>5, EndStep DEF Deliver

\* A process that has served nothing.
LEMMA FreshInv ==
  ASSUME Init, SessionsOK, flight = [t \in Threads |-> NoFlight],
         posted = {}, following = {}, severed = Edges
  PROVE  WebInv
<1>1. TypeInv
  BY TypeInit
<1>2. TweetSlots = {} /\ Drawn("post_tweet") = {}
  BY DEF Init, StoreInit, TweetSlots, Slots, Drawn
<1>3. ServiceInv
  BY <1>1, <1>2 DEF ServiceInv, UniqueTweetIds, NoOrphans, Init, StoreInit
<1>4. \A t \in Threads : pc[t] = "idle" /\ flight[t] = NoFlight /\ page[t] = <<>>
  BY DEF Init
<1>5. FlightsOK
  BY <1>4 DEF FlightsOK
<1>6. HistoryOK
  <2>1. \A u \in Threads : req[u].op # "follow"
    BY DEF Init, NoRequest
  <2>2. \A edge \in Edges : Absent(edge)
    BY <2>1 DEF Init, StoreInit, Edges, Absent, NoFollow
  <2> QED  BY <2>2 DEF HistoryOK
<1>7. \A t \in Threads : ThreadOK(t)
  BY <1>4 DEF ThreadOK, SureOK, GoneOK, OwedOK, BarredOK, ReadOK, AnsweredOK,
              PageOK, NoFlight
<1> QED  BY <1>3, <1>5, <1>6, <1>7 DEF WebInv

Fresh ==
  /\ Init /\ SessionsOK /\ flight = [t \in Threads |-> NoFlight]
  /\ posted = {} /\ following = {} /\ severed = Edges

LEMMA FreshPrimed == (Fresh => WebInv)'
<1>1. Fresh => WebInv
  BY FreshInv DEF Fresh
<1> QED  BY <1>1, PTL

LEMMA RestartStep == ASSUME WebInv, Restart PROVE WebInv'
<1>1. Init'
  BY DEF Restart, Restarted, Init, StoreInit, Clock!Init, UserIds!Init,
         TweetIds!Init
<1>2. SessionsOK'
  <2>1. boot' \in 0..MaxBoot
    BY WebAssumption DEF Restart, WebInv, SessionsOK
  <2> QED  BY <2>1 DEF Restart, WebInv, SessionsOK
<1>3. Fresh'
  BY <1>1, <1>2 DEF Fresh, Restart
<1> QED  BY <1>3, FreshPrimed

LEMMA WebStep == ASSUME WebInv, [WebNext]_webVars PROVE WebInv'
<1>1. CASE UNCHANGED webVars
  <2>1. UNCHANGED <<vars, flight, historyVars>>
    BY <1>1 DEF webVars
  <2>2. SessionsOK'
    BY <1>1 DEF webVars, WebInv, SessionsOK
  <2> QED  BY <2>1, <2>2, SessionStep
<1>2. ASSUME NEW b \in Browsers, NEW h \in Handles,
             OpenSession(b, h)
      PROVE  WebInv'
  <2>1. Sign(h) \in [handle : Handles, key : Keys \cup 0..MaxBoot]
    BY SignType DEF WebInv
  <2>2. SessionsOK'
    BY <1>2, <2>1 DEF OpenSession, WebInv, SessionsOK
  <2>3. UNCHANGED <<vars, flight, historyVars>>
    BY <1>2 DEF OpenSession
  <2> QED  BY <2>2, <2>3, SessionStep
<1>3. ASSUME NEW b \in Browsers, CloseSession(b) PROVE WebInv'
  <2>1. SessionsOK'
    BY <1>3 DEF CloseSession, WebInv, SessionsOK
  <2>2. UNCHANGED <<vars, flight, historyVars>>
    BY <1>3 DEF CloseSession
  <2> QED  BY <2>1, <2>2, SessionStep
<1>4. ASSUME NEW t \in Threads,
             \/ \E b \in Browsers, f \in Forms : Serve(t, b, f)
             \/ Work(t) \/ Deliver(t) \/ Lose(t)
      PROVE  WebInv'
  BY <1>4, ServeStep, WorkStep, DeliverStep, LoseStep
<1>5. CASE Restart
  BY <1>5, RestartStep
<1> QED  BY <1>1, <1>2, <1>3, <1>4, <1>5 DEF WebNext

LEMMA WebInvariant == WebSpec => []WebInv
<1>1. WebInit => WebInv
  <2>1. WebInit => SessionsOK
    BY WebAssumption DEF WebInit, SessionsOK
  <2> QED  BY <2>1, FreshInv DEF WebInit
<1> QED  BY <1>1, WebStep, PTL DEF WebSpec

-----------------------------------------------------------------------------
(* The theorems.                                                           *)

\* Whatever browsers send, lose and repeat, and whenever the process
\* restarts, the state of the HTTP layer stays well typed: every thread that
\* serves has one request under way, and every cookie was signed by a key.
THEOREM WebTypeCorrect == WebSpec => []WebTypeOK
<1>1. WebInv => WebTypeOK
  <2> SUFFICES ASSUME WebInv PROVE WebTypeOK
    OBVIOUS
  <2>1. TypeOK /\ posted \subseteq Tweet
    BY StoredTweetsType DEF WebInv, ServiceInv, TypeInv, TypeOK, HistoryOK
  <2> QED  BY <2>1 DEF WebInv, WebTypeOK, SessionsOK, FlightsOK, FlightType,
                       HistoryOK
<1> QED  BY <1>1, WebInvariant, PTL

\* F4, F6, F9 behind the HTTP layer: however browsers race, and whoever a
\* cookie names, every edge and every tweet is of registered users.
THEOREM WebReferences == WebSpec => []NoOrphans
<1>1. WebInv => NoOrphans
  BY DEF WebInv, ServiceInv
<1> QED  BY <1>1, WebInvariant, PTL

\* A client reads what clients were told: a home page or timeline has every
\* tweet of the user and of whom it follows that was answered, or shown on any
\* page, before it was asked for, unless the page is full of newer ones.
THEOREM PagesStayFresh == WebSpec => []PagesAreFresh
<1>1. WebInv => PagesAreFresh
  <2> SUFFICES ASSUME WebInv, NEW t \in Threads, pc[t] = "done",
                      flight[t].route \in {"home", "timeline"},
                      NEW w \in flight[t].owed
               PROVE  Covers(page[t], req[t].limit, w)
    BY DEF PagesAreFresh, Covers
  <2>1. req[t].op = "home_timeline"
    BY DEF WebInv, FlightsOK, Operation
  <2> QED  BY <2>1 DEF WebInv, ThreadOK, ReadOK
<1> QED  BY <1>1, WebInvariant, PTL

\* And nothing of whom it no longer follows: whoever's unfollow was answered
\* before a page was asked for has no tweet on it, whatever runs beside it,
\* until a follow is sent again.
THEOREM UnfollowsHonoured == WebSpec => []UnfollowsAreHonoured
<1>1. WebInv => UnfollowsAreHonoured
  <2> SUFFICES ASSUME WebInv, NEW t \in Threads, pc[t] = "done",
                      flight[t].route \in {"home", "timeline", "profile"},
                      NEW w \in Shown(t)
               PROVE  w.author \notin flight[t].barred
    BY DEF UnfollowsAreHonoured
  <2>1. req[t].op = "home_timeline"
    BY DEF WebInv, FlightsOK, Operation
  <2>2. PICK k \in DOMAIN page[t] : w = page[t][k]
    BY DEF Shown
  <2> QED  BY <2>1, <2>2 DEF WebInv, ThreadOK, ReadOK
<1> QED  BY <1>1, WebInvariant, PTL

-----------------------------------------------------------------------------
(* The service behind the HTTP layer.                                      *)

\* What the requests do to the service, its own proofs are about; but the
\* process restarts.
LEMMA WebStepIsServiceStep ==
  ASSUME WebInv, [WebNext]_webVars PROVE [AnyNext]_vars \/ Init'
<1>1. ASSUME NEW t \in Threads, NEW b \in Browsers, NEW f \in Forms,
             Serve(t, b, f)
      PROVE  AnyNext
  <2>1. RequestOf(b, f) \in Request
    BY <1>1, RequestType DEF WebInv, Serve
  <2> QED  BY <1>1, <2>1 DEF Serve, AnyNext
<1>2. ASSUME NEW t \in Threads, Work(t) \/ Deliver(t) \/ Lose(t)
      PROVE  AnyNext
  BY <1>2 DEF Work, Deliver, Lose, AnyNext
<1>3. ASSUME NEW b \in Browsers,
             CloseSession(b) \/ \E h \in Handles : OpenSession(b, h)
      PROVE  UNCHANGED vars
  BY <1>3 DEF CloseSession, OpenSession
<1>4. CASE Restart
  BY <1>4 DEF Restart, Restarted, Init, StoreInit, Clock!Init, UserIds!Init,
              TweetIds!Init
<1>5. CASE UNCHANGED webVars
  BY <1>5 DEF webVars
<1> QED  BY <1>1, <1>2, <1>3, <1>4, <1>5 DEF WebNext

\* What the service promises, with what those promises rest on.
Promises ==
  /\ UniqueUserIds
  /\ NoTweetLost /\ PosterKnown
  /\ AckedInv
  /\ OrderInv

LEMMA PromisesInit == Init => Promises
<1> SUFFICES ASSUME Init PROVE Promises
  OBVIOUS
<1>1. /\ \A t \in Threads : pc[t] = "idle"
      /\ \A h \in Handles : users[h] = NoUser
      /\ user_ids = 0 /\ tweet_ids = 0
      /\ TweetSlots = {} /\ \A op : Drawn(op) = {}
  BY DEF Init, StoreInit, UserIds!Init, TweetIds!Init, TweetSlots, Slots, Drawn
<1>2. UniqueUserIds
  BY <1>1 DEF UniqueUserIds, HasUser, NoUser
<1>3. NoTweetLost /\ PosterKnown
  BY <1>1 DEF NoTweetLost, PosterKnown
<1>4. AckedInv /\ OrderInv
  BY <1>1 DEF AckedInv, Acked, OrderInv, TimesPast, PostOrder
<1> QED  BY <1>2, <1>3, <1>4 DEF Promises

LEMMA PromisesStep ==
  ASSUME WebInv, Promises, [WebNext]_webVars PROVE Promises'
<1>1. (Init => Promises)'
  BY PromisesInit, PTL
<1>2. CASE [AnyNext]_vars
  <2>1. TypeInv /\ UniqueTweetIds
    BY DEF WebInv, ServiceInv
  <2> QED  BY <1>2, <2>1, UserIdsStep, NoTweetLostStep, PosterKnownStep,
              AckedStep, OrderStep DEF Promises
<1> QED  BY <1>1, <1>2, WebStepIsServiceStep

\* The promises of the service hold for the clients of the server too,
\* whatever browsers send, whoever the cookies name, whichever answers are
\* lost, and in every process after a restart: ids are unique, no posted tweet
\* is lost, what is answered Ok is stored, and a tweet posted after another
\* was stored sorts above it.
THEOREM WebKeepsPromises ==
  WebSpec => [](/\ UniqueTweetIds /\ UniqueUserIds /\ NoTweetLost
                /\ AckedIsStored /\ RealTimeOrder)
<1>1. WebInit => Promises
  BY PromisesInit DEF WebInit
<1>2. WebInv /\ Promises /\ [WebNext]_webVars => Promises'
  BY PromisesStep
<1>3. WebInv /\ Promises => /\ UniqueTweetIds /\ UniqueUserIds /\ NoTweetLost
                            /\ AckedIsStored /\ RealTimeOrder
  <2>1. AckedInv => AckedIsStored
    BY DEF AckedInv, Acked, AckedIsStored
  <2>2. TypeInv /\ OrderInv => RealTimeOrder
    BY OrderShows
  <2> QED  BY <2>1, <2>2 DEF WebInv, ServiceInv, Promises
<1> QED  BY <1>1, <1>2, <1>3, WebInvariant, PTL DEF WebSpec

\* Nobody is logged out or becomes somebody else but by a request of the own
\* browser: while the key of the environment stays the same, a restart
\* included, and while the process runs, when the key is made up.
THEOREM SessionsLast == WebSpec => SessionsOutliveRestart
<1>1. [WebNext]_webVars =>
        [secret' = secret /\ (secret # NoKey \/ boot' = boot) =>
           \A b \in Browsers :
             cookie'[b] = cookie[b] => CurrentActor(b)' = CurrentActor(b)]_webVars
  BY DEF CurrentActor, SigningKey
<1> QED  BY <1>1, PTL DEF WebSpec, SessionsOutliveRestart

\* When ProfileShowsOwn fails: the page home_timeline filled is full of
\* tweets of others, each newer than all the user is known to have posted.
ProfileHidesOwn(t) ==
  /\ Len(page[t]) = req[t].limit /\ req[t].limit > 0
  /\ \A k \in DOMAIN page[t] :
       /\ page[t][k].author # req[t].who
       /\ \A w \in flight[t].owed :
            w.author = req[t].who => Newer(page[t][k], w)

ProfileMissesOnlyWhenFull ==
  \A t \in Threads :
    /\ pc[t] = "done" /\ flight[t].route = "profile"
    /\ \E w \in flight[t].owed : w.author = req[t].who
    => Shown(t) # {} \/ ProfileHidesOwn(t)

\* "@h's tweets": the profile of a user known to have posted has a tweet of
\* that user to list, unless newer tweets of others have filled the page
\* before the handler drops them; a profile never comes out empty for a race,
\* a retry, a lost answer or a restart.
THEOREM ProfilesMissOnlyWhenFull ==
  WebSpec => []ProfileMissesOnlyWhenFull
<1>1. ASSUME WebInv, NEW t \in Threads, pc[t] = "done",
             flight[t].route = "profile",
             NEW w \in flight[t].owed, w.author = req[t].who
      PROVE  Shown(t) # {} \/ ProfileHidesOwn(t)
  <2>1. req[t].op = "home_timeline"
    BY <1>1 DEF WebInv, FlightsOK, Operation
  <2>2. \A v \in flight[t].owed : Covers(page[t], req[t].limit, v)
    BY <1>1, <2>1 DEF WebInv, ThreadOK, ReadOK
  <2>3. (\E k \in DOMAIN page[t] : page[t][k].author = req[t].who)
          => Shown(t) # {}
    BY DEF Shown
  <2> QED  BY <1>1, <2>2, <2>3 DEF Covers, ProfileHidesOwn
<1>2. WebInv => ProfileMissesOnlyWhenFull
  BY <1>1 DEF ProfileMissesOnlyWhenFull
<1> QED  BY <1>2, WebInvariant, PTL

-----------------------------------------------------------------------------
(* The process behind its pages implements Twitter.                        *)

\* A call that begins, takes effect or ends moves its thread on.
LEMMA CallShows ==
  ASSUME NEW t \in Threads, NEW r,
         Abs!Call(t, r) \/ Abs!TakesEffect(t) \/ Abs!Return(t)
  PROVE  AbsCall(t)' # AbsCall(t)
<1>1. AbsCalls[t] = AbsCall(t) /\ AbsCalls'[t] = AbsCall(t)'
      /\ AbsCalls \in [Threads -> {AbsCall(u) : u \in Threads}]
  BY DEF AbsCalls
<1>2. CASE Abs!Call(t, r)
  BY <1>1, <1>2 DEF Abs!Call, AbsCalls
<1>3. CASE Abs!Return(t)
  BY <1>1, <1>3 DEF Abs!Return, AbsCalls
<1>4. CASE Abs!TakesEffect(t)
  <2>1. AbsCalls[t] = "called" /\ \E result : Abs!Done(t, result)
    BY <1>4 DEF Abs!TakesEffect, Abs!Fail, Abs!CreateUser, Abs!HasUser,
                Abs!Follows, Abs!Unfollow, Abs!PostTweet, Abs!HomeTimeline,
                Abs!Perform, Abs!Refuse, AbsCalls
  <2> QED  BY <1>1, <2>1 DEF Abs!Done, AbsCalls
<1> QED  BY <1>2, <1>3, <1>4

LEMMA ServeMaps ==
  ASSUME LinInv, SessionsOK, NEW t \in Threads, NEW b \in Browsers,
         NEW f \in Forms, Serve(t, b, f)
  PROVE  HandlerStep(t)
<1> DEFINE r == RequestOf(b, f)
<1>1. Admitted(b, f) /\ Call(t, r)
  BY DEF Serve
<1>2. r.who \in Handles
  BY <1>1, RequestType DEF Request
<1>3. r \in HandlerRequests
  <2>1. r = [op |-> Operation(f.route), who |-> r.who, whom |-> f.whom,
             blank |-> f.blank, limit |-> r.limit]
    BY DEF RequestOf
  <2>2. r.limit \in {0, PageLimit} \cup {g.limit : g \in Forms}
    BY DEF RequestOf
  <2> QED  BY <1>2, <2>1, <2>2 DEF HandlerRequests
<1>4. req'[t] = r
  BY <1>1 DEF Call, LinInv, TypeInv, TypeOK
<1>5. Abs!Call(t, r)
  BY <1>1, CallMaps DEF LinInv
<1>6. AbsCall(t)' # AbsCall(t)
  BY <1>5, CallShows
<1> QED  BY <1>3, <1>4, <1>5, <1>6 DEF HandlerStep

LEMMA FreshMaps == (Init => LinInv /\ Abs!Init)'
<1>1. Init => LinInv /\ Abs!Init
  BY LinInit, InitMaps
<1> QED  BY <1>1, PTL

LEMMA WebMaps ==
  ASSUME WebInv, LinInv, [WebNext]_webVars
  PROVE  [\/ boot' # boot /\ Abs!Init'
          \/ \E t \in Threads : HandlerStep(t)]_(Abs!vars)
<1>1. CASE UNCHANGED vars
  <2>1. UNCHANGED storeVars /\ UNCHANGED threadVars /\ now' = now
    BY <1>1 DEF vars, storeVars
  <2> QED
    BY <2>1, StillMaps DEF Abs!vars, Abs!callVars, AbsCalls, AbsAnswers, AbsGraph
<1>2. ASSUME NEW t \in Threads, NEW b \in Browsers, NEW f \in Forms,
             Serve(t, b, f)
      PROVE  HandlerStep(t)
  BY <1>2, ServeMaps DEF WebInv
<1>3. ASSUME NEW t \in Threads, Work(t)
      PROVE  HandlerStep(t) \/ UNCHANGED Abs!vars
  <2>1. Abs!TakesEffect(t) \/ UNCHANGED Abs!vars
    BY <1>3, StepMaps DEF Work
  <2> QED  BY <2>1, CallShows DEF HandlerStep
<1>4. ASSUME NEW t \in Threads, Deliver(t) \/ Lose(t) PROVE HandlerStep(t)
  <2>1. Abs!Return(t)
    BY <1>4, ReturnMaps DEF Deliver, Lose, LinInv
  <2> QED  BY <2>1, CallShows DEF HandlerStep
<1>5. CASE Restart
  <2>1. Init'
    BY <1>5 DEF Restart, Restarted, Init, StoreInit, Clock!Init, UserIds!Init,
                TweetIds!Init
  <2>2. boot' # boot
    BY <1>5, WebAssumption DEF Restart, WebInv, SessionsOK
  <2> QED  BY <2>1, <2>2, FreshMaps
<1>6. ASSUME NEW b \in Browsers,
             CloseSession(b) \/ \E h \in Handles : OpenSession(b, h)
      PROVE  UNCHANGED vars
  BY <1>6 DEF CloseSession, OpenSession
<1>7. CASE UNCHANGED webVars
  BY <1>1, <1>7 DEF webVars
<1> QED  BY <1>1, <1>2, <1>3, <1>4, <1>5, <1>6, <1>7 DEF WebNext

\* However tabs race, whatever answers are lost and whenever the process
\* restarts, what the server does to users, follows and tweets, and what it
\* answers, is what calls that take effect at one instant do, each as its
\* contract states: one for every request that reaches the service, none for
\* sessions and refused requests, and a restart begins Twitter anew.
THEOREM HandlersImplementTwitter == WebSpec => HandlersLinearizable
<1>1. WebInit => LinInv /\ Abs!Init
  BY LinInit, InitMaps DEF WebInit
<1>2. WebInv /\ LinInv /\ [WebNext]_webVars => LinInv'
  BY WebStepIsServiceStep, LinStep, FreshMaps
<1>3. WebInv /\ LinInv /\ [WebNext]_webVars
      => [\/ boot' # boot /\ Abs!Init'
          \/ \E t \in Threads : HandlerStep(t)]_(Abs!vars)
  BY WebMaps
<1> QED  BY <1>1, <1>2, <1>3, WebInvariant, PTL DEF WebSpec, HandlersLinearizable

==============================================================================
