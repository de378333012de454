--------------------------- MODULE MCAdminServer ----------------------------
EXTENDS ServerRefinement, TLC

Calls == INSTANCE MCCalls

\* the first handle is the demo's, and posts
Star == CHOOSE h \in Handles : TRUE
ToStar == {e \in Calls!DistinctPairs : e[2] = Star}

\* the calls whose effect an earlier check or a drawn id prepares
Writers == Calls!Creates \cup Calls!Posts
           \cup Calls!Edges("follow", ToStar) \cup Calls!Edges("unfollow", ToStar)

SmallDemo == <<Calls!Ask("create_user", Star, Star, FALSE, 0),
               Calls!Ask("post_tweet", Star, Star, FALSE, 0)>>

Envelope(version, state) ==
  [json |-> TRUE, snapshot_version |-> version, state |-> state]
Empty == StateToJson(Nothing)

\* the empty state from the next version, with a field this one does not know;
\* and bodies that are turned away
HandWritten ==
  {Envelope(2, [f \in DOMAIN Empty \cup {"future_field"} |->
                  IF f \in DOMAIN Empty THEN Empty[f] ELSE 0]),
   Envelope(3, Empty), Envelope(NoVersion, Empty),
   [Envelope(1, Empty) EXCEPT !.json = FALSE],
   Envelope(1, [f \in DOMAIN Empty \ {"clock_now"} |-> Empty[f]]),
   Envelope(1, [Empty EXCEPT !.users = <<BadItem>>, !.clock_now = 1])}
=============================================================================
