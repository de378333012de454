--------------------------- MODULE MCServiceAdmin ---------------------------
EXTENDS ServiceAdmin

Calls == INSTANCE MCCalls

Star == CHOOSE h \in Handles : TRUE
FromStar == {e \in Calls!DistinctPairs : e[1] = Star}

\* the calls whose effect an earlier check or a drawn id prepares; one user
\* follows, and posts, while a load may take either user away
Writers == Calls!Creates \cup {r \in Calls!Posts : r.who = Star}
           \cup Calls!Edges("follow", FromStar)
           \cup Calls!Edges("unfollow", FromStar)
Posters == Calls!Creates \cup Calls!Posts

\* a well-formed body of POST /_admin/load-snapshot in which a user follows itself
SelfFollowing ==
  {[clock_now |-> 0, user_ids |-> 1, tweet_ids |-> 0,
    store |-> [users |-> <<[id |-> 1, handle |-> Star]>>,
               follows |-> {[from |-> Star, to |-> Star]}, tweets |-> <<>>]]}
=============================================================================
