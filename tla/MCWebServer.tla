----------------------------- MODULE MCWebServer ----------------------------
EXTENDS WebRefinement, TLC

Fill(route, who, whom, blank, limit) ==
  [route |-> route, who |-> who, whom |-> whom, blank |-> blank,
   malformed |-> FALSE, limit |-> limit]

Typed(routes, limit) ==
  {Fill(r, h, h, FALSE, limit) : r \in routes, h \in Handles}
Blank(routes) == {Fill(r, h, h, TRUE, 0) : r \in routes, h \in Handles}

Star == CHOOSE h \in Handles : TRUE

\* what a browser does for the user whose session it holds, whatever handle
\* its form names; a form that is refused before it reaches the service
Everyday ==
  Typed({"register"}, 0) \cup Blank({"register"})
  \cup {f \in Typed({"home", "compose", "timeline", "ui_follow", "ui_unfollow"}, 0) :
           f.who = Star}
  \cup {[f EXCEPT !.malformed = TRUE] : f \in Typed({"timeline"}, 0)}

\* a user follows another, both post, and somebody opens a profile
Visits == Typed({"users", "tweets", "profile"}, 0)
          \cup {Fill("follow", h, g, FALSE, 0) : h \in Handles, g \in Handles}

Symmetry == Permutations(Threads) \cup Permutations(Keys \ {NoKey})
=============================================================================
