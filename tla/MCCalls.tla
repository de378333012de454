------------------------------- MODULE MCCalls ------------------------------
(***************************************************************************)
(* The calls the model-checked instances make.                             *)
(***************************************************************************)
EXTENDS FiniteSets
CONSTANT Handles

Ask(op, who, whom, blank, limit) ==
  [op |-> op, who |-> who, whom |-> whom, blank |-> blank, limit |-> limit]

Creates == {Ask("create_user", h, h, FALSE, 0) : h \in Handles}
Posts == {Ask("post_tweet", h, h, FALSE, 0) : h \in Handles}
Blanks == {Ask(op, h, h, TRUE, 0) : op \in {"create_user", "post_tweet"},
                                    h \in Handles}
Lookups == {Ask("has_user", h, h, FALSE, 0) : h \in Handles}
Edges(op, pairs) == {Ask(op, e[1], e[2], FALSE, 0) : e \in pairs}
Timelines(limits) == {Ask("home_timeline", h, h, FALSE, l) :
                        h \in Handles, l \in limits}

AllPairs == Handles \X Handles
DistinctPairs == {e \in AllPairs : e[1] # e[2]}

EveryCall(limits) ==
  Creates \cup Posts \cup Blanks \cup Lookups \cup Timelines(limits)
  \cup Edges("follow", AllPairs) \cup Edges("unfollow", AllPairs)
=============================================================================
