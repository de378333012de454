------------------------- MODULE ServiceRefinement --------------------------
(***************************************************************************)
(* The service, lock section by lock section, implements Twitter.  A call  *)
(* takes effect at its last section: the store's check and write under one *)
(* lock, or the check that turns it away.                                  *)
(***************************************************************************)
EXTENDS ServiceProperties

AbsCall(t) == IF pc[t] \in {"idle", "done"} THEN pc[t] ELSE "called"

AbsAnswer(t) == IF pc[t] = "done" THEN draft[t] ELSE NoDraft

AbsCalls == [t \in Threads |-> AbsCall(t)]
AbsAnswers == [t \in Threads |-> AbsAnswer(t)]
AbsGraph == {e \in Handles \X Handles : e[2] \in follows[e[1]]}

Abs == INSTANCE Twitter WITH
  Ids        <- Nat \ {0},
  registered <- users,
  graph      <- AbsGraph,
  tweets     <- StoredTweets,
  clock      <- now,
  call       <- AbsCalls,
  answer     <- AbsAnswers

\* Every call appears to its callers to take effect at one instant, with the
\* effect and the answer its contract states: the interleaved lock sections
\* of create_user, unfollow and post_tweet cannot be told from atomic ones,
\* and every timeline is F1 and F2 of the tweets at that instant.
Linearizable == Abs!Spec
=============================================================================
