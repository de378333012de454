------------------------------ MODULE MCService -----------------------------
EXTENDS ServiceRefinement, ServiceContracts, TLC

Calls == INSTANCE MCCalls

\* a timeline of one tweet, so that two do not fit
AllCalls == Calls!EveryCall({1})
RacingPosts == Calls!Creates \cup Calls!Posts

\* handles and threads are interchangeable: no action compares or orders them
Symmetry == Permutations(Threads) \cup Permutations(Handles)
=============================================================================
