--------------------------- MODULE WebRefinement -----------------------------
(***************************************************************************)
(* The process behind its pages implements Twitter, which every restart    *)
(* begins anew: a request that reaches the service is one call of it,      *)
(* whatever happens to browsers, their cookies and their answers.          *)
(***************************************************************************)
EXTENDS WebServer, ServiceRefinement

\* the calls that the handlers make
HandlerRequests ==
  {[op |-> Operation(f.route), who |-> h, whom |-> f.whom, blank |-> f.blank,
    limit |-> n] :
     f \in Forms, h \in Handles,
     n \in {0, PageLimit} \cup {f.limit : f \in Forms}}

HandlerStep(t) ==
  /\ AbsCall(t)' # AbsCall(t)
  /\ \/ req'[t] \in HandlerRequests /\ Abs!Call(t, req'[t])
     \/ Abs!TakesEffect(t)
     \/ Abs!Return(t)

\* What handlers and pages do to the service, and what it answers them, cannot
\* be told from calls that take effect at one instant, when tabs race, answers
\* get lost and the process restarts under them.
HandlersLinearizable ==
  /\ Abs!Init
  /\ [][\/ boot' # boot /\ Abs!Init'
        \/ \E t \in Threads : HandlerStep(t)]_(Abs!vars)
=============================================================================
