--------------------------- MODULE TwitterProcess ----------------------------
(***************************************************************************)
(* What the process promises its operators, beside what Twitter promises   *)
(* the callers: a snapshot is the whole state at one instant, a load puts  *)
(* a whole state in its place at one instant ("atomically restore state"), *)
(* and a restart forgets everything but what operators have saved.         *)
(***************************************************************************)
EXTENDS Twitter

CONSTANT Written   \* the states operators have without having saved them

VARIABLE saved     \* the states that can be loaded

processVars == <<vars, saved>>

ProcessInit == Init /\ saved = Written

CurrentState ==
  [registered |-> registered, graph |-> graph, tweets |-> tweets,
   clock |-> clock]

Save ==
  /\ saved' = saved \cup {CurrentState}
  /\ UNCHANGED vars

Load ==
  /\ \E s \in saved :
       /\ registered' = s.registered /\ graph' = s.graph
       /\ tweets' = s.tweets /\ clock' = s.clock
  /\ UNCHANGED <<call, callVars, saved>>

\* the calls under way are lost
Restart ==
  /\ registered' = [h \in Handles |-> NoUser]
  /\ graph' = {} /\ tweets' = {} /\ clock' = 0
  /\ call' = [t \in Threads |-> "idle"]
  /\ req' = [t \in Threads |-> NoRequest]
  /\ resp' = [t \in Threads |-> "none"]
  /\ answer' = [t \in Threads |-> NoAnswer]
  /\ page' = [t \in Threads |-> <<>>]
  /\ began' = [t \in Threads |-> NotBegun]
  /\ UNCHANGED saved

ProcessNext == (Next /\ UNCHANGED saved) \/ Save \/ Load \/ Restart

ProcessSpec == ProcessInit /\ [][ProcessNext]_processVars
=============================================================================
