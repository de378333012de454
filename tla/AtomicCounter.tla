--------------------------- MODULE AtomicCounter ----------------------------
(***************************************************************************)
(* What crates/ids and crates/clock promise of their LockState: an i64     *)
(* whose every method takes effect at one instant between its call and its *)
(* return.  A method that panics under the lock poisons the counter, and   *)
(* every later one panics too.  The rest of the project takes this for     *)
(* granted when it makes a lock section one action.                        *)
(***************************************************************************)
EXTENDS Integers

CONSTANTS
  Threads,
  MaxInt   \* i64::MAX

MinInt == -MaxInt - 1
Int64 == MinInt..MaxInt

Methods == {"read", "increment", "set"}

VARIABLES
  build,     \* "debug" panics on overflow, "release" wraps
  value, poisoned,
  phase,     \* of each thread: "idle", "called", "returned" or "panicked"
  method,    \* the method it calls
  argument   \* the value to set, then the value returned, 0 when neither

vars == <<build, value, poisoned, phase, method, argument>>

Init ==
  /\ build \in {"debug", "release"}
  /\ value = 0 /\ poisoned = FALSE
  /\ phase = [t \in Threads |-> "idle"]
  /\ method = [t \in Threads |-> "read"]
  /\ argument = [t \in Threads |-> 0]

Call(t, m, v) ==
  /\ phase[t] = "idle"
  /\ phase' = [phase EXCEPT ![t] = "called"]
  /\ method' = [method EXCEPT ![t] = m]
  /\ argument' = [argument EXCEPT ![t] = v]
  /\ UNCHANGED <<build, value, poisoned>>

Perform(t, m) == phase[t] = "called" /\ method[t] = m /\ ~poisoned

\* the method returns v
Done(t, v) ==
  /\ phase' = [phase EXCEPT ![t] = "returned"]
  /\ argument' = [argument EXCEPT ![t] = v]
  /\ UNCHANGED <<build, poisoned, method>>

Read(t) ==
  /\ Perform(t, "read")
  /\ Done(t, value)
  /\ UNCHANGED value

Increment(t) ==
  /\ Perform(t, "increment")
  /\ \/ value < MaxInt /\ value' = value + 1
     \/ value = MaxInt /\ build = "release" /\ value' = MinInt
  /\ Done(t, value')

Set(t) ==
  /\ Perform(t, "set")
  /\ value' = argument[t]
  /\ Done(t, argument[t])

Panic(t) ==
  /\ phase[t] = "called"
  /\ \/ poisoned
     \/ method[t] = "increment" /\ value = MaxInt /\ build = "debug"
  /\ poisoned' = TRUE
  /\ phase' = [phase EXCEPT ![t] = "panicked"]
  /\ argument' = [argument EXCEPT ![t] = 0]
  /\ UNCHANGED <<build, value, method>>

Return(t) ==
  /\ phase[t] \in {"returned", "panicked"}
  /\ phase' = [phase EXCEPT ![t] = "idle"]
  /\ argument' = [argument EXCEPT ![t] = 0]
  /\ UNCHANGED <<build, value, poisoned, method>>

Next == \E t \in Threads :
  \/ \E m \in Methods, v \in Int64 : Call(t, m, v)
  \/ Read(t) \/ Increment(t) \/ Set(t) \/ Panic(t) \/ Return(t)

Spec == Init /\ [][Next]_vars
=============================================================================
