--------------------------- MODULE LockedCounter ----------------------------
(***************************************************************************)
(* LockState of crates/ids and crates/clock, the same code in both: an i64 *)
(* behind a std Mutex.  A method locks, loads, adds, stores and unlocks;   *)
(* the threads of the server interleave at every one of these steps.  An   *)
(* overflow panics in a debug build while the guard is alive, which        *)
(* poisons the mutex; the release build that is deployed wraps.            *)
(***************************************************************************)
EXTENDS Integers

CONSTANTS
  Threads,
  MaxInt,    \* i64::MAX
  Settings   \* the values that set_current, set_now and advance are given

MinInt == -MaxInt - 1
Int64 == MinInt..MaxInt

ASSUME LockedCounterAssumption ==
  /\ MaxInt \in Nat \ {0}
  /\ Settings \subseteq Int64

Nobody == "nobody"

ASSUME NobodyAssumption == Nobody \notin Threads

VARIABLES
  build,     \* "debug" panics on overflow, "release" wraps
  value, poisoned,
  owner,     \* the thread whose guard is alive, or Nobody
  pc,        \* where each thread is in its method
  method,    \* "read", "increment" or "set"
  reg,       \* the operand, and then the value returned
  errand,    \* of a thread in the default Clock::set_now: target and cur;
             \* alone as long as nobody else has set the clock (history)
  tainted,   \* history: the calls that a set interrupted
  highest,   \* history: the highest id returned since the last set
  floor      \* history: what it was when the call of a thread began

lockVars == <<value, poisoned, owner>>
historyVars == <<tainted, highest, floor>>
vars == <<build, lockVars, pc, method, reg, errand, historyVars>>

Errands == [target : Int64, cur : Int64, active : BOOLEAN, alone : BOOLEAN]

NoErrand == [target |-> 0, cur |-> MinInt, active |-> FALSE, alone |-> FALSE]

\* below every id
NoId == MinInt - 1

Labels == {"idle", "lock", "load", "add", "store", "unlock", "returned",
           "panicked"}

TypeOK ==
  /\ build \in {"debug", "release"}
  /\ value \in Int64 /\ poisoned \in BOOLEAN
  /\ owner \in Threads \cup {Nobody}
  /\ pc \in [Threads -> Labels]
  /\ method \in [Threads -> {"read", "increment", "set"}]
  /\ reg \in [Threads -> Int64]
  /\ errand \in [Threads -> Errands]
  /\ tainted \subseteq Threads
  /\ highest \in Int64 \cup {NoId}
  /\ floor \in [Threads -> Int64 \cup {NoId}]

Init ==
  /\ build \in {"debug", "release"}
  /\ value = 0 /\ poisoned = FALSE /\ owner = Nobody
  /\ pc = [t \in Threads |-> "idle"]
  /\ method = [t \in Threads |-> "read"]
  /\ reg = [t \in Threads |-> 0]
  /\ errand = [t \in Threads |-> NoErrand]
  /\ tainted = {} /\ highest = NoId
  /\ floor = [t \in Threads |-> NoId]

-----------------------------------------------------------------------------
(* A method is called: by a client, or by the loop of set_now below.       *)

Enter(t, m, v) ==
  /\ pc' = [pc EXCEPT ![t] = "lock"]
  /\ method' = [method EXCEPT ![t] = m]
  /\ reg' = [reg EXCEPT ![t] = v]
  /\ floor' = [floor EXCEPT ![t] = highest]
  /\ tainted' = tainted \ {t}
  /\ UNCHANGED <<build, lockVars, highest>>

CallRead(t) ==
  /\ pc[t] = "idle" /\ ~errand[t].active
  /\ Enter(t, "read", 0) /\ UNCHANGED errand

CallIncrement(t) ==
  /\ pc[t] = "idle" /\ ~errand[t].active
  /\ Enter(t, "increment", 0) /\ UNCHANGED errand

CallSet(t, v) ==
  /\ pc[t] = "idle" /\ ~errand[t].active
  /\ Enter(t, "set", v) /\ UNCHANGED errand

-----------------------------------------------------------------------------
(* The steps of a method.                                                  *)

At(t, label) == pc[t] = label

Goto(t, label) == pc' = [pc EXCEPT ![t] = label]

\* mutant: an atomic load and an atomic store instead of the lock
Lock_Free(t) ==
  /\ At(t, "lock") /\ ~poisoned
  /\ owner' = t
  /\ Goto(t, IF method[t] = "set" THEN "store" ELSE "load")
  /\ UNCHANGED <<build, value, poisoned, method, reg, errand, historyVars>>

\* mutant: takes the guard out of the PoisonError
Lock_IgnoresPoison(t) ==
  /\ At(t, "lock") /\ owner = Nobody
  /\ owner' = t
  /\ Goto(t, IF method[t] = "set" THEN "store" ELSE "load")
  /\ UNCHANGED <<build, value, poisoned, method, reg, errand, historyVars>>

Lock(t) ==
  /\ At(t, "lock") /\ owner = Nobody /\ ~poisoned
  /\ owner' = t
  /\ Goto(t, IF method[t] = "set" THEN "store" ELSE "load")
  /\ UNCHANGED <<build, value, poisoned, method, reg, errand, historyVars>>

\* .lock() returned an error: expect panics and drops the guard within it
LockPoisoned(t) ==
  /\ At(t, "lock") /\ owner = Nobody /\ poisoned
  /\ Goto(t, "panicked")
  /\ UNCHANGED <<build, lockVars, method, reg, errand, historyVars>>

Load(t) ==
  /\ At(t, "load")
  /\ reg' = [reg EXCEPT ![t] = value]
  /\ Goto(t, IF method[t] = "read" THEN "unlock" ELSE "add")
  /\ UNCHANGED <<build, lockVars, method, errand, historyVars>>

\* mutant: saturating_add, so that the last id is issued again and again
Add_Saturates(t) ==
  /\ At(t, "add")
  /\ reg' = [reg EXCEPT ![t] = IF @ = MaxInt THEN MaxInt ELSE @ + 1]
  /\ Goto(t, "store")
  /\ UNCHANGED <<build, lockVars, method, errand, historyVars>>

\* mutant: an addition that knows no width
Add_Unbounded(t) ==
  /\ At(t, "add")
  /\ reg' = [reg EXCEPT ![t] = @ + 1]
  /\ Goto(t, "store")
  /\ UNCHANGED <<build, lockVars, method, errand, historyVars>>

Add(t) ==
  /\ At(t, "add")
  /\ reg[t] = MaxInt => build = "release"
  /\ reg' = [reg EXCEPT ![t] = IF @ = MaxInt THEN MinInt ELSE @ + 1]
  /\ Goto(t, "store")
  /\ UNCHANGED <<build, lockVars, method, errand, historyVars>>

\* mutant: a checked add that lets go of the lock and tries again
AddOverflows_Retries(t) ==
  /\ At(t, "add") /\ reg[t] = MaxInt /\ build = "debug"
  /\ owner' = Nobody
  /\ Goto(t, "lock")
  /\ UNCHANGED <<build, value, poisoned, method, reg, errand, historyVars>>

\* the panic unwinds through the guard, which poisons the mutex and frees it
AddOverflows(t) ==
  /\ At(t, "add") /\ reg[t] = MaxInt /\ build = "debug"
  /\ poisoned' = TRUE /\ owner' = Nobody
  /\ Goto(t, "panicked")
  /\ UNCHANGED <<build, value, method, reg, errand, historyVars>>

\* a set starts a new numbering: what it interrupts belongs to neither
Store(t) ==
  /\ At(t, "store")
  /\ value' = reg[t]
  /\ Goto(t, "unlock")
  /\ IF method[t] = "set"
     THEN /\ tainted' = {u \in Threads : pc[u] # "idle"}
          /\ highest' = NoId
          /\ floor' = [u \in Threads |-> NoId]
          /\ errand' = [u \in Threads |-> [errand[u] EXCEPT !.alone = FALSE]]
     ELSE UNCHANGED <<historyVars, errand>>
  /\ UNCHANGED <<build, poisoned, owner, method, reg>>

Unlock(t) ==
  /\ At(t, "unlock")
  /\ owner' = Nobody
  /\ Goto(t, "returned")
  /\ UNCHANGED <<build, value, poisoned, method, reg, errand, historyVars>>

\* mutant: the loop of set_now takes its first read for a tick
Counted_TicksFirst(t) == IF method[t] = "read" /\ reg[t] < MaxInt
                         THEN reg[t] + 1 ELSE reg[t]

\* what the loop of set_now makes of the answer to its read or its tick
Counted(t) == IF method[t] = "read" THEN reg[t] ELSE errand[t].cur + 1

\* the caller has the value, or the panic
Return(t) ==
  /\ pc[t] \in {"returned", "panicked"}
  /\ Goto(t, "idle")
  /\ highest' = IF /\ pc[t] = "returned" /\ method[t] = "increment"
                   /\ t \notin tainted /\ reg[t] > highest
                THEN reg[t] ELSE highest
  /\ errand' = IF pc[t] = "panicked"
               THEN [errand EXCEPT ![t] = NoErrand]
               ELSE IF errand[t].active
               THEN [errand EXCEPT ![t].cur = Counted(t)]
               ELSE errand
  /\ UNCHANGED <<build, lockVars, method, reg, tainted, floor>>

-----------------------------------------------------------------------------
(* Clock::set_now as the trait gives it: reads the clock once, then ticks  *)
(* and counts on its own.                                                  *)

Advance(t, target) ==
  /\ pc[t] = "idle" /\ ~errand[t].active
  /\ Enter(t, "read", 0)
  /\ errand' = [errand EXCEPT ![t] =
                  [target |-> target, cur |-> MinInt,
                   active |-> TRUE, alone |-> TRUE]]

AdvanceTick(t) ==
  /\ pc[t] = "idle" /\ errand[t].active
  /\ errand[t].cur < errand[t].target
  /\ Enter(t, "increment", 0) /\ UNCHANGED errand

AdvanceEnds(t) ==
  /\ pc[t] = "idle" /\ errand[t].active
  /\ errand[t].cur >= errand[t].target
  /\ errand' = [errand EXCEPT ![t] = NoErrand]
  /\ UNCHANGED <<build, lockVars, pc, method, reg, historyVars>>

-----------------------------------------------------------------------------
Acquire(t) == Lock(t) \/ LockPoisoned(t)

Proceed(t) ==
  \/ Load(t) \/ Add(t) \/ AddOverflows(t) \/ Store(t) \/ Unlock(t)
  \/ Return(t) \/ AdvanceTick(t) \/ AdvanceEnds(t)

Call(t) ==
  \/ CallRead(t) \/ CallIncrement(t)
  \/ \E v \in Settings : CallSet(t, v) \/ Advance(t, v)

Next == \E t \in Threads : Call(t) \/ Acquire(t) \/ Proceed(t)

Spec == Init /\ [][Next]_vars

\* a thread in a method runs on; one that waits for the lock while others
\* take it again and again gets it in the end
Fairness == \A t \in Threads : WF_vars(Proceed(t)) /\ SF_vars(Acquire(t))

FairSpec == Spec /\ Fairness

-----------------------------------------------------------------------------
(* Properties.                                                             *)

Fresh(t) == pc[t] = "returned" /\ method[t] = "increment" /\ t \notin tainted

\* F8, "Always strictly greater than the previous return": an id is greater
\* than any that was returned before its call began, and no two calls have the
\* same, until a load sets the counter.
IdsIncrease ==
  \A t \in Threads : Fresh(t) =>
    /\ reg[t] > floor[t]
    /\ \A u \in Threads : Fresh(u) /\ reg[u] = reg[t] => u = t

\* In a debug build that holds up to the last value there is: no overflow
\* hands out an id, it ends in a panic.
IdsIncreaseOrPanic == build = "debug" => IdsIncrease

\* "Slow but correct": the loop of the default set_now, which counts on its own
\* and takes the lock anew for each tick, never believes the clock to be ahead
\* of what it reads, whatever ticks beside it; so it ends at the target or
\* past it, unless somebody sets the clock meanwhile.
AdvanceReaches ==
  \A t \in Threads :
    build = "debug" /\ errand[t].alone /\ pc[t] = "idle" => value >= errand[t].cur

\* A panic under the lock is final: no later call changes the counter, or
\* returns a value of it.
PoisonIsFinal ==
  [][poisoned => /\ UNCHANGED lockVars
                 /\ \A t \in Threads : pc'[t] = "returned" => pc[t] = "returned"
    ]_vars

\* Every call of a method is answered or panics: no path out of a lock
\* section, the panic included, keeps the lock.
EveryMethodEnds ==
  \A t \in Threads : pc[t] = "lock" ~> pc[t] \in {"returned", "panicked"}

\* the threads whose method has taken effect
Effective(t) == pc[t] \in {"unlock", "returned"}

Phase(t) == CASE pc[t] \in {"idle", "panicked"} -> pc[t]
              [] Effective(t)                   -> "returned"
              [] OTHER                          -> "called"

Argument(t) == IF Effective(t) \/ (Phase(t) = "called" /\ method[t] = "set")
               THEN reg[t] ELSE 0

Abs == INSTANCE AtomicCounter WITH
  phase    <- [t \in Threads |-> Phase(t)],
  argument <- [t \in Threads |-> Argument(t)]

\* Each method of LockState takes effect at one instant between its call and
\* its return, in every build, across overflow and poisoning: the steps from
\* load to store are never seen, the atomicity all other modules build on.
Atomic == Abs!Spec

Generator == INSTANCE IdGenerator  WITH last <- value
Clock     == INSTANCE LogicalClock WITH time <- value

\* one next_id or tick of t, which returns the new value, or one set_current or
\* set_now, at an instant of a call that is under way
CounterStep(t) ==
  /\ Phase(t) = "called" /\ Phase(t)' = "returned"
  /\ Argument(t)' = value'
  /\ \/ method[t] = "increment" /\ Generator!NextId /\ Clock!Tick
     \/ /\ method[t] = "set"
        /\ Generator!SetCurrent(Argument(t)) /\ Clock!SetNow(Argument(t))

CounterMoves ==
  value # MaxInt \/ build = "debug" => \E t \in Threads : CounterStep(t)

\* What the service takes a counter for: as long as nothing wraps, its value
\* changes only by the operations of IdGenerator and LogicalClock, one at a
\* time, each within the call that asked for it and answered with the result.
GeneratorAndClock == [][CounterMoves]_value
=============================================================================
