------------------------- MODULE LockedCounterProofs -------------------------
(***************************************************************************)
(* Proofs, for any threads, any width of the counter and any values set,   *)
(* that the lock sections of LockState are exclusive, that each method is  *)
(* atomic, and that ids increase as long as nothing wraps.                 *)
(***************************************************************************)
EXTENDS LockedCounter, TLAPS

-----------------------------------------------------------------------------
(* What the steps between lock and unlock know.                            *)

InSection(t) == pc[t] \in {"load", "add", "store", "unlock"}

\* r is what an increment of v makes of it
Successor(v, r) ==
  \/ v < MaxInt /\ r = v + 1
  \/ v = MaxInt /\ r = MinInt /\ build = "release"

\* the owner is alone in its section, so what it loaded is still the value
SectionOf(t) ==
  /\ owner = t <=> InSection(t)
  /\ pc[t] = "load" => method[t] # "set"
  /\ pc[t] = "add" => method[t] = "increment" /\ reg[t] = value
  /\ pc[t] = "store" => \/ method[t] = "set"
                        \/ method[t] = "increment" /\ Successor(value, reg[t])

\* the loop of set_now makes one read, then increments below its target
ErrandOf(t) ==
  /\ errand[t].alone => errand[t].active
  /\ errand[t].active /\ pc[t] # "idle" =>
       /\ method[t] # "set"
       /\ method[t] = "increment" => errand[t].cur < errand[t].target

LockInv ==
  /\ TypeOK
  /\ poisoned => owner = Nobody
  /\ \A t \in Threads : SectionOf(t)
  /\ \A t \in Threads : ErrandOf(t)

LEMMA Width ==
  /\ MaxInt \in Int /\ MinInt \in Int /\ NoId \in Int
  /\ MaxInt > 0 /\ MinInt = -MaxInt - 1 /\ NoId = MinInt - 1
  /\ \A v : v \in Int64 <=> v \in Int /\ MinInt <= v /\ v <= MaxInt
  BY LockedCounterAssumption DEF MinInt, NoId, Int64

LEMMA Zero == 0 \in Int64 /\ NoErrand \in Errands
<1>1. 0 \in Int64 /\ MinInt \in Int64
  BY Width
<1> QED  BY <1>1 DEF NoErrand, Errands

LEMMA LockInit == Init => LockInv
<1> SUFFICES ASSUME Init PROVE LockInv
  OBVIOUS
<1>1. NoErrand \in Errands
  BY Zero
<1>2. errand \in [Threads -> Errands]
  BY <1>1 DEF Init
<1>3. 0 \in Int64
  BY Zero
<1>4. TypeOK
  BY <1>2, <1>3 DEF Init, TypeOK, Labels
<1>5. \A t \in Threads : SectionOf(t) /\ ErrandOf(t)
  BY NobodyAssumption DEF Init, SectionOf, InSection, ErrandOf, NoErrand
<1> QED  BY <1>4, <1>5 DEF LockInv, Init

-----------------------------------------------------------------------------
(* Each step keeps the sections apart.                                     *)

LEMMA EnterKeeps ==
  ASSUME LockInv, NEW t \in Threads, pc[t] = "idle",
         NEW m \in {"read", "increment", "set"}, NEW v \in Int64, Enter(t, m, v),
         errand' \in [Threads -> Errands],
         \A u \in Threads \ {t} : errand'[u] = errand[u],
         errand'[t].alone => errand'[t].active,
         errand'[t].active =>
           /\ m # "set"
           /\ m = "increment" => errand'[t].cur < errand'[t].target
  PROVE  LockInv'
<1> USE DEF LockInv, TypeOK
<1>1. TypeOK'
  BY DEF Enter, lockVars, Labels
<1>2. \A u \in Threads : SectionOf(u)'
  BY DEF Enter, lockVars, SectionOf, InSection, Successor
<1>3. \A u \in Threads : ErrandOf(u)'
  BY DEF Enter, ErrandOf
<1> QED  BY <1>1, <1>2, <1>3 DEF Enter, lockVars

LEMMA LockKeeps ==
  ASSUME LockInv, NEW t \in Threads, Lock(t) PROVE LockInv'
<1> USE DEF LockInv, TypeOK
<1>1. TypeOK'
  BY DEF Lock, At, Goto, Labels, historyVars
<1>2. \A u \in Threads : SectionOf(u)'
  BY NobodyAssumption DEF Lock, At, Goto, SectionOf, InSection, Successor
<1>3. \A u \in Threads : ErrandOf(u)'
  BY DEF Lock, At, Goto, ErrandOf
<1> QED  BY <1>1, <1>2, <1>3 DEF Lock

\* the steps that only move their thread
LEMMA PanicKeeps ==
  ASSUME LockInv, NEW t \in Threads, LockPoisoned(t) PROVE LockInv'
<1> USE DEF LockInv, TypeOK
<1>1. TypeOK'
  BY DEF LockPoisoned, At, Goto, Labels, historyVars, lockVars
<1>2. \A u \in Threads : SectionOf(u)'
  BY DEF LockPoisoned, At, Goto, lockVars, SectionOf, InSection, Successor
<1>3. \A u \in Threads : ErrandOf(u)'
  BY DEF LockPoisoned, At, Goto, ErrandOf
<1> QED  BY <1>1, <1>2, <1>3 DEF LockPoisoned, lockVars

LEMMA LoadKeeps ==
  ASSUME LockInv, NEW t \in Threads, Load(t) PROVE LockInv'
<1> USE DEF LockInv, TypeOK
<1>1. TypeOK'
  BY DEF Load, At, Goto, Labels, historyVars, lockVars
<1>2. \A u \in Threads : SectionOf(u)'
  BY DEF Load, At, Goto, lockVars, SectionOf, InSection, Successor
<1>3. \A u \in Threads : ErrandOf(u)'
  BY DEF Load, At, Goto, ErrandOf
<1> QED  BY <1>1, <1>2, <1>3 DEF Load, lockVars

LEMMA AddKeeps ==
  ASSUME LockInv, NEW t \in Threads, Add(t) PROVE LockInv'
<1> USE DEF LockInv, TypeOK
<1>0. Successor(reg[t], reg'[t]) /\ reg'[t] \in Int64
  BY Width DEF Add, At, Successor
<1>1. TypeOK'
  BY <1>0 DEF Add, At, Goto, Labels, historyVars, lockVars
<1>2. \A u \in Threads : SectionOf(u)'
  BY <1>0 DEF Add, At, Goto, lockVars, SectionOf, InSection, Successor
<1>3. \A u \in Threads : ErrandOf(u)'
  BY DEF Add, At, Goto, ErrandOf
<1> QED  BY <1>1, <1>2, <1>3 DEF Add, lockVars

LEMMA OverflowKeeps ==
  ASSUME LockInv, NEW t \in Threads, AddOverflows(t) PROVE LockInv'
<1> USE DEF LockInv, TypeOK
<1>1. TypeOK'
  BY DEF AddOverflows, At, Goto, Labels, historyVars
<1>2. \A u \in Threads : SectionOf(u)'
  BY NobodyAssumption DEF AddOverflows, At, Goto, SectionOf, InSection, Successor
<1>3. \A u \in Threads : ErrandOf(u)'
  BY DEF AddOverflows, At, Goto, ErrandOf
<1> QED  BY <1>1, <1>2, <1>3 DEF AddOverflows

LEMMA StoreKeeps ==
  ASSUME LockInv, NEW t \in Threads, Store(t) PROVE LockInv'
<1> USE DEF LockInv, TypeOK
<1>0. errand' \in [Threads -> Errands]
  <2>1. \A u \in Threads : [errand[u] EXCEPT !.alone = FALSE] \in
          Errands
    BY DEF Errands
  <2> QED  BY <2>1 DEF Store
<1>1. TypeOK'
  <2>1. /\ tainted' \subseteq Threads /\ highest' \in Int64 \cup {NoId}
        /\ floor' \in [Threads -> Int64 \cup {NoId}]
    BY DEF Store, historyVars
  <2>2. /\ value' \in Int64 /\ pc' \in [Threads -> Labels]
        /\ UNCHANGED <<build, poisoned, owner, method, reg>>
    BY DEF Store, At, Goto, Labels
  <2> QED  BY <1>0, <2>1, <2>2
<1>2. \A u \in Threads : SectionOf(u)'
  BY DEF Store, At, Goto, SectionOf, InSection, Successor
<1>3. \A u \in Threads : /\ errand'[u].active = errand[u].active
                         /\ errand'[u].cur = errand[u].cur
                         /\ errand'[u].target = errand[u].target
                         /\ errand'[u].alone => errand[u].alone
  BY DEF Store, Errands
<1>4. \A u \in Threads : ErrandOf(u)'
  BY <1>3 DEF Store, At, Goto, ErrandOf
<1> QED  BY <1>1, <1>2, <1>4 DEF Store

LEMMA UnlockKeeps ==
  ASSUME LockInv, NEW t \in Threads, Unlock(t) PROVE LockInv'
<1> USE DEF LockInv, TypeOK
<1>1. TypeOK'
  BY DEF Unlock, At, Goto, Labels, historyVars
<1>2. \A u \in Threads : SectionOf(u)'
  BY NobodyAssumption DEF Unlock, At, Goto, SectionOf, InSection, Successor
<1>3. \A u \in Threads : ErrandOf(u)'
  BY DEF Unlock, At, Goto, ErrandOf
<1> QED  BY <1>1, <1>2, <1>3 DEF Unlock

LEMMA ReturnKeeps ==
  ASSUME LockInv, NEW t \in Threads, Return(t) PROVE LockInv'
<1> USE DEF LockInv, TypeOK
<1>1. /\ pc[t] \in {"returned", "panicked"}
      /\ pc' = [pc EXCEPT ![t] = "idle"]
      /\ UNCHANGED <<build, value, poisoned, owner, method, reg, tainted, floor>>
  BY DEF Return, Goto, lockVars
<1>2. highest' \in Int64 \cup {NoId}
  BY DEF Return
<1>3. /\ errand'[t] \in Errands
      /\ errand'[t].alone => errand'[t].active
  <2>1. CASE pc[t] = "panicked"
    <3>1. errand'[t] = NoErrand
      BY <2>1 DEF Return
    <3> QED  BY <3>1, Zero DEF NoErrand
  <2>2. CASE pc[t] # "panicked" /\ ~errand[t].active
    <3>1. errand' = errand
      BY <2>2 DEF Return
    <3> QED  BY <3>1 DEF ErrandOf
  <2>3. CASE pc[t] # "panicked" /\ errand[t].active
    <3>1. errand'[t] = [errand[t] EXCEPT !.cur = Counted(t)]
      BY <2>3 DEF Return
    <3>2. method[t] # "read" => errand[t].cur < errand[t].target
      BY <1>1, <2>3 DEF ErrandOf
    <3>3. errand[t].cur \in Int64 /\ errand[t].target \in Int64 /\ reg[t] \in Int64
      BY DEF Errands
    <3>4. Counted(t) \in Int64
      BY <3>2, <3>3, Width DEF Counted
    <3> QED  BY <2>3, <3>1, <3>4 DEF Errands
  <2> QED  BY <2>1, <2>2, <2>3
<1>4. /\ \A u \in Threads \ {t} : errand'[u] = errand[u]
      /\ errand' = [errand EXCEPT ![t] = errand'[t]]
  BY DEF Return
<1>5. TypeOK'
  BY <1>1, <1>2, <1>3, <1>4 DEF Labels
<1>6. \A u \in Threads : SectionOf(u)'
  BY <1>1 DEF SectionOf, InSection, Successor
<1>7. \A u \in Threads : ErrandOf(u)'
  BY <1>1, <1>3, <1>4 DEF ErrandOf
<1> QED  BY <1>1, <1>5, <1>6, <1>7

LEMMA CallKeeps ==
  ASSUME LockInv, NEW t \in Threads, Call(t) PROVE LockInv'
<1> USE DEF LockInv, TypeOK
<1>1. CASE CallRead(t) \/ CallIncrement(t)
  BY <1>1, EnterKeeps, Zero DEF CallRead, CallIncrement, ErrandOf
<1>2. ASSUME NEW v \in Settings, CallSet(t, v) PROVE LockInv'
  BY <1>2, EnterKeeps, LockedCounterAssumption DEF CallSet, ErrandOf
<1>3. ASSUME NEW v \in Settings, Advance(t, v) PROVE LockInv'
  <2>1. /\ pc[t] = "idle" /\ Enter(t, "read", 0)
        /\ errand' = [errand EXCEPT ![t] =
             [target |-> v, cur |-> MinInt, active |-> TRUE, alone |-> TRUE]]
    BY <1>3 DEF Advance
  <2>2. [target |-> v, cur |-> MinInt, active |-> TRUE, alone |-> TRUE]
          \in Errands
    BY LockedCounterAssumption, Width, Zero DEF Errands, NoErrand
  <2> QED  BY <2>1, <2>2, Zero, EnterKeeps DEF ErrandOf
<1> QED  BY <1>1, <1>2, <1>3 DEF Call

LEMMA AdvanceKeeps ==
  ASSUME LockInv, NEW t \in Threads, AdvanceTick(t) \/ AdvanceEnds(t)
  PROVE  LockInv'
<1> USE DEF LockInv, TypeOK
<1>1. CASE AdvanceTick(t)
  BY <1>1, EnterKeeps, Zero DEF AdvanceTick, ErrandOf
<1>2. CASE AdvanceEnds(t)
  <2>1. NoErrand \in Errands
    BY Zero
  <2>2. TypeOK'
    BY <1>2, <2>1 DEF AdvanceEnds, lockVars, historyVars
  <2>3. \A u \in Threads : SectionOf(u)' /\ ErrandOf(u)'
    BY <1>2 DEF AdvanceEnds, lockVars, SectionOf, InSection, Successor,
                ErrandOf, NoErrand
  <2> QED  BY <1>2, <2>2, <2>3 DEF AdvanceEnds, lockVars
<1> QED  BY <1>1, <1>2

LEMMA LockStep == ASSUME LockInv, [Next]_vars PROVE LockInv'
<1>1. CASE UNCHANGED vars
  BY <1>1 DEF vars, lockVars, historyVars, LockInv, TypeOK, SectionOf,
              InSection, Successor, ErrandOf
<1>2. ASSUME NEW t \in Threads, Call(t) \/ Acquire(t) \/ Proceed(t)
      PROVE  LockInv'
  BY <1>2, CallKeeps, LockKeeps, PanicKeeps, LoadKeeps, AddKeeps,
     OverflowKeeps, StoreKeeps, UnlockKeeps, ReturnKeeps, AdvanceKeeps
     DEF Acquire, Proceed
<1> QED  BY <1>1, <1>2 DEF Next

\* Every reachable state is well typed, with a counter within its width; only
\* the thread whose guard is alive is in a section, and what it loaded is
\* still the value.
THEOREM CounterTypeCorrect == Spec => [](TypeOK /\ LockInv)
<1>1. Spec => []LockInv
  BY LockInit, LockStep, PTL DEF Spec
<1> QED  BY <1>1, PTL DEF LockInv

-----------------------------------------------------------------------------
(* A poisoned counter.                                                     *)

\* A panic under the lock is final: no later call changes the counter or
\* returns a value, because a poisoned counter has no owner and the steps that
\* could are in the section of the owner.
THEOREM PoisonStays == Spec => PoisonIsFinal
<1>1. ASSUME LockInv, [Next]_vars, poisoned
      PROVE  /\ UNCHANGED lockVars
             /\ \A t \in Threads : pc'[t] = "returned" => pc[t] = "returned"
  <2> USE DEF LockInv, TypeOK
  <2>1. \A t \in Threads : ~InSection(t)
    BY <1>1, NobodyAssumption DEF SectionOf
  <2>2. CASE UNCHANGED vars
    BY <2>2 DEF vars
  <2>3. ASSUME NEW t \in Threads, Call(t) \/ AdvanceTick(t)
        PROVE  /\ UNCHANGED lockVars
               /\ \A u \in Threads : pc'[u] = "returned" => pc[u] = "returned"
    BY <1>1, <2>3 DEF Call, CallRead, CallIncrement, CallSet, Advance,
                      AdvanceTick, Enter
  <2>4. ASSUME NEW t \in Threads, LockPoisoned(t) \/ Return(t) \/ AdvanceEnds(t)
        PROVE  /\ UNCHANGED lockVars
               /\ \A u \in Threads : pc'[u] = "returned" => pc[u] = "returned"
    BY <1>1, <2>4 DEF LockPoisoned, Return, Goto, AdvanceEnds
  <2>5. ASSUME NEW t \in Threads
        PROVE  ~(\/ Lock(t) \/ Load(t) \/ Add(t) \/ AddOverflows(t)
                 \/ Store(t) \/ Unlock(t))
    BY <1>1, <2>1 DEF InSection, Lock, Load, Add, AddOverflows, Store, Unlock, At
  <2> QED  BY <1>1, <2>2, <2>3, <2>4, <2>5 DEF Next, Acquire, Proceed
<1> QED  BY <1>1, LockInit, LockStep, PTL DEF Spec, PoisonIsFinal

-----------------------------------------------------------------------------
(* Until something wraps, the value only grows between two sets.           *)

\* the call of t has taken effect, and no set interrupted it
Issued(t) == Effective(t) /\ method[t] = "increment" /\ t \notin tainted

\* a later id is above all that were returned, and ids are apart
Numbered ==
  /\ highest <= value
  /\ \A t \in Threads : floor[t] <= highest
  /\ \A t \in Threads : Issued(t) => floor[t] < reg[t] /\ reg[t] <= value
  /\ \A t, u \in Threads : Issued(t) /\ Issued(u) /\ reg[t] = reg[u] => t = u

\* what the loop of set_now counts is at most the clock
CountedOf(t) ==
  errand[t].alone =>
    /\ errand[t].cur <= value
    /\ Effective(t) /\ method[t] = "read" => reg[t] <= value
    /\ Effective(t) /\ method[t] = "increment" => errand[t].cur + 1 <= value

GrowthInv == Numbered /\ \A t \in Threads : CountedOf(t)

\* an increment now would not wrap: a debug build panics instead
NoWrap == value # MaxInt \/ build = "debug"

LEMMA GrowthInit == Init => GrowthInv
<1> SUFFICES ASSUME Init PROVE GrowthInv
  OBVIOUS
<1>1. Numbered
  BY Width DEF Init, Numbered, Issued, Effective
<1>2. \A t \in Threads : CountedOf(t)
  BY DEF Init, CountedOf, NoErrand
<1> QED  BY <1>1, <1>2 DEF GrowthInv

\* types as facts about single threads, for the arithmetic
LEMMA Numbers ==
  ASSUME TypeOK
  PROVE  /\ value \in Int /\ MinInt <= value /\ value <= MaxInt
         /\ highest \in Int
         /\ \A t \in Threads :
              /\ reg[t] \in Int /\ floor[t] \in Int
              /\ errand[t].cur \in Int /\ MinInt <= errand[t].cur
<1>1. \A t \in Threads : errand[t].cur \in Int64
  BY DEF TypeOK, Errands
<1>2. /\ value \in Int64 /\ highest \in Int64 \cup {NoId}
      /\ \A t \in Threads : reg[t] \in Int64 /\ floor[t] \in Int64 \cup {NoId}
  BY DEF TypeOK
<1> QED  BY <1>1, <1>2, Width

LEMMA EnterGrowth ==
  ASSUME LockInv, GrowthInv, NEW t \in Threads, NEW m, NEW v, Enter(t, m, v),
         errand'[t].alone => errand'[t].cur <= value,
         \A u \in Threads \ {t} : errand'[u] = errand[u]
  PROVE  GrowthInv'
<1> USE DEF LockInv
<1>1. /\ UNCHANGED <<value, highest>>
      /\ pc'[t] = "lock" /\ floor'[t] = highest
      /\ \A u \in Threads \ {t} :
           /\ pc'[u] = pc[u] /\ method'[u] = method[u] /\ reg'[u] = reg[u]
           /\ floor'[u] = floor[u] /\ (u \in tainted' <=> u \in tainted)
  BY DEF Enter, TypeOK, lockVars
<1>2. Numbered'
  BY <1>1, Numbers DEF GrowthInv, Numbered, Issued, Effective
<1>3. \A u \in Threads : CountedOf(u)'
  BY <1>1 DEF GrowthInv, CountedOf, Effective
<1> QED  BY <1>2, <1>3 DEF GrowthInv

\* a step that brings no call into effect, and changes no number
LEMMA QuietGrowth ==
  ASSUME LockInv, GrowthInv,
         UNCHANGED <<build, value, method, errand, historyVars>>,
         \A u \in Threads : Effective(u)' => Effective(u) /\ reg'[u] = reg[u]
  PROVE  GrowthInv'
BY DEF GrowthInv, Numbered, Issued, CountedOf, Effective, historyVars

LEMMA LoadGrowth ==
  ASSUME LockInv, GrowthInv, NEW t \in Threads, Load(t) PROVE GrowthInv'
<1> USE DEF LockInv
<1>1. /\ UNCHANGED <<value, highest, floor, tainted, method, errand>>
      /\ reg'[t] = value
      /\ Effective(t)' <=> method[t] = "read"
      /\ \A u \in Threads \ {t} : pc'[u] = pc[u] /\ reg'[u] = reg[u]
  BY DEF Load, At, Goto, TypeOK, historyVars, lockVars, Effective
<1>2. Numbered'
  BY <1>1 DEF GrowthInv, Numbered, Issued, Effective
<1>3. \A u \in Threads : CountedOf(u)'
  BY <1>1, Numbers DEF GrowthInv, CountedOf, Effective
<1> QED  BY <1>2, <1>3 DEF GrowthInv

LEMMA StoreGrowth ==
  ASSUME LockInv, GrowthInv, NoWrap, NEW t \in Threads, Store(t) PROVE GrowthInv'
<1> USE DEF LockInv
<1>1. /\ pc'[t] = "unlock" /\ pc[t] = "store"
      /\ \A u \in Threads \ {t} : pc'[u] = pc[u]
      /\ value' = reg[t] /\ UNCHANGED <<method, reg>>
  BY DEF Store, At, Goto, TypeOK
<1>2. CASE method[t] = "set"
  <2>1. /\ highest' = NoId
        /\ \A u \in Threads :
             /\ floor'[u] = NoId
             /\ u \in tainted' <=> pc[u] # "idle"
             /\ ~errand'[u].alone
    BY <1>2 DEF Store, TypeOK, Errands
  <2>2. \A u \in Threads : ~Issued(u)'
    BY <1>1, <2>1 DEF Issued, Effective
  <2>3. reg[t] \in Int /\ NoId \in Int /\ NoId <= reg[t]
    BY Width DEF TypeOK
  <2>4. Numbered'
    BY <1>1, <2>1, <2>2, <2>3 DEF Numbered
  <2> QED  BY <2>1, <2>4 DEF CountedOf, GrowthInv
<1>3. CASE method[t] # "set"
  <2>1. UNCHANGED <<highest, floor, tainted, errand>>
    BY <1>3 DEF Store, historyVars
  <2>2. method[t] = "increment" /\ reg[t] = value + 1
    BY <1>1, <1>3 DEF SectionOf, Successor, NoWrap
  <2>3. Numbered'
    BY <1>1, <2>1, <2>2, Numbers DEF GrowthInv, Numbered, Issued, Effective
  <2>4. \A u \in Threads : CountedOf(u)'
    BY <1>1, <2>1, <2>2, Numbers DEF GrowthInv, CountedOf, Effective
  <2> QED  BY <2>3, <2>4 DEF GrowthInv
<1> QED  BY <1>2, <1>3

LEMMA ReturnGrowth ==
  ASSUME LockInv, GrowthInv, NEW t \in Threads, Return(t) PROVE GrowthInv'
<1> USE DEF LockInv
<1>1. /\ UNCHANGED <<value, method, reg, tainted, floor>>
      /\ pc'[t] = "idle" /\ pc[t] \in {"returned", "panicked"}
      /\ \A u \in Threads \ {t} : pc'[u] = pc[u]
      /\ highest' = IF Issued(t) /\ reg[t] > highest THEN reg[t] ELSE highest
  BY DEF Return, Goto, TypeOK, lockVars, Issued, Effective
<1>2. highest <= highest' /\ highest' <= value /\ highest' \in Int
  BY <1>1, Numbers DEF GrowthInv, Numbered
<1>3. Numbered'
  BY <1>1, <1>2, Numbers DEF GrowthInv, Numbered, Issued, Effective
<1>4. /\ errand'[t].alone =>
           /\ pc[t] = "returned" /\ errand[t].alone
           /\ errand'[t].cur = Counted(t)
      /\ \A u \in Threads \ {t} : errand'[u] = errand[u]
  <2>1. CASE pc[t] = "panicked"
    BY <2>1 DEF Return, NoErrand, TypeOK
  <2>2. CASE pc[t] # "panicked" /\ ~errand[t].active
    BY <2>2 DEF Return, ErrandOf
  <2>3. CASE pc[t] # "panicked" /\ errand[t].active
    BY <1>1, <2>3 DEF Return, TypeOK, Errands
  <2> QED  BY <2>1, <2>2, <2>3
<1>5. CountedOf(t)'
  <2> SUFFICES ASSUME errand'[t].alone PROVE errand'[t].cur <= value
    BY <1>1 DEF CountedOf, Effective
  <2>1. errand[t].active /\ method[t] # "set" /\ Effective(t)
    BY <1>1, <1>4 DEF ErrandOf, Effective
  <2> QED  BY <1>4, <2>1 DEF GrowthInv, CountedOf, Counted, TypeOK
<1>6. \A u \in Threads \ {t} : CountedOf(u)'
  BY <1>1, <1>4 DEF GrowthInv, CountedOf, Effective
<1> QED  BY <1>3, <1>5, <1>6 DEF GrowthInv

LEMMA GrowthStep ==
  ASSUME LockInv, GrowthInv, NoWrap, [Next]_vars PROVE GrowthInv'
<1> USE DEF LockInv
<1>1. CASE UNCHANGED vars
  BY <1>1, QuietGrowth DEF vars, historyVars, lockVars, Effective
<1>2. ASSUME NEW t \in Threads, Call(t) \/ AdvanceTick(t) PROVE GrowthInv'
  <2>1. CASE \/ CallRead(t) \/ CallIncrement(t)
             \/ \E v \in Settings : CallSet(t, v)
    BY <2>1, EnterGrowth DEF CallRead, CallIncrement, CallSet, ErrandOf
  <2>2. CASE AdvanceTick(t)
    <3>1. errand[t].alone => errand[t].cur <= value
      BY DEF GrowthInv, CountedOf
    <3> QED  BY <2>2, <3>1, EnterGrowth DEF AdvanceTick
  <2>3. ASSUME NEW v \in Settings, Advance(t, v) PROVE GrowthInv'
    <3>1. errand'[t].cur = MinInt /\ \A u \in Threads \ {t} : errand'[u] = errand[u]
      BY <2>3 DEF Advance, TypeOK
    <3>2. MinInt <= value
      BY Numbers
    <3> QED  BY <2>3, <3>1, <3>2, EnterGrowth DEF Advance
  <2> QED  BY <1>2, <2>1, <2>2, <2>3 DEF Call
<1>3. ASSUME NEW t \in Threads,
             \/ Lock(t) \/ LockPoisoned(t) \/ Add(t) \/ AddOverflows(t)
             \/ Unlock(t)
      PROVE  GrowthInv'
  <2>1. UNCHANGED <<build, value, method, errand, historyVars>>
    BY <1>3 DEF Lock, LockPoisoned, Add, AddOverflows, Unlock, lockVars
  <2>2. \A u \in Threads : Effective(u)' => Effective(u) /\ reg'[u] = reg[u]
    BY <1>3 DEF Lock, LockPoisoned, Add, AddOverflows, Unlock, At, Goto,
                Effective, TypeOK
  <2> QED  BY <2>1, <2>2, QuietGrowth
<1>4. ASSUME NEW t \in Threads, AdvanceEnds(t) PROVE GrowthInv'
  <2>1. UNCHANGED <<build, value, pc, method, reg, historyVars>>
    BY <1>4 DEF AdvanceEnds, lockVars
  <2>2. \A u \in Threads : errand'[u].alone => errand'[u] = errand[u]
    BY <1>4 DEF AdvanceEnds, NoErrand, TypeOK
  <2> QED  BY <2>1, <2>2 DEF GrowthInv, Numbered, Issued, CountedOf, Effective,
                             historyVars
<1> QED  BY <1>1, <1>2, <1>3, <1>4, LoadGrowth, StoreGrowth, ReturnGrowth
         DEF Next, Acquire, Proceed

\* the build is settled when the process starts
LEMMA BuildStays == ASSUME [Next]_vars PROVE build' = build
BY DEF Next, vars, Call, CallRead, CallIncrement, CallSet, Advance, Acquire,
       Lock, LockPoisoned, Proceed, Load, Add, AddOverflows, Store, Unlock,
       Return, AdvanceTick, AdvanceEnds, Enter

DebugGrowth == build = "debug" => GrowthInv

LEMMA Growth ==
  /\ Spec => [](LockInv /\ DebugGrowth)
  /\ Spec /\ []NoWrap => [](LockInv /\ GrowthInv)
<1>1. Init => DebugGrowth
  BY GrowthInit DEF DebugGrowth
<1>2. ASSUME LockInv, DebugGrowth, [Next]_vars PROVE DebugGrowth'
  <2>1. build = "debug" => NoWrap
    BY DEF NoWrap
  <2> QED  BY <1>2, <2>1, GrowthStep, BuildStays DEF DebugGrowth
<1>3. Spec => [](LockInv /\ DebugGrowth)
  BY <1>1, <1>2, LockInit, LockStep, PTL DEF Spec
<1>4. Spec /\ []NoWrap => [](LockInv /\ GrowthInv)
  BY LockInit, GrowthInit, LockStep, GrowthStep, PTL DEF Spec
<1> QED  BY <1>3, <1>4

LEMMA GrowthGives ==
  ASSUME LockInv, GrowthInv
  PROVE  /\ IdsIncrease
         /\ \A t \in Threads :
              errand[t].alone /\ pc[t] = "idle" => value >= errand[t].cur
<1>1. IdsIncrease
  BY Numbers DEF LockInv, GrowthInv, Numbered, Issued, Effective, Fresh,
                 IdsIncrease
<1>2. \A t \in Threads :
        errand[t].alone /\ pc[t] = "idle" => value >= errand[t].cur
  BY Numbers DEF LockInv, GrowthInv, CountedOf
<1> QED  BY <1>1, <1>2

\* In a debug build an id is greater than all that were returned before its
\* call began, and no two calls have the same, until the counter is set:
\* whatever the interleaving, the width and the number of threads.
THEOREM IdsAlwaysIncrease == Spec => []IdsIncreaseOrPanic
<1>1. LockInv /\ DebugGrowth => IdsIncreaseOrPanic
  BY GrowthGives DEF DebugGrowth, IdsIncreaseOrPanic
<1> QED  BY <1>1, Growth, PTL

\* The loop of the default set_now never counts past the clock, so that it
\* ends at its target or beyond unless somebody sets the clock meanwhile.
THEOREM AdvanceArrives == Spec => []AdvanceReaches
<1>1. LockInv /\ DebugGrowth => AdvanceReaches
  BY GrowthGives DEF DebugGrowth, AdvanceReaches
<1> QED  BY <1>1, Growth, PTL

\* The same of the loop in any build
AdvanceTruthful ==
  \A t \in Threads : errand[t].alone /\ pc[t] = "idle" => value >= errand[t].cur

\* When F8 holds of the deployed build: ids increase, and the loop of set_now
\* is truthful, in every execution whose counter stays below the last value.
THEOREM IdsIncreaseUnlessWrapped ==
  Spec /\ []NoWrap => [](IdsIncrease /\ AdvanceTruthful)
<1>1. LockInv /\ GrowthInv => IdsIncrease /\ AdvanceTruthful
  BY GrowthGives DEF AdvanceTruthful
<1> QED  BY <1>1, Growth, PTL

-----------------------------------------------------------------------------
(* The refinement: a method takes effect when it loads what it reads, when *)
(* it stores, or when it panics; the other steps are not seen.             *)

PhaseOf == [t \in Threads |-> Phase(t)]

ArgumentOf == [t \in Threads |-> Argument(t)]

\* what is seen of a thread by its label
LEMMA Seen ==
  ASSUME NEW t
  PROVE  /\ pc[t] = "idle" => Phase(t) = "idle" /\ Argument(t) = 0
         /\ pc[t] = "panicked" => Phase(t) = "panicked" /\ Argument(t) = 0
         /\ Effective(t) => Phase(t) = "returned" /\ Argument(t) = reg[t]
         /\ pc[t] \in {"lock", "load", "add", "store"} =>
              /\ Phase(t) = "called"
              /\ Argument(t) = IF method[t] = "set" THEN reg[t] ELSE 0
<1>1. /\ pc[t] \in {"idle", "panicked"} => Phase(t) = pc[t]
      /\ Effective(t) => Phase(t) = "returned"
      /\ pc[t] \in {"lock", "load", "add", "store"} => Phase(t) = "called"
  BY DEF Phase, Effective
<1> QED  BY <1>1 DEF Argument, Effective

LEMMA SeenNext ==
  ASSUME NEW t
  PROVE  /\ pc'[t] = "idle" => Phase(t)' = "idle" /\ Argument(t)' = 0
         /\ pc'[t] = "panicked" => Phase(t)' = "panicked" /\ Argument(t)' = 0
         /\ pc'[t] \in {"unlock", "returned"} =>
              Phase(t)' = "returned" /\ Argument(t)' = reg'[t]
         /\ pc'[t] \in {"lock", "load", "add", "store"} =>
              /\ Phase(t)' = "called"
              /\ Argument(t)' = IF method'[t] = "set" THEN reg'[t] ELSE 0
<1>1. /\ pc'[t] \in {"idle", "panicked"} => Phase(t)' = pc'[t]
      /\ pc'[t] \in {"unlock", "returned"} => Phase(t)' = "returned"
      /\ pc'[t] \in {"lock", "load", "add", "store"} => Phase(t)' = "called"
  BY DEF Phase, Effective
<1> QED  BY <1>1 DEF Argument, Effective

LEMMA AsFunctions ==
  ASSUME NEW t \in Threads, NEW q, NEW a,
         Phase(t)' = q, Argument(t)' = a,
         \A u \in Threads \ {t} :
           pc'[u] = pc[u] /\ method'[u] = method[u] /\ reg'[u] = reg[u]
  PROVE  /\ PhaseOf' = [PhaseOf EXCEPT ![t] = q]
         /\ ArgumentOf' = [ArgumentOf EXCEPT ![t] = a]
<1>1. \A u \in Threads \ {t} : Phase(u)' = Phase(u)
  BY DEF Phase, Effective
<1>2. \A u \in Threads \ {t} : Argument(u)' = Argument(u)
  BY <1>1 DEF Argument, Effective
<1> QED  BY <1>1, <1>2 DEF PhaseOf, ArgumentOf

LEMMA NotSeen ==
  ASSUME NEW t \in Threads, UNCHANGED <<build, value, poisoned, method>>,
         Phase(t)' = Phase(t), Argument(t)' = Argument(t),
         \A u \in Threads \ {t} : pc'[u] = pc[u] /\ reg'[u] = reg[u]
  PROVE  UNCHANGED Abs!vars
<1>1. /\ PhaseOf' = [PhaseOf EXCEPT ![t] = Phase(t)]
      /\ ArgumentOf' = [ArgumentOf EXCEPT ![t] = Argument(t)]
  BY AsFunctions
<1>2. PhaseOf' = PhaseOf /\ ArgumentOf' = ArgumentOf
  BY <1>1 DEF PhaseOf, ArgumentOf
<1> QED  BY <1>2 DEF Abs!vars, PhaseOf, ArgumentOf

LEMMA AbstractWidth == Abs!Int64 = Int64 /\ Abs!MinInt = MinInt
BY DEF Abs!Int64, Abs!MinInt, Int64, MinInt

LEMMA AtomicInit == Init => Abs!Init
<1> SUFFICES ASSUME Init PROVE Abs!Init
  OBVIOUS
<1>1. \A t \in Threads : Phase(t) = "idle" /\ Argument(t) = 0
  BY Seen DEF Init
<1> QED  BY <1>1 DEF Init, Abs!Init

LEMMA EnterIsCall ==
  ASSUME LockInv, NEW t \in Threads, pc[t] = "idle",
         NEW m \in {"read", "increment", "set"}, NEW v \in Int64,
         Enter(t, m, v), m # "set" => v = 0
  PROVE  Abs!Call(t, m, v)
<1> USE DEF LockInv, TypeOK
<1>1. /\ pc'[t] = "lock" /\ method'[t] = m /\ reg'[t] = v
      /\ method' = [method EXCEPT ![t] = m]
      /\ UNCHANGED <<build, value, poisoned>>
      /\ \A u \in Threads \ {t} :
           pc'[u] = pc[u] /\ method'[u] = method[u] /\ reg'[u] = reg[u]
  BY DEF Enter, lockVars
<1>2. Phase(t) = "idle" /\ Phase(t)' = "called" /\ Argument(t)' = v
  BY <1>1, Seen, SeenNext
<1>3. /\ PhaseOf' = [PhaseOf EXCEPT ![t] = "called"]
      /\ ArgumentOf' = [ArgumentOf EXCEPT ![t] = v]
  BY <1>1, <1>2, AsFunctions
<1> QED  BY <1>1, <1>2, <1>3 DEF Abs!Call, PhaseOf, ArgumentOf

\* a step that takes effect: t was called and becomes q, with argument a
LEMMA Takes ==
  ASSUME LockInv, NEW t \in Threads, NEW q, NEW a,
         pc[t] \in {"lock", "load", "add", "store"},
         Phase(t)' = q, Argument(t)' = a,
         \A u \in Threads \ {t} : pc'[u] = pc[u] /\ reg'[u] = reg[u],
         UNCHANGED method
  PROVE  /\ PhaseOf[t] = "called"
         /\ ArgumentOf[t] = IF method[t] = "set" THEN reg[t] ELSE 0
         /\ PhaseOf' = [PhaseOf EXCEPT ![t] = q]
         /\ ArgumentOf' = [ArgumentOf EXCEPT ![t] = a]
         /\ pc[t] # "lock" => ~poisoned
<1>1. PhaseOf[t] = Phase(t) /\ ArgumentOf[t] = Argument(t)
  BY DEF PhaseOf, ArgumentOf
<1>2. pc[t] # "lock" => ~poisoned
  BY NobodyAssumption DEF LockInv, SectionOf, InSection
<1> QED  BY <1>1, <1>2, Seen, AsFunctions

LEMMA LoadIsRead ==
  ASSUME LockInv, NEW t \in Threads, Load(t)
  PROVE  Abs!Read(t) \/ UNCHANGED Abs!vars
<1> USE DEF LockInv, TypeOK
<1>1. /\ pc[t] = "load" /\ reg'[t] = value
      /\ UNCHANGED <<build, value, poisoned, method>>
      /\ \A u \in Threads \ {t} : pc'[u] = pc[u] /\ reg'[u] = reg[u]
      /\ pc'[t] = IF method[t] = "read" THEN "unlock" ELSE "add"
  BY DEF Load, At, Goto, lockVars
<1>2. CASE method[t] = "read"
  <2>1. Phase(t)' = "returned" /\ Argument(t)' = value
    BY <1>1, <1>2, SeenNext
  <2>2. /\ PhaseOf[t] = "called" /\ ~poisoned
        /\ PhaseOf' = [PhaseOf EXCEPT ![t] = "returned"]
        /\ ArgumentOf' = [ArgumentOf EXCEPT ![t] = value]
    BY <1>1, <2>1, Takes
  <2> QED  BY <1>1, <1>2, <2>2
           DEF Abs!Read, Abs!Perform, Abs!Done, PhaseOf, ArgumentOf
<1>3. CASE method[t] # "read"
  <2>1. method[t] # "set"
    BY <1>1 DEF SectionOf
  <2>2. Phase(t)' = Phase(t) /\ Argument(t)' = Argument(t)
    BY <1>1, <1>3, <2>1, Seen, SeenNext
  <2> QED  BY <1>1, <2>2, NotSeen
<1> QED  BY <1>2, <1>3

LEMMA StoreIsSeen ==
  ASSUME LockInv, NEW t \in Threads, Store(t)
  PROVE  Abs!Increment(t) \/ Abs!Set(t)
<1> USE DEF LockInv, TypeOK
<1>1. /\ pc[t] = "store" /\ value' = reg[t] /\ pc'[t] = "unlock"
      /\ UNCHANGED <<build, poisoned, method, reg>>
      /\ \A u \in Threads \ {t} : pc'[u] = pc[u] /\ reg'[u] = reg[u]
  BY DEF Store, At, Goto
<1>2. Phase(t)' = "returned" /\ Argument(t)' = reg[t]
  BY <1>1, SeenNext
<1>3. /\ PhaseOf[t] = "called" /\ ~poisoned
      /\ ArgumentOf[t] = IF method[t] = "set" THEN reg[t] ELSE 0
      /\ PhaseOf' = [PhaseOf EXCEPT ![t] = "returned"]
      /\ ArgumentOf' = [ArgumentOf EXCEPT ![t] = reg[t]]
  BY <1>1, <1>2, Takes
<1>4. CASE method[t] = "set"
  BY <1>1, <1>3, <1>4
     DEF Abs!Set, Abs!Perform, Abs!Done, PhaseOf, ArgumentOf
<1>5. CASE method[t] # "set"
  <2>1. method[t] = "increment" /\ Successor(value, reg[t])
    BY <1>1, <1>5 DEF SectionOf
  <2> QED  BY <1>1, <1>3, <2>1, AbstractWidth
           DEF Abs!Increment, Abs!Perform, Abs!Done, Successor, PhaseOf,
               ArgumentOf
<1> QED  BY <1>4, <1>5

LEMMA PanicIsPanic ==
  ASSUME LockInv, NEW t \in Threads, LockPoisoned(t) \/ AddOverflows(t)
  PROVE  Abs!Panic(t)
<1> USE DEF LockInv, TypeOK
<1>1. /\ pc[t] \in {"lock", "add"} /\ pc'[t] = "panicked" /\ poisoned'
      /\ UNCHANGED <<build, value, method, reg>>
      /\ \A u \in Threads \ {t} : pc'[u] = pc[u] /\ reg'[u] = reg[u]
  BY DEF LockPoisoned, AddOverflows, At, Goto, lockVars
<1>2. Phase(t)' = "panicked" /\ Argument(t)' = 0
  BY <1>1, SeenNext
<1>3. \/ poisoned
      \/ method[t] = "increment" /\ value = MaxInt /\ build = "debug"
  BY DEF LockPoisoned, AddOverflows, At, SectionOf
<1>4. poisoned' = TRUE
  BY <1>1 DEF LockPoisoned, AddOverflows, lockVars
<1>5. /\ PhaseOf[t] = "called"
      /\ PhaseOf' = [PhaseOf EXCEPT ![t] = "panicked"]
      /\ ArgumentOf' = [ArgumentOf EXCEPT ![t] = 0]
  BY <1>1, <1>2, Takes
<1> QED  BY <1>1, <1>3, <1>4, <1>5 DEF Abs!Panic, PhaseOf, ArgumentOf

LEMMA ReturnIsReturn ==
  ASSUME LockInv, NEW t \in Threads, Return(t)
  PROVE  Abs!Return(t)
<1> USE DEF LockInv, TypeOK
<1>1. /\ pc[t] \in {"returned", "panicked"} /\ pc'[t] = "idle"
      /\ UNCHANGED <<build, value, poisoned, method, reg>>
      /\ \A u \in Threads \ {t} :
           pc'[u] = pc[u] /\ method'[u] = method[u] /\ reg'[u] = reg[u]
  BY DEF Return, Goto, lockVars
<1>2. /\ Phase(t) \in {"returned", "panicked"}
      /\ Phase(t)' = "idle" /\ Argument(t)' = 0
  BY <1>1, Seen, SeenNext DEF Effective
<1>3. /\ PhaseOf' = [PhaseOf EXCEPT ![t] = "idle"]
      /\ ArgumentOf' = [ArgumentOf EXCEPT ![t] = 0]
  BY <1>1, <1>2, AsFunctions
<1> QED  BY <1>1, <1>2, <1>3 DEF Abs!Return, PhaseOf, ArgumentOf

LEMMA QuietIsNotSeen ==
  ASSUME LockInv, NEW t \in Threads,
         Lock(t) \/ Add(t) \/ Unlock(t) \/ AdvanceEnds(t)
  PROVE  UNCHANGED Abs!vars
<1> USE DEF LockInv, TypeOK
<1>1. /\ UNCHANGED <<build, value, poisoned, method>>
      /\ \A u \in Threads \ {t} : pc'[u] = pc[u] /\ reg'[u] = reg[u]
  BY DEF Lock, Add, Unlock, AdvanceEnds, Goto, lockVars
<1>2. Phase(t)' = Phase(t) /\ Argument(t)' = Argument(t)
  <2>1. CASE Lock(t)
    BY <2>1, Seen, SeenNext DEF Lock, At, Goto
  <2>2. CASE Add(t)
    <3>1. method[t] = "increment"
      BY <2>2 DEF Add, At, SectionOf
    <3> QED  BY <2>2, <3>1, Seen, SeenNext DEF Add, At, Goto
  <2>3. CASE Unlock(t)
    BY <2>3, Seen, SeenNext DEF Unlock, At, Goto, Effective
  <2>4. CASE AdvanceEnds(t)
    BY <2>4, Seen, SeenNext DEF AdvanceEnds
  <2> QED  BY <2>1, <2>2, <2>3, <2>4
<1> QED  BY <1>1, <1>2, NotSeen

LEMMA AtomicStep ==
  ASSUME LockInv, [Next]_vars PROVE [Abs!Next]_(Abs!vars)
<1>1. CASE UNCHANGED vars
  <2>1. /\ UNCHANGED <<build, value, poisoned, method, pc, reg>>
    BY <1>1 DEF vars, lockVars
  <2> QED  BY <2>1 DEF Abs!vars, Phase, Argument, Effective
<1>2. ASSUME NEW t \in Threads, Call(t) \/ AdvanceTick(t) PROVE Abs!Next
  <2>1. \E m \in {"read", "increment", "set"}, v \in Int64 :
          pc[t] = "idle" /\ Enter(t, m, v) /\ (m # "set" => v = 0)
    BY <1>2, Zero, LockedCounterAssumption
       DEF Call, CallRead, CallIncrement, CallSet, Advance, AdvanceTick
  <2>2. \E m \in {"read", "increment", "set"}, v \in Int64 : Abs!Call(t, m, v)
    BY <2>1, EnterIsCall
  <2> QED  BY <2>2, AbstractWidth DEF Abs!Next, Abs!Methods
<1>3. ASSUME NEW t \in Threads, Acquire(t) \/ Proceed(t), ~AdvanceTick(t)
      PROVE  Abs!Next \/ UNCHANGED Abs!vars
  <2>1. CASE Lock(t) \/ Add(t) \/ Unlock(t) \/ AdvanceEnds(t)
    BY <2>1, QuietIsNotSeen
  <2>2. CASE LockPoisoned(t) \/ AddOverflows(t)
    BY <2>2, PanicIsPanic DEF Abs!Next
  <2>3. CASE Load(t)
    BY <2>3, LoadIsRead DEF Abs!Next
  <2>4. CASE Store(t)
    BY <2>4, StoreIsSeen DEF Abs!Next
  <2>5. CASE Return(t)
    BY <2>5, ReturnIsReturn DEF Abs!Next
  <2> QED  BY <1>3, <2>1, <2>2, <2>3, <2>4, <2>5 DEF Acquire, Proceed
<1> QED  BY <1>1, <1>2, <1>3 DEF Next, Acquire, Proceed

\* Each method of LockState takes effect at one instant between its call and
\* its return, for any number of threads, across overflow and poisoning: what
\* every other module takes for granted of the counters.
THEOREM MethodsAreAtomic == Spec => Atomic
<1>1. Spec => []LockInv
  BY LockInit, LockStep, PTL DEF Spec
<1> QED  BY <1>1, AtomicInit, AtomicStep, PTL DEF Spec, Atomic, Abs!Spec

\* Beneath that instant, a counter is the IdGenerator and the LogicalClock that
\* the service is modelled with: a method that is under way changes the value
\* by one next_id or tick, which returns it, or by one set, in any build until
\* a release build stands at the last value.
THEOREM CountersAreGenerators == Spec => GeneratorAndClock
<1>1. Spec => []LockInv
  BY LockInit, LockStep, PTL DEF Spec
<1>2. ASSUME LockInv, NoWrap, [Next]_vars, value' # value
      PROVE  \E t \in Threads : CounterStep(t)
  <2>1. PICK t \in Threads : Store(t)
    BY <1>2 DEF Next, vars, lockVars, Call, CallRead, CallIncrement, CallSet,
                Advance, Acquire, Lock, LockPoisoned, Proceed, Load, Add,
                AddOverflows, Unlock, Return, AdvanceTick, AdvanceEnds, Enter
  <2>2. /\ pc[t] = "store" /\ pc'[t] = "unlock" /\ value' = reg[t]
        /\ reg' = reg
    BY <1>2, <2>1 DEF Store, At, Goto, LockInv, TypeOK
  <2>3. /\ Phase(t) = "called" /\ Phase(t)' = "returned"
        /\ Argument(t)' = value'
        /\ method[t] = "set" => Argument(t) = value'
    BY <2>2, Seen, SeenNext
  <2>4. method[t] # "set" => method[t] = "increment" /\ value' = value + 1
    BY <1>2, <2>2 DEF LockInv, SectionOf, Successor, NoWrap
  <2> QED  BY <2>3, <2>4
           DEF CounterStep, Generator!NextId, Generator!SetCurrent, Clock!Tick,
               Clock!SetNow
<1>3. LockInv /\ [Next]_vars => [CounterMoves]_value
  BY <1>2 DEF CounterMoves, NoWrap
<1> QED  BY <1>1, <1>3, PTL DEF Spec, GeneratorAndClock
=============================================================================
