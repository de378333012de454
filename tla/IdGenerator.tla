---------------------------- MODULE IdGenerator ----------------------------
(***************************************************************************)
(* crates/ids: an i64 behind a mutex.  Each method is one lock section.    *)
(***************************************************************************)
EXTENDS Naturals

VARIABLE last   \* the value last issued

Init == last = 0

\* next_id: increments under the lock; what it returns is last'
NextId == last' = last + 1

Current == last

\* set_current (trusted): overwrites the counter, the snapshot loader's hook
SetCurrent(value) == last' = value
=============================================================================
