---------------------------- MODULE LogicalClock ----------------------------
(***************************************************************************)
(* crates/clock, the Logical implementation: an i64 behind a mutex that    *)
(* moves only when something ticks it.                                     *)
(***************************************************************************)
EXTENDS Naturals

VARIABLE time

Init == time = 0

Now == time

Tick == time' = time + 1

\* set_now (trusted): one overwrite, which may move the clock backwards
SetNow(value) == time' = value
=============================================================================
