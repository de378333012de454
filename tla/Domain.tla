------------------------------- MODULE Domain -------------------------------
(***************************************************************************)
(* The value types of crates/domain.  A handle is a model value; the text  *)
(* of a tweet is left out: no code reads it back except to print it.       *)
(* Ids and timestamps are naturals: every generator and the clock start at *)
(* 0 and only increase outside the snapshot-load path.                     *)
(***************************************************************************)
EXTENDS Naturals, Sequences, FiniteSets

CONSTANT Handles   \* the non-empty handles clients use

ASSUME HandlesAssumption == IsFiniteSet(Handles)

\* ids start at 1, so 0 stands for "no such user"
NoUser == 0

Tweet == [id : Nat, author : Handles, created_at : Nat]

Follow == [from : Handles, to : Handles]

\* Follow::new: the only check is from == to (F4)
FollowNew(from, to) == IF from = to THEN "self_follow" ELSE "ok"

-----------------------------------------------------------------------------
(* Sorting, as the code does it with Vec::sort_by and sort_by_key.         *)

\* the F2 order: created_at descending, then id descending
Newer(a, b) ==
  \/ a.created_at > b.created_at
  \/ a.created_at = b.created_at /\ a.id > b.id

\* the elements of S from first to last, Before a strict total order on S
Arrange(S, Before(_, _)) ==
  [k \in 1..Cardinality(S) |->
     CHOOSE x \in S : Cardinality({y \in S : Before(y, x)}) = k - 1]

\* the orders in which a HashMap or HashSet may iterate over its keys S
Iterations(S) ==
  {f \in [S -> 1..Cardinality(S)] : \A x, y \in S : f[x] = f[y] => x = y}
=============================================================================
