------------------------------- MODULE Ordered -------------------------------
(***************************************************************************)
(* The std::vector idioms of the C API that keep an order: the elements of *)
(* a finite set of indices in increasing order, and erase(remove_if(...)). *)
(* Written without recursion, so that OperatorProofs can reason about them. *)
(***************************************************************************)
EXTENDS Integers, Sequences, FiniteSets

\* The increasing enumeration of a finite set of integers.
InOrder(S) ==
  CHOOSE f \in [1..Cardinality(S) -> S] :
    \A i, j \in 1..Cardinality(S) : i < j => f[i] < f[j]

\* v.erase(std::remove_if(v.begin(), v.end(), [](x) { x is in gone }), v.end())
Erase(v, gone) ==
  LET kept == InOrder({i \in DOMAIN v : v[i] \notin gone})
  IN  [k \in DOMAIN kept |-> v[kept[k]]]
=============================================================================
