-------------------------------- MODULE Lists --------------------------------
(***************************************************************************)
(* The filter method of an array, without recursion and without an operator *)
(* as its argument, so that proofs can speak about it.                     *)
(***************************************************************************)
EXTENDS Integers, FiniteSets, Sequences

\* The place that has k of the places up to it.
NthPlace(places, k) ==
    CHOOSE n \in places : Cardinality({m \in places : m <= n}) = k

\* The elements of a list that are in a set, in the order of the list.
KeepOnly(list, kept) ==
    LET places == {n \in DOMAIN list : list[n] \in kept}
    IN  [k \in 1..Cardinality(places) |-> list[NthPlace(places, k)]]
=============================================================================
