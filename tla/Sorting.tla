------------------------------- MODULE Sorting -------------------------------
(* Sets put in order. *)
EXTENDS Integers, FiniteSets

\* The elements of a finite set by increasing key, where the keys differ.
SortedBy(S, key) ==
  CHOOSE q \in [1 .. Cardinality(S) -> S] :
    \A i, j \in 1 .. Cardinality(S) : i < j => key[q[i]] < key[q[j]]
=============================================================================
