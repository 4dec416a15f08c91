------------------------------ MODULE KeyOrder ------------------------------
(***************************************************************************)
(* The order a BTreeMap is iterated in: that of its keys.                  *)
(***************************************************************************)
EXTENDS Integers, FiniteSets

\* The elements of a finite set in increasing order of their keys, which are
\* distinct numbers: the kth has k - 1 before it.
InOrder(S, key) ==
    [k \in 1 .. Cardinality(S) |->
        CHOOSE x \in S : Cardinality({y \in S : key[y] < key[x]}) = k - 1]
=============================================================================
