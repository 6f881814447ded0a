------------------------------- MODULE Orders -------------------------------
(* Sorting, by definition, so that proofs can follow it. *)
EXTENDS Integers, FiniteSets

\* The elements of a finite set in an order, a set of pairs.
Sorted(S, before) ==
    CHOOSE s \in [1 .. Cardinality(S) -> S] : \A i, j \in DOMAIN s : i < j => <<s[i], s[j]>> \in before
=============================================================================
