------------------------------ MODULE Counting ------------------------------
(***************************************************************************)
(* Places in a file, counted: how many of them come before one, and which  *)
(* is the n-th.                                                            *)
(***************************************************************************)
EXTENDS Integers, FiniteSets

Before(S, i) == Cardinality({j \in S : j < i})
Nth(S, n) == CHOOSE i \in S : Before(S, i) = n - 1
=============================================================================
