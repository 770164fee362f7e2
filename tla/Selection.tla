------------------------------ MODULE Selection ------------------------------
(***************************************************************************)
(* The elements of a sequence that satisfy a condition, in their order:    *)
(* what retain and filter of the Rust library do.  The indices that        *)
(* satisfy it are given as a set, which, other than the standard           *)
(* SelectSeq, the proofs can reason about.                                 *)
(***************************************************************************)
EXTENDS Integers, Sequences, FiniteSets

\* How many of the numbers are not above i, and which of them is the k-th.
Rank(I, i) == Cardinality({j \in I : j <= i})
Nth(I, k) == CHOOSE i \in I : Rank(I, i) = k

\* The elements of s at the indices I.
Picked(s, I) == [k \in 1..Cardinality(I) |-> s[Nth(I, k)]]

=============================================================================
