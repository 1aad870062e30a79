----------------------------- MODULE Enumeration -----------------------------
(***************************************************************************)
(* The loops of the program that copy some elements of a slice into a new one *)
(* and keep their order, written so that facts about them can be proved: no    *)
(* recursion, and the elements are named by their positions.                  *)
(***************************************************************************)
EXTENDS Integers, FiniteSets

\* The elements of a finite set of integers, smallest first: the n-th is the one
\* that n elements do not exceed.
Ascending(S) ==
  [n \in 1..Cardinality(S) |->
     CHOOSE i \in S : Cardinality({j \in S : j <= i}) = n]

\* The elements of s at the positions I, in the order of s.
ItemsAt(s, I) ==
  LET at == Ascending(I) IN [n \in 1..Cardinality(I) |-> s[at[n]]]

=============================================================================
