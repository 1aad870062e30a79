------------------------------- MODULE MCTokens -------------------------------
(* Constants for checking Tokens. *)
EXTENDS Tokens

\* A listed chain and one that is not, nothing that is a number, and only a
\* chain that is not listed.
MCQueries == {{"1", "137"}, {"x"}, {"137"}}

=============================================================================
