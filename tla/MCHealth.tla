------------------------------- MODULE MCHealth -------------------------------
(* Constants for checking Health. *)
EXTENDS Health

\* At once, some of the budget, all of it, more.
MCLatencies == 0..4

=============================================================================
