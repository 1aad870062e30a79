------------------------------ MODULE MCNumbers ------------------------------
(* Constants for checking Numbers with integers of 16 bits. *)
EXTENDS Numbers

\* Durations that fit, that wrap to a negative number, to zero (16384 s) and
\* to a small positive one.
MCSeconds == -1..20 \cup 320..340 \cup 650..660 \cup 16380..16390
             \cup (MaxInt - 2)..(MaxInt + 1)

MCRaws == 0..30 \cup {99, 100, 101, 110, 199, 200, 250, 300}
MCDecimals == 0..2
MCPrices == {NoPrice} \cup
  {Numeral(m, 3) : m \in {1, 4, 5, 6, 44, 45, 50, 99, 100, 995, 1000, 1005}}

=============================================================================
