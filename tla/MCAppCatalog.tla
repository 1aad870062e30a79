----------------------------- MODULE MCAppCatalog -----------------------------
(* Constants for checking AppCatalog. *)
EXTENDS AppCatalog

\* Every name of a chain that the service knows, and one without coins.
Names == UNION {ChainAliases[c] : c \in DOMAIN ChainAliases} \cup {"", "ton"}

MCTexts == Names \cup {"0xa", "true"}

MCChainNames ==
  {Plain(t) : t \in Names}
    \cup [text : {"bnb", "sol"}, upper : {TRUE}, padded : BOOLEAN]

MCAppWallets == {Absent} \cup [text : {"0xa"}, upper : BOOLEAN, padded : {FALSE}]

MCFlags == {Absent, Plain("true"), Plain("ton")}

=============================================================================
