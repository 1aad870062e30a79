------------------------------ MODULE MCBroadcast ------------------------------
(* Constants for checking Broadcast. *)
EXTENDS Broadcast

\* Every name either package knows, one that neither does, and none.
MCTexts ==
  UNION {CodeAliases[c] : c \in DOMAIN CodeAliases}
    \cup UNION {ChainAliases[c] : c \in DOMAIN ChainAliases}
    \cup {"", "doge"}

\* A chain of the catalog by two names, Tron with its own protocol, and a chain
\* that is not supported.
FewSpellings == {Plain("bnb"), Plain("bsc"), Plain("tron"), Plain("ltc")}

=============================================================================
