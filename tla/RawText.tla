------------------------------- MODULE RawText -------------------------------
(***************************************************************************)
(* The strings a client sends (chain names, addresses, the X-Wallet-Address *)
(* header) and what the program's conversions do to them.  A string is a    *)
(* record: text is what remains after strings.TrimSpace and strings.ToLower;*)
(* upper says that the client's letter case differs from it, padded that    *)
(* there is white space around it.                                          *)
(***************************************************************************)

CONSTANT Texts  \* the trimmed, lower-case strings in play

ASSUME EmptyText == "" \in Texts

Raw == [text : Texts, upper : BOOLEAN, padded : BOOLEAN]

\* A lower-case string without white space around it.
Plain(text) == [text |-> text, upper |-> FALSE, padded |-> FALSE]

\* strings.TrimSpace keeps the letter case.
Trim(raw) == [raw EXCEPT !.padded = FALSE]

\* strings.TrimSpace(raw) == ""
IsBlank(raw) == raw.text = ""

\* The value of a field the client leaves out.
Absent == Plain("")

\* appapi.normalizeChain: the spellings of each chain the service names;
\* every other name is only trimmed and lowered.
ChainAliases ==
  [bsc    |-> {"bsc", "bnb", "bnb smart chain", "binance smart chain",
               "smartchain", "bnb-mainnet"},
   eth    |-> {"eth", "ethereum", "ethereum mainnet", "eth-mainnet"},
   solana |-> {"sol", "solana", "solana mainnet", "solana-mainnet"}]

NormalizeChain(raw) ==
  LET named == {c \in DOMAIN ChainAliases : raw.text \in ChainAliases[c]}
  IN  IF named = {} THEN raw.text ELSE CHOOSE c \in named : TRUE

\* appapi.UserIDForWallet: "local_" and a hash of the trimmed, lowered address.
\* The 8-byte prefix of SHA-256 is taken to be free of collisions.
UserIDForWallet(wallet) == <<"local_", wallet.text>>

=============================================================================
