------------------------------ MODULE AppCatalog ------------------------------
(***************************************************************************)
(* The wallet app at its start: it binds a wallet, lists the coins of a       *)
(* chain under some spelling of its name, picks one, and looks its balance up *)
(* in the token list and through the EVM service.  The three packages keep    *)
(* tables of their own that have to describe the same coin.                   *)
(***************************************************************************)
EXTENDS Enumeration, Functions, RawText

CONSTANTS
  AppWallets,  \* addresses as the app writes them
  ChainNames,  \* values of chain
  Flags        \* values of include_disabled

ASSUME QueriesAreRaw == AppWallets \cup ChainNames \cup Flags \subseteq Raw

VARIABLES
  user,    \* what bind answered: a user id, or NoUser
  asked,   \* the chain and the flag of the last question for coins, or <<>>
  list,    \* the coins that were listed
  picked,  \* the coin that the app shows, NoCoin before
  token,   \* its row of the token list, or NoRow
  asset    \* the contract that the EVM service reads for it, or "none"

appVars == <<user, asked, list, picked, token, asset>>

-----------------------------------------------------------------------------
(* Tables *)

Coin(chain, name, contract, decimal) ==
  [chain |-> chain, name |-> name, contract |-> contract, decimal |-> decimal,
   disabled |-> FALSE]

EthUSDT == "0xdAC17F958D2ee523a2206206994597C13D831ec7"
BscUSDT == "0x55d398326f99059fF775485246999027B3197955"

\* NewCatalog; a coin without a contract is the chain's own.
Catalog ==
  << Coin("bsc", "BNB", "", 18), Coin("bsc", "USDT", BscUSDT, 18),
     Coin("eth", "ETH", "", 18), Coin("eth", "USDT", EthUSDT, 6),
     Coin("solana", "SOL", "", 9) >>

Row(symbol, address, decimals) ==
  [symbol |-> symbol, address |-> address, decimals |-> decimals]

NoRow == Row("", "", 0)

\* Mutant of BaseTokens: the decimals of USDT are copied from Ethereum's.
BaseTokensCopied ==
  [eth |-> {Row("ETH", "", 18), Row("USDT", EthUSDT, 6)},
   bsc |-> {Row("BNB", "", 18), Row("USDT", BscUSDT, 6)}]

\* tokens.baseTokens of chain ids 1 and 56; the zero address is the chain's own
\* coin.
BaseTokens ==
  [eth |-> {Row("ETH", "", 18), Row("USDT", EthUSDT, 6)},
   bsc |-> {Row("BNB", "", 18), Row("USDT", BscUSDT, 18)}]

\* evm.stablecoinContracts, for the coins that the catalog has.
StablecoinContracts == [eth |-> [USDT |-> EthUSDT], bsc |-> [USDT |-> BscUSDT]]

NoCoin == Coin("", "", "", 0)
NoUser == <<>>

-----------------------------------------------------------------------------
\* strconv.ParseBool of the trimmed text; what it does not know is false.
ParseBoolQuery(raw) == raw.text \in {"1", "t", "true"}

\* Catalog.Coins: of one chain under any of its names, or of all of them.
Coins(chain, includeDisabled) ==
  LET Listed(coin) ==
        /\ coin.disabled => includeDisabled
        /\ NormalizeChain(chain) # "" =>
             NormalizeChain(Plain(coin.chain)) = NormalizeChain(chain)
  IN  ItemsAt(Catalog, {i \in DOMAIN Catalog : Listed(Catalog[i])})

AppInit ==
  /\ user = NoUser /\ asked = <<>> /\ list = <<>>
  /\ picked = NoCoin /\ token = NoRow /\ asset = "none"

\* A blank address is refused, and the app asks again.
Bind(address) ==
  /\ user = NoUser /\ ~IsBlank(address)
  /\ user' = UserIDForWallet(address)
  /\ UNCHANGED <<asked, list, picked, token, asset>>

AvailableCoins(chain, flag) ==
  /\ user # NoUser /\ picked = NoCoin
  /\ asked' = <<chain, flag>>
  /\ list' = Coins(chain, ParseBoolQuery(flag))
  /\ UNCHANGED <<user, picked, token, asset>>

Pick(coin) ==
  /\ picked = NoCoin /\ picked' = coin
  /\ UNCHANGED <<user, asked, list, token, asset>>

\* GET /api/v1/tokens for the chain of the coin.
TokenList ==
  /\ picked.chain \in DOMAIN BaseTokens /\ token = NoRow
  /\ token' \in {row \in BaseTokens[picked.chain] : row.symbol = picked.name}
  /\ UNCHANGED <<user, asked, list, picked, asset>>

\* GET /api/v1/evm/balances at a node of that chain, with asset=<coin>.
BatchBalances ==
  /\ picked.chain \in DOMAIN StablecoinContracts /\ asset = "none"
  /\ asset' = IF picked.name \in {"ETH", "BNB"} THEN ""
              ELSE StablecoinContracts[picked.chain][picked.name]
  /\ UNCHANGED <<user, asked, list, picked, token>>

AppNext ==
  \/ \E w \in AppWallets : Bind(w)
  \/ \E chain \in ChainNames, flag \in Flags : AvailableCoins(chain, flag)
  \/ \E i \in DOMAIN list : Pick(list[i])
  \/ TokenList \/ BatchBalances

AppSpec == AppInit /\ [][AppNext]_appVars

-----------------------------------------------------------------------------
(* Properties *)

\* Whatever a client calls a chain, it is shown exactly the coins of the chain
\* that the address book files that name under, and all coins for no name.
ListFitsName ==
  asked # <<>> =>
    LET name == NormalizeChain(asked[1])
    IN  Range(list) = {coin \in Range(Catalog) : name \in {"", coin.chain}}

\* Its row of the token list and the contract that the EVM service reads are
\* that coin's, with its decimals.
OneContract ==
  /\ token # NoRow =>
       token.address = picked.contract /\ token.decimals = picked.decimal
  /\ asset # "none" => asset = picked.contract

\* Whatever name of a chain the app starts from, the coin it shows and the
\* amounts it gets from the token list and from the EVM service are those of
\* one contract on that chain: the packages' tables describe the same coins.
OneCoin == ListFitsName /\ OneContract

=============================================================================
