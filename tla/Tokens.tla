-------------------------------- MODULE Tokens --------------------------------
(***************************************************************************)
(* GET /api/v1/tokens: each request copies the lists of the chains it asks  *)
(* for from a package variable, fills in prices from one answer of the      *)
(* market and balances from the chains' RPC nodes, and encodes the lists    *)
(* when all is there.  Requests run concurrently; the market answers within *)
(* a timeout, the RPC nodes owe nothing.                                    *)
(***************************************************************************)
EXTENDS Naturals

CONSTANTS
  Requests,  \* the requests of one behaviour, each served by its own goroutine
  Queries,   \* the sets of comma-separated parts that chainIds may hold
  Prices, Wallets,
  NoPrice, NoWallet, BadWallet, \* no price; address is blank; not an address
  Package    \* the owner of baseTokens

ASSUME TokensInputs ==
  /\ NoPrice \notin Prices
  /\ NoWallet # BadWallet /\ {NoWallet, BadWallet} \cap Wallets = {}
  /\ Package \notin Requests
  /\ \A parts \in Queries : parts \subseteq STRING

VARIABLES
  slice,   \* owner -> chain -> its backing array of tokens
  lists,   \* request -> chain -> the owner of the slice that result holds
  query,   \* request -> the two parameters of its URL
  answer,  \* request -> market id -> the price in marketData
  pc,      \* request -> where it is
  todo,    \* request -> the chains that fillBalances has not come to
  at,      \* request -> the chain and the index it reads a balance for
  clients, \* request -> the chains whose RPC client is open
  gone,    \* the requests whose client has hung up
  reply    \* request -> the tokens it was answered

vars == <<slice, lists, query, answer, pc, todo, at, clients, gone, reply>>

-----------------------------------------------------------------------------
\* The keys of baseTokens; chainRPCs has the same.
Chains == {"1", "56"}

\* Every number is a chain id to ParseChainIDs, listed or not; "x" is none.
ParseChainIDs(parts) == parts \ {"x"}

\* Both lists of baseTokens have two tokens, the second of them USDT.
Index == 1..2

MarketIDs ==
  [c \in Chains |-> IF c = "1" THEN <<"ethereum", "tether">>
                               ELSE <<"binancecoin", "tether">>]

\* What a request may write: a balance is named by the wallet it was read for,
\* its value in USDT by the balance and the price it was calculated from.
Blank == [price |-> NoPrice, balance |-> NoWallet, usdt |-> <<NoWallet, NoPrice>>]

Token ==
  [price : Prices \cup {NoPrice}, balance : Wallets \cup {NoWallet},
   usdt : (Wallets \cup {NoWallet}) \X (Prices \cup {NoPrice})]

BaseTokens == [c \in Chains |-> [i \in Index |-> Blank]]

\* Mutant of Selected: all if none of its parts is a listed chain.
SelectedOrAll(parts) ==
  IF ParseChainIDs(parts) \cap Chains = {}
  THEN Chains ELSE ParseChainIDs(parts) \cap Chains

\* The chains a request selects: all if none of its parts is a number.
Selected(parts) ==
  IF ParseChainIDs(parts) = {} THEN Chains ELSE ParseChainIDs(parts) \cap Chains

CollectMarketIDs(chains) ==
  {MarketIDs[c][i] : c \in chains, i \in Index}

-----------------------------------------------------------------------------
Init ==
  /\ slice = [o \in Requests \cup {Package} |-> BaseTokens]
  /\ lists = [r \in Requests |-> <<>>]
  /\ query = [r \in Requests |-> [parts |-> {}, wallet |-> NoWallet]]
  /\ answer = [r \in Requests |-> <<>>]
  /\ pc = [r \in Requests |-> "idle"]
  /\ todo = [r \in Requests |-> {}]
  /\ at = [r \in Requests |-> <<"1", 1>>]
  /\ clients = [r \in Requests |-> {}]
  /\ gone = {}
  /\ reply = [r \in Requests |-> <<>>]

\* Mutant of CloneTokens: the map's slice is taken over as it is.
CloneTokensShared(r, chains) ==
  /\ lists' = [lists EXCEPT ![r] = [c \in chains |-> Package]]
  /\ UNCHANGED slice

CloneTokens(r, chains) ==
  /\ lists' = [lists EXCEPT ![r] = [c \in chains |-> r]]
  /\ slice' = [slice EXCEPT ![r] =
                 [c \in Chains |-> IF c \in chains THEN slice[Package][c] ELSE @[c]]]

\* Where List goes when the prices are in: an invalid address is found only here.
AfterPrices(wallet) ==
  CASE wallet = NoWallet -> "filled"
    [] wallet = BadWallet -> "failed"
    [] OTHER -> "dialling"

\* Without any market id SimplePrice returns an empty map and calls nobody.
Receive(r, parts, wallet) ==
  /\ pc[r] = "idle"
  /\ query' = [query EXCEPT ![r] = [parts |-> parts, wallet |-> wallet]]
  /\ CloneTokens(r, Selected(parts))
  /\ todo' = [todo EXCEPT ![r] = Selected(parts)]
  /\ pc' = [pc EXCEPT ![r] =
              IF Selected(parts) = {} THEN AfterPrices(wallet) ELSE "pricing"]
  /\ UNCHANGED <<answer, at, clients, gone, reply>>

\* The slice that r's result holds for c, with a new value for some tokens.
Write(r, c, tokens) == slice' = [slice EXCEPT ![lists[r][c]][c] = tokens]

Priced(r, data, c) ==
  [i \in Index |->
     LET token == slice[lists[r][c]][c][i]
     IN  IF MarketIDs[c][i] \in DOMAIN data
         THEN [token EXCEPT !.price = data[MarketIDs[c][i]]] ELSE token]

\* CoinGecko answers with prices for some of the ids.
MarketAnswers(r, data) ==
  /\ pc[r] = "pricing"
  /\ answer' = [answer EXCEPT ![r] = data]
  /\ slice' = [o \in DOMAIN slice |-> [c \in Chains |->
                 IF c \in DOMAIN lists[r] /\ lists[r][c] = o
                 THEN Priced(r, data, c) ELSE slice[o][c]]]
  /\ pc' = [pc EXCEPT ![r] = AfterPrices(query[r].wallet)]
  /\ UNCHANGED <<lists, query, todo, at, clients, gone, reply>>

Fail(r) ==
  /\ pc' = [pc EXCEPT ![r] = "failed"]
  /\ UNCHANGED <<slice, lists, query, answer, todo, at, gone, reply>>

\* Mutant of MarketFails: without http.Client.Timeout the wait has no end.
MarketFailsIfLeft(r) ==
  pc[r] = "pricing" /\ r \in gone /\ Fail(r) /\ UNCHANGED clients

\* http.Client.Timeout, a status outside 2xx, a body that is no JSON, or a
\* cancelled context.
MarketFails(r) == pc[r] = "pricing" /\ Fail(r) /\ UNCHANGED clients

\* Go's map iteration takes the chains in any order.
Dial(r, c) ==
  /\ pc[r] = "dialling" /\ c \in todo[r]
  /\ clients' = [clients EXCEPT ![r] = @ \cup {c}]
  /\ at' = [at EXCEPT ![r] = <<c, 1>>]
  /\ todo' = [todo EXCEPT ![r] = @ \ {c}]
  /\ pc' = [pc EXCEPT ![r] = "reading"]
  /\ UNCHANGED <<slice, lists, query, answer, gone, reply>>

DialFails(r) ==
  pc[r] = "dialling" /\ todo[r] # {} /\ Fail(r) /\ UNCHANGED clients

\* calculateEqualUSDT; without a price the value is that of NoPrice, "0".
Valued(token, wallet, base) ==
  [token EXCEPT !.balance = wallet, !.usdt = <<wallet, token.price>>]

\* queryTokenRawBalance and the writes that follow; after the last token of the
\* chain the client is closed.
Read(r) ==
  LET c == at[r][1]
      i == at[r][2]
      own == slice[lists[r][c]][c]
      last == i = 2
  IN  /\ pc[r] = "reading"
      /\ Write(r, c, [own EXCEPT ![i] =
           Valued(@, query[r].wallet, slice[Package][c][i])])
      /\ at' = IF last THEN at ELSE [at EXCEPT ![r][2] = i + 1]
      /\ clients' = IF last THEN [clients EXCEPT ![r] = @ \ {c}] ELSE clients
      /\ pc' = IF last THEN [pc EXCEPT ![r] = "dialling"] ELSE pc
      /\ UNCHANGED <<lists, query, answer, todo, gone, reply>>

\* Mutant of ReadFails: only the good path closes the client.
ReadFailsOpen(r) == pc[r] = "reading" /\ Fail(r) /\ UNCHANGED clients

ReadFails(r) ==
  pc[r] = "reading" /\ Fail(r) /\ clients' = [clients EXCEPT ![r] = @ \ {at[r][1]}]

AllFilled(r) ==
  /\ pc[r] = "dialling" /\ todo[r] = {}
  /\ pc' = [pc EXCEPT ![r] = "filled"]
  /\ UNCHANGED <<slice, lists, query, answer, todo, at, clients, gone, reply>>

\* writeSuccess encodes the slices as they are now.
Reply(r) ==
  /\ pc[r] = "filled"
  /\ reply' = [reply EXCEPT ![r] =
                 [c \in DOMAIN lists[r] |-> slice[lists[r][c]][c]]]
  /\ pc' = [pc EXCEPT ![r] = "replied"]
  /\ UNCHANGED <<slice, lists, query, answer, todo, at, clients, gone>>

Ended == {"replied", "failed"}

\* The client hangs up: net/http cancels the request's context.
HangUp(r) ==
  /\ pc[r] \notin Ended \cup {"idle"} /\ r \notin gone
  /\ gone' = gone \cup {r}
  /\ UNCHANGED <<slice, lists, query, answer, pc, todo, at, clients, reply>>

Next ==
  \E r \in Requests :
    \/ \E parts \in Queries, w \in Wallets \cup {NoWallet, BadWallet} :
         Receive(r, parts, w)
    \/ \E ids \in SUBSET CollectMarketIDs(DOMAIN lists[r]) :
         \E data \in [ids -> Prices] : MarketAnswers(r, data)
    \/ MarketFails(r)
    \/ \E c \in Chains : Dial(r, c)
    \/ DialFails(r) \/ Read(r) \/ ReadFails(r) \/ AllFilled(r) \/ Reply(r)
    \/ HangUp(r)

Spec == Init /\ [][Next]_vars

\* Mutant of Cancelled: the calls get context.Background().
CancelledNever(r) == FALSE /\ ReadFails(r)

\* Every call carries the request's context.
Cancelled(r) == r \in gone /\ ReadFails(r)

\* Goroutines run, the market's timer fires, a cancelled call returns.
Fairness ==
  \A r \in Requests :
    /\ WF_vars(\E c \in Chains : Dial(r, c))
    /\ WF_vars(MarketFails(r)) /\ WF_vars(AllFilled(r)) /\ WF_vars(Reply(r))
    /\ WF_vars(Cancelled(r))

FairSpec == Spec /\ Fairness

-----------------------------------------------------------------------------
(* Properties *)

\* A Go map of this kind of keys and values.
IsMap(f, K, V) == DOMAIN f \subseteq K /\ f \in [DOMAIN f -> V]

\* The package's list is never written: all requests read it, without a lock.
BaseTokensUntouched == slice[Package] = BaseTokens

\* Every variable holds values of its kind, and the package's list its own.
TypeOK ==
  /\ slice \in [Requests \cup {Package} -> [Chains -> [Index -> Token]]]
  /\ BaseTokensUntouched
  /\ DOMAIN lists = Requests /\ DOMAIN answer = Requests /\ DOMAIN reply = Requests
  /\ \A r \in Requests :
       /\ IsMap(lists[r], Chains, Requests)
       /\ IsMap(answer[r], CollectMarketIDs(Chains), Prices)
       /\ IsMap(reply[r], Chains, [Index -> Token])
  /\ query \in [Requests ->
       [parts : SUBSET STRING, wallet : Wallets \cup {NoWallet, BadWallet}]]
  /\ at \in [Requests -> Chains \X Index]
  /\ pc \in [Requests ->
       {"idle", "pricing", "dialling", "reading", "filled"} \cup Ended]
  /\ todo \in [Requests -> SUBSET Chains]
  /\ clients \in [Requests -> SUBSET Chains]
  /\ gone \subseteq Requests

\* A chain is listed if the request names it, or nothing that is a number.
Asked(r, c) == c \in query[r].parts \/ query[r].parts \subseteq {"x"}

\* What a request would be answered if it were alone: every token of its chains
\* with the price the market gave it, and, for a wallet, a balance of that
\* wallet with the value at that price.
Alone(r) ==
  [c \in {x \in Chains : Asked(r, x)} |-> [i \in Index |->
     LET id == MarketIDs[c][i]
         price == IF id \in DOMAIN answer[r] THEN answer[r][id] ELSE NoPrice
         w == query[r].wallet
     IN  [price |-> price, balance |-> w,
          usdt |-> <<w, IF w = NoWallet THEN NoPrice ELSE price>>]]]

\* A reply is complete and its own: whatever other requests do, and in whatever
\* order the chains are read, a request that is answered at all is answered as
\* if it were alone.
RepliesAreExact == \A r \in Requests : pc[r] = "replied" => reply[r] = Alone(r)

\* fillBalances dials one node after the other: a request holds the client of
\* the chain it reads and no other, and none once it is over.
ClientsClosed ==
  \A r \in Requests :
    clients[r] = IF pc[r] = "reading" THEN {at[r][1]} ELSE {}

\* A request for prices only always ends: the market call is all it waits for.
PriceListsEnd ==
  \A r \in Requests :
    pc[r] = "pricing" /\ query[r].wallet \notin Wallets ~> pc[r] \in Ended

\* An RPC node that never answers holds a request, and its client, only as long
\* as somebody waits for the reply.
AbandonedRequestsEnd ==
  \A r \in Requests : r \in gone ~> pc[r] \in Ended /\ clients[r] = {}

=============================================================================
