----------------------------- MODULE TokensProofs -----------------------------
(* Theorems about Tokens. *)
EXTENDS Tokens, TLAPS

\* A balance is in place when fillBalances has come past the token.
Done(r, c, i) ==
  /\ query[r].wallet \in Wallets
  /\ c \notin todo[r]
  /\ pc[r] = "reading" /\ c = at[r][1] => i < at[r][2]

PriceOf(r, c, i) ==
  IF MarketIDs[c][i] \in DOMAIN answer[r] THEN answer[r][MarketIDs[c][i]] ELSE NoPrice

TokenOf(r, c, i) ==
  [price |-> PriceOf(r, c, i),
   balance |-> IF Done(r, c, i) THEN query[r].wallet ELSE NoWallet,
   usdt |-> IF Done(r, c, i) THEN <<query[r].wallet, PriceOf(r, c, i)>>
                             ELSE <<NoWallet, NoPrice>>]

\* What is so of one request, whatever the others do: where it is, ...
ControlInv(r) ==
  LET chosen == Selected(query[r].parts)
  IN  /\ pc[r] # "idle" => lists[r] = [c \in chosen |-> r]
      /\ pc[r] = "pricing" => todo[r] = chosen
      /\ pc[r] \in {"dialling", "reading"} =>
           query[r].wallet \in Wallets /\ todo[r] \subseteq chosen
      /\ pc[r] = "reading" => at[r][1] \in chosen \ todo[r]
      /\ pc[r] = "filled" =>
           query[r].wallet = NoWallet \/ (query[r].wallet \in Wallets /\ todo[r] = {})
      /\ clients[r] = IF pc[r] = "reading" THEN {at[r][1]} ELSE {}

\* ... and what is in its slices and in its reply.
ContentsInv(r) ==
  LET chosen == Selected(query[r].parts)
  IN  /\ pc[r] = "pricing" => \A c \in chosen, i \in Index : slice[r][c][i] = Blank
      /\ pc[r] \in {"dialling", "reading", "filled"} =>
           \A c \in chosen, i \in Index : slice[r][c][i] = TokenOf(r, c, i)
      /\ pc[r] = "replied" => reply[r] = Alone(r)

RequestInv(r) == ControlInv(r) /\ ContentsInv(r)

IInv == TypeOK /\ \A r \in Requests : RequestInv(r)

-----------------------------------------------------------------------------
\* A step that leaves everything of a request alone keeps its invariant.
LEMMA Untouched ==
  ASSUME NEW r \in Requests, RequestInv(r),
         slice'[r] = slice[r], lists'[r] = lists[r], query'[r] = query[r],
         answer'[r] = answer[r], pc'[r] = pc[r], todo'[r] = todo[r],
         at'[r] = at[r], clients'[r] = clients[r], reply'[r] = reply[r]
  PROVE  RequestInv(r)'
  BY DEF RequestInv, ControlInv, ContentsInv, TokenOf, PriceOf, Done, Alone, Asked

\* A failing request keeps nothing but its closed clients.
LEMMA Failing ==
  ASSUME NEW r \in Requests, RequestInv(r), TypeOK, Fail(r), pc[r] # "idle",
         clients'[r] = {}
  PROVE  RequestInv(r)'
  BY DEF RequestInv, ControlInv, ContentsInv, Fail, TypeOK

\* The two readings of chainIds, the code's and the property's, agree.
LEMMA SelectedAreAsked ==
  ASSUME NEW r PROVE Selected(query[r].parts) = {c \in Chains : Asked(r, c)}
  BY DEF Selected, ParseChainIDs, Asked, Chains

LEMMA TokenTypes ==
  /\ Blank \in Token /\ BaseTokens \in [Chains -> [Index -> Token]]
  /\ \A r \in Requests : r # Package
  BY TokensInputs DEF Blank, Token, BaseTokens

LEMMA ReceiveKeeps ==
  ASSUME IInv, NEW p \in Requests, NEW parts \in Queries,
         NEW w \in Wallets \cup {NoWallet, BadWallet}, Receive(p, parts, w)
  PROVE  IInv'
  <1>. DEFINE chosen == Selected(parts)
  <1>1. chosen \subseteq Chains /\ parts \subseteq STRING
    BY TokensInputs DEF Selected
  <1>2. /\ slice' = [slice EXCEPT ![p] =
              [c \in Chains |-> IF c \in chosen THEN slice[Package][c] ELSE @[c]]]
        /\ slice[Package] = BaseTokens
    BY DEF Receive, CloneTokens, IInv, TypeOK, BaseTokensUntouched
  <1>3. TypeOK'
    <2>1. /\ DOMAIN lists' = Requests
          /\ \A r \in Requests : IsMap(lists'[r], Chains, Requests)
      BY <1>1 DEF IInv, TypeOK, Receive, CloneTokens, IsMap
    <2>. QED
    BY <1>1, <1>2, <2>1, TokenTypes
    DEF IInv, TypeOK, BaseTokensUntouched, Receive, AfterPrices, Ended
  <1>4. RequestInv(p)'
    <2>1. /\ query'[p] = [parts |-> parts, wallet |-> w]
          /\ lists'[p] = [c \in chosen |-> p]
          /\ todo'[p] = chosen /\ reply'[p] = reply[p]
          /\ pc'[p] = IF chosen = {} THEN AfterPrices(w) ELSE "pricing"
          /\ clients'[p] = {} /\ pc'[p] # "reading" /\ pc'[p] # "replied"
      BY DEF Receive, CloneTokens, IInv, TypeOK, RequestInv, ControlInv, AfterPrices
    <2>2. \A c \in chosen, i \in Index : slice'[p][c][i] = Blank
      BY <1>1, <1>2, TokenTypes DEF IInv, TypeOK, BaseTokens
    <2>. QED
      BY <2>1, <2>2, TokensInputs DEF RequestInv, ControlInv, ContentsInv, AfterPrices
  <1>5. \A r \in Requests \ {p} : RequestInv(r)'
    BY <1>2, Untouched DEF Receive, CloneTokens, IInv, TypeOK
  <1>. QED  BY <1>3, <1>4, <1>5 DEF IInv

LEMMA MarketAnswersKeeps ==
  ASSUME IInv, NEW p \in Requests, MarketAnswers(p, answer'[p]),
         NEW ids \in SUBSET CollectMarketIDs(DOMAIN lists[p]),
         answer'[p] \in [ids -> Prices]
  PROVE  IInv'
  <1>. DEFINE chosen == Selected(query[p].parts)
  <1>1. /\ lists[p] = [c \in chosen |-> p] /\ chosen \subseteq Chains
        /\ pc[p] = "pricing" /\ todo[p] = chosen
        /\ \A c \in chosen, i \in Index : slice[p][c][i] = Blank
    BY DEF IInv, RequestInv, ControlInv, ContentsInv, MarketAnswers, Selected
  <1>2. slice' = [slice EXCEPT ![p] = [c \in Chains |->
          IF c \in chosen THEN Priced(p, answer'[p], c) ELSE slice[p][c]]]
    <2>. DEFINE new(o, c) == IF c \in DOMAIN lists[p] /\ lists[p][c] = o
                             THEN Priced(p, answer'[p], c) ELSE slice[o][c]
    <2>1. /\ slice' = [o \in DOMAIN slice |-> [c \in Chains |-> new(o, c)]]
          /\ slice \in [Requests \cup {Package} -> [Chains -> [Index -> Token]]]
      BY DEF MarketAnswers, IInv, TypeOK
    <2>2. \A o \in DOMAIN slice \ {p} : [c \in Chains |-> new(o, c)] = slice[o]
      BY <1>1, <2>1
    <2>. DEFINE own == [c \in Chains |->
                  IF c \in chosen THEN Priced(p, answer'[p], c) ELSE slice[p][c]]
    <2>3. [c \in Chains |-> new(p, c)] = own
      BY <1>1
    <2>. HIDE DEF new, own
    <2>4. slice' = [o \in DOMAIN slice |-> IF o = p THEN own ELSE slice[o]]
      BY <2>1, <2>2, <2>3
    <2>5. slice' = [slice EXCEPT ![p] = own]
      BY <2>1, <2>4
    <2>. QED
      BY <2>5 DEF own
  <1>3. \A c \in chosen : Priced(p, answer'[p], c) \in [Index -> Token]
    <2>. SUFFICES ASSUME NEW c \in chosen, NEW i \in Index
                  PROVE  Priced(p, answer'[p], c)[i] \in Token
      BY DEF Priced
    <2>1. lists[p][c] = p /\ Blank \in Token /\ slice[p][c][i] = Blank
      BY <1>1, TokenTypes
    <2>2. CASE MarketIDs[c][i] \in DOMAIN answer'[p]
      <3>1. answer'[p][MarketIDs[c][i]] \in Prices
        BY <2>2
      <3>. QED
        BY <2>1, <2>2, <3>1 DEF Priced, Token
    <2>3. CASE MarketIDs[c][i] \notin DOMAIN answer'[p]
      BY <2>1, <2>3 DEF Priced
    <2>. QED
      BY <2>2, <2>3
  <1>4. TypeOK'
    <2>1. /\ slice' \in [Requests \cup {Package} -> [Chains -> [Index -> Token]]]
          /\ slice'[Package] = BaseTokens
      BY <1>1, <1>2, <1>3, TokenTypes DEF IInv, TypeOK, BaseTokensUntouched
    <2>2. ids \subseteq CollectMarketIDs(Chains)
      BY <1>1 DEF CollectMarketIDs
    <2>3. /\ DOMAIN answer' = Requests
          /\ \A r \in Requests : IsMap(answer'[r], CollectMarketIDs(Chains), Prices)
      BY <2>2 DEF IInv, TypeOK, IsMap, MarketAnswers
    <2>. QED
      BY <2>1, <2>3
      DEF IInv, TypeOK, MarketAnswers, BaseTokensUntouched, AfterPrices, Ended
  <1>5. RequestInv(p)'
    <2>1. \A c \in chosen, i \in Index :
             slice'[p][c][i] = [Blank EXCEPT !.price = PriceOf(p, c, i)']
      <3>. SUFFICES ASSUME NEW c \in chosen, NEW i \in Index
                    PROVE  slice'[p][c][i] = [Blank EXCEPT !.price = PriceOf(p, c, i)']
        OBVIOUS
      <3>1. slice'[p][c][i] = Priced(p, answer'[p], c)[i]
        BY <1>1, <1>2 DEF IInv, TypeOK
      <3>. QED
        BY <1>1, <3>1 DEF Priced, PriceOf, Blank
    <2>2. /\ query' = query /\ lists' = lists /\ todo' = todo /\ clients' = clients
          /\ pc'[p] = AfterPrices(query[p].wallet) /\ clients[p] = {}
      BY DEF MarketAnswers, IInv, TypeOK, RequestInv, ControlInv
    <2>3. \A c \in chosen, i \in Index : Done(p, c, i)' = FALSE
      BY <1>1, <2>2 DEF Done
    <2>4. \A c \in chosen, i \in Index : slice'[p][c][i] = TokenOf(p, c, i)'
      BY <2>1, <2>3 DEF TokenOf, Blank
    <2>. QED
      BY <1>1, <2>2, <2>4, TokensInputs
      DEF RequestInv, ControlInv, ContentsInv, AfterPrices, IInv, TypeOK
  <1>6. \A r \in Requests \ {p} : RequestInv(r)'
    BY <1>2, Untouched DEF MarketAnswers, IInv, TypeOK
  <1>. QED  BY <1>4, <1>5, <1>6 DEF IInv

LEMMA FailuresKeep ==
  ASSUME IInv, NEW p \in Requests,
         MarketFails(p) \/ DialFails(p) \/ ReadFails(p)
  PROVE  IInv'
  <1>1. Fail(p) /\ pc[p] # "idle" /\ clients' = [clients EXCEPT ![p] = {}]
    BY DEF MarketFails, DialFails, ReadFails, IInv, TypeOK, RequestInv, ControlInv
  <1>2. TypeOK'
    BY <1>1 DEF IInv, TypeOK, Fail, BaseTokensUntouched, Ended
  <1>3. RequestInv(p)'
    BY <1>1, Failing DEF IInv, TypeOK
  <1>4. \A r \in Requests \ {p} : RequestInv(r)'
    BY <1>1, Untouched DEF Fail, IInv, TypeOK
  <1>. QED  BY <1>2, <1>3, <1>4 DEF IInv

LEMMA DialKeeps ==
  ASSUME IInv, NEW p \in Requests, NEW c \in Chains, Dial(p, c)
  PROVE  IInv'
  <1>1. TypeOK'
    <2>1. at' \in [Requests -> Chains \X Index]
      BY DEF IInv, TypeOK, Dial, Index
    <2>. QED
      BY <2>1 DEF IInv, TypeOK, Dial, BaseTokensUntouched
  <1>2. RequestInv(p)'
    <2>1. /\ pc[p] = "dialling" /\ c \in todo[p] /\ pc'[p] = "reading"
          /\ at'[p] = <<c, 1>> /\ todo'[p] = todo[p] \ {c} /\ clients'[p] = {c}
          /\ query' = query /\ lists' = lists
          /\ lists[p] = [d \in Selected(query[p].parts) |-> p]
          /\ query[p].wallet \in Wallets /\ todo[p] \subseteq Selected(query[p].parts)
      BY DEF Dial, IInv, TypeOK, RequestInv, ControlInv
    <2>2. \A d \in Chains, i \in Index : Done(p, d, i)' = Done(p, d, i)
      BY <2>1 DEF Done, Dial, Index
    <2>3. \A d \in Chains, i \in Index : TokenOf(p, d, i)' = TokenOf(p, d, i)
      BY <2>2 DEF TokenOf, PriceOf, Dial
    <2>4. ContentsInv(p)'
      BY <2>1, <2>3 DEF IInv, RequestInv, ContentsInv, Dial, Selected
    <2>5. ControlInv(p)'
      BY <2>1 DEF ControlInv
    <2>. QED
      BY <2>4, <2>5 DEF RequestInv
  <1>3. \A r \in Requests \ {p} : RequestInv(r)'
    BY Untouched DEF Dial, IInv, TypeOK
  <1>. QED  BY <1>1, <1>2, <1>3 DEF IInv

LEMMA ValuedToken ==
  \A price, w : Valued([price |-> price, balance |-> NoWallet,
                       usdt |-> <<NoWallet, NoPrice>>], w, Blank)
                = [price |-> price, balance |-> w, usdt |-> <<w, price>>]
  <1>. SUFFICES ASSUME NEW price, NEW w
       PROVE Valued([price |-> price, balance |-> NoWallet,
                     usdt |-> <<NoWallet, NoPrice>>], w, Blank)
               = [price |-> price, balance |-> w, usdt |-> <<w, price>>]
    OBVIOUS
  <1>. DEFINE t == [price |-> price, balance |-> NoWallet, usdt |-> <<NoWallet, NoPrice>>]
  <1>1. t.price = price
    OBVIOUS
  <1>2. Valued(t, w, Blank) = [t EXCEPT !.balance = w, !.usdt = <<w, price>>]
    BY <1>1 DEF Valued
  <1>. QED  BY <1>2

LEMMA ReadKeeps ==
  ASSUME IInv, NEW p \in Requests, Read(p)
  PROVE  IInv'
  <1>0. PICK c \in Chains, i \in Index : at[p] = <<c, i>>
    BY DEF IInv, TypeOK
  <1>. DEFINE chosen == Selected(query[p].parts)
              w == query[p].wallet
              new == Valued(slice[p][c][i], w, Blank)
  <1>1. /\ pc[p] = "reading" /\ c \in chosen /\ c \notin todo[p]
        /\ lists[p] = [d \in chosen |-> p] /\ w \in Wallets
        /\ clients[p] = {c} /\ chosen \subseteq Chains /\ todo[p] \subseteq chosen
    <2>1. pc[p] = "reading" /\ ControlInv(p) /\ chosen \subseteq Chains
      BY DEF Read, IInv, RequestInv, Selected
    <2>. QED
      BY <1>0, <2>1 DEF ControlInv
  <1>2. slice' = [slice EXCEPT ![p][c] = [@ EXCEPT ![i] = new]]
    BY <1>0, <1>1 DEF Read, Write, Valued
  <1>3. new \in Token
    <2>1. slice[p][c][i] \in Token
      BY <1>1 DEF IInv, TypeOK
    <2>. QED
      BY <1>1, <2>1 DEF Valued, Token
  <1>4. TypeOK'
    <2>1. /\ slice' \in [Requests \cup {Package} -> [Chains -> [Index -> Token]]]
          /\ slice'[Package] = BaseTokens
      BY <1>1, <1>2, <1>3, TokenTypes DEF IInv, TypeOK, BaseTokensUntouched
    <2>2. at' \in [Requests -> Chains \X Index]
      BY <1>0 DEF Read, IInv, TypeOK, Index
    <2>. QED
      BY <2>1, <2>2, <1>0, <1>1 DEF IInv, TypeOK, Read, BaseTokensUntouched
  <1>5. RequestInv(p)'
    <2>1. /\ query' = query /\ answer' = answer /\ lists' = lists /\ todo' = todo
          /\ i = 2 => pc'[p] = "dialling" /\ clients'[p] = {} /\ at' = at
          /\ i = 1 => pc'[p] = "reading" /\ clients'[p] = {c} /\ at'[p] = <<c, 2>>
      BY <1>0, <1>1 DEF Read, IInv, TypeOK, Index
    <2>2. \A d \in Chains, j \in Index : Done(p, d, j)' <=> (Done(p, d, j) \/ (d = c /\ j = i))
      BY <1>0, <1>1, <2>1 DEF Done, Index
    <2>3. \A d \in chosen, j \in Index :
             slice'[p][d][j] = IF d = c /\ j = i THEN new ELSE slice[p][d][j]
      BY <1>1, <1>2 DEF IInv, TypeOK
    <2>4. ~Done(p, c, i)
      BY <1>0, <1>1 DEF Done, Index
    <2>5. slice[p][c][i] = TokenOf(p, c, i)
      BY <1>1 DEF IInv, RequestInv, ContentsInv
    <2>6. \A d, j : PriceOf(p, d, j)' = PriceOf(p, d, j)
      BY <2>1 DEF PriceOf
    <2>7. new = TokenOf(p, c, i)'
      <3>1. slice[p][c][i] = [price |-> PriceOf(p, c, i), balance |-> NoWallet,
                              usdt |-> <<NoWallet, NoPrice>>]
        BY <2>4, <2>5 DEF TokenOf
      <3>2. new = [price |-> PriceOf(p, c, i), balance |-> w,
                   usdt |-> <<w, PriceOf(p, c, i)>>]
        BY <3>1, ValuedToken
      <3>3. Done(p, c, i)'
        BY <1>0, <2>2
      <3>. QED
        BY <2>1, <2>6, <3>2, <3>3 DEF TokenOf
    <2>8. \A d \in chosen, j \in Index :
             d # c \/ j # i => TokenOf(p, d, j)' = TokenOf(p, d, j)
      BY <1>1, <2>1, <2>2, <2>6 DEF TokenOf
    <2>9. ContentsInv(p)'
      <3>1. \A d \in chosen, j \in Index : slice'[p][d][j] = TokenOf(p, d, j)'
        <4>. SUFFICES ASSUME NEW d \in chosen, NEW j \in Index
                      PROVE  slice'[p][d][j] = TokenOf(p, d, j)'
          OBVIOUS
        <4>1. slice[p][d][j] = TokenOf(p, d, j)
          BY <1>1 DEF IInv, RequestInv, ContentsInv
        <4>2. CASE d = c /\ j = i
          BY <4>2, <2>3, <2>7
        <4>3. CASE d # c \/ j # i
          BY <4>1, <4>3, <2>3, <2>8
        <4>. QED
          BY <4>2, <4>3
      <3>. QED
        BY <1>1, <2>1, <3>1 DEF ContentsInv, Index
    <2>10. ControlInv(p)'
      BY <1>0, <1>1, <2>1 DEF ControlInv, Index
    <2>. QED
      BY <2>9, <2>10 DEF RequestInv
  <1>6. \A r \in Requests \ {p} : RequestInv(r)'
    BY <1>2, Untouched DEF Read, IInv, TypeOK
  <1>. QED  BY <1>4, <1>5, <1>6 DEF IInv

LEMMA AllFilledKeeps ==
  ASSUME IInv, NEW p \in Requests, AllFilled(p)
  PROVE  IInv'
  <1>1. TypeOK'
    BY DEF IInv, TypeOK, AllFilled, BaseTokensUntouched
  <1>2. RequestInv(p)'
    <2>1. \A c, i : TokenOf(p, c, i)' = TokenOf(p, c, i)
      BY DEF AllFilled, IInv, TypeOK, TokenOf, PriceOf, Done
    <2>2. /\ pc[p] = "dialling" /\ todo[p] = {} /\ pc'[p] = "filled"
          /\ query' = query /\ lists' = lists /\ slice' = slice /\ todo' = todo
          /\ clients' = clients /\ ControlInv(p) /\ ContentsInv(p)
      BY DEF AllFilled, IInv, TypeOK, RequestInv
    <2>3. ControlInv(p)' /\ ContentsInv(p)'
      BY <2>1, <2>2 DEF ControlInv, ContentsInv
    <2>. QED
      BY <2>3 DEF RequestInv
  <1>3. \A r \in Requests \ {p} : RequestInv(r)'
    BY Untouched DEF AllFilled, IInv, TypeOK
  <1>. QED  BY <1>1, <1>2, <1>3 DEF IInv

LEMMA ReplyKeeps ==
  ASSUME IInv, NEW p \in Requests, Reply(p)
  PROVE  IInv'
  <1>. DEFINE chosen == Selected(query[p].parts)
  <1>1. /\ pc[p] = "filled" /\ lists[p] = [c \in chosen |-> p] /\ chosen \subseteq Chains
        /\ query[p].wallet = NoWallet \/ (query[p].wallet \in Wallets /\ todo[p] = {})
        /\ clients[p] = {} /\ \A c \in chosen, i \in Index : slice[p][c][i] = TokenOf(p, c, i)
    BY DEF Reply, IInv, RequestInv, ControlInv, ContentsInv, Selected
  <1>2. reply'[p] = [c \in chosen |-> slice[p][c]]
    BY <1>1 DEF Reply, IInv, TypeOK
  <1>3. TypeOK'
    <2>1. IsMap(reply'[p], Chains, [Index -> Token])
      BY <1>1, <1>2 DEF IInv, TypeOK, IsMap
    <2>. QED
      BY <2>1 DEF IInv, TypeOK, Reply, BaseTokensUntouched, IsMap, Ended
  <1>4. reply'[p] = Alone(p)
    <2>. DEFINE price(c, i) == PriceOf(p, c, i)
                w == query[p].wallet
                exact(c, i) == [price |-> price(c, i), balance |-> w,
                  usdt |-> <<w, IF w = NoWallet THEN NoPrice ELSE price(c, i)>>]
    <2>1. \A c \in chosen, i \in Index : Done(p, c, i) <=> w # NoWallet
      BY <1>1, TokensInputs DEF Done
    <2>2. \A c \in chosen, i \in Index : TokenOf(p, c, i) = exact(c, i)
      BY <2>1 DEF TokenOf
    <2>3. \A c \in chosen : slice[p][c] \in [Index -> Token]
      <3>1. slice[p] \in [Chains -> [Index -> Token]]
        BY DEF IInv, TypeOK
      <3>. QED
        BY <1>1, <3>1
    <2>. HIDE DEF exact
    <2>4. \A c \in chosen : slice[p][c] = [i \in Index |-> exact(c, i)]
      BY <1>1, <2>2, <2>3
    <2>5. Alone(p) = [c \in chosen |-> [i \in Index |-> exact(c, i)]]
      BY SelectedAreAsked DEF Alone, PriceOf, exact
    <2>. QED
      BY <1>2, <2>4, <2>5
  <1>5. RequestInv(p)'
    <2>1. Alone(p)' = Alone(p)
      BY DEF Reply, Alone, Asked
    <2>2. pc'[p] = "replied" /\ clients'[p] = {}
      BY <1>1 DEF Reply, IInv, TypeOK
    <2>3. ControlInv(p)'
      BY <1>1, <2>2 DEF Reply, ControlInv
    <2>. QED
      BY <1>4, <2>1, <2>2, <2>3 DEF RequestInv, ContentsInv
  <1>6. \A r \in Requests \ {p} : RequestInv(r)'
    BY Untouched DEF Reply, IInv, TypeOK
  <1>. QED  BY <1>3, <1>5, <1>6 DEF IInv

LEMMA Keeps ==
  ASSUME IInv, [Next]_vars
  PROVE  IInv'
  <1>1. CASE UNCHANGED vars
    BY <1>1, Untouched DEF vars, IInv, TypeOK, BaseTokensUntouched
  <1>2. ASSUME NEW p \in Requests, HangUp(p) PROVE IInv'
    BY <1>2, Untouched DEF HangUp, IInv, TypeOK, BaseTokensUntouched
  <1>3. ASSUME NEW p \in Requests,
               NEW ids \in SUBSET CollectMarketIDs(DOMAIN lists[p]),
               NEW data \in [ids -> Prices], MarketAnswers(p, data)
        PROVE  IInv'
    <2>1. answer'[p] = data
      BY <1>3 DEF MarketAnswers, IInv, TypeOK
    <2>. QED  BY <1>3, <2>1, MarketAnswersKeeps
  <1>. QED
    BY <1>1, <1>2, <1>3, ReceiveKeeps, FailuresKeep, DialKeeps, ReadKeeps,
       AllFilledKeeps, ReplyKeeps DEF Next

LEMMA Starts == Init => IInv
  BY TokenTypes DEF Init, IInv, TypeOK, RequestInv, ControlInv, ContentsInv, BaseTokensUntouched, IsMap,
     Chains, Index, Ended

-----------------------------------------------------------------------------
\* Every variable keeps its type and, for any number of concurrent requests, no
\* request ever writes the package's token lists.
THEOREM TypeCorrect == Spec => []TypeOK
  <1>1. IInv => TypeOK  BY DEF IInv
  <1>. QED  BY <1>1, Starts, Keeps, PTL DEF Spec

\* However many requests run at once, each one that is answered is answered
\* completely and as if it were alone.
THEOREM RepliesAlwaysExact == Spec => []RepliesAreExact
  <1>1. IInv => RepliesAreExact  BY DEF IInv, RequestInv, ContentsInv, RepliesAreExact
  <1>. QED  BY <1>1, Starts, Keeps, PTL DEF Spec

\* No path through a request leaves an RPC client open.
THEOREM ClientsAlwaysClosed == Spec => []ClientsClosed
  <1>1. IInv => ClientsClosed  BY DEF IInv, RequestInv, ControlInv, ClientsClosed
  <1>. QED  BY <1>1, Starts, Keeps, PTL DEF Spec

=============================================================================
