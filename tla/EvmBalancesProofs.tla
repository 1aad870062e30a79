-------------------------- MODULE EvmBalancesProofs --------------------------
(***************************************************************************)
(* Proofs about EvmBalances, for every list of addresses and every batch size. *)
(***************************************************************************)
EXTENDS EvmBalances, EnumerationProofs, SequenceTheorems

\* Until the request comes no call is made; an ended one has a status.
IInv ==
  /\ TypeOK
  /\ pc = "idle" => made = 0
  /\ pc = "ended" => status # "none"

LEMMA Starts == Init => IInv
  <1>1. ASSUME Init
        PROVE  /\ enabled \in BOOLEAN /\ gone \in BOOLEAN /\ chain \in {"1", "56", "137"}
               /\ req = NoRequest /\ made = 0 /\ pc = "idle" /\ status = "none"
    BY <1>1 DEF Init
  <1>. QED
    BY <1>1 DEF IInv, TypeOK

LEMMA Keeps ==
  ASSUME IInv, [Next]_vars PROVE IInv'
  <1>1. CASE UNCHANGED vars
    BY <1>1 DEF vars, IInv, TypeOK
  <1>2. ASSUME NEW r \in Requests, Receive(r) PROVE IInv'
    <2>1. /\ made' = made /\ made = 0 /\ req' = r
          /\ UNCHANGED <<enabled, chain, gone>>
      BY <1>2 DEF Receive, IInv
    <2>2. /\ pc' \in {"calling", "ended"}
          /\ status' \in {"none", "bad request", "unavailable"}
          /\ pc' = "ended" => status' # "none"
      BY <1>2 DEF Receive, IInv, TypeOK
    <2>. QED
      BY <2>1, <2>2 DEF IInv, TypeOK
  <1>3. CASE Call
    <2>1. UNCHANGED <<enabled, chain, req, gone>> /\ pc = "calling"
      BY <1>3 DEF Call
    <2>3. made' \in Nat
      <3>1. made \in Nat /\ made' = made + 1
        BY <1>3 DEF Call, IInv, TypeOK
      <3>. QED  BY <3>1
    <2>2. \/ pc' = "ended" /\ status' = "ok"
          \/ pc' = pc /\ status' = status
      BY <1>3 DEF Call
    <2>. QED
      BY <2>1, <2>2, <2>3 DEF IInv, TypeOK
  <1>4. CASE RefuseAsset \/ UnpackFails \/ CallFails
    BY <1>4 DEF RefuseAsset, UnpackFails, CallFails, End, IInv, TypeOK
  <1>5. CASE HangUp
    BY <1>5 DEF HangUp, IInv, TypeOK
  <1>. QED
    BY <1>1, <1>2, <1>3, <1>4, <1>5 DEF Next

\* Every variable keeps its type.
THEOREM TypeCorrect == Spec => []TypeOK
  <1>1. IInv => TypeOK  BY DEF IInv
  <1>. QED  BY <1>1, Starts, Keeps, PTL DEF Spec

-----------------------------------------------------------------------------
(* What a request asks for. *)

Parts == Addresses \cup {BadAddress, NoAddress}

\* parseAddressCSV keeps the addresses and drops nothing else.
LEMMA AskedFacts ==
  ASSUME NEW r \in Requests
  PROVE  /\ r.addresses \in Seq(Parts)
         /\ Asked(r) \in Seq(Parts) /\ Len(Asked(r)) \in Nat
         /\ DOMAIN Asked(r) = 1..Len(Asked(r))
         /\ \A n \in DOMAIN Asked(r) :
              \E i \in DOMAIN r.addresses : Asked(r)[n] = r.addresses[i]
         /\ \A i \in DOMAIN r.addresses :
              r.addresses[i] # NoAddress =>
                \E n \in DOMAIN Asked(r) : Asked(r)[n] = r.addresses[i]
<1>. DEFINE s == r.addresses
            P == {i \in DOMAIN s : s[i] # NoAddress}
<1>1. s \in Seq(Parts)
  BY EvmInputs DEF Requests, Parts
<1>. HIDE DEF s
<1>2. P \in SUBSET DOMAIN s
  OBVIOUS
<1>3. /\ ItemsAt(s, P) \in Seq(Parts)
      /\ Len(ItemsAt(s, P)) = Cardinality(P) /\ Cardinality(P) \in Nat
      /\ \A n \in 1..Cardinality(P) :
           Ascending(P)[n] \in P /\ ItemsAt(s, P)[n] = s[Ascending(P)[n]]
      /\ \A i \in P : \E n \in DOMAIN ItemsAt(s, P) : ItemsAt(s, P)[n] = s[i]
  <2>. HIDE DEF P
  <2>. QED  BY <1>1, <1>2, ItemsAtFacts
<1>4. Asked(r) = ItemsAt(s, P)
  BY DEF Asked, s
<1>5. DOMAIN ItemsAt(s, P) = 1..Len(ItemsAt(s, P))
  BY <1>3
<1>6. \A n \in DOMAIN ItemsAt(s, P) : \E i \in DOMAIN s : ItemsAt(s, P)[n] = s[i]
  BY <1>2, <1>3, <1>5
<1>7. \A i \in DOMAIN s : s[i] # NoAddress => i \in P
  OBVIOUS
<1>8. \A i \in DOMAIN s :
        s[i] # NoAddress =>
          \E n \in DOMAIN ItemsAt(s, P) : ItemsAt(s, P)[n] = s[i]
  BY <1>3, <1>7
<1>9. Len(ItemsAt(s, P)) \in Nat
  BY <1>3
<1>. HIDE DEF P
<1>. QED  BY <1>1, <1>3, <1>4, <1>5, <1>6, <1>8, <1>9 DEF s

\* A blank is not a bad address, so it makes no difference to the check that
\* blanks are dropped first.
LEMMA AllHexMeansNoneBad ==
  ASSUME NEW r \in Requests
  PROVE  AllHex(r) <=> \A i \in DOMAIN r.addresses : r.addresses[i] # BadAddress
<1>1. /\ \A n \in DOMAIN Asked(r) :
           \E i \in DOMAIN r.addresses : Asked(r)[n] = r.addresses[i]
      /\ \A i \in DOMAIN r.addresses :
           r.addresses[i] # NoAddress =>
             \E n \in DOMAIN Asked(r) : Asked(r)[n] = r.addresses[i]
  BY AskedFacts
<1>2. ASSUME NEW i \in DOMAIN r.addresses, r.addresses[i] = BadAddress
      PROVE  ~AllHex(r)
  <2>1. PICK n \in DOMAIN Asked(r) : Asked(r)[n] = BadAddress
    BY <1>1, <1>2, EvmInputs
  <2>. QED  BY <2>1 DEF AllHex
<1>. QED  BY <1>1, <1>2 DEF AllHex

\* An asset is resolved exactly if the service knows it on the node's chain.
LEMMA ResolvedMeansKnown ==
  ASSUME NEW r \in Requests, chain \in {"1", "56", "137"}
  PROVE  AssetOf(r) # Nothing <=> Known(r)
<1>1. r.token \in {"none", "bad"} \cup Contracts
  BY DEF Requests
<1>2. Coin # Nothing /\ Given # Nothing /\ \A a : <<chain, a>> # Nothing
  BY DEF Coin, Given, Nothing
<1>3. CASE r.token \in Contracts
  <2>1. AssetOf(r) = Given
    BY <1>3 DEF AssetOf, Contracts
  <2>. QED  BY <1>2, <1>3, <2>1 DEF Known
<1>4. CASE r.token = "bad"
  BY <1>4 DEF AssetOf, Known, Contracts
<1>5. CASE r.token = "none"
  <2>1. CASE r.asset \in NativeNames
    <3>1. AssetOf(r) = Coin
      BY <1>5, <2>1 DEF AssetOf, NativeNames, Contracts
    <3>. QED  BY <1>2, <1>5, <2>1, <3>1 DEF Known
  <2>2. CASE r.asset \notin NativeNames /\ r.asset \in {"USDT", "USDC"} /\ chain # "137"
    <3>1. AssetOf(r) = <<chain, r.asset>>
      BY <1>5, <2>2 DEF AssetOf, Contracts
    <3>. QED  BY <1>2, <1>5, <2>2, <3>1 DEF Known
  <2>3. CASE r.asset \notin NativeNames /\ ~(r.asset \in {"USDT", "USDC"} /\ chain # "137")
    <3>1. AssetOf(r) = Nothing
      BY <1>5, <2>3 DEF AssetOf, Contracts
    <3>. QED  BY <1>5, <2>3, <3>1 DEF Known, Contracts
  <2>. QED  BY <2>1, <2>2, <2>3
<1>. QED  BY <1>1, <1>3, <1>4, <1>5

-----------------------------------------------------------------------------
(* The calls that a request becomes. *)

\* The calls about one asset.
CallsOf(asset) ==
  {<<"chainId">>, <<"blockNumber">>, <<"symbol", asset>>, <<"decimals", asset>>}
    \cup {<<"balance", asset, a>> : a \in Parts}

LEMMA BalanceCallsFacts ==
  ASSUME NEW asset, NEW who \in Seq(Parts)
  PROVE  /\ BalanceCalls(asset, who) \in Seq(CallsOf(asset))
         /\ Len(BalanceCalls(asset, who)) = Len(who)
         /\ \A n \in 1..Len(who) :
              BalanceCalls(asset, who)[n] = <<"balance", asset, who[n]>>
<1>1. DOMAIN who = 1..Len(who) /\ Len(who) \in Nat
  OBVIOUS
<1>2. \A n \in 1..Len(who) : <<"balance", asset, who[n]>> \in CallsOf(asset)
  BY <1>1 DEF CallsOf
<1>3. BalanceCalls(asset, who) = [n \in 1..Len(who) |-> <<"balance", asset, who[n]>>]
  BY <1>1 DEF BalanceCalls
<1>. HIDE DEF BalanceCalls
<1>4. BalanceCalls(asset, who) \in [1..Len(who) -> CallsOf(asset)]
  BY <1>2, <1>3
<1>5. /\ BalanceCalls(asset, who) \in Seq(CallsOf(asset))
      /\ Len(BalanceCalls(asset, who)) = Len(who)
  BY <1>1, <1>4
<1>. QED  BY <1>3, <1>5

\* Where the elements of two sequences lie in the longer one.
LEMMA TwoParts ==
  ASSUME NEW T, NEW a \in Seq(T), NEW b \in Seq(T)
  PROVE  /\ a \o b \in Seq(T) /\ Len(a) \in Nat /\ Len(b) \in Nat
         /\ Len(a \o b) = Len(a) + Len(b)
         /\ \A i \in 1..Len(a) : (a \o b)[i] = a[i]
         /\ \A i \in 1..Len(b) : (a \o b)[Len(a) + i] = b[i]
BY ConcatProperties

\* The balances of a request lie together in its script, after first calls, in
\* the order of the addresses.
BalancesAt(script, asset, who, first) ==
  /\ script \in Seq(CallsOf(asset))
  /\ first + Len(who) <= Len(script)
  /\ \A n \in 1..Len(who) :
       script[first + n] = <<"balance", asset, who[n]>>
  /\ \A i \in DOMAIN script :
       IsBalance(script[i]) <=> first < i /\ i <= first + Len(who)

\* The asset that a request is about, and how many calls come before its
\* balances.
About(r) ==
  IF r.kind = "native" THEN Coin ELSE IF r.kind = "token" THEN Given ELSE AssetOf(r)

Leading(r) ==
  IF r.kind # "batch" THEN 0 ELSE IF AssetOf(r) = Coin THEN 1 ELSE 3

LEMMA ScriptFacts ==
  ASSUME NEW r \in Requests, r.kind # "network"
  PROVE  /\ BalancesAt(Script(r), About(r), Asked(r), Leading(r))
         /\ Len(Script(r)) \in Nat
         /\ Len(Script(r)) >= Leading(r) + Len(Asked(r))
         /\ About(r) # Coin =>
              /\ \E k \in DOMAIN Script(r) : Script(r)[k] = <<"decimals", About(r)>>
              /\ \E k \in DOMAIN Script(r) : Script(r)[k] = <<"symbol", About(r)>>
<1>. DEFINE a == About(r)
            who == Asked(r)
            w == Len(who)
            b == BalanceCalls(a, who)
            T == CallsOf(a)
<1>1. who \in Seq(Parts) /\ w \in Nat
  BY AskedFacts
<1>2. /\ b \in Seq(T) /\ Len(b) = w
      /\ \A n \in 1..w : b[n] = <<"balance", a, who[n]>>
  BY <1>1, BalanceCallsFacts
<1>3. /\ <<"chainId">> \in T /\ <<"symbol", a>> \in T /\ <<"decimals", a>> \in T
      /\ ~IsBalance(<<"chainId">>) /\ ~IsBalance(<<"symbol", a>>)
      /\ ~IsBalance(<<"decimals", a>>)
      /\ \A x : IsBalance(<<"balance", a, x>>)
  BY DEF CallsOf, IsBalance
<1>4. Coin # Given
  BY DEF Coin, Given
<1>. HIDE DEF who, w, b, T, a
<1>5. CASE r.kind = "native"
  <2>1. Script(r) = b /\ a = Coin /\ Leading(r) = 0
    BY <1>5 DEF Script, b, who, a, About, Leading
  <2>2. DOMAIN b = 1..w
    BY <1>1, <1>2
  <2>3. \A i \in DOMAIN b : IsBalance(b[i])
    BY <1>2, <1>3, <2>2
  <2>4. BalancesAt(b, a, who, 0)
    BY <1>1, <1>2, <2>2, <2>3 DEF BalancesAt, T, w
  <2>. QED  BY <1>1, <1>2, <2>1, <2>4 DEF a, who, w
<1>6. CASE r.kind = "token"
  <2>. DEFINE tail == << <<"decimals", a>>, <<"symbol", a>> >>
              s == b \o tail
  <2>1. Script(r) = s /\ Leading(r) = 0
    BY <1>6 DEF Script, b, who, a, About, Leading
  <2>2. tail \in Seq(T) /\ Len(tail) = 2
    BY <1>3
  <2>3. tail[1] = <<"decimals", a>> /\ tail[2] = <<"symbol", a>>
    OBVIOUS
  <2>. HIDE DEF tail
  <2>4. /\ s \in Seq(T) /\ Len(s) = w + 2
        /\ \A i \in 1..w : s[i] = <<"balance", a, who[i]>>
        /\ s[w + 1] = <<"decimals", a>> /\ s[w + 2] = <<"symbol", a>>
    <3>. HIDE DEF s
    <3>0. s = b \o tail
      BY DEF s
    <3>1. /\ s \in Seq(T) /\ Len(s) = Len(b) + Len(tail)
          /\ \A i \in 1..Len(b) : s[i] = b[i]
          /\ \A i \in 1..Len(tail) : s[Len(b) + i] = tail[i]
      <4>1. b \in Seq(T) /\ tail \in Seq(T)
        BY <1>2, <2>2
      <4>. QED  BY <3>0, <4>1, TwoParts
    <3>. QED  BY <1>1, <1>2, <2>2, <2>3, <3>1
  <2>. HIDE DEF s
  <2>5. DOMAIN s = 1..(w + 2) /\ w + 1 \in DOMAIN s /\ w + 2 \in DOMAIN s
    BY <1>1, <2>4
  <2>6. \A i \in DOMAIN s : IsBalance(s[i]) <=> 0 < i /\ i <= 0 + w
    <3>. SUFFICES ASSUME NEW i \in 1..(w + 2)
                  PROVE  IsBalance(s[i]) <=> i <= w
      BY <1>1, <2>5
    <3>1. CASE i <= w
      <4>1. i \in 1..w
        BY <3>1, <1>1
      <4>. QED  BY <3>1, <4>1, <1>3, <2>4
    <3>2. CASE i = w + 1 \/ i = w + 2
      <4>1. ~IsBalance(s[i])
        BY <3>2, <1>3, <2>4
      <4>2. ~(i <= w)
        BY <3>2, <1>1
      <4>. QED  BY <4>1, <4>2
    <3>. QED  BY <3>1, <3>2, <1>1
  <2>7. BalancesAt(s, a, who, 0)
    BY <1>1, <2>4, <2>6 DEF BalancesAt, T, w
  <2>8. /\ \E m \in DOMAIN s : s[m] = <<"decimals", a>>
        /\ \E m \in DOMAIN s : s[m] = <<"symbol", a>>
    BY <2>4, <2>5
  <2>9. Len(s) \in Nat /\ Len(s) >= 0 + w
    BY <1>1, <2>4
  <2>. QED  BY <2>1, <2>7, <2>8, <2>9 DEF a, who, w
<1>7. CASE r.kind = "batch"
  <2>. DEFINE d == Describe(a)
              head == << <<"chainId">> >> \o d
              s == head \o b
              k == Len(head)
  <2>1. Script(r) = s /\ a = AssetOf(r)
    BY <1>7 DEF Script, b, who, a, About
  <2>2. /\ head \in Seq(T) /\ k \in Nat
        /\ k = IF a = Coin THEN 1 ELSE 3
        /\ \A i \in 1..k : ~IsBalance(head[i])
        /\ a # Coin => /\ \E m \in 1..k : head[m] = <<"decimals", a>>
                       /\ \E m \in 1..k : head[m] = <<"symbol", a>>
    <3>. DEFINE one == << <<"chainId">> >>
    <3>0. one \in Seq(T) /\ Len(one) = 1 /\ one[1] = <<"chainId">>
      BY <1>3
    <3>. HIDE DEF one
    <3>1. CASE a = Coin
      <4>1. d = <<>>
        BY <3>1, <1>4 DEF Describe
      <4>2. d \in Seq(T) /\ Len(d) = 0
        BY <4>1
      <4>3. head \in Seq(T) /\ Len(head) = 1 /\ head[1] = <<"chainId">>
        <5>. HIDE DEF d
        <5>1. head = one \o d
          BY DEF one
        <5>. HIDE DEF head
        <5>2. /\ head \in Seq(T) /\ Len(head) = Len(one) + Len(d)
              /\ \A i \in 1..Len(one) : head[i] = one[i]
          BY <3>0, <4>2, <5>1, TwoParts
        <5>. QED  BY <3>0, <4>2, <5>2
      <4>. HIDE DEF head
      <4>. QED  BY <3>1, <4>3, <1>3
    <3>2. CASE a # Coin
      <4>1. /\ d \in Seq(T) /\ Len(d) = 2
            /\ \/ d[1] = <<"symbol", a>> /\ d[2] = <<"decimals", a>>
               \/ d[1] = <<"decimals", a>> /\ d[2] = <<"symbol", a>>
        <5>1. CASE a = Given
          <6>1. d = << <<"symbol", a>>, <<"decimals", a>> >>
            BY <5>1, <1>4 DEF Describe
          <6>. HIDE DEF d
          <6>. QED  BY <6>1, <1>3
        <5>2. CASE a # Given
          <6>1. d = << <<"decimals", a>>, <<"symbol", a>> >>
            BY <3>2, <5>2 DEF Describe
          <6>. HIDE DEF d
          <6>. QED  BY <6>1, <1>3
        <5>. QED  BY <5>1, <5>2
      <4>2. /\ head \in Seq(T) /\ Len(head) = 3 /\ head[1] = <<"chainId">>
            /\ \/ head[2] = <<"symbol", a>> /\ head[3] = <<"decimals", a>>
               \/ head[2] = <<"decimals", a>> /\ head[3] = <<"symbol", a>>
        <5>. HIDE DEF d
        <5>1. head = one \o d
          BY DEF one
        <5>. HIDE DEF head
        <5>2. /\ head \in Seq(T) /\ Len(head) = Len(one) + Len(d)
              /\ \A i \in 1..Len(one) : head[i] = one[i]
              /\ \A i \in 1..Len(d) : head[Len(one) + i] = d[i]
          <6>1. one \in Seq(T) /\ d \in Seq(T)
            BY <3>0, <4>1
          <6>. QED  BY <5>1, <6>1, TwoParts
        <5>3. head[1] = one[1] /\ head[2] = d[1] /\ head[3] = d[2]
          BY <3>0, <4>1, <5>2
        <5>. QED  BY <3>0, <4>1, <5>2, <5>3
      <4>. HIDE DEF head
      <4>. QED  BY <3>2, <4>2, <1>3
    <3>. QED  BY <3>1, <3>2
  <2>. HIDE DEF head, d
  <2>3. /\ s \in Seq(T) /\ Len(s) = k + w
        /\ \A i \in 1..k : s[i] = head[i]
        /\ \A i \in 1..w : s[k + i] = b[i]
    <3>. HIDE DEF s
    <3>0. s = head \o b
      BY DEF s
    <3>1. /\ s \in Seq(T) /\ Len(s) = Len(head) + Len(b)
          /\ \A i \in 1..Len(head) : s[i] = head[i]
          /\ \A i \in 1..Len(b) : s[Len(head) + i] = b[i]
      <4>1. head \in Seq(T) /\ b \in Seq(T)
        BY <1>2, <2>2
      <4>. QED  BY <3>0, <4>1, TwoParts
    <3>. QED  BY <3>1, <1>2
  <2>. HIDE DEF s, k
  <2>4. DOMAIN s = 1..(k + w) /\ 1..k \subseteq DOMAIN s
    BY <1>1, <2>2, <2>3
  <2>5. \A i \in DOMAIN s : IsBalance(s[i]) <=> k < i /\ i <= k + w
    <3>. SUFFICES ASSUME NEW i \in 1..(k + w)
                  PROVE  IsBalance(s[i]) <=> k < i
      BY <1>1, <2>2, <2>4
    <3>1. CASE i <= k
      <4>1. i \in 1..k
        BY <3>1, <2>2
      <4>2. ~IsBalance(s[i])
        BY <4>1, <2>2, <2>3
      <4>. QED  BY <3>1, <4>2, <2>2
    <3>2. CASE k < i
      <4>1. i - k \in 1..w /\ k + (i - k) = i
        BY <3>2, <1>1, <2>2
      <4>2. s[i] = b[i - k]
        BY <4>1, <2>3
      <4>3. IsBalance(s[i])
        BY <4>1, <4>2, <1>2, <1>3
      <4>. QED  BY <3>2, <4>3
    <3>. QED  BY <3>1, <3>2, <1>1, <2>2
  <2>6. BalancesAt(s, a, who, k)
    <3>1. \A n \in 1..w : s[k + n] = <<"balance", a, who[n]>>
      BY <1>2, <2>3
    <3>2. k + w <= Len(s)
      BY <1>1, <2>2, <2>3
    <3>. QED  BY <2>3, <2>5, <3>1, <3>2 DEF BalancesAt, T, w
  <2>7. Leading(r) = k
    BY <1>7, <2>1, <2>2 DEF Leading
  <2>8. a # Coin => /\ \E m \in DOMAIN s : s[m] = <<"decimals", a>>
                    /\ \E m \in DOMAIN s : s[m] = <<"symbol", a>>
    BY <2>2, <2>3, <2>4
  <2>. QED  BY <1>1, <2>1, <2>2, <2>3, <2>6, <2>7, <2>8 DEF a, who, w
<1>8. r.kind \in {"network", "native", "token", "batch"}
  BY DEF Requests
<1>. QED  BY <1>5, <1>6, <1>7, <1>8

\* Picking the balances out of the script gives one for each address, in order.
LEMMA PickedBalances ==
  ASSUME NEW asset, NEW who \in Seq(Parts), NEW first \in Nat, NEW script,
         BalancesAt(script, asset, who, first)
  PROVE  LET picked == ItemsAt(script, {i \in DOMAIN script : IsBalance(script[i])})
         IN  /\ DOMAIN picked = 1..Len(who)
             /\ \A n \in 1..Len(who) : picked[n] = <<"balance", asset, who[n]>>
<1>. DEFINE P == {i \in DOMAIN script : IsBalance(script[i])}
            w == Len(who)
            f == [n \in 1..w |-> first + n]
<1>1. /\ w \in Nat /\ first + w <= Len(script) /\ Len(script) \in Nat
      /\ DOMAIN script = 1..Len(script)
      /\ \A n \in 1..w : script[first + n] = <<"balance", asset, who[n]>>
      /\ \A i \in DOMAIN script :
           IsBalance(script[i]) <=> first < i /\ i <= first + w
  BY DEF BalancesAt
<1>. HIDE DEF w
<1>2. P = (first + 1)..(first + w)
  BY <1>1
<1>. HIDE DEF P
<1>3. P \in SUBSET Int /\ f \in [1..w -> P]
  BY <1>1, <1>2
<1>4. \A m, n \in 1..w : m < n => f[m] < f[n]
  BY <1>1
<1>5. \A i \in P : \E m \in 1..w : f[m] = i
  <2>. SUFFICES ASSUME NEW i \in P PROVE \E m \in 1..w : f[m] = i
    OBVIOUS
  <2>1. i - first \in 1..w /\ first + (i - first) = i
    BY <1>1, <1>2
  <2>. QED  BY <2>1
<1>6. Cardinality(P) = w /\ Ascending(P) = f
  <2>. HIDE DEF f
  <2>. QED  BY <1>1, <1>3, <1>4, <1>5, AscendingIsUnique
<1>7. ItemsAt(script, P) = [n \in 1..w |-> script[f[n]]]
  BY <1>6 DEF ItemsAt
<1>8. \A n \in 1..w : script[f[n]] = <<"balance", asset, who[n]>>
  BY <1>1
<1>. QED  BY <1>7, <1>8 DEF P, w

-----------------------------------------------------------------------------
(* The course of a request. *)

\* A request under way has passed the checks; beyond the first call of a batch
\* its asset is known, and every call so far had an answer to read.  What was
\* refused failed a check, before any call or at the asset; a reply had all its
\* calls.
CourseFits ==
  /\ pc # "idle" => req \in Requests
  /\ pc # "ended" => status = "none"
  /\ pc = "calling" => /\ Checked(req)
                       /\ req.kind = "batch" /\ made > 1 => AssetOf(req) # Nothing
  /\ pc = "calling" \/ status = "ok" =>
       \A i \in 1..made : ~Unreadable(Script(req)[i])
  /\ status = "ok" => /\ Checked(req) /\ made = Len(Script(req))
                      /\ req.kind = "batch" => AssetOf(req) # Nothing
  /\ status = "unavailable" => ~enabled
  /\ status = "bad request" =>
       \/ ~Checked(req) /\ made = 0
       \/ req.kind = "batch" /\ AssetOf(req) = Nothing /\ made = 1
  /\ status = "bad gateway" =>
       /\ Checked(req)
       /\ req.kind = "batch" /\ made # 0 => AssetOf(req) # Nothing

\* What a request asks for does not change while its chain stays.
LEMMA SameCourse ==
  ASSUME UNCHANGED <<enabled, chain, req>>
  PROVE  /\ AssetOf(req)' = AssetOf(req)
         /\ Script(req)' = Script(req)
         /\ Checked(req)' = Checked(req)
         /\ \A i \in Nat : Unreadable(Script(req)[i])' <=> Unreadable(Script(req)[i])
<1>1. AssetOf(req)' = AssetOf(req)
  BY DEF AssetOf
<1>2. Script(req)' = Script(req)
  BY <1>1 DEF Script, Asked
<1>3. Checked(req)' = Checked(req)
  BY DEF Checked, AllHex, Asked
<1>4. ASSUME NEW i \in Nat
      PROVE  Unreadable(Script(req)[i])' <=> Unreadable(Script(req)[i])
  BY <1>2 DEF Unreadable
<1>. QED  BY <1>1, <1>2, <1>3, <1>4

\* A batch has calls after the one for the chain.
LEMMA BatchGoesOn ==
  ASSUME NEW r \in Requests, r.kind = "batch", Checked(r)
  PROVE  Len(Script(r)) \in Nat /\ Len(Script(r)) > 1
<1>1. Len(Asked(r)) \in Nat /\ Len(Asked(r)) >= 1
  BY AskedFacts, EvmInputs DEF Checked
<1>2. Leading(r) \in Nat /\ Leading(r) >= 1
  BY DEF Leading
<1>3. Len(Script(r)) \in Nat /\ Len(Script(r)) >= Leading(r) + Len(Asked(r))
  BY ScriptFacts
<1>. QED  BY <1>1, <1>2, <1>3

LEMMA CourseStarts == Init => CourseFits
  BY DEF Init, CourseFits

LEMMA ReceiveKeepsCourse ==
  ASSUME IInv, CourseFits, NEW r \in Requests, Receive(r)
  PROVE  CourseFits'
<1>1. /\ made = 0 /\ made' = 0 /\ req' = r
      /\ enabled' = enabled /\ chain' = chain
  BY DEF Receive, IInv
<1>2. Checked(req)' <=> Checked(r)
  BY <1>1 DEF Checked, AllHex, Asked
<1>3. \A i \in 1..made' : ~Unreadable(Script(req)[i])'
  BY <1>1
<1>4. CASE ~enabled
  <2>1. pc' = "ended" /\ status' = "unavailable"
    BY <1>4 DEF Receive
  <2>. QED  BY <1>1, <1>4, <2>1 DEF CourseFits
<1>5. CASE enabled /\ Checked(r)
  BY <1>1, <1>2, <1>3, <1>5 DEF Receive, CourseFits
<1>6. CASE enabled /\ ~Checked(r)
  BY <1>1, <1>2, <1>6 DEF Receive, CourseFits
<1>7. enabled \in BOOLEAN
  BY DEF IInv, TypeOK
<1>. QED  BY <1>4, <1>5, <1>6, <1>7

LEMMA FewAreAtMostOne ==
  ASSUME NEW n \in Nat, n = 0 \/ n = 1
  PROVE  n <= 1
OBVIOUS

LEMMA FewOrMany ==
  ASSUME NEW n \in Nat
  PROVE  n = 0 \/ n = 1 \/ n > 1
OBVIOUS

\* Once a batch that goes on has made a call, its asset is known.
LEMMA AssetIsSettled ==
  ASSUME CourseFits, pc = "calling", ~RefusedLate(req), req.kind = "batch",
         made \in Nat, made # 0
  PROVE  AssetOf(req) # Nothing
<1>1. CASE made = 1
  BY <1>1 DEF RefusedLate
<1>2. CASE made > 1
  BY <1>2 DEF CourseFits
<1>3. made = 1 \/ made > 1
  BY FewOrMany, Zenon
<1>. QED  BY <1>1, <1>2, <1>3

LEMMA CallKeepsCourse ==
  ASSUME IInv, CourseFits, Call
  PROVE  CourseFits'
<1>1. /\ pc = "calling" /\ ~RefusedLate(req) /\ req \in Requests
      /\ Checked(req) /\ status = "none" /\ made \in Nat
      /\ \A i \in 1..made : ~Unreadable(Script(req)[i])
      /\ ~Unreadable(Script(req)[made + 1])
  BY DEF Call, CourseFits, IInv, TypeOK, NextCall
<1>2. made' = made + 1 /\ UNCHANGED <<enabled, chain, req>>
  BY DEF Call
<1>3. req.kind = "batch" /\ made # 0 => AssetOf(req) # Nothing
  BY <1>1, AssetIsSettled
<1>4. /\ AssetOf(req)' = AssetOf(req) /\ Script(req)' = Script(req)
      /\ Checked(req)' = Checked(req)
      /\ \A i \in Nat : Unreadable(Script(req)[i])' <=> Unreadable(Script(req)[i])
  BY <1>2, SameCourse
<1>5. \A i \in 1..made' : ~Unreadable(Script(req)[i])'
  <2>1. 1..made' = (1..made) \cup {made + 1} /\ 1..made' \subseteq Nat
    BY <1>1, <1>2
  <2>2. \A i \in 1..made' : ~Unreadable(Script(req)[i])
    BY <1>1, <2>1
  <2>. QED  BY <1>4, <2>1, <2>2
<1>6. CASE made + 1 = Len(Script(req))
  <2>1. pc' = "ended" /\ status' = "ok"
    BY <1>6 DEF Call
  <2>2. req.kind = "batch" => made # 0
    BY <1>1, <1>6, BatchGoesOn
  <2>. QED  BY <1>1, <1>2, <1>3, <1>4, <1>5, <1>6, <2>1, <2>2 DEF CourseFits
<1>7. CASE made + 1 # Len(Script(req))
  <2>1. pc' = "calling" /\ status' = "none"
    BY <1>1, <1>7 DEF Call
  <2>2. made' > 1 => made # 0
    BY <1>1, <1>2
  <2>. QED  BY <1>1, <1>2, <1>3, <1>4, <1>5, <2>1, <2>2 DEF CourseFits
<1>. QED  BY <1>6, <1>7

LEMMA EndKeepsCourse ==
  ASSUME IInv, CourseFits, RefuseAsset \/ UnpackFails \/ CallFails
  PROVE  CourseFits'
<1>1. /\ pc = "calling" /\ req \in Requests /\ Checked(req) /\ made \in Nat
      /\ pc' = "ended" /\ UNCHANGED <<enabled, chain, req, made>>
  BY DEF RefuseAsset, UnpackFails, CallFails, End, CourseFits, IInv, TypeOK
<1>2. /\ AssetOf(req)' = AssetOf(req) /\ Script(req)' = Script(req)
      /\ Checked(req)' = Checked(req)
  BY <1>1, SameCourse
<1>3. CASE RefuseAsset
  <2>1. /\ status' = "bad request"
        /\ req.kind = "batch" /\ AssetOf(req) = Nothing /\ made = 1
    BY <1>3 DEF RefuseAsset, End, RefusedLate
  <2>. QED  BY <1>1, <1>2, <2>1 DEF CourseFits
<1>4. CASE UnpackFails \/ CallFails
  <2>1. status' = "bad gateway" /\ ~RefusedLate(req)
    BY <1>4 DEF UnpackFails, CallFails, End
  <2>2. req.kind = "batch" /\ made # 0 => AssetOf(req) # Nothing
    BY <1>1, <2>1, AssetIsSettled
  <2>. QED  BY <1>1, <1>2, <2>1, <2>2 DEF CourseFits
<1>. QED  BY <1>3, <1>4

LEMMA CourseKeeps == IInv /\ CourseFits /\ [Next]_vars => CourseFits'
<1>. SUFFICES ASSUME IInv, CourseFits, [Next]_vars PROVE CourseFits'
  OBVIOUS
<1>1. CASE HangUp \/ UNCHANGED vars
  <2>1. UNCHANGED <<enabled, chain, req, pc, status, made>>
    BY <1>1 DEF HangUp, vars
  <2>2. /\ AssetOf(req)' = AssetOf(req) /\ Script(req)' = Script(req)
        /\ Checked(req)' = Checked(req)
        /\ \A i \in Nat : Unreadable(Script(req)[i])' <=> Unreadable(Script(req)[i])
    BY <2>1, SameCourse
  <2>3. 1..made \subseteq Nat
    <3>1. made \in Nat
      BY DEF IInv, TypeOK
    <3>. QED  BY <3>1
  <2>4. (\A i \in 1..made : ~Unreadable(Script(req)[i])) =>
          \A i \in 1..made' : ~Unreadable(Script(req)[i])'
    BY <2>1, <2>2, <2>3
  <2>. QED  BY <2>1, <2>2, <2>4 DEF CourseFits
<1>. QED
  BY <1>1, ReceiveKeepsCourse, CallKeepsCourse, EndKeepsCourse DEF Next

\* The inductive invariant of a request.
THEOREM CourseAlwaysFits == Spec => [](IInv /\ CourseFits)
<1>1. Init => IInv /\ CourseFits
  BY Starts, CourseStarts
<1>2. IInv /\ CourseFits /\ [Next]_vars => (IInv /\ CourseFits)'
  BY Keeps, CourseKeeps
<1>. QED  BY <1>1, <1>2, PTL DEF Spec

\* A contract that lacks anything lacks a string for its symbol, and every
\* script about a contract asks for that.
LEMMA MisdirectedMeetsUnreadable ==
  ASSUME req \in Requests, Misdirected(req),
         req.kind = "batch" => AssetOf(req) # Nothing
  PROVE  \E k \in DOMAIN Script(req) : Unreadable(Script(req)[k])
<1>1. /\ req.kind \in {"token", "batch"} /\ req.kind # "network"
      /\ req.token \in {"other", "nosymbol"} /\ "symbol" \in Lacks(req.token)
  BY DEF Misdirected, Lacks
<1>2. About(req) = Given
  <2>1. CASE req.kind = "token"
    BY <2>1 DEF About
  <2>2. CASE req.kind = "batch"
    <3>1. req.token \in Contracts
      BY <1>1 DEF Contracts
    <3>2. AssetOf(req) = Given
      BY <3>1 DEF AssetOf, Contracts
    <3>. QED  BY <2>2, <3>2 DEF About
  <2>. QED  BY <1>1, <2>1, <2>2
<1>3. Given # Coin
  BY DEF Given, Coin
<1>4. PICK k \in DOMAIN Script(req) : Script(req)[k] = <<"symbol", Given>>
  BY <1>1, <1>2, <1>3, ScriptFacts
<1>5. Unreadable(<<"symbol", Given>>)
  BY <1>1 DEF Unreadable
<1>. QED  BY <1>4, <1>5

\* 400 and 200 are said with reason; 502 never for what the service sees, and
\* always for a contract that is no ERC20.
THEOREM StatusIsAlwaysJustified == Spec => []StatusIsJustified
<1>1. ASSUME IInv, CourseFits
      PROVE  StatusIsJustified
  <2>. DEFINE wrong == req.kind # "network" /\ ~Servable(req)
  <2>1. /\ status # "none" => pc = "ended" /\ req \in Requests
        /\ chain \in {"1", "56", "137"} /\ made \in Nat
        /\ status \in {"none", "ok", "bad request", "bad gateway", "unavailable"}
        /\ pc = "ended" => status # "none"
    BY <1>1 DEF CourseFits, IInv, TypeOK
  <2>2. ASSUME Checked(req), req \in Requests,
               req.kind = "batch" => AssetOf(req) # Nothing
        PROVE  ~wrong
    <3>. SUFFICES ASSUME req.kind # "network" PROVE Servable(req)
      OBVIOUS
    <3>1. \A i \in DOMAIN req.addresses : req.addresses[i] # BadAddress
      BY <2>2, AllHexMeansNoneBad DEF Checked
    <3>2. req.kind = "batch" => Known(req)
      BY <2>1, <2>2, ResolvedMeansKnown
    <3>. QED  BY <2>2, <3>1, <3>2 DEF Checked, Servable
  <2>3. ASSUME ~Checked(req), req \in Requests
        PROVE  wrong
    <3>1. req.kind # "network"
      BY <2>3 DEF Checked
    <3>2. ~Servable(req)
      BY <2>3, <3>1, AllHexMeansNoneBad DEF Checked, Servable
    <3>. QED  BY <3>1, <3>2
  <2>4. ASSUME req \in Requests, req.kind = "batch", AssetOf(req) = Nothing
        PROVE  wrong
    <3>1. ~Known(req)
      BY <2>1, <2>4, ResolvedMeansKnown
    <3>. QED  BY <2>4, <3>1 DEF Servable
  <2>. HIDE DEF wrong
  <2>5. status = "bad request" => wrong /\ made <= 1
    <3>. SUFFICES ASSUME status = "bad request" PROVE wrong /\ made <= 1
      OBVIOUS
    <3>1. req \in Requests
      BY <2>1
    <3>2. \/ ~Checked(req) /\ made = 0
          \/ req.kind = "batch" /\ AssetOf(req) = Nothing /\ made = 1
      BY <1>1 DEF CourseFits
    <3>3. wrong
      BY <2>3, <2>4, <3>1, <3>2
    <3>4. made <= 1
      <4>1. made = 0 \/ made = 1
        BY <3>2
      <4>2. made \in Nat
        BY <2>1
      <4>. QED  BY <4>1, <4>2, FewAreAtMostOne, Zenon
    <3>. QED  BY <3>3, <3>4
  <2>6. status = "ok" \/ (status = "bad gateway" /\ made # 0) => ~wrong
    <3>1. status = "ok" \/ (status = "bad gateway" /\ made # 0) =>
            /\ Checked(req) /\ req \in Requests
            /\ req.kind = "batch" => AssetOf(req) # Nothing
      BY <1>1, <2>1 DEF CourseFits
    <3>. QED  BY <2>2, <3>1
  <2>7. status = "unavailable" => ~enabled
    BY <1>1 DEF CourseFits
  <2>8. status = "ok" => ~Misdirected(req)
    <3>. SUFFICES ASSUME status = "ok", Misdirected(req) PROVE FALSE
      OBVIOUS
    <3>1. /\ req \in Requests /\ made = Len(Script(req))
          /\ req.kind = "batch" => AssetOf(req) # Nothing
          /\ \A i \in 1..made : ~Unreadable(Script(req)[i])
      BY <1>1, <2>1 DEF CourseFits
    <3>2. PICK k \in DOMAIN Script(req) : Unreadable(Script(req)[k])
      BY <3>1, MisdirectedMeetsUnreadable
    <3>3. req.kind # "network"
      BY DEF Misdirected
    <3>4. DOMAIN Script(req) = 1..made
      <4>1. Script(req) \in Seq(CallsOf(About(req)))
        BY <3>1, <3>3, ScriptFacts DEF BalancesAt
      <4>. QED  BY <3>1, <4>1
    <3>. QED  BY <3>1, <3>2, <3>4
  <2>9. pc = "ended" /\ enabled /\ ~wrong /\ Misdirected(req) =>
          status = "bad gateway"
    BY <2>1, <2>5, <2>7, <2>8
  <2>. QED  BY <2>5, <2>6, <2>7, <2>8, <2>9 DEF StatusIsJustified, wrong
<1>. QED  BY <1>1, CourseAlwaysFits, PTL

\* A balance reply is complete, in order, and of the one asset that was asked
\* for on the node's chain, written down with that contract's decimals.
THEOREM ReplyIsAlwaysComplete == Spec => []ReplyIsComplete
<1>1. ASSUME IInv, CourseFits
      PROVE  ReplyIsComplete
  <2>. DEFINE calls == SubSeq(Script(req), 1, made)
              balances == ItemsAt(calls, {i \in DOMAIN calls : IsBalance(calls[i])})
              a == About(req)
              who == Asked(req)
  <2>. SUFFICES ASSUME status = "ok", req.kind # "network"
                PROVE  /\ [i \in DOMAIN balances |-> balances[i][3]] = who
                       /\ \A i \in DOMAIN balances :
                            LET asset == balances[i][2]
                            IN  /\ Wanted(req, asset)
                                /\ asset # Coin =>
                                     \E k \in DOMAIN calls :
                                       calls[k] = <<"decimals", asset>>
    BY DEF ReplyIsComplete
  <2>1. /\ req \in Requests /\ made = Len(Script(req))
        /\ req.kind = "batch" => AssetOf(req) # Nothing
    BY <1>1 DEF CourseFits
  <2>2. /\ BalancesAt(Script(req), a, who, Leading(req))
        /\ a # Coin =>
             \E k \in DOMAIN Script(req) : Script(req)[k] = <<"decimals", a>>
    BY <2>1, ScriptFacts
  <2>3. who \in Seq(Parts)
    BY <2>1, AskedFacts
  <2>4. calls = Script(req)
    <3>1. Script(req) \in Seq(CallsOf(a))
      BY <2>2 DEF BalancesAt
    <3>. QED  BY <2>1, <3>1, SubSeqProperties
  <2>5. Leading(req) \in Nat
    BY DEF Leading
  <2>6. Wanted(req, a)
    <3>1. /\ req.kind \in {"native", "token", "batch"}
          /\ req.token \in {"none", "bad"} \cup Contracts
      BY <2>1 DEF Requests
    <3>2. CASE req.kind = "native"
      BY <3>2 DEF About, Wanted
    <3>3. CASE req.kind = "token"
      BY <3>3 DEF About, Wanted
    <3>4. CASE req.kind = "batch" /\ req.token \in Contracts
      <4>1. AssetOf(req) = Given
        BY <3>4 DEF AssetOf, Contracts
      <4>. QED  BY <3>4, <4>1 DEF About, Wanted, Contracts
    <3>5. CASE req.kind = "batch" /\ req.token = "bad"
      <4>1. AssetOf(req) = Nothing
        BY <3>5 DEF AssetOf, Contracts
      <4>. QED  BY <2>1, <3>5, <4>1
    <3>6. CASE req.kind = "batch" /\ req.token = "none"
      <4>1. a = AssetOf(req)
        BY <3>6 DEF About
      <4>2. AssetOf(req) = IF req.asset \in NativeNames THEN Coin ELSE <<chain, req.asset>>
        <5>1. CASE req.asset \in NativeNames
          BY <3>6, <5>1 DEF AssetOf, Contracts, NativeNames
        <5>2. CASE req.asset \notin NativeNames
          <6>1. AssetOf(req) # Nothing
            BY <2>1, <3>6
          <6>. QED  BY <3>6, <5>2, <6>1 DEF AssetOf, Contracts
        <5>. QED  BY <5>1, <5>2
      <4>. HIDE DEF a
      <4>. QED  BY <3>6, <4>1, <4>2 DEF Wanted
    <3>. QED  BY <3>1, <3>2, <3>3, <3>4, <3>5, <3>6
  <2>. HIDE DEF calls, a, who
  <2>7. /\ DOMAIN balances = 1..Len(who)
        /\ \A n \in 1..Len(who) : balances[n] = <<"balance", a, who[n]>>
    <3>. DEFINE script == Script(req)
                picked == ItemsAt(script, {i \in DOMAIN script : IsBalance(script[i])})
    <3>1. balances = picked
      BY <2>4
    <3>. HIDE DEF balances, script
    <3>2. BalancesAt(script, a, who, Leading(req))
      BY <2>2 DEF script
    <3>3. /\ DOMAIN picked = 1..Len(who)
          /\ \A n \in 1..Len(who) : picked[n] = <<"balance", a, who[n]>>
      BY <2>3, <2>5, <3>2, PickedBalances
    <3>. QED  BY <3>1, <3>3
  <2>. HIDE DEF balances
  <2>8. \A n \in DOMAIN balances : balances[n][2] = a /\ balances[n][3] = who[n]
    BY <2>7
  <2>9. [i \in DOMAIN balances |-> balances[i][3]] = who
    <3>1. who = [n \in 1..Len(who) |-> who[n]]
      BY <2>3
    <3>. QED  BY <2>7, <2>8, <3>1
  <2>. QED  BY <2>2, <2>4, <2>6, <2>8, <2>9
<1>. QED  BY <1>1, CourseAlwaysFits, PTL

=============================================================================
