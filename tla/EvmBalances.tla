----------------------------- MODULE EvmBalances -----------------------------
(***************************************************************************)
(* /api/v1/evm: a request is checked, becomes a sequence of calls to the one *)
(* RPC node, and is answered when the last call is.  Requests share nothing   *)
(* but the node, so the model follows one of them.  Amounts are left out:     *)
(* what matters of a call is the contract it reads.                           *)
(***************************************************************************)
EXTENDS Integers, Sequences, Enumeration

CONSTANTS
  Addresses, BadAddress, NoAddress, \* well-formed; not; a blank between commas
  AddressLists,                     \* sequences of these, as clients write them
  Assets,                           \* values of asset, trimmed, in upper case
  MaxBatch                          \* maxBatchBalanceAddresses, 50

ASSUME EvmInputs ==
  /\ AddressLists \subseteq Seq(Addresses \cup {BadAddress, NoAddress})
  /\ BadAddress \notin Addresses /\ NoAddress \notin Addresses \cup {BadAddress}
  /\ MaxBatch \in Nat

VARIABLES
  enabled, \* EVM_RPC_URL is set
  chain,   \* the node's chain id
  req,     \* the request
  pc,      \* "idle", "calling" or "ended"
  status,  \* how it was answered
  made,    \* how many of its calls have been answered
  gone     \* its client has hung up

vars == <<enabled, chain, req, pc, status, made, gone>>

-----------------------------------------------------------------------------
\* What the contract that a client may name does not answer the way the ABI of
\* an ERC20 says: all of it does, its symbol is no string, or it is no token.
Lacks(token) ==
  CASE token = "other" -> {"balance", "decimals", "symbol"}
    [] token = "nosymbol" -> {"symbol"}
    [] OTHER -> {}

Contracts == {"erc20", "nosymbol", "other"}

\* token: no tokenAddress, one that is no address, or the address of a contract.
Requests ==
  [kind : {"network", "native", "token", "batch"}, addresses : AddressLists,
   asset : Assets, token : {"none", "bad"} \cup Contracts]

NoRequest == [kind |-> "none", addresses |-> <<>>, asset |-> "", token |-> "none"]

\* parseAddressCSV drops blanks; the other paths hold one address.
Asked(r) ==
  ItemsAt(r.addresses, {i \in DOMAIN r.addresses : r.addresses[i] # NoAddress})

AllHex(r) == \A i \in DOMAIN Asked(r) : Asked(r)[i] # BadAddress

NativeNames == {"", "NATIVE", "ETH", "BNB", "BSC"}

\* What a balance is of: the chain's coin, a contract of the table for a chain,
\* the contract that the request names, or nothing.
Coin == <<"coin">>
Given == <<"given">>
Nothing == <<>>

\* Mutant of AssetOf: Ethereum's contract is read on every chain.
AssetOfEthereum(r) ==
  CASE r.token \in Contracts -> Given
    [] r.token = "bad" -> Nothing
    [] r.token = "none" /\ r.asset \in NativeNames -> Coin
    [] r.token = "none" /\ r.asset \in {"USDT", "USDC"} -> <<"1", r.asset>>
    [] OTHER -> Nothing

\* resolveBalanceAsset with the table stablecoinContracts.
AssetOf(r) ==
  CASE r.token \in Contracts -> Given
    [] r.token = "bad" -> Nothing
    [] r.token = "none" /\ r.asset \in NativeNames -> Coin
    [] r.token = "none" /\ r.asset \in {"USDT", "USDC"} /\ chain \in {"1", "56"} ->
         <<chain, r.asset>>
    [] OTHER -> Nothing

\* The calls that say how to write amounts of an asset down, in their order.
Describe(asset) ==
  CASE asset = Coin -> <<>>
    [] asset = Given -> << <<"symbol", asset>>, <<"decimals", asset>> >>
    [] OTHER -> << <<"decimals", asset>>, <<"symbol", asset>> >>

BalanceCalls(asset, addresses) ==
  [i \in DOMAIN addresses |-> <<"balance", asset, addresses[i]>>]

\* NetworkStatus, NativeBalance, TokenBalance and BatchBalances.
Script(r) ==
  CASE r.kind = "network" -> << <<"chainId">>, <<"blockNumber">> >>
    [] r.kind = "native" -> BalanceCalls(Coin, Asked(r))
    [] r.kind = "token" -> BalanceCalls(Given, Asked(r))
         \o << <<"decimals", Given>>, <<"symbol", Given>> >>
    [] OTHER -> << <<"chainId">> >> \o Describe(AssetOf(r))
         \o BalanceCalls(AssetOf(r), Asked(r))

\* Mutant of Checked: the addresses are looked at as their turns come.
CheckedLate(r) == r.kind = "token" => r.token \in Contracts

\* The checks of the handlers and of the service that come before any call.
Checked(r) ==
  /\ r.kind = "batch" => Len(Asked(r)) \in 1..MaxBatch
  /\ r.kind # "network" => AllHex(r)
  /\ r.kind = "token" => r.token \in Contracts

\* Only a batch is refused after a call: its asset depends on the chain.
RefusedLate(r) ==
  r.kind = "batch" /\ made = 1 /\ AssetOf(r) = Nothing

NextCall == Script(req)[made + 1]

\* The answer comes from a contract that is no ERC20: Unpack rejects it.
Unreadable(call) ==
  Len(call) > 1 /\ call[2] = Given /\ call[1] \in Lacks(req.token)

-----------------------------------------------------------------------------
Init ==
  /\ enabled \in BOOLEAN /\ chain \in {"1", "56", "137"}
  /\ req = NoRequest /\ made = 0
  /\ pc = "idle" /\ status = "none" /\ gone = FALSE

\* The path parameters of native and token hold exactly one address.
Wellformed(r) ==
  r.kind \in {"native", "token"} =>
    Len(r.addresses) = 1 /\ r.addresses[1] # NoAddress

Receive(r) ==
  /\ pc = "idle" /\ Wellformed(r)
  /\ req' = r
  /\ pc' = IF enabled /\ Checked(r) THEN "calling" ELSE "ended"
  /\ status' = CASE ~enabled -> "unavailable"
                 [] enabled /\ ~Checked(r) -> "bad request"
                 [] enabled /\ Checked(r) -> "none"
  /\ UNCHANGED <<enabled, chain, made, gone>>

\* The next call is answered; after the last one the reply is written.
Call ==
  /\ pc = "calling" /\ ~RefusedLate(req) /\ ~Unreadable(NextCall)
  /\ made' = made + 1
  /\ IF made + 1 = Len(Script(req))
     THEN pc' = "ended" /\ status' = "ok" ELSE UNCHANGED <<pc, status>>
  /\ UNCHANGED <<enabled, chain, req, gone>>

End(outcome) ==
  /\ pc' = "ended" /\ status' = outcome
  /\ UNCHANGED <<enabled, chain, req, made, gone>>

RefuseAsset == pc = "calling" /\ RefusedLate(req) /\ End("bad request")

\* The transport fails, the node reports an error (a contract that reverts
\* included), or the context is cancelled ...
CallFails == pc = "calling" /\ ~RefusedLate(req) /\ End("bad gateway")

\* ... and an answer that Unpack rejects takes the same path, although the node
\* did what it was asked.
UnpackFails ==
  pc = "calling" /\ ~RefusedLate(req) /\ Unreadable(NextCall) /\ End("bad gateway")

HangUp ==
  /\ pc = "calling" /\ ~gone /\ gone' = TRUE
  /\ UNCHANGED <<enabled, chain, req, pc, status, made>>

Next ==
  \/ \E r \in Requests : Receive(r)
  \/ Call \/ RefuseAsset \/ UnpackFails \/ CallFails \/ HangUp

Spec == Init /\ [][Next]_vars

\* Mutant of Cancelled: the calls do not get the request's context.
CancelledNever == FALSE /\ CallFails

Cancelled == gone /\ CallFails

\* The node owes no answer; a cancelled call returns.
FairSpec == Spec /\ WF_vars(RefuseAsset) /\ WF_vars(Cancelled)

-----------------------------------------------------------------------------
(* Properties *)

\* Every variable holds values of its kind.
TypeOK ==
  /\ enabled \in BOOLEAN /\ gone \in BOOLEAN
  /\ chain \in {"1", "56", "137"}
  /\ req \in Requests \cup {NoRequest}
  /\ pc \in {"idle", "calling", "ended"}
  /\ status \in {"none", "ok", "bad request", "bad gateway", "unavailable"}
  /\ made \in Nat

IsBalance(call) == call[1] = "balance"

\* The asset that a request of balances names: a path or a tokenAddress names a
\* contract before the parameter asset is looked at, and the names of the native
\* coins mean the coin of whatever chain the node is on.
Wanted(r, asset) ==
  CASE r.kind = "token" \/ (r.kind = "batch" /\ r.token # "none") -> asset = Given
    [] r.kind = "native" -> asset = Coin
    [] OTHER -> asset = IF r.asset \in NativeNames THEN Coin ELSE <<chain, r.asset>>

\* A balance reply has one amount for each address asked for, in order, all of
\* the one asset that was asked for on the node's own chain, and a token's
\* amounts are written down with the decimals of that very contract.
ReplyIsComplete ==
  LET calls == SubSeq(Script(req), 1, made)
      balances == ItemsAt(calls, {i \in DOMAIN calls : IsBalance(calls[i])})
  IN  status = "ok" /\ req.kind # "network" =>
        /\ [i \in DOMAIN balances |-> balances[i][3]] = Asked(req)
        /\ \A i \in DOMAIN balances :
             LET asset == balances[i][2]
             IN  /\ Wanted(req, asset)
                 /\ asset # Coin =>
                      \E k \in DOMAIN calls : calls[k] = <<"decimals", asset>>

\* The asset exists on the node's chain as far as the service can tell.
Known(r) ==
  \/ r.token \in Contracts
  \/ /\ r.token = "none"
     /\ r.asset \in NativeNames \/ (r.asset \in {"USDT", "USDC"} /\ chain # "137")

\* Nothing is wrong with the request that the service itself can see.
Servable(r) ==
  /\ \A i \in DOMAIN r.addresses : r.addresses[i] # BadAddress
  /\ r.kind = "batch" => Known(r) /\ Len(Asked(r)) \in 1..MaxBatch
  /\ r.kind = "token" => r.token \in Contracts

\* It reads a contract that the client named and that is no ERC20.
Misdirected(r) == r.kind \in {"token", "batch"} /\ Lacks(r.token) # {}

\* 400 is said only for what the service sees is wrong, after at most the call
\* for the chain, 200 only for what is right altogether.  502 says less than its
\* text: no request is answered so for what the service sees, once it knows the
\* chain; but one that is sent to a contract that is no ERC20 has no other end,
\* so that 502 never tells the node's failures from that mistake of the client.
StatusIsJustified ==
  LET wrong == req.kind # "network" /\ ~Servable(req)
  IN  /\ status = "unavailable" => ~enabled
      /\ status = "bad request" => wrong /\ made <= 1
      /\ status = "ok" => ~wrong /\ ~Misdirected(req)
      /\ status = "bad gateway" /\ made # 0 => ~wrong
      /\ pc = "ended" /\ enabled /\ ~wrong /\ Misdirected(req) =>
           status = "bad gateway"

\* A silent node holds a request only while its client waits.
AbandonedRequestEnds == gone ~> pc = "ended"

=============================================================================
