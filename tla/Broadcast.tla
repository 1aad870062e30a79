------------------------------- MODULE Broadcast -------------------------------
(***************************************************************************)
(* POST /app/quicknode/broadcast: each call checks its request, posts the   *)
(* transaction to the network's Alchemy endpoint once, and turns whatever    *)
(* comes back, or does not, into a status for the wallet app.  The app may   *)
(* send a transaction again; the endpoint may act on a call that was given   *)
(* up long ago.                                                             *)
(***************************************************************************)
EXTENDS FiniteSets, RawText

CONSTANTS
  Calls,      \* the calls of one behaviour, each served by its own goroutine
  Spellings,  \* chain codes as clients write them
  Txs         \* signed transactions

CONSTANT NoTx \* no transaction

ASSUME BroadcastInputs == Spellings \subseteq Raw /\ NoTx \notin Txs

VARIABLES
  hasKey,    \* ALCHEMY_API_KEY is set
  call,      \* call -> where it is, its request and the status it answers
  post,      \* call -> what has become of its post to the endpoint
  accepted   \* the pairs <<chain, tx>> that a network has taken up

vars == <<hasKey, call, post, accepted>>

-----------------------------------------------------------------------------
(* Chains *)

\* alchemy.normalizeChainCode: the spellings of the chains it names.
CodeAliases ==
  [eth      |-> {"eth", "ethereum", "ethereum-mainnet", "eth-mainnet"},
   bsc      |-> {"bsc", "bnb", "bnb smart chain", "binance smart chain",
                 "bnb-mainnet"},
   polygon  |-> {"polygon", "matic", "polygon-mainnet"},
   base     |-> {"base", "base-mainnet"},
   arbitrum |-> {"arb", "arbitrum", "arbitrum-one", "arb-mainnet"},
   optimism |-> {"op", "optimism", "opt", "opt-mainnet"},
   solana   |-> {"sol", "solana", "solana-mainnet"},
   btc      |-> {"btc", "bitcoin", "bitcoin-mainnet"},
   tron     |-> {"trx", "tron", "tron-mainnet"},
   ltc      |-> {"ltc", "litecoin"},
   ton      |-> {"ton"}]

\* Mutant of NormalizeChainCode: BNB is taken for Ethereum.
MixedChainCode(raw) ==
  LET named == {c \in DOMAIN CodeAliases : raw.text \in CodeAliases[c]}
  IN  IF raw.text = "bnb" THEN "eth"
      ELSE IF named = {} THEN raw.text ELSE CHOOSE c \in named : TRUE

NormalizeChainCode(raw) ==
  LET named == {c \in DOMAIN CodeAliases : raw.text \in CodeAliases[c]}
  IN  IF named = {} THEN raw.text ELSE CHOOSE c \in named : TRUE

\* The cases of Broadcast that have an endpoint.
Supported == DOMAIN CodeAliases \ {"ltc", "ton"}

\* The names the catalog hands out: BSC, ETH and SOLANA.
CatalogChains == {"bsc", "eth", "solana"}

-----------------------------------------------------------------------------
(* Requests and statuses.  rawTx is NoTx when raw_tx is blank, txObject NoTx *)
(* when tx_object is left out or null.                                       *)

Request ==
  [binds : BOOLEAN, chain : Spellings, rawTx : Txs \cup {NoTx},
   txObject : Txs \cup {NoTx}]

Statuses == {"none", "ok", "bad request", "bad gateway"}

\* The transaction that Broadcast posts: Tron prefers tx_object.
TxOf(r) ==
  IF NormalizeChainCode(r.chain) = "tron" /\ r.txObject # NoTx
  THEN r.txObject ELSE r.rawTx

\* Mutant of Postable: a chain without a case is posted like the others.
PostableAnywhere(r) == TxOf(r) # NoTx

\* Broadcast's switch and the checks of its cases.
Postable(r) ==
  NormalizeChainCode(r.chain) \in Supported /\ TxOf(r) # NoTx

\* The handler's and Broadcast's checks in their order: the status of a request
\* that is not posted, "none" for one that is.
Verdict(r) ==
  LET addressed == r.binds /\ ~IsBlank(r.chain)
  IN  CASE ~addressed                             -> "bad request"
        [] addressed /\ ~hasKey                   -> "bad gateway"
        [] addressed /\ hasKey /\ ~Postable(r)    -> "bad request"
        [] addressed /\ hasKey /\ Postable(r)     -> "none"

-----------------------------------------------------------------------------
(* Endpoints.  An answer that arrives whole has a hash or not (a result that *)
(* is a string, or a txid), an error or not (JSON-RPC's, or a Tron code), and *)
(* Tron's result flag.  An HTTP error and a body that is no JSON are Broken.  *)

Broken == [whole |-> FALSE, hash |-> FALSE, error |-> FALSE, flag |-> "absent"]

Answers ==
  [whole : {TRUE}, hash : BOOLEAN, error : BOOLEAN,
   flag : {"absent", "true", "false"}] \cup {Broken}

\* How an endpoint says no: not at all, or with an error, which only Tron
\* accompanies with the id of the transaction, or with Tron's flag.
Refusals(chain) ==
  {a \in Answers :
     \/ a = Broken
     \/ a.error /\ (a.hash => chain = "tron")
     \/ chain = "tron" /\ a.flag = "false"}

NoPost == [stage |-> "none", answer |-> Broken]

\* Mutant of Classify: Tron's flag is not read.
ClassifyByHash(a, chain) ==
  IF a.whole /\ a.hash /\ ~a.error THEN "ok" ELSE "bad gateway"

\* Mutant of Classify: an endpoint's error is the client's fault.
ClassifyAsInvalid(a, chain) ==
  IF a.whole /\ a.error THEN "bad request"
  ELSE IF a.whole /\ a.hash /\ (chain = "tron" => a.flag # "false")
       THEN "ok" ELSE "bad gateway"

\* postJSON, then stringResult or broadcastTronPayload, then the handler.
Classify(a, chain) ==
  IF /\ a.whole
     /\ a.hash
     /\ ~a.error
     /\ chain = "tron" => a.flag # "false"
  THEN "ok" ELSE "bad gateway"

-----------------------------------------------------------------------------
NoRequest ==
  [binds |-> FALSE, chain |-> Absent, rawTx |-> NoTx, txObject |-> NoTx]

Init ==
  /\ hasKey \in BOOLEAN
  /\ call = [c \in Calls |->
               [pc |-> "idle", req |-> NoRequest, status |-> "none"]]
  /\ post = [c \in Calls |-> NoPost]
  /\ accepted = {}

Destination(c) == <<NormalizeChainCode(call[c].req.chain), TxOf(call[c].req)>>

Receive(c, r) ==
  /\ call[c].pc = "idle"
  /\ call' = [call EXCEPT ![c].pc = "received", ![c].req = r]
  /\ UNCHANGED <<hasKey, post, accepted>>

Reply(c, status) ==
  call' = [call EXCEPT ![c].pc = "replied", ![c].status = status]

Refuse(c) ==
  /\ call[c].pc = "received"
  /\ Verdict(call[c].req) # "none"
  /\ Reply(c, Verdict(call[c].req))
  /\ UNCHANGED <<hasKey, post, accepted>>

\* httpClient.Do sends the request.
Post(c) ==
  /\ call[c].pc = "received"
  /\ Verdict(call[c].req) = "none"
  /\ call' = [call EXCEPT ![c].pc = "waiting"]
  /\ post' = [post EXCEPT ![c].stage = "sent"]
  /\ UNCHANGED <<hasKey, accepted>>

Return(c, a) ==
  post' = [post EXCEPT ![c] = [stage |-> "answered", answer |-> a]]

\* The endpoint gets the post, also when nobody waits for it any more, and
\* takes the transaction up; its answer may still be any.
Accept(c) ==
  /\ post[c].stage = "sent"
  /\ accepted' = accepted \cup {Destination(c)}
  /\ \E a \in Answers : Return(c, a)
  /\ UNCHANGED <<hasKey, call>>

\* It turns the transaction down, perhaps because it knows it already.
Decline(c) ==
  /\ post[c].stage = "sent"
  /\ \E a \in Refusals(Destination(c)[1]) : Return(c, a)
  /\ UNCHANGED <<hasKey, call, accepted>>

\* The answer arrives in time.
Answer(c) ==
  /\ call[c].pc = "waiting"
  /\ post[c].stage = "answered"
  /\ Reply(c, Classify(post[c].answer, Destination(c)[1]))
  /\ UNCHANGED <<hasKey, post, accepted>>

\* Mutant of GiveUp: without http.Client.Timeout only an answer ends the wait.
GiveUpNever(c) ==
  /\ call[c].pc = "waiting"
  /\ post[c].stage = "answered"
  /\ Reply(c, "bad gateway")
  /\ UNCHANGED <<hasKey, post, accepted>>

\* http.Client.Timeout, a broken connection, or a client that hangs up and
\* cancels the request's context.
GiveUp(c) ==
  /\ call[c].pc = "waiting"
  /\ Reply(c, "bad gateway")
  /\ UNCHANGED <<hasKey, post, accepted>>

\* The process dies and another one starts; the posts are on their way.
Crash ==
  /\ call' = [c \in Calls |->
                IF call[c].pc \in {"received", "waiting"}
                THEN [call[c] EXCEPT !.pc = "gone"] ELSE call[c]]
  /\ UNCHANGED <<hasKey, post, accepted>>

Next ==
  \/ \E c \in Calls :
       \/ \E r \in Request : Receive(c, r)
       \/ Refuse(c)
       \/ Post(c)
       \/ Accept(c)
       \/ Decline(c)
       \/ Answer(c)
       \/ GiveUp(c)
  \/ Crash

Spec == Init /\ [][Next]_vars

\* Goroutines run, and the timer of http.Client fires; the endpoint owes
\* nothing.
Fairness == \A c \in Calls : WF_vars(Refuse(c) \/ Post(c)) /\ WF_vars(GiveUp(c))

FairSpec == Spec /\ Fairness

-----------------------------------------------------------------------------
(* Properties *)

\* Every variable holds values of its kind.
TypeOK ==
  /\ hasKey \in BOOLEAN
  /\ call \in [Calls ->
       [pc : {"idle", "received", "waiting", "replied", "gone"},
        req : Request \cup {NoRequest}, status : Statuses]]
  /\ post \in [Calls ->
       [stage : {"none", "sent", "answered"}, answer : Answers]]
  /\ accepted \subseteq Supported \X Txs

\* A call that answers with a hash is believed: the network of the chain that
\* the request named has taken up the transaction, whether this call got it
\* there or an earlier one.
SuccessIsTrue ==
  \A c \in Calls : call[c].status = "ok" => Destination(c) \in accepted

\* Status 400 tells the app to mend the request and send it again: a
\* transaction all of whose calls were refused so is on no network and never
\* will be, while 502 promises nothing.
RefusedIsNowhere ==
  \A tx \in Txs :
    (\A c \in Calls :
       /\ call[c].pc \in {"received", "waiting", "gone"} =>
            TxOf(call[c].req) # tx
       /\ TxOf(call[c].req) = tx => call[c].status = "bad request")
    => /\ \A p \in accepted : p[2] # tx
       /\ \A c \in Calls : post[c].stage = "sent" => TxOf(call[c].req) # tx

\* The catalog's chains can be broadcast on, and a name that the address book
\* files under one of them goes to that chain's network or nowhere: the two
\* packages' tables of names never disagree about a chain.
NamesAgree ==
  \A c \in Calls :
    /\ /\ post[c].stage # "none"
       /\ NormalizeChain(call[c].req.chain) \in CatalogChains
       => Destination(c)[1] = NormalizeChain(call[c].req.chain)
    /\ /\ call[c].status = "bad request"
       /\ call[c].req.binds /\ call[c].req.rawTx # NoTx
       => call[c].req.chain.text \notin CatalogChains

\* Every call is answered, if only with 502, also when the endpoint is silent.
EveryCallAnswered ==
  \A c \in Calls : call[c].pc = "received" ~> call[c].pc \in {"replied", "gone"}

=============================================================================
