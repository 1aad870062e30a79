---------------------------- MODULE BroadcastProofs ----------------------------
(***************************************************************************)
(* Machine-checked proofs about Broadcast, for every number of calls and    *)
(* every set of names and transactions.                                     *)
(***************************************************************************)
EXTENDS Broadcast, TLAPS

\* What ties a call to its post: a request that has not been posted has no
\* answer, and an answer that reads as a success was given after the network
\* had taken the transaction up.
PostsFit ==
  \A c \in Calls :
    /\ call[c].pc \in {"idle", "received"} => post[c].stage = "none"
    /\ call[c].pc = "idle" => call[c].status # "ok"
    /\ /\ post[c].stage = "answered"
       /\ Classify(post[c].answer, Destination(c)[1]) = "ok"
       => Destination(c) \in accepted
    /\ post[c].stage = "sent" =>
         Destination(c)[1] \in Supported /\ Destination(c)[2] \in Txs

BroadcastInv == TypeOK /\ PostsFit /\ SuccessIsTrue

\* No refusal, by an error, by Tron's flag or by silence, reads as a success
\* (broadcastJSONRPC, stringResult and broadcastTronPayload).
LEMMA RefusalsFail ==
  ASSUME NEW chain, NEW a \in Refusals(chain)
  PROVE  Classify(a, chain) = "bad gateway"
BY DEF Refusals, Classify, Broken

\* Every verdict is a status, and a request that is posted has a chain with an
\* endpoint and a transaction.
LEMMA VerdictFacts ==
  ASSUME NEW r \in Request, hasKey \in BOOLEAN
  PROVE  /\ Verdict(r) \in {"bad request", "bad gateway", "none"}
         /\ Verdict(r) = "none" =>
              NormalizeChainCode(r.chain) \in Supported /\ TxOf(r) \in Txs
<1>1. r.binds \in BOOLEAN /\ TxOf(r) \in Txs \cup {NoTx}
  BY DEF Request, TxOf
<1>. QED  BY <1>1 DEF Verdict, Postable, IsBlank

\* No step breaks the invariant.
LEMMA StepKeepsBroadcast == BroadcastInv /\ [Next]_vars => BroadcastInv'
<1>. SUFFICES ASSUME BroadcastInv, [Next]_vars
              PROVE  BroadcastInv'
  OBVIOUS
<1>. USE DEF BroadcastInv
<1>1. CASE \E c \in Calls, r \in Request : Receive(c, r)
  <2>. PICK c \in Calls, r \in Request : Receive(c, r)
    BY <1>1
  <2>1. TypeOK'
    BY DEF Receive, TypeOK
  <2>2. \A d \in Calls : d # c => call'[d] = call[d] /\ post'[d] = post[d]
    BY DEF Receive, TypeOK
  <2>3. /\ call'[c].pc = "received" /\ call'[c].status = call[c].status
        /\ post' = post /\ accepted' = accepted
        /\ call[c].pc = "idle"
    BY DEF Receive, TypeOK
  <2>4. PostsFit'
    BY <2>2, <2>3 DEF PostsFit, Destination
  <2>5. SuccessIsTrue'
    BY <2>2, <2>3 DEF PostsFit, SuccessIsTrue, Destination
  <2>. QED  BY <2>1, <2>4, <2>5
<1>2. CASE \E c \in Calls : Refuse(c) \/ Answer(c) \/ GiveUp(c)
  <2>. PICK c \in Calls : Refuse(c) \/ Answer(c) \/ GiveUp(c)
    BY <1>2
  <2>1. PICK status \in {"ok", "bad request", "bad gateway"} :
          /\ Reply(c, status)
          /\ UNCHANGED <<hasKey, post, accepted>>
          /\ status = "ok" => Destination(c) \in accepted
    <3>1. CASE Refuse(c)
      <4>1. call[c].req \in Request \/ call[c].req = NoRequest
        BY DEF TypeOK
      <4>2. Verdict(NoRequest) = "bad request"
        BY DEF Verdict, NoRequest
      <4>3. Verdict(call[c].req) \in {"bad request", "bad gateway"}
        BY <3>1, <4>1, <4>2, VerdictFacts DEF Refuse, TypeOK
      <4>. QED  BY <3>1, <4>3 DEF Refuse
    <3>2. CASE Answer(c)
      <4>1. Classify(post[c].answer, Destination(c)[1])
              \in {"ok", "bad gateway"}
        BY DEF Classify
      <4>. QED  BY <3>2, <4>1 DEF Answer, PostsFit
    <3>3. CASE GiveUp(c)
      BY <3>3 DEF GiveUp
    <3>. QED  BY <3>1, <3>2, <3>3
  <2>2. /\ call'[c].pc = "replied" /\ call'[c].status = status
        /\ \A d \in Calls : call'[d].req = call[d].req
        /\ \A d \in Calls : d # c => call'[d] = call[d]
    BY <2>1 DEF Reply, TypeOK
  <2>3. TypeOK'
    BY <2>1 DEF Reply, TypeOK, Statuses
  <2>4. \A d \in Calls : Destination(d)' = Destination(d)
    BY <2>2 DEF Destination
  <2>5. PostsFit'
    BY <2>1, <2>2, <2>4 DEF PostsFit
  <2>6. SuccessIsTrue'
    BY <2>1, <2>2, <2>4 DEF SuccessIsTrue
  <2>. QED  BY <2>3, <2>5, <2>6
<1>3. CASE \E c \in Calls : Post(c)
  <2>. PICK c \in Calls : Post(c)
    BY <1>3
  <2>1. /\ call[c].pc = "received"
        /\ \A d \in Calls : call'[d].req = call[d].req
        /\ \A d \in Calls : call'[d].status = call[d].status
        /\ \A d \in Calls : d # c => call'[d] = call[d] /\ post'[d] = post[d]
        /\ call'[c].pc = "waiting" /\ post'[c].stage = "sent"
        /\ accepted' = accepted
    BY DEF Post, TypeOK
  <2>2. TypeOK'
    BY DEF Post, TypeOK
  <2>3. \A d \in Calls : Destination(d)' = Destination(d)
    BY <2>1 DEF Destination
  <2>4. Destination(c)[1] \in Supported /\ Destination(c)[2] \in Txs
    <3>1. call[c].req \in Request \/ call[c].req = NoRequest
      BY DEF TypeOK
    <3>2. Verdict(NoRequest) = "bad request"
      BY DEF Verdict, NoRequest
    <3>3. Verdict(call[c].req) = "none"
      BY DEF Post
    <3>. QED  BY <3>1, <3>2, <3>3, VerdictFacts DEF Destination, TypeOK
  <2>5. PostsFit'
    BY <2>1, <2>3, <2>4 DEF PostsFit
  <2>6. SuccessIsTrue'
    BY <2>1, <2>3 DEF SuccessIsTrue
  <2>. QED  BY <2>2, <2>5, <2>6
<1>4. CASE \E c \in Calls : Accept(c) \/ Decline(c)
  <2>. PICK c \in Calls : Accept(c) \/ Decline(c)
    BY <1>4
  <2>1. PICK a \in Answers :
          /\ Return(c, a)
          /\ post[c].stage = "sent"
          /\ call' = call /\ hasKey' = hasKey
          /\ accepted' \in {accepted, accepted \cup {Destination(c)}}
          /\ Classify(a, Destination(c)[1]) = "ok" =>
               Destination(c) \in accepted'
    <3>1. CASE Accept(c)
      BY <3>1 DEF Accept
    <3>2. CASE Decline(c)
      <4>1. PICK a \in Refusals(Destination(c)[1]) : Return(c, a)
        BY <3>2 DEF Decline
      <4>2. a \in Answers /\ Classify(a, Destination(c)[1]) = "bad gateway"
        BY RefusalsFail DEF Refusals
      <4>. QED  BY <3>2, <4>1, <4>2 DEF Decline
    <3>. QED  BY <3>1, <3>2
  <2>2. /\ post'[c].stage = "answered" /\ post'[c].answer = a
        /\ \A d \in Calls : d # c => post'[d] = post[d]
    BY <2>1 DEF Return, TypeOK
  <2>3. Destination(c) \in Supported \X Txs
    BY <2>1 DEF PostsFit, Destination
  <2>4. TypeOK'
    BY <2>1, <2>3 DEF Return, TypeOK
  <2>5. \A d \in Calls : Destination(d)' = Destination(d)
    BY <2>1 DEF Destination
  <2>6. PostsFit'
    BY <2>1, <2>2, <2>5 DEF PostsFit
  <2>7. SuccessIsTrue'
    BY <2>1, <2>5 DEF SuccessIsTrue
  <2>. QED  BY <2>4, <2>6, <2>7
<1>5. CASE Crash
  <2>1. /\ \A d \in Calls : call'[d].req = call[d].req
        /\ \A d \in Calls : call'[d].status = call[d].status
        /\ \A d \in Calls :
             call'[d].pc = call[d].pc \/ call'[d].pc = "gone"
        /\ post' = post /\ accepted' = accepted
    BY <1>5 DEF Crash, TypeOK
  <2>2. TypeOK'
    BY <1>5 DEF Crash, TypeOK
  <2>3. \A d \in Calls : Destination(d)' = Destination(d)
    BY <2>1 DEF Destination
  <2>4. PostsFit' /\ SuccessIsTrue'
    BY <2>1, <2>3 DEF PostsFit, SuccessIsTrue
  <2>. QED  BY <2>2, <2>4
<1>6. CASE UNCHANGED vars
  BY <1>6 DEF vars, TypeOK, PostsFit, SuccessIsTrue, Destination
<1>. QED  BY <1>1, <1>2, <1>3, <1>4, <1>5, <1>6 DEF Next

\* The invariant holds in every state.
LEMMA BroadcastInvHolds == Spec => []BroadcastInv
<1>1. Init => BroadcastInv
  <2>1. Broken \in Answers
    BY DEF Answers
  <2>. QED
    BY <2>1 DEF Init, BroadcastInv, TypeOK, PostsFit, SuccessIsTrue, NoPost,
                Statuses
<1>. QED  BY <1>1, StepKeepsBroadcast, PTL DEF Spec

\* Every variable holds values of its kind; above all, nothing is ever taken up
\* on a chain without an endpoint.
THEOREM TypeCorrect == Spec => []TypeOK
<1>1. BroadcastInv => TypeOK
  BY DEF BroadcastInv
<1>. QED  BY <1>1, BroadcastInvHolds, PTL

\* A call that answers with a hash is right about it, whatever the endpoint
\* answers, in whatever order, and however often the app asks.
THEOREM SuccessIsAlwaysTrue == Spec => []SuccessIsTrue
<1>1. BroadcastInv => SuccessIsTrue
  BY DEF BroadcastInv
<1>. QED  BY <1>1, BroadcastInvHolds, PTL

-----------------------------------------------------------------------------
(* What a refusal means. *)

\* A call that was posted passed every check and is not refused later; one that
\* was refused did not pass; and what a network has taken up was posted.
RefusalsFit ==
  /\ \A c \in Calls :
       /\ call[c].pc = "idle" => call[c].status = "none"
       /\ post[c].stage # "none" =>
            Verdict(call[c].req) = "none" /\ call[c].status # "bad request"
       /\ call[c].status = "bad request" => Verdict(call[c].req) = "bad request"
  /\ \A p \in accepted : \E c \in Calls : post[c].stage # "none" /\ Destination(c) = p

RefusalInv == BroadcastInv /\ RefusalsFit

LEMMA StepKeepsRefusals == RefusalInv /\ [Next]_vars => RefusalInv'
<1>. SUFFICES ASSUME RefusalInv, [Next]_vars
              PROVE  RefusalsFit'
  BY StepKeepsBroadcast DEF RefusalInv
<1>. USE DEF RefusalInv, BroadcastInv
<1>0. ASSUME UNCHANGED hasKey, NEW c \in Calls, call'[c].req = call[c].req
      PROVE  Verdict(call[c].req)' = Verdict(call[c].req) /\ Destination(c)' = Destination(c)
  BY <1>0 DEF Verdict, Postable, Destination
<1>1. CASE \E c \in Calls, r \in Request : Receive(c, r)
  <2>. PICK c \in Calls, r \in Request : Receive(c, r)
    BY <1>1
  <2>1. /\ \A d \in Calls : d # c => call'[d] = call[d]
        /\ call[c].pc = "idle" /\ call'[c].pc = "received"
        /\ call'[c].status = call[c].status
        /\ UNCHANGED <<hasKey, post, accepted>>
    BY DEF Receive, TypeOK
  <2>2. post[c].stage = "none" /\ call[c].status = "none"
    BY <2>1 DEF PostsFit, RefusalsFit
  <2>3. \A p \in accepted : \E d \in Calls \ {c} : post[d].stage # "none" /\ Destination(d) = p
    BY <2>2 DEF RefusalsFit
  <2>. QED  BY <2>1, <2>2, <2>3, <1>0 DEF RefusalsFit
<1>2. CASE \E c \in Calls : Refuse(c) \/ Answer(c) \/ GiveUp(c)
  <2>. PICK c \in Calls : Refuse(c) \/ Answer(c) \/ GiveUp(c)
    BY <1>2
  <2> DEFINE Fits(status) ==
               status = "bad request" =>
                 post[c].stage = "none" /\ Verdict(call[c].req) = "bad request"
  <2>1. PICK status :
          Reply(c, status) /\ Fits(status) /\ UNCHANGED <<hasKey, post, accepted>>
    <3>1. CASE Refuse(c)
      <4>1. Fits(Verdict(call[c].req)) /\ Reply(c, Verdict(call[c].req))
        BY <3>1 DEF Refuse, PostsFit
      <4>. QED  BY <3>1, <4>1 DEF Refuse
    <3>2. CASE Answer(c)
      <4>1. Classify(post[c].answer, Destination(c)[1]) # "bad request"
        BY DEF Classify
      <4>2. Fits(Classify(post[c].answer, Destination(c)[1]))
        BY <4>1
      <4>. QED  BY <3>2, <4>2 DEF Answer
    <3>3. CASE GiveUp(c)
      <4>1. Fits("bad gateway")
        OBVIOUS
      <4>. QED  BY <3>3, <4>1 DEF GiveUp
    <3>. QED  BY <3>1, <3>2, <3>3
  <2>2. /\ call'[c].pc = "replied" /\ call'[c].status = status
        /\ \A d \in Calls : call'[d].req = call[d].req
        /\ \A d \in Calls : d # c => call'[d] = call[d]
    BY <2>1 DEF Reply, TypeOK
  <2>. QED  BY <2>1, <2>2, <1>0 DEF RefusalsFit
<1>3. CASE \E c \in Calls : Post(c)
  <2>. PICK c \in Calls : Post(c)
    BY <1>3
  <2>1. /\ \A d \in Calls : call'[d].req = call[d].req
        /\ \A d \in Calls : call'[d].status = call[d].status
        /\ \A d \in Calls : d # c => call'[d] = call[d] /\ post'[d] = post[d]
        /\ call'[c].pc = "waiting" /\ Verdict(call[c].req) = "none"
        /\ post'[c].stage = "sent" /\ UNCHANGED <<hasKey, accepted>>
    BY DEF Post, TypeOK
  <2>2. call[c].status # "bad request"
    BY <2>1 DEF RefusalsFit
  <2>. QED  BY <2>1, <2>2, <1>0 DEF RefusalsFit
<1>4. CASE \E c \in Calls : Accept(c) \/ Decline(c)
  <2>. PICK c \in Calls : Accept(c) \/ Decline(c)
    BY <1>4
  <2>1. PICK a \in Answers : Return(c, a)
    BY DEF Accept, Decline, Refusals
  <2>2. /\ UNCHANGED <<hasKey, call>> /\ post[c].stage # "none"
        /\ accepted' \in {accepted, accepted \cup {Destination(c)}}
    BY DEF Accept, Decline
  <2>3. post'[c].stage = "answered" /\ \A d \in Calls : d # c => post'[d] = post[d]
    BY <2>1 DEF Return, TypeOK
  <2>. QED  BY <2>2, <2>3, <1>0 DEF RefusalsFit
<1>5. CASE Crash
  <2>1. /\ \A d \in Calls : call'[d].req = call[d].req /\ call'[d].status = call[d].status
        /\ \A d \in Calls : call'[d].pc = "idle" => call[d].pc = "idle"
        /\ UNCHANGED <<hasKey, post, accepted>>
    BY <1>5 DEF Crash, TypeOK
  <2>. QED  BY <2>1, <1>0 DEF RefusalsFit
<1>6. CASE UNCHANGED vars
  BY <1>6, <1>0 DEF vars, RefusalsFit
<1>. QED  BY <1>1, <1>2, <1>3, <1>4, <1>5, <1>6 DEF Next

LEMMA RefusalInvHolds == Spec => []RefusalInv
<1>1. Init => BroadcastInv
  <2>1. Broken \in Answers
    BY DEF Answers
  <2>. QED
    BY <2>1 DEF Init, BroadcastInv, TypeOK, PostsFit, SuccessIsTrue, NoPost,
                Statuses
<1>2. Init => RefusalsFit
  <2>. SUFFICES ASSUME Init PROVE RefusalsFit
    OBVIOUS
  <2>1. accepted = {} /\ \A c \in Calls : call[c].status = "none" /\ post[c].stage = "none"
    BY DEF Init, NoPost
  <2>. QED  BY <2>1 DEF RefusalsFit
<1>. QED  BY <1>1, <1>2, StepKeepsRefusals, PTL DEF Spec, RefusalInv

\* A transaction all of whose calls were answered with 400 is on no network and
\* on no wire, however many calls there were and whatever came between them.
THEOREM RefusedIsAlwaysNowhere == Spec => []RefusedIsNowhere
<1>1. RefusalInv => RefusedIsNowhere
  <2>. SUFFICES ASSUME RefusalInv, NEW tx \in Txs,
                       \A c \in Calls :
                         TxOf(call[c].req) = tx => call[c].status = "bad request"
                PROVE  /\ \A p \in accepted : p[2] # tx
                       /\ \A c \in Calls : post[c].stage = "sent" => TxOf(call[c].req) # tx
    BY DEF RefusedIsNowhere
  <2>1. \A c \in Calls : post[c].stage # "none" => TxOf(call[c].req) # tx
    BY DEF RefusalInv, RefusalsFit
  <2>2. \A c \in Calls : Destination(c)[2] = TxOf(call[c].req)
    BY DEF Destination
  <2>. QED  BY <2>1, <2>2 DEF RefusalInv, RefusalsFit
<1>. QED  BY <1>1, RefusalInvHolds, PTL

-----------------------------------------------------------------------------
(* The two packages' tables of names. *)

\* The table of codes, spelled out.
LEMMA CodesNamed ==
  /\ DOMAIN CodeAliases = {"eth", "bsc", "polygon", "base", "arbitrum", "optimism",
                           "solana", "btc", "tron", "ltc", "ton"}
  /\ \A c \in DOMAIN CodeAliases : c \in CodeAliases[c]
<1>1. DOMAIN CodeAliases = {"eth", "bsc", "polygon", "base", "arbitrum", "optimism",
                            "solana", "btc", "tron", "ltc", "ton"}
  BY DEF CodeAliases
<1>2. /\ "eth" \in CodeAliases["eth"] /\ "bsc" \in CodeAliases["bsc"]
      /\ "polygon" \in CodeAliases["polygon"] /\ "base" \in CodeAliases["base"]
      /\ "arbitrum" \in CodeAliases["arbitrum"] /\ "optimism" \in CodeAliases["optimism"]
      /\ "solana" \in CodeAliases["solana"] /\ "btc" \in CodeAliases["btc"]
      /\ "tron" \in CodeAliases["tron"] /\ "ltc" \in CodeAliases["ltc"]
      /\ "ton" \in CodeAliases["ton"]
  BY DEF CodeAliases
<1>. QED  BY <1>1, <1>2

\* A name that Broadcast sends to an endpoint is one of that chain's spellings.
LEMMA CodesAreNamed ==
  ASSUME NEW raw, NormalizeChainCode(raw) \in DOMAIN CodeAliases
  PROVE  raw.text \in CodeAliases[NormalizeChainCode(raw)]
<1>. DEFINE named == {c \in DOMAIN CodeAliases : raw.text \in CodeAliases[c]}
<1>1. CASE named = {}
  <2>1. NormalizeChainCode(raw) = raw.text
    BY <1>1 DEF NormalizeChainCode
  <2>2. \A c \in DOMAIN CodeAliases : c \in CodeAliases[c]
    BY CodesNamed
  <2>. QED  BY <2>1, <2>2, <1>1
<1>2. CASE named # {}
  BY <1>2 DEF NormalizeChainCode
<1>. QED  BY <1>1, <1>2

\* The spellings of a code, for the codes whose names meet the catalog's.
LEMMA CodeSpellings ==
  /\ CodeAliases["eth"] = {"eth", "ethereum", "ethereum-mainnet", "eth-mainnet"}
  /\ CodeAliases["bsc"] = {"bsc", "bnb", "bnb smart chain", "binance smart chain", "bnb-mainnet"}
  /\ CodeAliases["solana"] = {"sol", "solana", "solana-mainnet"}
  /\ \A c \in DOMAIN CodeAliases \ {"eth", "bsc", "solana"} :
       CodeAliases[c] \cap {"eth", "ethereum", "ethereum mainnet", "eth-mainnet", "bsc", "bnb",
                            "bnb smart chain", "binance smart chain", "smartchain",
                            "bnb-mainnet", "sol", "solana", "solana mainnet",
                            "solana-mainnet"} = {}
<1>1. /\ CodeAliases["eth"] = {"eth", "ethereum", "ethereum-mainnet", "eth-mainnet"}
      /\ CodeAliases["bsc"] = {"bsc", "bnb", "bnb smart chain", "binance smart chain",
                               "bnb-mainnet"}
      /\ CodeAliases["solana"] = {"sol", "solana", "solana-mainnet"}
  BY DEF CodeAliases
<1>2. /\ CodeAliases["polygon"] = {"polygon", "matic", "polygon-mainnet"}
      /\ CodeAliases["base"] = {"base", "base-mainnet"}
      /\ CodeAliases["arbitrum"] = {"arb", "arbitrum", "arbitrum-one", "arb-mainnet"}
      /\ CodeAliases["optimism"] = {"op", "optimism", "opt", "opt-mainnet"}
      /\ CodeAliases["btc"] = {"btc", "bitcoin", "bitcoin-mainnet"}
      /\ CodeAliases["tron"] = {"trx", "tron", "tron-mainnet"}
      /\ CodeAliases["ltc"] = {"ltc", "litecoin"}
      /\ CodeAliases["ton"] = {"ton"}
  BY DEF CodeAliases
<1>. QED  BY <1>1, <1>2, CodesNamed

\* A name that the catalog files under one of its chains is one of its
\* spellings there.
LEMMA CatalogSpellings ==
  ASSUME NEW raw, NormalizeChain(raw) \in CatalogChains
  PROVE  /\ NormalizeChain(raw) = "bsc" =>
              raw.text \in {"bsc", "bnb", "bnb smart chain", "binance smart chain",
                            "smartchain", "bnb-mainnet"}
         /\ NormalizeChain(raw) = "eth" =>
              raw.text \in {"eth", "ethereum", "ethereum mainnet", "eth-mainnet"}
         /\ NormalizeChain(raw) = "solana" =>
              raw.text \in {"sol", "solana", "solana mainnet", "solana-mainnet"}
<1>. DEFINE named == {c \in DOMAIN ChainAliases : raw.text \in ChainAliases[c]}
<1>1. /\ DOMAIN ChainAliases = {"bsc", "eth", "solana"}
      /\ ChainAliases["bsc"] = {"bsc", "bnb", "bnb smart chain", "binance smart chain",
                                "smartchain", "bnb-mainnet"}
      /\ ChainAliases["eth"] = {"eth", "ethereum", "ethereum mainnet", "eth-mainnet"}
      /\ ChainAliases["solana"] = {"sol", "solana", "solana mainnet", "solana-mainnet"}
  BY DEF ChainAliases
<1>2. CASE named = {}
  <2>1. NormalizeChain(raw) = raw.text
    BY <1>2 DEF NormalizeChain
  <2>. QED  BY <2>1, <1>1
<1>3. CASE named # {}
  <2>1. NormalizeChain(raw) \in named
    BY <1>3 DEF NormalizeChain
  <2>. QED  BY <2>1, <1>1
<1>. QED  BY <1>2, <1>3

\* The tables of the catalog and of the broadcaster do not disagree.
LEMMA TablesAgree ==
  ASSUME NEW raw, NormalizeChain(raw) \in CatalogChains,
         NormalizeChainCode(raw) \in Supported
  PROVE  NormalizeChainCode(raw) = NormalizeChain(raw)
<1>1. /\ NormalizeChainCode(raw) \in DOMAIN CodeAliases
      /\ raw.text \in CodeAliases[NormalizeChainCode(raw)]
  BY CodesAreNamed DEF Supported
<1>2. NormalizeChainCode(raw) \in {"eth", "bsc", "solana"}
  <2>1. raw.text \in {"eth", "ethereum", "ethereum mainnet", "eth-mainnet", "bsc", "bnb",
                      "bnb smart chain", "binance smart chain", "smartchain",
                      "bnb-mainnet", "sol", "solana", "solana mainnet",
                      "solana-mainnet"}
    <3>1. CASE NormalizeChain(raw) = "bsc"
      BY <3>1, CatalogSpellings
    <3>2. CASE NormalizeChain(raw) = "eth"
      BY <3>2, CatalogSpellings
    <3>3. CASE NormalizeChain(raw) = "solana"
      BY <3>3, CatalogSpellings
    <3>. QED  BY <3>1, <3>2, <3>3 DEF CatalogChains
  <2>2. ASSUME NormalizeChainCode(raw) \notin {"eth", "bsc", "solana"}
        PROVE  FALSE
    <3>1. NormalizeChainCode(raw) \in DOMAIN CodeAliases \ {"eth", "bsc", "solana"}
      BY <1>1, <2>2
    <3>2. raw.text \notin CodeAliases[NormalizeChainCode(raw)]
      BY <2>1, <3>1, CodeSpellings
    <3>. QED  BY <1>1, <3>2
  <2>. QED  BY <2>2
<1>3. NormalizeChain(raw) \in {"bsc", "eth", "solana"}
  BY DEF CatalogChains
<1>. QED  BY <1>1, <1>2, <1>3, CatalogSpellings, CodeSpellings

\* A chain of the catalog can be broadcast on under its own name.
LEMMA CatalogIsSupported ==
  ASSUME NEW raw, raw.text \in CatalogChains
  PROVE  NormalizeChainCode(raw) \in Supported
<1>. DEFINE named == {c \in DOMAIN CodeAliases : raw.text \in CodeAliases[c]}
<1>1. raw.text \in named /\ named \subseteq DOMAIN CodeAliases
  BY CodesNamed DEF CatalogChains
<1>2. NormalizeChainCode(raw) \in named
  BY <1>1 DEF NormalizeChainCode
<1>3. NormalizeChainCode(raw) \notin {"ltc", "ton"}
  <2>1. "ltc" \notin named /\ "ton" \notin named
    BY CodesNamed, CodeSpellings DEF CatalogChains
  <2>. QED  BY <1>2, <2>1
<1>. QED  BY <1>1, <1>2, <1>3 DEF Supported

\* Whatever a client calls a chain: if the address book files the name under a
\* chain of the catalog, a transaction goes to that chain's network or nowhere,
\* and under the catalog's own name it is not refused for the chain.
THEOREM NamesAlwaysAgree == Spec => []NamesAgree
<1>1. RefusalInv => NamesAgree
  <2>. SUFFICES ASSUME RefusalInv, NEW c \in Calls
                PROVE  /\ /\ post[c].stage # "none"
                          /\ NormalizeChain(call[c].req.chain) \in CatalogChains
                          => Destination(c)[1] = NormalizeChain(call[c].req.chain)
                       /\ /\ call[c].status = "bad request"
                          /\ call[c].req.binds /\ call[c].req.rawTx # NoTx
                          => call[c].req.chain.text \notin CatalogChains
    BY DEF NamesAgree
  <2>1. ASSUME post[c].stage # "none",
               NormalizeChain(call[c].req.chain) \in CatalogChains
        PROVE  Destination(c)[1] = NormalizeChain(call[c].req.chain)
    <3>1. Verdict(call[c].req) = "none"
      BY <2>1 DEF RefusalInv, RefusalsFit
    <3>2. call[c].req.binds \in BOOLEAN /\ hasKey \in BOOLEAN
      <4>1. call[c].req \in Request \cup {NoRequest} /\ hasKey \in BOOLEAN
        BY DEF RefusalInv, BroadcastInv, TypeOK
      <4>2. \A r \in Request : r.binds \in BOOLEAN
        BY DEF Request
      <4>3. NoRequest.binds \in BOOLEAN
        BY DEF NoRequest
      <4>. QED  BY <4>1, <4>2, <4>3
    <3>3. NormalizeChainCode(call[c].req.chain) \in Supported
      BY <3>1, <3>2 DEF Verdict, Postable
    <3>. QED  BY <2>1, <3>3, TablesAgree DEF Destination
  <2>2. ASSUME call[c].status = "bad request",
               call[c].req.binds, call[c].req.rawTx # NoTx,
               call[c].req.chain.text \in CatalogChains
        PROVE  FALSE
    <3>1. Verdict(call[c].req) = "bad request" /\ hasKey \in BOOLEAN
      BY <2>2 DEF RefusalInv, RefusalsFit, BroadcastInv, TypeOK
    <3>2. ~IsBlank(call[c].req.chain)
      BY <2>2 DEF IsBlank, CatalogChains
    <3>3. TxOf(call[c].req) # NoTx
      BY <2>2 DEF TxOf
    <3>4. Postable(call[c].req)
      BY <2>2, <3>3, CatalogIsSupported DEF Postable
    <3>. QED  BY <2>2, <3>1, <3>2, <3>4 DEF Verdict
  <2>. QED  BY <2>1, <2>2
<1>. QED  BY <1>1, RefusalInvHolds, PTL

=============================================================================
