--------------------------- MODULE AddressBookProofs ---------------------------
(***************************************************************************)
(* Machine-checked proofs about what the package appapi promises its clients *)
(* - its address book, and its catalog beside the tables of the packages that *)
(* name the same coins - for every set of wallets, names and ids and any       *)
(* number of requests.                                                        *)
(***************************************************************************)
EXTENDS AddressBook, AppCatalog, EnumerationProofs, TLAPS

\* The pointers of this specification lead to entries of their own user and
\* chain.  The store has flags on its items and no pointers, so this says nothing
\* of the code: it ties this specification's two variables for the proofs below.
DefaultsAreLive ==
  \A s \in Users \X Chains :
    default[s] # 0 =>
      /\ default[s] \in DOMAIN entries
      /\ Slot(entries[default[s]]) = s

BookInv == TypeOK /\ DefaultsAreLive

\* The action properties of AddressBook, as predicates of one step.
IDsAreFresh ==
  Restarted \/ \A id \in 1..lastID : id \in DOMAIN entries' => id \in DOMAIN entries

EntryIsOwners(id) ==
  \/ /\ id \in DOMAIN entries'
     /\ entries'[id] = entries[id]
  \/ \E h \in Handlers :
       /\ Taking(h)
       /\ req[h].id = id
       /\ UserOf(req[h]) = entries[id].userID
       /\ id \in DOMAIN entries' =>
            /\ entries'[id].userID = entries[id].userID
            /\ entries'[id].createdAt = entries[id].createdAt

DefaultIsOwners(s) ==
  \/ default'[s] = default[s]
  \/ \E h \in Handlers :
       /\ Taking(h)
       /\ UserOf(req[h]) = s[1]
       /\ \/ req[h].isDefault /\ NormalizeChain(req[h].chain) = s[2]
          \/ default[s] # 0 /\ req[h].id = default[s]

StepKeepsPromises ==
  /\ IDsAreFresh
  /\ Restarted \/ \A id \in DOMAIN entries : EntryIsOwners(id)
  /\ Restarted \/ \A s \in Users \X Chains : DefaultIsOwners(s)

-----------------------------------------------------------------------------
(* The requests. *)

\* A Create or Update that passed the checks carries a wallet of the header's
\* values and a chain name; trimming the name does not change its chain.
LEMMA SavesAreTyped ==
  ASSUME NEW r \in Requests \cup {NoRequest}, ~Invalid(r),
         r.op \in {"Create", "Update"}
  PROVE  /\ UserOf(r) \in Users
         /\ Trim(r.address) \in Raw
         /\ Trim(r.chain) \in Raw
         /\ NormalizeChain(Trim(r.chain)) \in Chains
         /\ NormalizeChain(Trim(r.chain)) = NormalizeChain(r.chain)
         /\ r.isDefault \in BOOLEAN
<1>1. r \in CreateRequests \cup UpdateRequests
  <2>1. r.op \notin {"List", "Delete"} /\ r.binds
    BY DEF Invalid
  <2>2. r # NoRequest
    BY <2>1 DEF NoRequest
  <2>3. r \notin ListRequests
    BY <2>1 DEF ListRequests
  <2>4. r \notin DeleteRequests
    BY <2>1 DEF DeleteRequests
  <2>5. r \notin UnboundRequests
    BY <2>1 DEF UnboundRequests
  <2>. QED  BY <2>2, <2>3, <2>4, <2>5 DEF Requests
<1>2. /\ r.wallet \in Wallets
      /\ r.address \in Raw
      /\ r.chain \in Raw /\ r.chain \in Spellings
      /\ r.isDefault \in BOOLEAN
  BY <1>1, InputsAreRaw DEF CreateRequests, UpdateRequests
<1>3. Trim(r.chain) \in Raw /\ Trim(r.chain).text = r.chain.text
  BY <1>2 DEF Trim, Raw
<1>4. NormalizeChain(Trim(r.chain)) = NormalizeChain(r.chain)
  BY <1>3 DEF NormalizeChain
<1>5. Trim(r.address) \in Raw
  BY <1>2 DEF Trim, Raw
<1>. QED  BY <1>2, <1>3, <1>4, <1>5 DEF Users, UserOf, Chains

-----------------------------------------------------------------------------
(* The invariant. *)

\* A save keeps every pointer live: the one that moves leads to the entry that
\* is saved, and no other leads to it any more.
LEMMA SaveKeepsInv ==
  ASSUME BookInv, NEW h \in Handlers,
         NEW e \in Entry, Slot(e) \in Users \X Chains,
         lastID' \in Nat, lastID <= lastID',
         NEW id \in 1..lastID', Save(h, id, e)
  PROVE  BookInv'
<1>1. /\ entries' = [i \in DOMAIN entries \cup {id} |->
                       IF i = id THEN e ELSE entries[i]]
      /\ UNCHANGED <<now, req>>
      /\ phase' = [phase EXCEPT ![h] = "replied"]
      /\ \E item : reply' = [reply EXCEPT ![h] = Reply("none", <<item>>)]
  BY DEF Save, Answer
<1>2. \A s \in Users \X Chains :
        \/ s = Slot(e) /\ default'[s] = id
        \/ default'[s] = 0
        \/ default'[s] = default[s] /\ default[s] # id
  BY DEF Save, Undefaulted, BookInv, TypeOK
<1>3. default' \in [Users \X Chains -> Nat]
  BY DEF Save, Undefaulted, BookInv, TypeOK
<1>4. TypeOK'
  <2>1. /\ DOMAIN entries' \subseteq 1..lastID'
        /\ \A i \in DOMAIN entries' : entries'[i] \in Entry
    BY <1>1 DEF BookInv, TypeOK
  <2>2. /\ DOMAIN reply' = Handlers
        /\ \A g \in Handlers : reply'[g].err \in Errors
    <3>1. PICK item : reply' = [reply EXCEPT ![h] = Reply("none", <<item>>)]
      BY <1>1
    <3>2. Reply("none", <<item>>).err \in Errors
      BY DEF Reply, Errors
    <3>. QED  BY <3>1, <3>2 DEF BookInv, TypeOK
  <2>. QED  BY <1>1, <1>3, <2>1, <2>2 DEF BookInv, TypeOK, Phases
<1>5. ASSUME NEW s \in Users \X Chains, default'[s] # 0
      PROVE  default'[s] \in DOMAIN entries' /\ Slot(entries'[default'[s]]) = s
  BY <1>1, <1>2, <1>5 DEF BookInv, DefaultsAreLive
<1>6. DefaultsAreLive'
  BY <1>5 DEF DefaultsAreLive, Slot
<1>. QED  BY <1>4, <1>6 DEF BookInv

\* Create and Update save an entry of the caller's under an id in range.
LEMMA CreateKeepsInv ==
  ASSUME BookInv, NEW h \in Handlers, Create(h)
  PROVE  BookInv'
<1>. DEFINE r == req[h]
<1>1. r \in Requests \cup {NoRequest} /\ ~Invalid(r) /\ r.op = "Create"
  BY DEF Create, Serving, BookInv, TypeOK
<1>2. PICK t \in Stamps :
        Save(h, lastID + 1,
             [userID |-> UserOf(r), address |-> Trim(r.address),
              chain |-> Trim(r.chain), createdAt |-> t, updatedAt |-> t])
  BY DEF Create
<1>3. t \in Nat
  BY DEF Stamps, BookInv, TypeOK
<1>. DEFINE e == [userID |-> UserOf(r), address |-> Trim(r.address),
                  chain |-> Trim(r.chain), createdAt |-> t, updatedAt |-> t]
<1>4. e \in Entry /\ Slot(e) \in Users \X Chains
  BY <1>1, <1>3, SavesAreTyped DEF Entry, Slot
<1>5. lastID' = lastID + 1 /\ lastID \in Nat
  BY DEF Create, BookInv, TypeOK
<1>. QED
  <2>. HIDE DEF e
  <2>1. Save(h, lastID + 1, e)
    BY <1>2 DEF e
  <2>. QED  BY <2>1, <1>4, <1>5, SaveKeepsInv

LEMMA UpdateKeepsInv ==
  ASSUME BookInv, NEW h \in Handlers, Update(h)
  PROVE  BookInv'
<1>. DEFINE r == req[h]
            old == entries[r.id]
<1>1. r \in Requests \cup {NoRequest} /\ ~Invalid(r) /\ r.op = "Update"
  BY DEF Update, Serving, BookInv, TypeOK
<1>2. PICK t \in Stamps :
        Save(h, r.id, [old EXCEPT !.address = Trim(r.address),
                                  !.chain = Trim(r.chain),
                                  !.updatedAt = t])
  BY DEF Update
<1>3. t \in Nat
  BY DEF Stamps, BookInv, TypeOK
<1>4. /\ r.id \in DOMAIN entries /\ old \in Entry /\ old.userID = UserOf(r)
      /\ lastID' = lastID /\ lastID \in Nat /\ r.id \in 1..lastID
  BY DEF Update, Owns, BookInv, TypeOK
<1>. DEFINE e == [old EXCEPT !.address = Trim(r.address),
                             !.chain = Trim(r.chain), !.updatedAt = t]
<1>5. e \in Entry /\ Slot(e) \in Users \X Chains
  BY <1>1, <1>3, <1>4, SavesAreTyped DEF Entry, Slot
<1>. QED
  <2>. HIDE DEF e
  <2>1. Save(h, r.id, e)
    BY <1>2 DEF e
  <2>. QED  BY <2>1, <1>4, <1>5, SaveKeepsInv

\* Delete takes the pointer away with the entry.
LEMMA DeleteKeepsInv ==
  ASSUME BookInv, NEW h \in Handlers, Delete(h)
  PROVE  BookInv'
<1>. DEFINE id == req[h].id
<1>1. /\ entries' = [i \in DOMAIN entries \ {id} |-> entries[i]]
      /\ default' = Undefaulted(id)
      /\ UNCHANGED <<lastID, now, req>>
      /\ phase' = [phase EXCEPT ![h] = "replied"]
      /\ reply' = [reply EXCEPT ![h] = Reply("none", <<>>)]
  BY DEF Delete, Answer, Restrict
<1>2. TypeOK'
  BY <1>1 DEF BookInv, TypeOK, Undefaulted, Phases, Reply, Errors
<1>3. DefaultsAreLive'
  BY <1>1 DEF BookInv, TypeOK, DefaultsAreLive, Undefaulted, Slot
<1>. QED  BY <1>2, <1>3 DEF BookInv

\* The steps that leave the book alone.
LEMMA OthersKeepInv ==
  ASSUME BookInv,
         \/ \E h \in Handlers :
              \/ \E r \in Requests : Receive(h, r)
              \/ Reject(h) \/ List(h) \/ NotFound(h) \/ Respond(h)
         \/ Tick
         \/ UNCHANGED vars
  PROVE  UNCHANGED store /\ BookInv'
<1>1. UNCHANGED store
  BY DEF Receive, Reject, List, NotFound, Respond, Tick, vars
<1>2. now' \in Nat
  <2>1. now' = now \/ now' = now + 1
    BY DEF Receive, Reject, List, NotFound, Respond, Tick, Answer, vars
  <2>. QED  BY <2>1 DEF BookInv, TypeOK
<1>3. phase' \in [Handlers -> Phases]
  BY DEF Receive, Reject, List, NotFound, Respond, Tick, Answer, vars, BookInv,
         TypeOK, Phases
<1>4. req' \in [Handlers -> Requests \cup {NoRequest}]
  BY DEF Receive, Reject, List, NotFound, Respond, Tick, Answer, vars, BookInv,
         TypeOK
<1>5. DOMAIN reply' = Handlers /\ \A h \in Handlers : reply'[h].err \in Errors
  <2>1. \/ UNCHANGED reply
        \/ \E h \in Handlers, err \in Errors : \E shown :
             reply' = [reply EXCEPT ![h] = Reply(err, shown)]
    <3>1. ASSUME NEW h \in Handlers, Reject(h) \/ List(h) \/ NotFound(h)
          PROVE  \E err \in Errors : \E shown :
                   reply' = [reply EXCEPT ![h] = Reply(err, shown)]
      BY <3>1 DEF Reject, List, NotFound, Answer, Errors
    <3>2. ASSUME NEW h \in Handlers, Respond(h)
          PROVE  reply' = [reply EXCEPT ![h] = Reply("none", <<>>)]
      BY <3>2 DEF Respond, NoReply
    <3>3. ASSUME \/ \E h \in Handlers : \E r \in Requests : Receive(h, r)
                 \/ Tick \/ UNCHANGED vars
          PROVE  UNCHANGED reply
      BY <3>3 DEF Receive, Tick, vars
    <3>4. "none" \in Errors
      BY DEF Errors
    <3>. QED  BY <3>1, <3>2, <3>3, <3>4
  <2>. QED  BY <2>1 DEF BookInv, TypeOK, Reply
<1>6. TypeOK'
  BY <1>1, <1>2, <1>3, <1>4, <1>5 DEF BookInv, TypeOK, store
<1>7. DefaultsAreLive'
  BY <1>1 DEF BookInv, DefaultsAreLive, Slot, store
<1>. QED  BY <1>1, <1>6, <1>7 DEF BookInv

LEMMA EmptyBookIsRight ==
  ASSUME entries = <<>>, default = [s \in Users \X Chains |-> 0], lastID = 0,
         now \in Nat, phase = [h \in Handlers |-> "idle"],
         req = [h \in Handlers |-> NoRequest],
         reply = [h \in Handlers |-> NoReply]
  PROVE  BookInv
<1>1. DOMAIN entries = {}
  BY DOMAIN <<>> = {}
<1>2. \A h \in Handlers : reply[h].err \in Errors
  BY DEF NoReply, Reply, Errors
<1>3. TypeOK
  BY <1>1, <1>2 DEF TypeOK, Phases
<1>4. DefaultsAreLive
  BY DEF DefaultsAreLive
<1>. QED  BY <1>3, <1>4 DEF BookInv

LEMMA RestartKeepsInv == BookInv /\ Restart => BookInv'
<1>. SUFFICES ASSUME BookInv, Restart PROVE BookInv'
  OBVIOUS
<1>1. DOMAIN entries' = {}
  <2>1. entries' = <<>>
    BY DEF Restart
  <2>. QED  BY <2>1, DOMAIN <<>> = {}
<1>2. \A h \in Handlers : reply'[h].err \in Errors
  BY DEF Restart, NoReply, Reply, Errors
<1>3. TypeOK'
  BY <1>1, <1>2 DEF Restart, BookInv, TypeOK, Phases
<1>4. DefaultsAreLive'
  BY DEF Restart, DefaultsAreLive
<1>. QED  BY <1>3, <1>4 DEF BookInv

LEMMA StepKeepsInv == BookInv /\ [Next]_vars => BookInv'
BY CreateKeepsInv, UpdateKeepsInv, DeleteKeepsInv, OthersKeepInv,
   RestartKeepsInv
DEF Next

-----------------------------------------------------------------------------
(* The promises about steps. *)

\* A new entry takes an id above all that were handed out and moves at most
\* the pointer of its own chain.
LEMMA CreateKeepsPromises ==
  ASSUME BookInv, NEW h \in Handlers, Create(h)
  PROVE  StepKeepsPromises
<1>. DEFINE r == req[h]
<1>1. /\ r \in Requests \cup {NoRequest} /\ ~Invalid(r) /\ r.op = "Create"
      /\ lastID \in Nat
      /\ DOMAIN entries \subseteq 1..lastID
  BY DEF Create, Serving, BookInv, TypeOK
<1>2. PICK t :
        Save(h, lastID + 1,
             [userID |-> UserOf(r), address |-> Trim(r.address),
              chain |-> Trim(r.chain), createdAt |-> t, updatedAt |-> t])
  BY DEF Create
<1>3. DOMAIN entries' = DOMAIN entries \cup {lastID + 1}
  BY <1>2 DEF Save
<1>4. \A i \in DOMAIN entries : entries'[i] = entries[i]
  BY <1>1, <1>2 DEF Save
<1>5. Taking(h)
  BY <1>2 DEF Create, Serving, Save, Answer, Taking, BookInv, TypeOK
<1>6. ASSUME NEW s \in Users \X Chains PROVE DefaultIsOwners(s)
  <2>1. default[s] # lastID + 1
    BY <1>1 DEF BookInv, TypeOK, DefaultsAreLive
  <2>2. \/ default'[s] = default[s]
        \/ r.isDefault /\ s = <<UserOf(r), NormalizeChain(Trim(r.chain))>>
    BY <2>1, <1>2 DEF Save, Undefaulted, Slot, BookInv, TypeOK
  <2>. QED  BY <2>2, <1>1, <1>5, SavesAreTyped DEF DefaultIsOwners
<1>. QED
  BY <1>1, <1>3, <1>4, <1>6 DEF StepKeepsPromises, IDsAreFresh, EntryIsOwners

\* Update touches the entry that its request names, which is the caller's, and
\* the pointers to it and to its new chain.
LEMMA UpdateKeepsPromises ==
  ASSUME BookInv, NEW h \in Handlers, Update(h)
  PROVE  StepKeepsPromises
<1>. DEFINE r == req[h]
            old == entries[r.id]
<1>1. /\ r \in Requests \cup {NoRequest} /\ ~Invalid(r) /\ r.op = "Update"
      /\ r.id \in DOMAIN entries
      /\ old \in Entry /\ old.userID = UserOf(r)
  BY DEF Update, Serving, Owns, BookInv, TypeOK
<1>2. PICK t :
        Save(h, r.id, [old EXCEPT !.address = Trim(r.address),
                                  !.chain = Trim(r.chain),
                                  !.updatedAt = t])
  BY DEF Update
<1>. DEFINE e == [old EXCEPT !.address = Trim(r.address),
                             !.chain = Trim(r.chain), !.updatedAt = t]
<1>3. /\ e.userID = UserOf(r)
      /\ e.createdAt = old.createdAt
      /\ e.chain = Trim(r.chain)
  BY <1>1 DEF Entry
<1>4. DOMAIN entries' = DOMAIN entries
  BY <1>1, <1>2 DEF Save
<1>5. \A i \in DOMAIN entries : entries'[i] = IF i = r.id THEN e ELSE entries[i]
  BY <1>2 DEF Save
<1>6. Taking(h)
  BY <1>2 DEF Update, Serving, Save, Answer, Taking, BookInv, TypeOK
<1>7. ASSUME NEW i \in DOMAIN entries PROVE EntryIsOwners(i)
  BY <1>1, <1>3, <1>4, <1>5, <1>6 DEF EntryIsOwners
<1>8. ASSUME NEW s \in Users \X Chains PROVE DefaultIsOwners(s)
  <2>1. \/ default'[s] = default[s]
        \/ default[s] = r.id
        \/ r.isDefault /\ s = Slot(e)
    <3>1. Save(h, r.id, e)
      BY <1>2
    <3>. HIDE DEF e
    <3>. QED  BY <3>1 DEF Save, Undefaulted, BookInv, TypeOK
  <2>2. CASE default[s] = r.id /\ default[s] # 0
    <3>1. Slot(old) = s
      BY <2>2 DEF BookInv, DefaultsAreLive
    <3>. QED  BY <2>2, <3>1, <1>1, <1>6 DEF DefaultIsOwners, Slot
  <2>3. CASE r.isDefault /\ s = Slot(e)
    BY <2>3, <1>1, <1>3, <1>6, SavesAreTyped DEF DefaultIsOwners, Slot
  <2>4. r.id # 0
    BY <1>1 DEF BookInv, TypeOK
  <2>. QED  BY <2>1, <2>2, <2>3, <2>4 DEF DefaultIsOwners
<1>. QED
  BY <1>4, <1>7, <1>8 DEF StepKeepsPromises, IDsAreFresh

LEMMA DeleteKeepsPromises ==
  ASSUME BookInv, NEW h \in Handlers, Delete(h)
  PROVE  StepKeepsPromises
<1>. DEFINE r == req[h]
<1>1. /\ r.id \in DOMAIN entries
      /\ entries[r.id].userID = UserOf(r)
      /\ entries' = [i \in DOMAIN entries \ {r.id} |-> entries[i]]
      /\ default' = Undefaulted(r.id)
  BY DEF Delete, Owns, Restrict
<1>2. Taking(h)
  BY DEF Delete, Serving, Answer, Taking, BookInv, TypeOK
<1>3. ASSUME NEW i \in DOMAIN entries PROVE EntryIsOwners(i)
  BY <1>1, <1>2 DEF EntryIsOwners
<1>4. ASSUME NEW s \in Users \X Chains PROVE DefaultIsOwners(s)
  <2>1. default'[s] = default[s] \/ default[s] = r.id
    BY <1>1 DEF Undefaulted, BookInv, TypeOK
  <2>2. CASE default[s] = r.id
    <3>1. r.id # 0
      BY <1>1 DEF BookInv, TypeOK
    <3>2. Slot(entries[r.id]) = s
      BY <2>2, <3>1 DEF BookInv, DefaultsAreLive
    <3>. QED  BY <2>2, <3>1, <3>2, <1>1, <1>2 DEF DefaultIsOwners, Slot
  <2>. QED  BY <2>1, <2>2 DEF DefaultIsOwners
<1>. QED
  BY <1>1, <1>3, <1>4 DEF StepKeepsPromises, IDsAreFresh

\* A restart either drops ids or finds the book empty.
LEMMA RestartKeepsPromises == BookInv /\ Restart => StepKeepsPromises
<1>. SUFFICES ASSUME BookInv, Restart PROVE StepKeepsPromises
  OBVIOUS
<1>1. CASE lastID = 0
  <2>1. DOMAIN entries = {}
    <3>1. DOMAIN entries \subseteq 1..0
      BY <1>1 DEF BookInv, TypeOK
    <3>2. 1..0 = {}
      OBVIOUS
    <3>. QED  BY <3>1, <3>2
  <2>2. \A s \in Users \X Chains : default[s] = 0
    BY <2>1 DEF BookInv, DefaultsAreLive
  <2>. QED
    BY <1>1, <2>1, <2>2
    DEF Restart, StepKeepsPromises, IDsAreFresh, DefaultIsOwners
<1>2. CASE lastID # 0
  BY <1>2
  DEF BookInv, TypeOK, Restart, Restarted, StepKeepsPromises, IDsAreFresh
<1>. QED  BY <1>1, <1>2

LEMMA StepsKeepPromises == BookInv /\ [Next]_vars => StepKeepsPromises
<1>. SUFFICES ASSUME BookInv, [Next]_vars PROVE StepKeepsPromises
  OBVIOUS
<1>1. CASE UNCHANGED store
  BY <1>1
  DEF store, StepKeepsPromises, IDsAreFresh, EntryIsOwners, DefaultIsOwners
<1>. QED
  BY <1>1, CreateKeepsPromises, UpdateKeepsPromises, DeleteKeepsPromises,
     RestartKeepsPromises, OthersKeepInv
  DEF Next

-----------------------------------------------------------------------------
(* The theorems. *)

LEMMA BookInvHolds == Spec => []BookInv
<1>1. Init => BookInv
  BY EmptyBookIsRight DEF Init
<1>. QED  BY <1>1, StepKeepsInv, PTL DEF Spec

\* An id that left the book never comes back while the process lives.
THEOREM IDsNeverReused == Spec => NoIDReuse
<1>1. BookInv /\ [Next]_vars =>
        [Restarted \/ \A id \in 1..lastID :
           id \in DOMAIN entries' => id \in DOMAIN entries]_vars
  BY StepsKeepPromises DEF StepKeepsPromises, IDsAreFresh
<1>. QED  BY <1>1, BookInvHolds, PTL DEF Spec, NoIDReuse

\* For any number of concurrent clients, an entry changes only by a request of
\* its owner that names it, and never changes owner or creation time.
THEOREM EntriesAreTheirOwners == Spec => OnlyOwnersChange
<1>1. BookInv /\ [Next]_vars =>
        [Restarted \/ \A id \in DOMAIN entries :
           \/ /\ id \in DOMAIN entries'
              /\ entries'[id] = entries[id]
           \/ \E h \in Handlers :
                /\ Taking(h)
                /\ req[h].id = id
                /\ UserOf(req[h]) = entries[id].userID
                /\ id \in DOMAIN entries' =>
                     /\ entries'[id].userID = entries[id].userID
                     /\ entries'[id].createdAt = entries[id].createdAt]_vars
  BY StepsKeepPromises DEF StepKeepsPromises, EntryIsOwners
<1>. QED  BY <1>1, BookInvHolds, PTL DEF Spec, OnlyOwnersChange

\* A chain's default changes only at its owner's request for that chain or for
\* the entry that was the default.
THEOREM DefaultsAreTheirOwners == Spec => DefaultsChangeOnRequest
<1>1. BookInv /\ [Next]_vars =>
        [Restarted \/ \A s \in Users \X Chains :
           \/ default'[s] = default[s]
           \/ \E h \in Handlers :
                /\ Taking(h)
                /\ UserOf(req[h]) = s[1]
                /\ \/ req[h].isDefault /\ NormalizeChain(req[h].chain) = s[2]
                   \/ default[s] # 0 /\ req[h].id = default[s]]_vars
  BY StepsKeepPromises DEF StepKeepsPromises, DefaultIsOwners
<1>. QED  BY <1>1, BookInvHolds, PTL DEF Spec, DefaultsChangeOnRequest

-----------------------------------------------------------------------------
(* The catalog. *)

\* What the app holds is what it was answered: the coins of its last question,
\* one coin of the catalog, and that coin's row and contract.
AppInv ==
  /\ asked = <<>> => list = <<>>
  /\ asked # <<>> => list = Coins(asked[1], ParseBoolQuery(asked[2]))
  /\ picked \in Range(Catalog) \cup {NoCoin}
  /\ picked = NoCoin => token = NoRow /\ asset = "none"
  /\ OneContract

\* The coins of the catalog, one by one.
LEMMA CatalogCoins ==
  /\ Catalog \in Seq(Range(Catalog)) /\ DOMAIN Catalog = 1..5
  /\ \A coin \in Range(Catalog) :
       \/ coin = Coin("bsc", "BNB", "", 18) \/ coin = Coin("bsc", "USDT", BscUSDT, 18)
       \/ coin = Coin("eth", "ETH", "", 18) \/ coin = Coin("eth", "USDT", EthUSDT, 6)
       \/ coin = Coin("solana", "SOL", "", 9)
<1>1. Len(Catalog) = 5 /\ DOMAIN Catalog = 1..5
  BY DEF Catalog
<1>2. 1..5 = {1, 2, 3, 4, 5}
  OBVIOUS
<1>3. /\ Catalog[1] = Coin("bsc", "BNB", "", 18)
      /\ Catalog[2] = Coin("bsc", "USDT", BscUSDT, 18)
      /\ Catalog[3] = Coin("eth", "ETH", "", 18)
      /\ Catalog[4] = Coin("eth", "USDT", EthUSDT, 6)
      /\ Catalog[5] = Coin("solana", "SOL", "", 9)
  BY DEF Catalog
<1>4. Range(Catalog) = {Catalog[i] : i \in 1..5}
  BY <1>1 DEF Range
<1>5. Catalog \in Seq(Range(Catalog))
  <2>1. Catalog = [i \in 1..5 |-> Catalog[i]]
    BY DEF Catalog
  <2>2. \A i \in 1..5 : Catalog[i] \in Range(Catalog)
    BY <1>4
  <2>. QED  BY <2>1, <2>2
<1>6. ASSUME NEW coin \in Range(Catalog)
      PROVE  \/ coin = Catalog[1] \/ coin = Catalog[2] \/ coin = Catalog[3]
             \/ coin = Catalog[4] \/ coin = Catalog[5]
  BY <1>2, <1>4
<1>. QED  BY <1>1, <1>3, <1>5, <1>6

\* The catalog files its coins under the address book's names of the chains, and
\* has disabled none.
LEMMA CoinsAreFiled ==
  ASSUME NEW coin \in Range(Catalog)
  PROVE  NormalizeChain(Plain(coin.chain)) = coin.chain /\ coin.disabled = FALSE
<1>1. coin.chain \in {"bsc", "eth", "solana"} /\ coin.disabled = FALSE
  <2>1. CASE coin = Coin("bsc", "BNB", "", 18)
    BY <2>1 DEF Coin
  <2>2. CASE coin = Coin("bsc", "USDT", BscUSDT, 18)
    BY <2>2 DEF Coin
  <2>3. CASE coin = Coin("eth", "ETH", "", 18)
    BY <2>3 DEF Coin
  <2>4. CASE coin = Coin("eth", "USDT", EthUSDT, 6)
    BY <2>4 DEF Coin
  <2>5. CASE coin = Coin("solana", "SOL", "", 9)
    BY <2>5 DEF Coin
  <2>. QED  BY <2>1, <2>2, <2>3, <2>4, <2>5, CatalogCoins
<1>2. /\ DOMAIN ChainAliases = {"bsc", "eth", "solana"}
      /\ ChainAliases["bsc"] = {"bsc", "bnb", "bnb smart chain", "binance smart chain",
                                "smartchain", "bnb-mainnet"}
      /\ ChainAliases["eth"] = {"eth", "ethereum", "ethereum mainnet", "eth-mainnet"}
      /\ ChainAliases["solana"] = {"sol", "solana", "solana mainnet", "solana-mainnet"}
  BY DEF ChainAliases
<1>3. \A c, d \in {"bsc", "eth", "solana"} : c \in ChainAliases[d] <=> c = d
  BY <1>2
<1>4. \A c \in {"bsc", "eth", "solana"} :
        {d \in DOMAIN ChainAliases : c \in ChainAliases[d]} = {c}
  BY <1>2, <1>3
<1>5. Plain(coin.chain).text = coin.chain
  BY DEF Plain
<1>. QED  BY <1>1, <1>4, <1>5 DEF NormalizeChain

\* The token list has the catalog's contract and decimals of each coin.
LEMMA BaseTokensAgree ==
  ASSUME NEW coin \in Range(Catalog), coin.chain \in DOMAIN BaseTokens,
         NEW row \in BaseTokens[coin.chain], row.symbol = coin.name
  PROVE  row.address = coin.contract /\ row.decimals = coin.decimal
<1>1. /\ DOMAIN BaseTokens = {"eth", "bsc"}
      /\ BaseTokens["eth"] = {Row("ETH", "", 18), Row("USDT", EthUSDT, 6)}
      /\ BaseTokens["bsc"] = {Row("BNB", "", 18), Row("USDT", BscUSDT, 18)}
  BY DEF BaseTokens
<1>2. CASE coin = Coin("bsc", "BNB", "", 18)
  <2>1. coin.chain = "bsc" /\ coin.name = "BNB" /\ coin.contract = "" /\ coin.decimal = 18
    BY <1>2 DEF Coin
  <2>2. ASSUME row = Row("USDT", BscUSDT, 18) PROVE FALSE
    BY <2>1, <2>2 DEF Row
  <2>3. row = Row("BNB", "", 18)
    BY <1>1, <2>1, <2>2
  <2>. QED  BY <2>1, <2>3 DEF Row
<1>3. CASE coin = Coin("bsc", "USDT", BscUSDT, 18)
  <2>1. /\ coin.chain = "bsc" /\ coin.name = "USDT" /\ coin.contract = BscUSDT
        /\ coin.decimal = 18
    BY <1>3 DEF Coin
  <2>2. ASSUME row = Row("BNB", "", 18) PROVE FALSE
    BY <2>1, <2>2 DEF Row
  <2>3. row = Row("USDT", BscUSDT, 18)
    BY <1>1, <2>1, <2>2
  <2>. QED  BY <2>1, <2>3 DEF Row
<1>4. CASE coin = Coin("eth", "ETH", "", 18)
  <2>1. coin.chain = "eth" /\ coin.name = "ETH" /\ coin.contract = "" /\ coin.decimal = 18
    BY <1>4 DEF Coin
  <2>2. ASSUME row = Row("USDT", EthUSDT, 6) PROVE FALSE
    BY <2>1, <2>2 DEF Row
  <2>3. row = Row("ETH", "", 18)
    BY <1>1, <2>1, <2>2
  <2>. QED  BY <2>1, <2>3 DEF Row
<1>5. CASE coin = Coin("eth", "USDT", EthUSDT, 6)
  <2>1. /\ coin.chain = "eth" /\ coin.name = "USDT" /\ coin.contract = EthUSDT
        /\ coin.decimal = 6
    BY <1>5 DEF Coin
  <2>2. ASSUME row = Row("ETH", "", 18) PROVE FALSE
    BY <2>1, <2>2 DEF Row
  <2>3. row = Row("USDT", EthUSDT, 6)
    BY <1>1, <2>1, <2>2
  <2>. QED  BY <2>1, <2>3 DEF Row
<1>6. ASSUME coin = Coin("solana", "SOL", "", 9) PROVE FALSE
  BY <1>1, <1>6 DEF Coin
<1>. QED  BY <1>2, <1>3, <1>4, <1>5, <1>6, CatalogCoins

\* The EVM service reads the catalog's contract of each coin.
LEMMA StablecoinsAgree ==
  ASSUME NEW coin \in Range(Catalog), coin.chain \in DOMAIN StablecoinContracts
  PROVE  coin.contract = IF coin.name \in {"ETH", "BNB"} THEN ""
                         ELSE StablecoinContracts[coin.chain][coin.name]
<1>1. /\ DOMAIN StablecoinContracts = {"eth", "bsc"}
      /\ StablecoinContracts["eth"]["USDT"] = EthUSDT
      /\ StablecoinContracts["bsc"]["USDT"] = BscUSDT
  BY DEF StablecoinContracts
<1>2. CASE coin = Coin("bsc", "BNB", "", 18)
  BY <1>2 DEF Coin
<1>3. CASE coin = Coin("bsc", "USDT", BscUSDT, 18)
  BY <1>1, <1>3 DEF Coin
<1>4. CASE coin = Coin("eth", "ETH", "", 18)
  BY <1>4 DEF Coin
<1>5. CASE coin = Coin("eth", "USDT", EthUSDT, 6)
  BY <1>1, <1>5 DEF Coin
<1>6. ASSUME coin = Coin("solana", "SOL", "", 9) PROVE FALSE
  BY <1>1, <1>6 DEF Coin
<1>. QED  BY <1>2, <1>3, <1>4, <1>5, <1>6, CatalogCoins

\* Coins lists exactly the coins that the catalog files under the name's chain.
LEMMA CoinsFitName ==
  ASSUME NEW chain, NEW flag
  PROVE  Range(Coins(chain, flag)) =
           {coin \in Range(Catalog) : NormalizeChain(chain) \in {"", coin.chain}}
<1>. DEFINE Listed(coin) ==
              /\ coin.disabled => flag
              /\ NormalizeChain(chain) # "" =>
                   NormalizeChain(Plain(coin.chain)) = NormalizeChain(chain)
            I == {i \in DOMAIN Catalog : Listed(Catalog[i])}
<1>1. Coins(chain, flag) = ItemsAt(Catalog, I)
  BY DEF Coins
<1>2. \A i \in DOMAIN Catalog : Catalog[i] \in Range(Catalog)
  BY DEF Range
<1>3. \A coin \in Range(Catalog) :
        Listed(coin) <=> NormalizeChain(chain) \in {"", coin.chain}
  BY CoinsAreFiled
<1>4. Range(ItemsAt(Catalog, I)) = {Catalog[i] : i \in I}
  <2>. HIDE DEF I
  <2>1. I \in SUBSET DOMAIN Catalog /\ Catalog \in Seq(Range(Catalog))
    BY CatalogCoins DEF I
  <2>2. /\ ItemsAt(Catalog, I) \in Seq(Range(Catalog))
        /\ Len(ItemsAt(Catalog, I)) = Cardinality(I)
        /\ \A n \in 1..Cardinality(I) :
             Ascending(I)[n] \in I /\ ItemsAt(Catalog, I)[n] = Catalog[Ascending(I)[n]]
        /\ \A i \in I : \E n \in DOMAIN ItemsAt(Catalog, I) :
             ItemsAt(Catalog, I)[n] = Catalog[i]
    BY <2>1, ItemsAtFacts
  <2>3. DOMAIN ItemsAt(Catalog, I) = 1..Cardinality(I)
    BY <2>2
  <2>. QED  BY <2>2, <2>3 DEF Range
<1>5. {Catalog[i] : i \in I} = {coin \in Range(Catalog) : Listed(coin)}
  BY DEF Range
<1>. QED  BY <1>1, <1>3, <1>4, <1>5

LEMMA AppStepKeepsInv == AppInv /\ [AppNext]_appVars => AppInv'
<1>. SUFFICES ASSUME AppInv, [AppNext]_appVars PROVE AppInv'
  OBVIOUS
<1>. USE DEF AppInv, OneContract
<1>1. ASSUME NEW w \in AppWallets, Bind(w) PROVE AppInv'
  BY <1>1 DEF Bind
<1>2. ASSUME NEW chain \in ChainNames, NEW flag \in Flags, AvailableCoins(chain, flag)
      PROVE  AppInv'
  BY <1>2 DEF AvailableCoins
<1>3. ASSUME NEW i \in DOMAIN list, Pick(list[i]) PROVE AppInv'
  <2>1. asked # <<>>
    OBVIOUS
  <2>2. list[i] \in Range(list)
    BY DEF Range
  <2>3. Range(Coins(asked[1], ParseBoolQuery(asked[2]))) \subseteq Range(Catalog)
    BY CoinsFitName
  <2>4. list[i] \in Range(Catalog)
    BY <2>1, <2>2, <2>3
  <2>. QED  BY <1>3, <2>4 DEF Pick
<1>. NoCoin.chain \notin DOMAIN BaseTokens /\ NoCoin.chain \notin DOMAIN StablecoinContracts
  BY DEF NoCoin, Coin, BaseTokens, StablecoinContracts
<1>4. CASE TokenList
  BY <1>4, BaseTokensAgree DEF TokenList
<1>5. CASE BatchBalances
  BY <1>5, StablecoinsAgree DEF BatchBalances
<1>6. CASE UNCHANGED appVars
  BY <1>6 DEF appVars
<1>. QED  BY <1>1, <1>2, <1>3, <1>4, <1>5, <1>6 DEF AppNext

\* Whatever names of chains there are, and however often the app asks: the coin
\* it shows is of the chain it asked for, and its amounts in the token list and
\* at the EVM service are those of that coin's contract and decimals.
THEOREM CoinsAreAlwaysOne == AppSpec => []OneCoin
<1>1. AppInit => AppInv
  BY DEF AppInit, AppInv, OneContract
<1>2. AppInv => OneCoin
  BY CoinsFitName DEF AppInv, OneCoin, ListFitsName
<1>. QED  BY <1>1, <1>2, AppStepKeepsInv, PTL DEF AppSpec

=============================================================================
