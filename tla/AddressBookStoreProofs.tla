------------------------ MODULE AddressBookStoreProofs ------------------------
(***************************************************************************)
(* Machine-checked proofs about AddressBookStore, for every set of           *)
(* goroutines, wallets, chain names and ids.                                 *)
(***************************************************************************)
EXTENDS AddressBookStore, EnumerationProofs, SequenceTheorems

-----------------------------------------------------------------------------
(* The operators the model is built from. *)

\* Every request the handlers accept is a record of the request type, and its
\* wallet is one of the header's values (requireWalletAddress and the bind
\* calls in internal/server/app.go).
LEMMA RequestsTyped ==
  ASSUME NEW r \in Requests
  PROVE  r \in Request /\ UserOf(r) \in Users
<1>1. Absent \in Raw
  BY EmptyText DEF Absent, Plain, Raw
<1>2. r \in Request /\ r.wallet \in Wallets
  <2>. /\ Wallets \subseteq Raw
       /\ Spellings \subseteq Raw
       /\ Addresses \subseteq Raw
       /\ IDs \subseteq Int
       /\ {0} \subseteq Int
    BY InputsAreRaw, NumbersAreNumbers
  <2>1. CASE r \in ListRequests
    BY <2>1, <1>1 DEF ListRequests, Request, Ops
  <2>2. CASE r \in CreateRequests
    BY <2>2, <1>1 DEF CreateRequests, Request, Ops
  <2>3. CASE r \in UpdateRequests
    BY <2>3, <1>1 DEF UpdateRequests, Request, Ops
  <2>4. CASE r \in DeleteRequests
    BY <2>4, <1>1 DEF DeleteRequests, Request, Ops
  <2>5. CASE r \in UnboundRequests
    BY <2>5, <1>1 DEF UnboundRequests, Request, Ops
  <2>. QED  BY <2>1, <2>2, <2>3, <2>4, <2>5 DEF Requests
<1>. QED  BY <1>2 DEF UserOf, Users

\* strings.TrimSpace keeps a string a string and does not change what
\* normalizeChain makes of it, so it does not matter that Create hands the
\* trimmed chain to clearDefaultLocked and Update the chain as it came.
LEMMA TrimKeepsChain ==
  ASSUME NEW r \in Raw
  PROVE  Trim(r) \in Raw /\ NormalizeChain(Trim(r)) = NormalizeChain(r)
<1>1. Trim(r) \in Raw /\ Trim(r).text = r.text
  BY DEF Trim, Raw
<1>. QED  BY <1>1 DEF NormalizeChain

\* clearDefaultLocked keeps the slice's length and, item by item, everything
\* but the flag; afterwards no item on the chain has the flag, and no item has
\* it that had not before.
LEMMA ClearDefaultFacts ==
  ASSUME NEW list \in Seq(Item), NEW chain
  PROVE  LET new == ClearDefaultLocked(list, chain)
         IN  /\ new \in Seq(Item)
             /\ DOMAIN new = DOMAIN list
             /\ Len(new) = Len(list)
             /\ \A i \in DOMAIN list :
                  /\ new[i].id = list[i].id
                  /\ new[i].chain = list[i].chain
                  /\ new[i].createdAt = list[i].createdAt
                  /\ new[i].isDefault => list[i].isDefault
                  /\ NormalizeChain(list[i].chain) = NormalizeChain(chain)
                       => ~new[i].isDefault
<1>. DEFINE new == ClearDefaultLocked(list, chain)
<1>1. DOMAIN list = 1..Len(list) /\ Len(list) \in Nat
  OBVIOUS
<1>2. \A i \in DOMAIN list : list[i] \in Item
  BY <1>1
<1>3. DOMAIN new = DOMAIN list
  BY DEF ClearDefaultLocked
<1>4. \A i \in DOMAIN list :
        new[i] = IF NormalizeChain(list[i].chain) = NormalizeChain(chain)
                 THEN [list[i] EXCEPT !.isDefault = FALSE]
                 ELSE list[i]
  BY DEF ClearDefaultLocked
<1>5. \A i \in DOMAIN list :
        /\ new[i] \in Item
        /\ new[i].id = list[i].id
        /\ new[i].chain = list[i].chain
        /\ new[i].createdAt = list[i].createdAt
        /\ new[i].isDefault => list[i].isDefault
        /\ NormalizeChain(list[i].chain) = NormalizeChain(chain)
             => ~new[i].isDefault
  BY <1>2, <1>4 DEF Item
<1>6. new \in Seq(Item) /\ Len(new) = Len(list)
  <2>1. new \in [1..Len(list) -> Item]
    BY <1>1, <1>3, <1>5 DEF ClearDefaultLocked
  <2>. QED  BY <1>1, <2>1, <1>3
<1>. QED  BY <1>3, <1>5, <1>6

\* append(s[:i], s[i+1:]...) takes exactly position i out of the slice and
\* moves what came after it down by one.
LEMMA RemoveAtFacts ==
  ASSUME NEW S, NEW list \in Seq(S), NEW i \in DOMAIN list
  PROVE  /\ RemoveAt(list, i) \in Seq(S)
         /\ Len(RemoveAt(list, i)) = Len(list) - 1
         /\ \A j \in DOMAIN RemoveAt(list, i) :
              /\ j \in DOMAIN list
              /\ j + 1 \in DOMAIN list
              /\ RemoveAt(list, i)[j] = IF j < i THEN list[j] ELSE list[j + 1]
<1>. DEFINE front == SubSeq(list, 1, i - 1)
            back == SubSeq(list, i + 1, Len(list))
<1>1. /\ Len(list) \in Nat
      /\ DOMAIN list = 1..Len(list)
      /\ i \in 1..Len(list)
      /\ \A j \in 1..Len(list) : list[j] \in S
  OBVIOUS
<1>2. /\ front \in Seq(S)
      /\ Len(front) = i - 1
      /\ \A j \in 1..(i - 1) : front[j] = list[j]
  BY <1>1, SubSeqProperties
<1>3. /\ back \in Seq(S)
      /\ Len(back) = Len(list) - i
      /\ \A j \in 1..(Len(list) - i) : back[j] = list[i + j]
  BY <1>1, SubSeqProperties
<1>. HIDE DEF front, back
<1>4. /\ front \o back \in Seq(S)
      /\ Len(front \o back) = Len(list) - 1
      /\ \A j \in 1..(Len(list) - 1) :
           (front \o back)[j] = IF j < i THEN list[j] ELSE list[j + 1]
  <2>1. /\ front \o back \in Seq(S)
        /\ Len(front \o back) = Len(front) + Len(back)
        /\ \A j \in 1..(Len(front) + Len(back)) :
             (front \o back)[j] = IF j <= Len(front) THEN front[j]
                                  ELSE back[j - Len(front)]
    BY <1>2, <1>3, ConcatProperties
  <2>2. i \in Nat /\ 1 <= i /\ i <= Len(list)
    BY <1>1
  <2>3. ASSUME NEW j \in 1..(Len(list) - 1)
        PROVE  (front \o back)[j] = IF j < i THEN list[j] ELSE list[j + 1]
    <3>1. CASE j < i
      BY <3>1, <2>1, <2>2, <1>1, <1>2, <1>3
    <3>2. CASE j >= i
      <4>1. j - (i - 1) \in 1..(Len(list) - i) /\ i + (j - (i - 1)) = j + 1
        BY <3>2, <2>2, <1>1
      <4>2. /\ j \in 1..(Len(front) + Len(back))
            /\ ~(j <= Len(front))
            /\ j - Len(front) = j - (i - 1)
        BY <3>2, <2>2, <1>1, <1>2, <1>3
      <4>3. (front \o back)[j] = back[j - (i - 1)]
        BY <4>2, <2>1
      <4>. QED  BY <3>2, <4>1, <4>3, <2>2, <1>3
    <3>3. j < i \/ j >= i
      BY <2>2
    <3>. QED  BY <3>1, <3>2, <3>3
  <2>. QED  BY <2>1, <2>2, <2>3, <1>1, <1>2, <1>3
<1>5. RemoveAt(list, i) = front \o back
  BY DEF RemoveAt, front, back
<1>6. DOMAIN RemoveAt(list, i) = 1..(Len(list) - 1)
  BY <1>4, <1>5
<1>7. \A j \in 1..(Len(list) - 1) : j \in 1..Len(list) /\ j + 1 \in 1..Len(list)
  BY <1>1
<1>. QED  BY <1>1, <1>4, <1>5, <1>6, <1>7

-----------------------------------------------------------------------------
(* DefaultsInv is inductive. *)

\* The zero value of Create's local item is one.
LEMMA NoItemTyped == NoItem \in LocalItem
<1>1. Absent \in Raw
  BY EmptyText DEF Absent, Plain, Raw
<1>. QED  BY <1>1 DEF NoItem, LocalItem

\* The mutex excludes: no two goroutines are between Lock and unlock.
LEMMA Alone ==
  ASSUME LockHeld, NEW h \in Handlers, InCriticalSection(h)
  PROVE  mu = h /\ \A g \in Handlers : InCriticalSection(g) => g = h
BY DEF LockHeld

\* An operation that ends: h writes a slice of its own user back that has one
\* default per chain, unlocks and answers.
LEMMA ReturnKeepsInv ==
  ASSUME DefaultsInv, NEW h \in Handlers, InCriticalSection(h),
         NEW list \in Seq(Item), OneDefault(list),
         SetMine(h, list), NEW rep, Return(h, rep)
  PROVE  DefaultsInv'
<1>. USE DEF DefaultsInv
<1>1. mu = h /\ \A g \in Handlers : InCriticalSection(g) => g = h
  BY Alone
<1>2. UserOf(req[h]) \in Users
  BY RequestsTyped DEF LocalsFit, Fits, InCriticalSection
<1>3. TypeOK'
  BY <1>2, NoItemTyped DEF TypeOK, Return, Goto, SetMine, PCs
<1>4. \A g \in Handlers : ~InCriticalSection(g)' /\ mu' # g
  BY <1>1, NoHandlerIsNone DEF InCriticalSection, Return, Goto, TypeOK
<1>5. LockHeld'
  BY <1>4 DEF LockHeld
<1>6. LocalsFit'
  BY <1>4 DEF LocalsFit, Fits, HasItem, InCriticalSection, Return, Goto, TypeOK
<1>7. ChainCleared'
  BY <1>4 DEF ChainCleared, At, InCriticalSection
<1>8. OneDefaultPerChain'
  <2>. SUFFICES ASSUME NEW u \in Users PROVE OneDefault(items'[u])
    BY DEF OneDefaultPerChain, OneDefault
  <2>1. items'[u] = IF u = UserOf(req[h]) THEN list ELSE items[u]
    BY <1>2 DEF SetMine, TypeOK
  <2>. QED  BY <2>1 DEF OneDefaultPerChain
<1>. QED  BY <1>3, <1>5, <1>6, <1>7, <1>8


\* Operations that only look leave the slices as they are.
LEMMA ReadersKeepInv ==
  ASSUME DefaultsInv, NEW h \in Handlers, List(h) \/ NotFound(h)
  PROVE  DefaultsInv'
<1>1. InCriticalSection(h) /\ req[h] \in Requests
  BY DEF List, NotFound, At, InCriticalSection, DefaultsInv, LocalsFit, Fits
<1>2. Mine(h) \in Seq(Item) /\ OneDefault(Mine(h))
  BY <1>1, RequestsTyped DEF DefaultsInv, TypeOK, OneDefaultPerChain, Mine
<1>3. SetMine(h, Mine(h))
  <2>1. items' = items
    BY DEF List, NotFound
  <2>. QED  BY <2>1 DEF SetMine, Mine, DefaultsInv, TypeOK
<1>4. PICK rep : Return(h, rep)
  BY DEF List, NotFound
<1>. QED  BY <1>1, <1>2, <1>3, <1>4, ReturnKeepsInv

\* Create's append: if the new item is a default, its chain has just been
\* cleared.
LEMMA CreateAppendKeepsInv ==
  ASSUME DefaultsInv, NEW h \in Handlers, CreateAppend(h)
  PROVE  DefaultsInv'
<1>. DEFINE list == Append(Mine(h), item[h])
<1>1. /\ InCriticalSection(h)
      /\ pc[h] = "writing" /\ req[h].op = "Create"
      /\ req[h] \in Requests
  BY DEF CreateAppend, At, InCriticalSection, DefaultsInv, LocalsFit, Fits
<1>2. Mine(h) \in Seq(Item) /\ OneDefault(Mine(h))
  BY <1>1, RequestsTyped DEF DefaultsInv, TypeOK, OneDefaultPerChain, Mine
<1>3. /\ item[h] \in Item
      /\ item[h].chain = Trim(req[h].chain)
      /\ item[h].isDefault = req[h].isDefault
  BY <1>1 DEF DefaultsInv, LocalsFit, Fits, HasItem
<1>4. NormalizeChain(item[h].chain) = NormalizeChain(req[h].chain)
  BY <1>1, <1>3, RequestsTyped, TrimKeepsChain DEF Request
<1>5. /\ list \in Seq(Item)
      /\ DOMAIN list = 1..(Len(Mine(h)) + 1)
      /\ \A i \in DOMAIN list :
           list[i] = IF i \in DOMAIN Mine(h) THEN Mine(h)[i] ELSE item[h]
      /\ \A i \in DOMAIN list : i \in DOMAIN Mine(h) \/ i = Len(Mine(h)) + 1
  BY <1>2, <1>3, AppendProperties
<1>6. OneDefault(list)
  <2>1. item[h].isDefault =>
          \A i \in DOMAIN Mine(h) :
            NormalizeChain(Mine(h)[i].chain) = NormalizeChain(item[h].chain)
              => ~Mine(h)[i].isDefault
    BY <1>1, <1>3, <1>4 DEF DefaultsInv, ChainCleared, At
  <2>. HIDE DEF list
  <2>. QED  BY <1>2, <1>5, <2>1 DEF OneDefault
<1>7. SetMine(h, list) /\ Return(h, Reply("none", <<item[h]>>))
  BY DEF CreateAppend
<1>. QED  BY <1>1, <1>5, <1>6, <1>7, ReturnKeepsInv

\* Update's write in place: an item that becomes a default has no rival on the
\* chain it moves to; one that does not is none.
LEMMA UpdateWriteKeepsInv ==
  ASSUME DefaultsInv, NEW h \in Handlers, UpdateWrite(h)
  PROVE  DefaultsInv'
<1>. DEFINE r == req[h]
            updated == [Mine(h)[index[h]] EXCEPT
                          !.address = Trim(r.address), !.chain = Trim(r.chain),
                          !.isDefault = r.isDefault, !.updatedAt = now]
            list == [Mine(h) EXCEPT ![index[h]] = updated]
<1>1. /\ InCriticalSection(h)
      /\ pc[h] = "writing" /\ r.op = "Update"
      /\ r \in Requests
      /\ index[h] \in DOMAIN Mine(h)
  BY DEF UpdateWrite, At, InCriticalSection, DefaultsInv, LocalsFit, Fits
<1>2. Mine(h) \in Seq(Item) /\ OneDefault(Mine(h))
  BY <1>1, RequestsTyped DEF DefaultsInv, TypeOK, OneDefaultPerChain, Mine
<1>3. /\ Trim(r.address) \in Raw
      /\ Trim(r.chain) \in Raw
      /\ NormalizeChain(Trim(r.chain)) = NormalizeChain(r.chain)
      /\ r.isDefault \in BOOLEAN
  BY <1>1, RequestsTyped, TrimKeepsChain DEF Request
<1>4. Mine(h)[index[h]] \in Item
  BY <1>1, <1>2
<1>5. /\ updated \in Item
      /\ updated.chain = Trim(r.chain)
      /\ updated.isDefault = r.isDefault
  BY <1>3, <1>4 DEF Item, DefaultsInv, TypeOK
<1>. HIDE DEF updated
<1>6. /\ list \in Seq(Item)
      /\ DOMAIN list = DOMAIN Mine(h)
      /\ \A i \in DOMAIN list :
           list[i] = IF i = index[h] THEN updated ELSE Mine(h)[i]
  BY <1>1, <1>2, <1>5
<1>7. OneDefault(list)
  <2>1. updated.isDefault =>
          \A i \in DOMAIN Mine(h) :
            NormalizeChain(Mine(h)[i].chain) = NormalizeChain(updated.chain)
              => ~Mine(h)[i].isDefault
    BY <1>1, <1>3, <1>5 DEF DefaultsInv, ChainCleared, At
  <2>. HIDE DEF list
  <2>. QED  BY <1>1, <1>2, <1>6, <2>1 DEF OneDefault
<1>8. SetMine(h, list) /\ Return(h, Reply("none", <<updated>>))
  BY DEF UpdateWrite, updated
<1>. QED  BY <1>1, <1>6, <1>7, <1>8, ReturnKeepsInv

\* Delete's splice: what is left is a subsequence of what was there.
LEMMA DeleteSpliceKeepsInv ==
  ASSUME DefaultsInv, NEW h \in Handlers, DeleteSplice(h)
  PROVE  DefaultsInv'
<1>. DEFINE list == RemoveAt(Mine(h), index[h])
<1>1. /\ InCriticalSection(h)
      /\ pc[h] = "writing" /\ req[h].op = "Delete"
      /\ req[h] \in Requests
      /\ index[h] \in DOMAIN Mine(h)
  BY DEF DeleteSplice, At, InCriticalSection, DefaultsInv, LocalsFit, Fits
<1>2. Mine(h) \in Seq(Item) /\ OneDefault(Mine(h))
  BY <1>1, RequestsTyped DEF DefaultsInv, TypeOK, OneDefaultPerChain, Mine
<1>3. /\ list \in Seq(Item)
      /\ \A j \in DOMAIN list :
           /\ j \in DOMAIN Mine(h)
           /\ j + 1 \in DOMAIN Mine(h)
           /\ list[j] = IF j < index[h] THEN Mine(h)[j] ELSE Mine(h)[j + 1]
  BY <1>1, <1>2, RemoveAtFacts
<1>4. OneDefault(list)
  <2>. HIDE DEF list
  <2>. SUFFICES ASSUME NEW i \in DOMAIN list, NEW j \in DOMAIN list,
                       list[i].isDefault, list[j].isDefault,
                       NormalizeChain(list[i].chain)
                         = NormalizeChain(list[j].chain)
                PROVE  i = j
    BY DEF OneDefault
  <2>. DEFINE old(k) == IF k < index[h] THEN k ELSE k + 1
  <2>1. \A k \in DOMAIN list :
          old(k) \in DOMAIN Mine(h) /\ list[k] = Mine(h)[old(k)]
    BY <1>3
  <2>2. old(i) = old(j)
    <3>. HIDE DEF old
    <3>. QED  BY <2>1, <1>2 DEF OneDefault
  <2>3. i \in Int /\ j \in Int /\ index[h] \in Int
    BY <1>1, <1>2, <1>3
  <2>. QED  BY <2>2, <2>3
<1>5. SetMine(h, list) /\ Return(h, Reply("none", <<>>))
  BY DEF DeleteSplice
<1>. QED  BY <1>1, <1>3, <1>4, <1>5, ReturnKeepsInv

\* clearDefaultLocked leaves no default on the chain that is about to get one,
\* whether it is given the trimmed name (Create) or the raw one (Update).
LEMMA ClearDefaultKeepsInv ==
  ASSUME DefaultsInv, NEW h \in Handlers, ClearDefault(h)
  PROVE  DefaultsInv'
<1>. DEFINE u == UserOf(req[h])
<1>1. /\ InCriticalSection(h)
      /\ pc[h] = "clearing" /\ req[h].op \in {"Create", "Update"}
      /\ req[h] \in Requests
  BY DEF ClearDefault, At, InCriticalSection, DefaultsInv, LocalsFit, Fits
<1>2. \A g \in Handlers : g # h => ~InCriticalSection(g)
  BY <1>1, Alone DEF DefaultsInv
<1>3. u \in Users
  BY <1>1, RequestsTyped
<1>4. Mine(h) \in Seq(Item) /\ OneDefault(Mine(h))
  BY <1>3 DEF DefaultsInv, TypeOK, OneDefaultPerChain, Mine
<1>5. PICK list \in Seq(Item) :
        /\ SetMine(h, list)
        /\ DOMAIN list = DOMAIN Mine(h)
        /\ \A i \in DOMAIN list :
             /\ list[i].chain = Mine(h)[i].chain
             /\ list[i].isDefault => Mine(h)[i].isDefault
             /\ /\ req[h].isDefault
                /\ NormalizeChain(list[i].chain) = NormalizeChain(req[h].chain)
                => ~list[i].isDefault
  <2>1. CASE ~req[h].isDefault
    <3>1. SetMine(h, Mine(h))
      BY <2>1, <1>3 DEF ClearDefault, SetMine, Mine, DefaultsInv, TypeOK
    <3>. QED  BY <2>1, <3>1, <1>4
  <2>2. CASE req[h].isDefault
    <3>. DEFINE chain == IF req[h].op = "Create" THEN item[h].chain
                                                ELSE req[h].chain
                list == ClearDefaultLocked(Mine(h), chain)
    <3>1. SetMine(h, list)
      BY <2>2 DEF ClearDefault
    <3>2. NormalizeChain(chain) = NormalizeChain(req[h].chain)
      <4>1. req[h].op = "Create" => item[h].chain = Trim(req[h].chain)
        BY <1>1 DEF DefaultsInv, LocalsFit, Fits, HasItem
      <4>2. NormalizeChain(Trim(req[h].chain)) = NormalizeChain(req[h].chain)
        BY <1>1, RequestsTyped, TrimKeepsChain DEF Request
      <4>. QED  BY <4>1, <4>2
    <3>. HIDE DEF chain
    <3>3. /\ list \in Seq(Item)
          /\ DOMAIN list = DOMAIN Mine(h)
          /\ \A i \in DOMAIN Mine(h) :
               /\ list[i].chain = Mine(h)[i].chain
               /\ list[i].isDefault => Mine(h)[i].isDefault
               /\ NormalizeChain(Mine(h)[i].chain) = NormalizeChain(chain)
                    => ~list[i].isDefault
      BY <1>4, ClearDefaultFacts
    <3>. HIDE DEF list
    <3>. QED  BY <3>1, <3>2, <3>3
  <2>. QED  BY <2>1, <2>2
<1>6. items' = [items EXCEPT ![u] = list] /\ items'[u] = list
  BY <1>3, <1>5 DEF SetMine, DefaultsInv, TypeOK
<1>7. /\ pc' = [pc EXCEPT ![h] = "writing"]
      /\ UNCHANGED <<mu, nextID, now, req, item, index>>
  BY DEF ClearDefault, Goto
<1>8. pc'[h] = "writing" /\ \A g \in Handlers : g # h => pc'[g] = pc[g]
  BY <1>7 DEF DefaultsInv, TypeOK
<1>9. TypeOK'
  BY <1>3, <1>6, <1>7 DEF DefaultsInv, TypeOK, PCs
<1>10. LockHeld'
  BY <1>1, <1>7, <1>8 DEF DefaultsInv, LockHeld, InCriticalSection
<1>11. LocalsFit'
  <2>. SUFFICES ASSUME NEW g \in Handlers PROVE Fits(g)'
    BY DEF LocalsFit
  <2>1. CASE g = h
    <3>1. DOMAIN Mine(h)' = DOMAIN Mine(h)
      BY <1>5, <1>6, <1>7 DEF Mine
    <3>. QED
      BY <2>1, <3>1, <1>1, <1>7 DEF DefaultsInv, LocalsFit, Fits, HasItem
  <2>2. CASE g # h
    BY <2>2, <1>2, <1>7, <1>8
    DEF DefaultsInv, LocalsFit, Fits, HasItem, InCriticalSection
  <2>. QED  BY <2>1, <2>2
<1>12. ChainCleared'
  <2>. SUFFICES ASSUME NEW g \in Handlers, pc'[g] = "writing", req[g].isDefault,
                       NEW i \in DOMAIN items'[UserOf(req[g])],
                       NormalizeChain(items'[UserOf(req[g])][i].chain)
                         = NormalizeChain(req[g].chain)
                PROVE  ~items'[UserOf(req[g])][i].isDefault
    BY <1>7 DEF ChainCleared, At, Mine
  <2>1. g = h
    BY <1>2, <1>8 DEF InCriticalSection
  <2>. QED  BY <2>1, <1>5, <1>6
<1>13. OneDefaultPerChain'
  <2>1. OneDefault(list)
    BY <1>4, <1>5 DEF OneDefault
  <2>2. \A v \in Users : v # u => items'[v] = items[v]
    BY <1>6 DEF DefaultsInv, TypeOK
  <2>. QED
    BY <2>1, <2>2, <1>6 DEF DefaultsInv, OneDefaultPerChain, OneDefault
<1>. QED  BY <1>9, <1>10, <1>11, <1>12, <1>13 DEF DefaultsInv

\* Create's steps before it touches the slice fill its local item and take the
\* id.
LEMMA CreateStepsKeepInv ==
  ASSUME DefaultsInv, NEW h \in Handlers,
         ReadClock(h) \/ BuildItem(h) \/ TakeID(h)
  PROVE  DefaultsInv'
<1>1. InCriticalSection(h) /\ req[h].op = "Create" /\ req[h] \in Requests
  BY DEF ReadClock, BuildItem, TakeID, At, InCriticalSection, DefaultsInv,
         LocalsFit, Fits
<1>2. PICK new \in LocalItem, label \in {"stamped", "built", "clearing"} :
        /\ pc' = [pc EXCEPT ![h] = label]
        /\ item' = [item EXCEPT ![h] = new]
        /\ nextID' \in Nat \ {0}
        /\ UNCHANGED <<mu, items, now, req, index>>
        /\ label # "stamped" =>
             /\ new \in Item
             /\ new.chain = Trim(req[h].chain)
             /\ new.isDefault = req[h].isDefault
  <2>1. CASE ReadClock(h)
    <3>1. [NoItem EXCEPT !.createdAt = now, !.updatedAt = now] \in LocalItem
      BY NoItemTyped DEF LocalItem, DefaultsInv, TypeOK
    <3>. QED  BY <2>1, <3>1 DEF ReadClock, Goto, store, DefaultsInv, TypeOK
  <2>2. CASE BuildItem(h)
    <3>. DEFINE new == [item[h] EXCEPT
                          !.id = nextID, !.userID = UserOf(req[h]),
                          !.address = Trim(req[h].address),
                          !.chain = Trim(req[h].chain),
                          !.isDefault = req[h].isDefault]
    <3>1. /\ req[h] \in Request
          /\ UserOf(req[h]) \in Users
          /\ Trim(req[h].address) \in Raw
          /\ Trim(req[h].chain) \in Raw
          /\ req[h].isDefault \in BOOLEAN
      BY <1>1, RequestsTyped, TrimKeepsChain DEF Request
    <3>2. item[h] \in LocalItem /\ nextID \in Int
      BY DEF DefaultsInv, TypeOK
    <3>3. /\ new \in Item /\ new \in LocalItem
          /\ new.chain = Trim(req[h].chain)
          /\ new.isDefault = req[h].isDefault
      BY <3>1, <3>2 DEF Item, LocalItem
    <3>4. item' = [item EXCEPT ![h] = new]
      BY <2>2 DEF BuildItem, DefaultsInv, TypeOK
    <3>. HIDE DEF new
    <3>. QED
      BY <2>2, <3>3, <3>4 DEF BuildItem, Goto, store, DefaultsInv, TypeOK
  <2>3. CASE TakeID(h)
    <3>1. /\ item[h] \in LocalItem
          /\ item[h] \in Item
          /\ item[h].chain = Trim(req[h].chain)
          /\ item[h].isDefault = req[h].isDefault
          /\ item' = [item EXCEPT ![h] = item[h]]
      BY <2>3 DEF TakeID, At, DefaultsInv, TypeOK, LocalsFit, Fits, HasItem
    <3>. QED  BY <2>3, <3>1 DEF TakeID, Goto, DefaultsInv, TypeOK
  <2>. QED  BY <2>1, <2>2, <2>3
<1>3. TypeOK'
  BY <1>2 DEF DefaultsInv, TypeOK, PCs
<1>4. LockHeld'
  BY <1>1, <1>2 DEF DefaultsInv, LockHeld, InCriticalSection, TypeOK
<1>5. LocalsFit'
  BY <1>1, <1>2 DEF DefaultsInv, LocalsFit, Fits, HasItem, TypeOK, Mine
<1>6. ChainCleared'
  BY <1>2 DEF DefaultsInv, ChainCleared, TypeOK, At, Mine
<1>7. OneDefaultPerChain'
  BY <1>2 DEF DefaultsInv, OneDefaultPerChain, OneDefault
<1>. QED  BY <1>3, <1>4, <1>5, <1>6, <1>7 DEF DefaultsInv

\* The search loop of Update and Delete stops at a position of the caller's
\* slice.
LEMMA FindKeepsInv ==
  ASSUME DefaultsInv, NEW h \in Handlers, Find(h)
  PROVE  DefaultsInv'
<1>1. /\ InCriticalSection(h)
      /\ pc[h] = "locked" /\ req[h].op \in {"Update", "Delete"}
      /\ req[h] \in Requests
  BY DEF Find, At, InCriticalSection, DefaultsInv, LocalsFit, Fits
<1>2. PICK i \in Hits(Mine(h), req[h].id) : index' = [index EXCEPT ![h] = i]
  BY DEF Find
<1>3. i \in DOMAIN Mine(h) /\ i \in Nat
  BY <1>1, <1>2, RequestsTyped DEF Hits, Mine, DefaultsInv, TypeOK
<1>4. /\ pc' = [pc EXCEPT ![h] = IF req[h].op = "Update" THEN "clearing"
                                                      ELSE "writing"]
      /\ UNCHANGED <<mu, nextID, items, now, req, item>>
  BY DEF Find, Goto, store
<1>5. TypeOK'
  BY <1>2, <1>3, <1>4 DEF DefaultsInv, TypeOK, PCs
<1>6. LockHeld'
  BY <1>1, <1>4 DEF DefaultsInv, LockHeld, InCriticalSection, TypeOK
<1>7. LocalsFit'
  BY <1>1, <1>2, <1>3, <1>4
  DEF DefaultsInv, LocalsFit, Fits, HasItem, TypeOK, Mine
<1>8. ChainCleared'
  BY <1>1, <1>4 DEF DefaultsInv, ChainCleared, TypeOK, At, Mine
<1>9. OneDefaultPerChain'
  BY <1>4 DEF DefaultsInv, OneDefaultPerChain, OneDefault
<1>. QED  BY <1>5, <1>6, <1>7, <1>8, <1>9 DEF DefaultsInv

\* s.mu.Lock() returns only to a goroutine that finds the mutex free.
LEMMA LockKeepsInv ==
  ASSUME DefaultsInv, NEW h \in Handlers, Lock(h)
  PROVE  DefaultsInv'
<1>1. /\ pc[h] = "received" /\ mu = NoHandler /\ mu' = h
      /\ pc' = [pc EXCEPT ![h] = "locked"]
      /\ UNCHANGED <<nextID, items, now, req, item, index>>
  BY DEF Lock, Goto
<1>2. TypeOK'
  BY <1>1 DEF DefaultsInv, TypeOK, PCs
<1>3. LockHeld'
  BY <1>1, NoHandlerIsNone
  DEF DefaultsInv, LockHeld, InCriticalSection, TypeOK
<1>4. LocalsFit'
  BY <1>1 DEF DefaultsInv, LocalsFit, Fits, HasItem, TypeOK, Mine
<1>5. ChainCleared'
  BY <1>1 DEF DefaultsInv, ChainCleared, TypeOK, At, Mine
<1>6. OneDefaultPerChain'
  BY <1>1 DEF DefaultsInv, OneDefaultPerChain, OneDefault
<1>. QED  BY <1>2, <1>3, <1>4, <1>5, <1>6 DEF DefaultsInv

\* Outside the mutex: h's request arrives, is refused, or its answer leaves.
LEMMA OutsideKeepsInv ==
  ASSUME DefaultsInv, NEW h \in Handlers,
         (\E r \in Requests : Receive(h, r)) \/ Reject(h) \/ Respond(h)
  PROVE  DefaultsInv'
<1>1. PICK r \in Requests \cup {NoRequest},
           label \in {"idle", "received", "replied"} :
        /\ ~InCriticalSection(h)
        /\ pc' = [pc EXCEPT ![h] = label]
        /\ req' = [req EXCEPT ![h] = r]
        /\ label # "idle" => r \in Requests
        /\ UNCHANGED <<mu, nextID, items, now, item, index>>
  <2>1. CASE \E r \in Requests : Receive(h, r)
    BY <2>1 DEF Receive, Goto, InCriticalSection, store
  <2>2. CASE Reject(h)
    <3>1. req[h] \in Requests /\ req' = [req EXCEPT ![h] = req[h]]
      BY <2>2 DEF Reject, DefaultsInv, LocalsFit, Fits, TypeOK
    <3>. QED  BY <2>2, <3>1 DEF Reject, Goto, InCriticalSection, store
  <2>3. CASE Respond(h)
    BY <2>3 DEF Respond, Goto, InCriticalSection, store
  <2>. QED  BY <2>1, <2>2, <2>3
<1>2. TypeOK'
  BY <1>1 DEF DefaultsInv, TypeOK, PCs
<1>3. LockHeld'
  BY <1>1 DEF DefaultsInv, LockHeld, InCriticalSection, TypeOK
<1>4. LocalsFit'
  BY <1>1 DEF DefaultsInv, LocalsFit, Fits, HasItem, TypeOK, Mine
<1>5. ChainCleared'
  BY <1>1 DEF DefaultsInv, ChainCleared, TypeOK, At, Mine
<1>6. OneDefaultPerChain'
  BY <1>1 DEF DefaultsInv, OneDefaultPerChain, OneDefault
<1>. QED  BY <1>2, <1>3, <1>4, <1>5, <1>6 DEF DefaultsInv

\* A store without items, no goroutine inside: how the process starts.
LEMMA FreshStoreIsRight ==
  ASSUME mu = NoHandler, nextID = 1, items = [u \in Users |-> <<>>],
         now \in Nat, pc = [h \in Handlers |-> "idle"],
         req = [h \in Handlers |-> NoRequest],
         item = [h \in Handlers |-> NoItem], index = [h \in Handlers |-> 0]
  PROVE  DefaultsInv
<1>1. TypeOK
  BY NoItemTyped DEF TypeOK, PCs
<1>2. LockHeld
  BY NoHandlerIsNone DEF LockHeld, InCriticalSection
<1>3. LocalsFit /\ ChainCleared
  BY DEF LocalsFit, Fits, HasItem, ChainCleared, At
<1>4. OneDefaultPerChain
  BY DEF OneDefaultPerChain, OneDefault
<1>. QED  BY <1>1, <1>2, <1>3, <1>4 DEF DefaultsInv

\* A new process starts from an empty store.
LEMMA RestartKeepsInv == DefaultsInv /\ Restart => DefaultsInv'
<1>. SUFFICES ASSUME DefaultsInv, Restart
              PROVE  DefaultsInv'
  OBVIOUS
<1>1. TypeOK'
  BY NoItemTyped DEF Restart, TypeOK, PCs, DefaultsInv
<1>2. LockHeld'
  BY NoHandlerIsNone DEF Restart, LockHeld, InCriticalSection
<1>3. LocalsFit' /\ ChainCleared'
  BY DEF Restart, LocalsFit, Fits, HasItem, ChainCleared, At
<1>4. OneDefaultPerChain'
  BY DEF Restart, OneDefaultPerChain, OneDefault
<1>. QED  BY <1>1, <1>2, <1>3, <1>4 DEF DefaultsInv

\* The clock touches nothing of the store.
LEMMA FrameKeepsInv ==
  DefaultsInv /\ (Tick \/ UNCHANGED vars) => DefaultsInv'
<1>. SUFFICES ASSUME DefaultsInv, Tick \/ UNCHANGED vars
              PROVE  DefaultsInv'
  OBVIOUS
<1>1. now' \in Nat /\ UNCHANGED <<store, locals>>
  BY DEF Tick, vars, DefaultsInv, TypeOK
<1>2. TypeOK'
  BY <1>1 DEF DefaultsInv, TypeOK, store, locals
<1>3. LockHeld' /\ LocalsFit' /\ ChainCleared' /\ OneDefaultPerChain'
  BY <1>1
  DEF DefaultsInv, LockHeld, LocalsFit, Fits, HasItem, ChainCleared, At, Mine,
      InCriticalSection, OneDefaultPerChain, OneDefault, store, locals
<1>. QED  BY <1>2, <1>3 DEF DefaultsInv

\* No step of the store, taken or refused, breaks the invariant.
LEMMA StepKeepsInv == DefaultsInv /\ [Next]_vars => DefaultsInv'
<1>. SUFFICES ASSUME DefaultsInv, [Next]_vars
              PROVE  DefaultsInv'
  OBVIOUS
<1>1. CASE \E h \in Handlers :
             (\E r \in Requests : Receive(h, r)) \/ Lock(h) \/ Step(h)
  <2>. PICK h \in Handlers :
         (\E r \in Requests : Receive(h, r)) \/ Lock(h) \/ Step(h)
    BY <1>1
  <2>1. CASE (\E r \in Requests : Receive(h, r)) \/ Reject(h) \/ Respond(h)
    BY <2>1, OutsideKeepsInv
  <2>2. CASE Lock(h)
    BY <2>2, LockKeepsInv
  <2>3. CASE List(h) \/ NotFound(h)
    BY <2>3, ReadersKeepInv
  <2>4. CASE ReadClock(h) \/ BuildItem(h) \/ TakeID(h)
    BY <2>4, CreateStepsKeepInv
  <2>5. CASE Find(h)
    BY <2>5, FindKeepsInv
  <2>6. CASE ClearDefault(h)
    BY <2>6, ClearDefaultKeepsInv
  <2>7. CASE CreateAppend(h)
    BY <2>7, CreateAppendKeepsInv
  <2>8. CASE UpdateWrite(h)
    BY <2>8, UpdateWriteKeepsInv
  <2>9. CASE DeleteSplice(h)
    BY <2>9, DeleteSpliceKeepsInv
  <2>. QED
    BY <2>1, <2>2, <2>3, <2>4, <2>5, <2>6, <2>7, <2>8, <2>9 DEF Step
<1>2. CASE Tick \/ UNCHANGED vars
  BY <1>2, FrameKeepsInv
<1>3. CASE Restart
  BY <1>3, RestartKeepsInv
<1>. QED  BY <1>1, <1>2, <1>3 DEF Next

-----------------------------------------------------------------------------
(* The theorems about flags. *)

\* The invariant holds in every state of the running store.
THEOREM DefaultsInvHolds == Spec => []DefaultsInv
<1>1. Init => DefaultsInv
  <2>. SUFFICES ASSUME Init PROVE DefaultsInv
    OBVIOUS
  <2>. QED  BY FreshStoreIsRight DEF Init
<1>. QED  BY <1>1, StepKeepsInv, PTL DEF Spec

\* Every variable holds values of its kind, whatever requests come.
THEOREM TypeCorrect == Spec => []TypeOK
<1>1. DefaultsInv => TypeOK
  BY DEF DefaultsInv
<1>. QED  BY <1>1, DefaultsInvHolds, PTL

\* sync.Mutex keeps its promise here: every path through List, Create, Update
\* and Delete holds it from Lock to the deferred Unlock and no longer.
THEOREM MutualExclusion == Spec => []LockHeld
<1>1. DefaultsInv => LockHeld
  BY DEF DefaultsInv
<1>. QED  BY <1>1, DefaultsInvHolds, PTL

\* For any number of goroutines, users and chain names: at every instant a user
\* has at most one default item on a chain, however the chain was spelled.
THEOREM AtMostOneDefault == Spec => []OneDefaultPerChain
<1>1. DefaultsInv => OneDefaultPerChain
  BY DEF DefaultsInv
<1>. QED  BY <1>1, DefaultsInvHolds, PTL

-----------------------------------------------------------------------------
(* Ids and creation times, on top of the mutual exclusion shown above. *)

\* Both inductive invariants; the second needs the mutex of the first.
BothInv == DefaultsInv /\ IDsInv

\* Nothing of the store changes, and no goroutine's item.
LEMMA StoreAtRest ==
  ASSUME IDsInv, TypeOK, UNCHANGED <<nextID, items>>,
         now \in Int, now' \in Int, now <= now'
  PROVE  IDsIdentify' /\ StampsFollowIDs' /\ StampsArePast'
<1>1. IDsIdentify' /\ StampsFollowIDs'
  BY DEF IDsInv, IDsIdentify, StampsFollowIDs
<1>2. StampsArePast'
  <2>. SUFFICES ASSUME NEW u \in Users, NEW i \in DOMAIN items[u]
                PROVE  items[u][i].createdAt <= now'
    BY DEF StampsArePast
  <2>1. items[u][i].createdAt \in Int
    <3>1. items[u] \in Seq(Item)
      BY DEF TypeOK
    <3>2. items[u][i] \in Item
      BY <3>1
    <3>. QED  BY <3>2 DEF Item
  <2>2. items[u][i].createdAt <= now
    BY DEF IDsInv, StampsArePast
  <2>. QED  BY <2>1, <2>2
<1>. QED  BY <1>1, <1>2

\* Slices from which items are taken, or whose items change in other fields than
\* id and creation time, stay in order: old says where an item was before.
LEMMA SubslicesKeepOrder ==
  ASSUME IDsInv, TypeOK, UNCHANGED <<nextID, now>>,
         NEW old,
         \A u \in Users : \A i \in DOMAIN items'[u] :
           /\ old[u][i] \in DOMAIN items[u]
           /\ items'[u][i].id = items[u][old[u][i]].id
           /\ items'[u][i].createdAt = items[u][old[u][i]].createdAt,
         \A u \in Users : \A i, j \in DOMAIN items'[u] :
           i < j => old[u][i] < old[u][j]
  PROVE  IDsIdentify' /\ StampsFollowIDs' /\ StampsArePast'
<1>1. \A u \in Users : \A i, j \in DOMAIN items'[u] :
        i < j => items'[u][i].id < items'[u][j].id
  BY DEF IDsInv, IDsIdentify
<1>2. \A u, v \in Users : \A i \in DOMAIN items'[u], j \in DOMAIN items'[v] :
        items'[u][i].id = items'[v][j].id => u = v
  BY DEF IDsInv, IDsIdentify
<1>3. \A u \in Users : \A i \in DOMAIN items'[u] :
        items'[u][i].id \in 1..(nextID - 1)
  BY DEF IDsInv, IDsIdentify
<1>4. IDsIdentify'
  BY <1>1, <1>2, <1>3 DEF IDsIdentify
<1>5. StampsFollowIDs'
  <2>. SUFFICES ASSUME NEW u \in Users, NEW v \in Users,
                       NEW i \in DOMAIN items'[u], NEW j \in DOMAIN items'[v],
                       items'[u][i].id < items'[v][j].id
                PROVE  items'[u][i].createdAt <= items'[v][j].createdAt
    BY DEF StampsFollowIDs
  <2>. QED  BY DEF IDsInv, StampsFollowIDs
<1>6. StampsArePast'
  BY DEF IDsInv, StampsArePast
<1>. QED  BY <1>4, <1>5, <1>6

\* After an operation ends nobody is inside the mutex.
LEMMA ReturnEmpties ==
  ASSUME DefaultsInv, NEW h \in Handlers, InCriticalSection(h),
         NEW rep, Return(h, rep)
  PROVE  \A g \in Handlers : Fresh(g)'
<1>1. \A g \in Handlers : InCriticalSection(g) => g = h
  BY Alone DEF DefaultsInv
<1>2. \A g \in Handlers : ~InCriticalSection(g)'
  BY <1>1 DEF InCriticalSection, Return, Goto, DefaultsInv, TypeOK
<1>. QED  BY <1>2 DEF Fresh, HasStamp, HasItem, InCriticalSection

-----------------------------------------------------------------------------
(* The steps of the store. *)

\* Create's append: the item is later than all that is stored, so the slice
\* stays in order, and no other user has its id.
LEMMA CreateAppendKeepsIDs ==
  ASSUME BothInv, NEW h \in Handlers, CreateAppend(h)
  PROVE  IDsInv'
<1>. DEFINE me == UserOf(req[h])
            x == item[h]
            n == Len(items[me])
<1>1. /\ InCriticalSection(h)
      /\ pc[h] = "writing" /\ req[h].op = "Create"
      /\ me \in Users
  BY RequestsTyped
  DEF CreateAppend, At, InCriticalSection, BothInv, DefaultsInv, LocalsFit, Fits
<1>2. items[me] \in Seq(Item) /\ x \in Item
  BY <1>1 DEF BothInv, DefaultsInv, TypeOK, LocalsFit, Fits, HasItem
<1>3. /\ x.createdAt <= now
      /\ x.id = nextID - 1
      /\ x.id >= 1
      /\ \A u \in Users : \A i \in DOMAIN items[u] :
           /\ items[u][i].createdAt <= x.createdAt
           /\ items[u][i].id < x.id
  BY <1>1 DEF BothInv, IDsInv, Fresh, HasStamp, HasItem
<1>4. UNCHANGED <<nextID, now>> /\ items' = [items EXCEPT ![me] = Append(@, x)]
  BY DEF CreateAppend, Return, SetMine, Mine
<1>5. nextID \in Int /\ x.id \in Int /\ x.createdAt \in Int
  BY <1>2 DEF BothInv, DefaultsInv, TypeOK, Item
<1>6. /\ n \in Nat
      /\ DOMAIN items[me] = 1..n
      /\ DOMAIN items'[me] = 1..(n + 1)
      /\ items'[me][n + 1] = x
      /\ \A i \in 1..n : items'[me][i] = items[me][i]
      /\ \A u \in Users : u # me => items'[u] = items[u]
  BY <1>1, <1>2, <1>4 DEF BothInv, DefaultsInv, TypeOK
<1>7. \A u \in Users : \A i \in DOMAIN items'[u] :
        \/ u = me /\ i = n + 1 /\ items'[u][i] = x
        \/ i \in DOMAIN items[u] /\ items'[u][i] = items[u][i]
  BY <1>6
<1>8. IDsIdentify'
  <2>1. ASSUME NEW u \in Users, NEW i \in DOMAIN items'[u],
               NEW j \in DOMAIN items'[u], i < j
        PROVE  items'[u][i].id < items'[u][j].id
    <3>1. ~(u = me /\ i = n + 1)
      BY <2>1, <1>6
    <3>. QED  BY <2>1, <3>1, <1>3, <1>7 DEF BothInv, IDsInv, IDsIdentify
  <2>2. ASSUME NEW u \in Users, NEW v \in Users, NEW i \in DOMAIN items'[u],
               NEW j \in DOMAIN items'[v], items'[u][i].id = items'[v][j].id
        PROVE  u = v
    BY <2>2, <1>3, <1>5, <1>7 DEF BothInv, IDsInv, IDsIdentify
  <2>3. ASSUME NEW u \in Users, NEW i \in DOMAIN items'[u]
        PROVE  items'[u][i].id \in 1..(nextID - 1)
    BY <1>3, <1>5, <1>7 DEF BothInv, IDsInv, IDsIdentify
  <2>. QED  BY <2>1, <2>2, <2>3, <1>4 DEF IDsIdentify
<1>9. StampsFollowIDs'
  <2>. SUFFICES ASSUME NEW u \in Users, NEW v \in Users,
                       NEW i \in DOMAIN items'[u], NEW j \in DOMAIN items'[v],
                       items'[u][i].id < items'[v][j].id
                PROVE  items'[u][i].createdAt <= items'[v][j].createdAt
    BY DEF StampsFollowIDs
  <2>1. CASE i \in DOMAIN items[u] /\ items'[u][i] = items[u][i]
    BY <2>1, <1>3, <1>7 DEF BothInv, IDsInv, StampsFollowIDs
  <2>2. CASE items'[u][i] = x
    <3>1. items'[v][j].id = x.id \/ items'[v][j].id < x.id
      BY <1>3, <1>7
    <3>2. items'[v][j].id \in Int
      BY <1>8, <1>4, <1>5 DEF IDsIdentify
    <3>. QED  BY <2>2, <3>1, <3>2, <1>5
  <2>. QED  BY <2>1, <2>2, <1>7
<1>10. StampsArePast'
  BY <1>3, <1>4, <1>7 DEF BothInv, IDsInv, StampsArePast
<1>11. \A g \in Handlers : Fresh(g)'
  BY <1>1, ReturnEmpties DEF CreateAppend, BothInv
<1>. QED  BY <1>8, <1>9, <1>10, <1>11 DEF IDsInv

\* List and the fall-through of the searches change no slice.
LEMMA ReadersKeepIDs ==
  ASSUME BothInv, NEW h \in Handlers, List(h) \/ NotFound(h)
  PROVE  IDsInv'
<1>1. UNCHANGED <<items, nextID, now>> /\ InCriticalSection(h)
  BY DEF List, NotFound, Return, At, InCriticalSection
<1>2. IDsIdentify' /\ StampsFollowIDs' /\ StampsArePast'
  BY <1>1, StoreAtRest DEF BothInv, DefaultsInv, TypeOK
<1>3. \A g \in Handlers : Fresh(g)'
  BY <1>1, ReturnEmpties DEF List, NotFound, BothInv
<1>. QED  BY <1>2, <1>3 DEF IDsInv

\* Update writes neither the id nor the creation time.
LEMMA UpdateWriteKeepsIDs ==
  ASSUME BothInv, NEW h \in Handlers, UpdateWrite(h)
  PROVE  IDsInv'
<1>. DEFINE me == UserOf(req[h])
            k == index[h]
            old == [u \in Users |-> [i \in DOMAIN items'[u] |-> i]]
<1>1. /\ InCriticalSection(h)
      /\ pc[h] = "writing" /\ req[h].op = "Update"
      /\ me \in Users
      /\ k \in DOMAIN items[me]
  BY RequestsTyped
  DEF UpdateWrite, At, InCriticalSection, BothInv, DefaultsInv, LocalsFit, Fits,
      Mine
<1>2. items[me] \in Seq(Item)
  BY <1>1 DEF BothInv, DefaultsInv, TypeOK
<1>3. PICK address, chain, isDefault :
        /\ items' = [items EXCEPT ![me] =
                       [items[me] EXCEPT ![k] =
                         [items[me][k] EXCEPT
                            !.address = address, !.chain = chain,
                            !.isDefault = isDefault, !.updatedAt = now]]]
        /\ UNCHANGED <<nextID, now>>
  BY DEF UpdateWrite, Return, SetMine, Mine
<1>4. \A u \in Users :
        /\ DOMAIN items'[u] = DOMAIN items[u]
        /\ \A i \in DOMAIN items[u] :
             /\ items'[u][i].id = items[u][i].id
             /\ items'[u][i].createdAt = items[u][i].createdAt
  <2>1. items[me][k] \in Item
    BY <1>1, <1>2
  <2>. QED  BY <1>1, <1>3, <2>1 DEF BothInv, DefaultsInv, TypeOK, Item
<1>5. /\ \A u \in Users : \A i \in DOMAIN items'[u] :
           /\ old[u][i] \in DOMAIN items[u]
           /\ items'[u][i].id = items[u][old[u][i]].id
           /\ items'[u][i].createdAt = items[u][old[u][i]].createdAt
      /\ \A u \in Users : \A i, j \in DOMAIN items'[u] :
           i < j => old[u][i] < old[u][j]
  BY <1>4
<1>6. IDsIdentify' /\ StampsFollowIDs' /\ StampsArePast'
  <2>. HIDE DEF old
  <2>. QED  BY <1>3, <1>5, SubslicesKeepOrder DEF BothInv, DefaultsInv
<1>7. \A g \in Handlers : Fresh(g)'
  BY <1>1, ReturnEmpties DEF UpdateWrite, BothInv
<1>. QED  BY <1>6, <1>7 DEF IDsInv

\* Delete's splice moves what came after the item down by one, in order.
LEMMA DeleteSpliceKeepsIDs ==
  ASSUME BothInv, NEW h \in Handlers, DeleteSplice(h)
  PROVE  IDsInv'
<1>. DEFINE me == UserOf(req[h])
            k == index[h]
            list == RemoveAt(items[me], k)
            old == [u \in Users |-> [i \in DOMAIN items'[u] |->
                      IF u = me /\ i >= k THEN i + 1 ELSE i]]
<1>1. /\ InCriticalSection(h)
      /\ pc[h] = "writing" /\ req[h].op = "Delete"
      /\ me \in Users
      /\ k \in DOMAIN items[me]
  BY RequestsTyped
  DEF DeleteSplice, At, InCriticalSection, BothInv, DefaultsInv, LocalsFit,
      Fits, Mine
<1>2. items \in [Users -> Seq(Item)] /\ items[me] \in Seq(Item) /\ k \in Int
  BY <1>1 DEF BothInv, DefaultsInv, TypeOK
<1>3. items' = [items EXCEPT ![me] = list] /\ UNCHANGED <<nextID, now>>
  BY DEF DeleteSplice, Return, SetMine, Mine
<1>4. /\ list \in Seq(Item)
      /\ \A j \in DOMAIN list :
           /\ j \in DOMAIN items[me]
           /\ j + 1 \in DOMAIN items[me]
           /\ list[j] = IF j < k THEN items[me][j] ELSE items[me][j + 1]
  BY <1>1, <1>2, RemoveAtFacts
<1>. HIDE DEF list
<1>5. items'[me] = list /\ \A u \in Users : u # me => items'[u] = items[u]
  BY <1>1, <1>2, <1>3
<1>6. ASSUME NEW u \in Users
      PROVE  /\ \A i \in DOMAIN items'[u] :
                  /\ old[u][i] \in DOMAIN items[u]
                  /\ items'[u][i].id = items[u][old[u][i]].id
                  /\ items'[u][i].createdAt = items[u][old[u][i]].createdAt
             /\ \A i, j \in DOMAIN items'[u] : i < j => old[u][i] < old[u][j]
  <2>1. CASE u = me
    <3>1. \A i \in DOMAIN list : old[u][i] = IF i >= k THEN i + 1 ELSE i
      BY <2>1, <1>5
    <3>2. DOMAIN list \subseteq Int
      BY <1>4
    <3>. HIDE DEF old
    <3>. QED  BY <2>1, <3>1, <3>2, <1>2, <1>4, <1>5
  <2>2. CASE u # me
    BY <2>2, <1>5
  <2>. QED  BY <2>1, <2>2
<1>7. IDsIdentify' /\ StampsFollowIDs' /\ StampsArePast'
  <2>. HIDE DEF old
  <2>. QED  BY <1>3, <1>6, SubslicesKeepOrder DEF BothInv, DefaultsInv
<1>8. \A g \in Handlers : Fresh(g)'
  BY <1>1, ReturnEmpties DEF DeleteSplice, BothInv
<1>. QED  BY <1>7, <1>8 DEF IDsInv

\* clearDefaultLocked changes flags only; the item that Create is making stays
\* later than all others.
LEMMA ClearDefaultKeepsIDs ==
  ASSUME BothInv, NEW h \in Handlers, ClearDefault(h)
  PROVE  IDsInv'
<1>. DEFINE me == UserOf(req[h])
            old == [u \in Users |-> [i \in DOMAIN items'[u] |-> i]]
<1>1. /\ InCriticalSection(h)
      /\ pc[h] = "clearing"
      /\ me \in Users
  BY RequestsTyped
  DEF ClearDefault, At, InCriticalSection, BothInv, DefaultsInv, LocalsFit, Fits
<1>2. items \in [Users -> Seq(Item)] /\ items[me] \in Seq(Item)
  BY <1>1 DEF BothInv, DefaultsInv, TypeOK
<1>3. /\ UNCHANGED <<nextID, now, req, item>>
      /\ pc' = [pc EXCEPT ![h] = "writing"]
  BY DEF ClearDefault, Goto
<1>4. \A u \in Users :
        /\ DOMAIN items'[u] = DOMAIN items[u]
        /\ \A i \in DOMAIN items[u] :
             /\ items'[u][i].id = items[u][i].id
             /\ items'[u][i].createdAt = items[u][i].createdAt
  <2>1. CASE ~req[h].isDefault
    BY <2>1 DEF ClearDefault
  <2>2. CASE req[h].isDefault
    <3>1. PICK chain :
            items' = [items EXCEPT ![me] = ClearDefaultLocked(items[me], chain)]
      BY <2>2 DEF ClearDefault, SetMine, Mine
    <3>2. /\ items'[me] = ClearDefaultLocked(items[me], chain)
          /\ \A u \in Users : u # me => items'[u] = items[u]
      BY <1>1, <1>2, <3>1
    <3>. QED  BY <1>2, <3>2, ClearDefaultFacts
  <2>. QED  BY <2>1, <2>2
<1>5. /\ \A u \in Users : \A i \in DOMAIN items'[u] :
           /\ old[u][i] \in DOMAIN items[u]
           /\ items'[u][i].id = items[u][old[u][i]].id
           /\ items'[u][i].createdAt = items[u][old[u][i]].createdAt
      /\ \A u \in Users : \A i, j \in DOMAIN items'[u] :
           i < j => old[u][i] < old[u][j]
  BY <1>4
<1>6. IDsIdentify' /\ StampsFollowIDs' /\ StampsArePast'
  <2>. HIDE DEF old
  <2>. QED  BY <1>3, <1>5, SubslicesKeepOrder DEF BothInv, DefaultsInv
<1>7. ASSUME NEW g \in Handlers PROVE Fresh(g)'
  <2>1. CASE g = h
    <3>1. pc'[h] = "writing"
      BY <1>3 DEF BothInv, DefaultsInv, TypeOK
    <3>2. HasItem(h)' => HasItem(h) /\ pc[h] # "built"
      BY <1>1, <1>3 DEF HasItem
    <3>3. HasStamp(h)' => HasStamp(h)
      BY <3>1, <3>2 DEF HasStamp
    <3>. QED
      BY <2>1, <3>1, <3>2, <3>3, <1>3, <1>4 DEF BothInv, IDsInv, Fresh
  <2>2. CASE g # h
    <3>1. ~InCriticalSection(g)
      BY <1>1, <2>2, Alone DEF BothInv, DefaultsInv
    <3>2. pc'[g] = pc[g]
      BY <1>3, <2>2 DEF BothInv, DefaultsInv, TypeOK
    <3>. QED  BY <3>1, <3>2 DEF Fresh, HasStamp, HasItem, InCriticalSection
  <2>. QED  BY <2>1, <2>2
<1>. QED  BY <1>6, <1>7 DEF IDsInv

\* Create reads the clock, then the next id, then takes it: the item is made
\* later than all that is stored, and stays so, since nobody else is inside.
LEMMA CreateStepsKeepIDs ==
  ASSUME BothInv, NEW h \in Handlers,
         ReadClock(h) \/ BuildItem(h) \/ TakeID(h)
  PROVE  IDsInv'
<1>1. /\ InCriticalSection(h)
      /\ req[h].op = "Create"
      /\ UNCHANGED <<items, now, req>>
  BY DEF ReadClock, BuildItem, TakeID, At, InCriticalSection, store
<1>2. /\ items \in [Users -> Seq(Item)]
      /\ nextID \in Int /\ nextID >= 1
      /\ now \in Nat
      /\ pc \in [Handlers -> PCs]
      /\ item \in [Handlers -> LocalItem]
  BY DEF BothInv, DefaultsInv, TypeOK
<1>3. nextID' \in Int /\ nextID <= nextID'
  BY <1>2 DEF ReadClock, BuildItem, TakeID, store
<1>4. IDsIdentify' /\ StampsFollowIDs' /\ StampsArePast'
  <2>1. \A u \in Users : \A i \in DOMAIN items[u] :
          items[u][i].id \in 1..(nextID' - 1)
    BY <1>2, <1>3 DEF BothInv, IDsInv, IDsIdentify
  <2>. QED
    BY <1>1, <2>1
    DEF BothInv, IDsInv, IDsIdentify, StampsFollowIDs, StampsArePast
<1>5. Fresh(h)'
  <2>1. CASE ReadClock(h)
    <3>1. /\ pc'[h] = "stamped"
          /\ item'[h].createdAt = now
      BY <2>1, <1>2 DEF ReadClock, Goto, NoItem
    <3>. QED
      BY <3>1, <1>1, <1>2
      DEF Fresh, HasStamp, HasItem, BothInv, IDsInv, StampsArePast
  <2>2. CASE BuildItem(h)
    <3>1. /\ pc[h] = "stamped" /\ pc'[h] = "built"
          /\ item'[h].createdAt = item[h].createdAt
          /\ item'[h].id = nextID
          /\ nextID' = nextID
      BY <2>2, <1>2 DEF BuildItem, At, Goto, store, LocalItem
    <3>2. \A u \in Users : \A i \in DOMAIN items[u] : items[u][i].id < nextID
      BY <1>2 DEF BothInv, IDsInv, IDsIdentify
    <3>. QED
      BY <3>1, <3>2, <1>1, <1>2 DEF Fresh, HasStamp, HasItem, BothInv, IDsInv
  <2>3. CASE TakeID(h)
    <3>1. /\ pc[h] = "built" /\ pc'[h] = "clearing"
          /\ item' = item
          /\ nextID' = nextID + 1
      BY <2>3, <1>2 DEF TakeID, At, Goto
    <3>2. item[h].id = nextID' - 1
      BY <3>1, <1>1, <1>2 DEF Fresh, HasItem, BothInv, IDsInv
    <3>. QED
      BY <3>1, <3>2, <1>1 DEF Fresh, HasStamp, HasItem, BothInv, IDsInv
  <2>. QED  BY <2>1, <2>2, <2>3
<1>6. ASSUME NEW g \in Handlers, g # h PROVE Fresh(g)'
  <2>1. ~InCriticalSection(g)
    BY <1>1, <1>6, Alone DEF BothInv, DefaultsInv
  <2>2. pc'[g] = pc[g]
    BY <1>2, <1>6 DEF ReadClock, BuildItem, TakeID, Goto
  <2>. QED  BY <2>1, <2>2 DEF Fresh, HasStamp, HasItem, InCriticalSection
<1>. QED  BY <1>4, <1>5, <1>6 DEF IDsInv

\* The other steps of a goroutine change neither the book nor an item that is
\* being made.
LEMMA OtherStepsKeepIDs ==
  ASSUME BothInv, NEW h \in Handlers,
         \/ (\E r \in Requests : Receive(h, r)) \/ Reject(h) \/ Respond(h)
         \/ Lock(h) \/ Find(h)
  PROVE  IDsInv'
<1>1. /\ UNCHANGED <<items, nextID, now, item>>
      /\ ~HasStamp(h) /\ ~HasStamp(h)'
      /\ \A g \in Handlers : g # h => pc'[g] = pc[g] /\ req'[g] = req[g]
  <2>1. /\ pc \in [Handlers -> PCs]
        /\ req \in [Handlers -> Requests \cup {NoRequest}]
    BY DEF BothInv, DefaultsInv, TypeOK
  <2>2. CASE \/ (\E r \in Requests : Receive(h, r)) \/ Reject(h) \/ Respond(h)
             \/ Lock(h)
    BY <2>1, <2>2
    DEF Receive, Reject, Respond, Lock, Goto, store, HasStamp, HasItem
  <2>3. CASE Find(h)
    BY <2>1, <2>3 DEF Find, At, Goto, store, HasStamp, HasItem
  <2>. QED  BY <2>2, <2>3
<1>2. IDsIdentify' /\ StampsFollowIDs' /\ StampsArePast'
  BY <1>1, StoreAtRest DEF BothInv, DefaultsInv, TypeOK
<1>3. ASSUME NEW g \in Handlers PROVE Fresh(g)'
  <2>1. CASE g = h
    BY <2>1, <1>1 DEF Fresh, HasStamp
  <2>2. CASE g # h
    BY <2>2, <1>1 DEF Fresh, HasStamp, HasItem, BothInv, IDsInv
  <2>. QED  BY <2>1, <2>2
<1>. QED  BY <1>2, <1>3 DEF IDsInv

\* The clock goes forward, and no item gets younger by that.
LEMMA FrameKeepsIDs ==
  BothInv /\ (Tick \/ UNCHANGED vars) => IDsInv'
<1>. SUFFICES ASSUME BothInv, Tick \/ UNCHANGED vars
              PROVE  IDsInv'
  OBVIOUS
<1>1. /\ UNCHANGED <<items, nextID, item, pc, req>>
      /\ now \in Nat /\ now' \in Nat /\ now <= now'
      /\ item \in [Handlers -> LocalItem]
  BY DEF Tick, vars, store, locals, BothInv, DefaultsInv, TypeOK
<1>2. IDsIdentify' /\ StampsFollowIDs' /\ StampsArePast'
  BY <1>1, StoreAtRest DEF BothInv, DefaultsInv
<1>3. ASSUME NEW g \in Handlers PROVE Fresh(g)'
  <2>1. item[g].createdAt \in Nat
    BY <1>1 DEF LocalItem
  <2>2. item[g].createdAt <= now => item[g].createdAt <= now'
    BY <1>1, <2>1
  <2>. QED  BY <1>1, <2>2 DEF Fresh, HasStamp, HasItem, BothInv, IDsInv
<1>. QED  BY <1>2, <1>3 DEF IDsInv

\* An empty store: how the process starts, the first time and again.
LEMMA EmptyStoreIsInOrder ==
  ASSUME items = [u \in Users |-> <<>>], pc = [h \in Handlers |-> "idle"]
  PROVE  IDsInv
<1>1. IDsIdentify /\ StampsFollowIDs /\ StampsArePast
  BY DEF IDsIdentify, StampsFollowIDs, StampsArePast
<1>. QED  BY <1>1 DEF IDsInv, Fresh, HasStamp, HasItem

\* A fresh store has nothing to be out of order.
LEMMA RestartKeepsIDs == Restart => IDsInv'
<1>. SUFFICES ASSUME Restart PROVE IDsInv'
  OBVIOUS
<1>1. IDsIdentify' /\ StampsFollowIDs' /\ StampsArePast'
  BY DEF Restart, IDsIdentify, StampsFollowIDs, StampsArePast
<1>. QED  BY <1>1 DEF Restart, IDsInv, Fresh, HasStamp, HasItem

-----------------------------------------------------------------------------
(* The theorems about ids and creation times. *)

\* No step breaks the invariants.
LEMMA StepKeepsBoth == BothInv /\ [Next]_vars => BothInv'
<1>. SUFFICES ASSUME BothInv, [Next]_vars
              PROVE  IDsInv'
  BY StepKeepsInv DEF BothInv
<1>1. CASE \E h \in Handlers :
             (\E r \in Requests : Receive(h, r)) \/ Lock(h) \/ Step(h)
  <2>. PICK h \in Handlers :
         (\E r \in Requests : Receive(h, r)) \/ Lock(h) \/ Step(h)
    BY <1>1
  <2>1. CASE \/ (\E r \in Requests : Receive(h, r)) \/ Reject(h) \/ Respond(h)
             \/ Lock(h) \/ Find(h)
    BY <2>1, OtherStepsKeepIDs
  <2>2. CASE List(h) \/ NotFound(h)
    BY <2>2, ReadersKeepIDs
  <2>3. CASE ReadClock(h) \/ BuildItem(h) \/ TakeID(h)
    BY <2>3, CreateStepsKeepIDs
  <2>4. CASE ClearDefault(h)
    BY <2>4, ClearDefaultKeepsIDs
  <2>5. CASE CreateAppend(h)
    BY <2>5, CreateAppendKeepsIDs
  <2>6. CASE UpdateWrite(h)
    BY <2>6, UpdateWriteKeepsIDs
  <2>7. CASE DeleteSplice(h)
    BY <2>7, DeleteSpliceKeepsIDs
  <2>. QED  BY <2>1, <2>2, <2>3, <2>4, <2>5, <2>6, <2>7 DEF Step
<1>2. CASE Tick \/ UNCHANGED vars
  BY <1>2, FrameKeepsIDs
<1>3. CASE Restart
  BY <1>3, RestartKeepsIDs
<1>. QED  BY <1>1, <1>2, <1>3 DEF Next

\* Every item under construction is later than every stored one, and the stored
\* ones are in order.
THEOREM IDsInvHolds == Spec => []IDsInv
<1>1. Init => BothInv
  <2>. SUFFICES ASSUME Init PROVE BothInv
    OBVIOUS
  <2>1. DefaultsInv
    BY FreshStoreIsRight DEF Init
  <2>2. IDsInv
    BY EmptyStoreIsInOrder DEF Init
  <2>. QED  BY <2>1, <2>2 DEF BothInv
<1>2. BothInv => IDsInv
  BY DEF BothInv
<1>. QED  BY <1>1, <1>2, StepKeepsBoth, PTL DEF Spec

\* For any number of goroutines and users, an id identifies one entry of one
\* user, so the first hit of the searches in Update and Delete is the only one.
THEOREM IDsAlwaysIdentify == Spec => []IDsIdentify
<1>1. IDsInv => IDsIdentify
  BY DEF IDsInv
<1>. QED  BY <1>1, IDsInvHolds, PTL

\* An entry with a later id was never created at an earlier time, over all
\* users, as long as the clock does not go back.
THEOREM StampsAlwaysFollowIDs == Spec => []StampsFollowIDs
<1>1. IDsInv => StampsFollowIDs
  BY DEF IDsInv
<1>. QED  BY <1>1, IDsInvHolds, PTL

-----------------------------------------------------------------------------
(* How far the holder of the mutex is ahead of the last unlock. *)

\* The invariants of flags and ids, and how far the holder of the mutex is
\* ahead of the last unlock.
RefInv == BothInv /\ SettledFits /\ ItemsFit

\* The first half of ItemsFit.
ItemsFiled ==
  \A u \in Users : \A i \in DOMAIN items[u] :
    items[u][i].userID = u /\ items[u][i].updatedAt <= now

\* A step outside of the store, of a goroutine that is not inside.
LEMMA OutsideKeepsRef ==
  ASSUME RefInv, NEW h \in Handlers,
         (\E r \in Requests : Receive(h, r)) \/ Reject(h) \/ Respond(h)
  PROVE  SettledFits' /\ ItemsFit'
<1>1. /\ UNCHANGED <<mu, nextID, items, now, item, settled>>
      /\ UNCHANGED index
      /\ ~InCriticalSection(h) /\ ~InCriticalSection(h)'
      /\ \A g \in Handlers : g # h => pc'[g] = pc[g] /\ req'[g] = req[g]
  <2>1. /\ pc \in [Handlers -> PCs]
        /\ req \in [Handlers -> Requests \cup {NoRequest}]
    BY DEF RefInv, BothInv, DefaultsInv, TypeOK
  <2>. QED
    BY <2>1 DEF Receive, Reject, Respond, Goto, store, InCriticalSection
<1>2. \A g \in Handlers :
        /\ InCriticalSection(g)' => InCriticalSection(g)
        /\ InCriticalSection(g) => pc'[g] = pc[g] /\ req'[g] = req[g] /\ g # h
  BY <1>1 DEF InCriticalSection
<1>3. \A g \in Handlers :
        /\ Saving(g) => InCriticalSection(g)
        /\ Saving(g)' => InCriticalSection(g)'
        /\ HasStamp(g)' => InCriticalSection(g)'
        /\ HasItem(g)' => InCriticalSection(g)'
  BY DEF Saving, At, HasStamp, HasItem, InCriticalSection
<1>4. \A g \in Handlers : Saving(g)' <=> Saving(g)
  BY <1>2, <1>3 DEF Saving, At
<1>5. SettledFits'
  <2>1. \A g \in Handlers :
          Saving(g)' =>
            items' = [settled.items EXCEPT ![UserOf(req'[g])] = Cleared(g)']
    BY <1>1, <1>2, <1>3, <1>4 DEF RefInv, SettledFits, Cleared
  <2>2. \A g \in Handlers :
          InCriticalSection(g)' =>
            /\ ~Invalid(req'[g])
            /\ settled.nextID =
                 IF HasItem(g)' /\ pc'[g] # "built" THEN nextID - 1 ELSE nextID
    BY <1>1, <1>2 DEF RefInv, SettledFits, HasItem
  <2>. QED  BY <1>1, <1>4, <2>1, <2>2 DEF RefInv, SettledFits
<1>6. ItemsFit'
  BY <1>1, <1>2, <1>3
  DEF RefInv, ItemsFit, HasStamp, HasItem, HasHit, Mine, InCriticalSection
<1>. QED  BY <1>5, <1>6

\* Locking starts from what the last unlock left.
LEMMA LockKeepsRef ==
  ASSUME RefInv, NEW h \in Handlers, Lock(h)
  PROVE  SettledFits' /\ ItemsFit'
<1>1. /\ UNCHANGED <<nextID, items, now, item, req, settled>>
      /\ mu = NoHandler /\ mu' = h
      /\ ~Invalid(req[h])
      /\ pc'[h] = "locked"
      /\ \A g \in Handlers : g # h => pc'[g] = pc[g]
  BY DEF Lock, Goto, RefInv, BothInv, DefaultsInv, TypeOK
<1>2. \A g \in Handlers : ~InCriticalSection(g)
  BY <1>1, NoHandlerIsNone DEF RefInv, BothInv, DefaultsInv, LockHeld
<1>3. \A g \in Handlers :
        /\ ~Saving(g) /\ ~Saving(g)'
        /\ ~HasStamp(g)' /\ ~HasItem(g)' /\ ~HasHit(g)'
  BY <1>1, <1>2 DEF Saving, At, HasStamp, HasItem, HasHit, InCriticalSection
<1>4. \A g \in Handlers : InCriticalSection(g)' => g = h
  BY <1>1, <1>2 DEF InCriticalSection
<1>5. SettledFits'
  BY <1>1, <1>3, <1>4, NoHandlerIsNone DEF RefInv, SettledFits
<1>6. ItemsFit'
  BY <1>1, <1>3 DEF RefInv, ItemsFit
<1>. QED  BY <1>5, <1>6

\* A step inside that changes neither slices nor the last unlock's state.
LEMMA InsideKeepsRef ==
  ASSUME RefInv, NEW h \in Handlers,
         Find(h) \/ ReadClock(h) \/ BuildItem(h) \/ TakeID(h)
  PROVE  SettledFits' /\ ItemsFit'
<1>1. /\ UNCHANGED <<mu, items, now, req, settled>>
      /\ InCriticalSection(h)
      /\ mu = h
      /\ \A g \in Handlers : InCriticalSection(g) => g = h
  BY Alone
  DEF Find, ReadClock, BuildItem, TakeID, At, store, InCriticalSection, RefInv,
      BothInv, DefaultsInv
<1>2. /\ pc \in [Handlers -> PCs]
      /\ item \in [Handlers -> LocalItem]
      /\ nextID \in Nat \ {0}
      /\ now \in Nat
  BY DEF RefInv, BothInv, DefaultsInv, TypeOK
<1>3. \A g \in Handlers : InCriticalSection(g)' => g = h
  BY <1>1, <1>2
  DEF Find, ReadClock, BuildItem, TakeID, Goto, InCriticalSection
<1>4. \A g \in Handlers : ~Saving(g) /\ ~Saving(g)'
  <2>1. ~Saving(h) /\ ~Saving(h)'
    BY <1>1, <1>2 DEF Find, ReadClock, BuildItem, TakeID, At, Goto, Saving
  <2>. QED  BY <2>1, <1>1, <1>3 DEF Saving, At, InCriticalSection
<1>5. settled.nextID =
        IF HasItem(h)' /\ pc'[h] # "built" THEN nextID' - 1 ELSE nextID'
  <2>1. settled.nextID = nextID
    BY <1>1
    DEF RefInv, SettledFits, HasItem, Find, ReadClock, BuildItem, TakeID, At
  <2>. QED
    BY <2>1, <1>1, <1>2
    DEF HasItem, Find, ReadClock, BuildItem, TakeID, At, Goto, store
<1>6. SettledFits'
  BY <1>1, <1>3, <1>4, <1>5, NoHandlerIsNone DEF RefInv, SettledFits
<1>7. ASSUME HasStamp(h)'
      PROVE  /\ item'[h].updatedAt = item'[h].createdAt
             /\ \A u \in Users : \A i \in DOMAIN items[u] :
                  items[u][i].updatedAt <= item'[h].createdAt
  <2>1. CASE ReadClock(h)
    BY <2>1, <1>2 DEF ReadClock, LocalItem, RefInv, ItemsFit
  <2>2. CASE BuildItem(h)
    BY <2>2, <1>2 DEF BuildItem, At, HasStamp, LocalItem, RefInv, ItemsFit
  <2>3. CASE TakeID(h)
    BY <2>3 DEF TakeID, At, HasStamp, HasItem, RefInv, ItemsFit
  <2>4. CASE Find(h)
    BY <2>4, <1>1, <1>2, <1>7 DEF Find, At, Goto, HasStamp, HasItem
  <2>. QED  BY <2>1, <2>2, <2>3, <2>4
<1>8. ASSUME HasItem(h)'
      PROVE  /\ item'[h].userID = UserOf(req[h])
             /\ item'[h].address = Trim(req[h].address)
  <2>1. CASE ReadClock(h)
    BY <2>1, <1>2, <1>8 DEF ReadClock, Goto, HasItem
  <2>2. CASE BuildItem(h)
    BY <2>2, <1>2 DEF BuildItem, LocalItem
  <2>3. CASE TakeID(h)
    BY <2>3 DEF TakeID, At, HasItem, RefInv, ItemsFit
  <2>4. CASE Find(h)
    BY <2>4, <1>1, <1>2, <1>8 DEF Find, At, Goto, HasItem
  <2>. QED  BY <2>1, <2>2, <2>3, <2>4
<1>9. ASSUME HasHit(h)' PROVE Mine(h)'[index'[h]].id = req[h].id
  <2>1. CASE Find(h)
    <3>1. PICK i \in Hits(Mine(h), req[h].id) : index' = [index EXCEPT ![h] = i]
      BY <2>1 DEF Find
    <3>2. index'[h] = i
      BY <3>1 DEF RefInv, BothInv, DefaultsInv, TypeOK
    <3>. QED  BY <3>1, <3>2, <1>1 DEF Hits, Mine
  <2>2. CASE ~Find(h)
    BY <2>2, <1>1, <1>9 DEF ReadClock, BuildItem, TakeID, At, HasHit
  <2>. QED  BY <2>1, <2>2
<1>10. ItemsFit'
  BY <1>1, <1>3, <1>7, <1>8, <1>9
  DEF RefInv, ItemsFit, HasStamp, HasItem, HasHit, InCriticalSection
<1>. QED  BY <1>6, <1>10

\* clearDefaultLocked works on the slice that the last unlock left.
LEMMA ClearDefaultKeepsRef ==
  ASSUME RefInv, NEW h \in Handlers, ClearDefault(h)
  PROVE  SettledFits' /\ ItemsFit'
<1>. DEFINE me == UserOf(req[h])
<1>1. /\ UNCHANGED <<mu, nextID, now, req, item, index, settled>>
      /\ pc[h] = "clearing" /\ req[h].op \in {"Create", "Update"}
      /\ req[h] \in Requests
      /\ InCriticalSection(h)
      /\ pc'[h] = "writing"
      /\ \A g \in Handlers : g # h => pc'[g] = pc[g]
  BY DEF ClearDefault, At, Goto, InCriticalSection, RefInv, BothInv, DefaultsInv,
         TypeOK, LocalsFit, Fits
<1>2. mu = h /\ \A g \in Handlers : InCriticalSection(g) => g = h
  BY <1>1, Alone DEF RefInv, BothInv, DefaultsInv
<1>3. \A g \in Handlers : InCriticalSection(g)' => g = h
  BY <1>1, <1>2 DEF InCriticalSection
<1>4. items = settled.items
  <2>1. \A g \in Handlers : ~Saving(g)
    BY <1>1, <1>2 DEF Saving, At, InCriticalSection
  <2>. QED  BY <2>1 DEF RefInv, SettledFits
<1>5. me \in Users /\ items \in [Users -> Seq(Item)] /\ items[me] \in Seq(Item)
  BY <1>1, RequestsTyped DEF RefInv, BothInv, DefaultsInv, TypeOK
<1>6. items' = [settled.items EXCEPT ![me] = Cleared(h)]
  <2>1. CASE ~req[h].isDefault
    BY <2>1, <1>4, <1>5 DEF ClearDefault, Cleared
  <2>2. CASE req[h].isDefault
    <3>1. CASE req[h].op = "Create"
      <4>1. item[h].chain = Trim(req[h].chain)
        BY <1>1, <3>1 DEF RefInv, BothInv, DefaultsInv, LocalsFit, Fits, HasItem
      <4>2. NormalizeChain(item[h].chain) = NormalizeChain(req[h].chain)
        BY <1>1, <4>1, RequestsTyped, TrimKeepsChain DEF Request
      <4>. QED
        BY <2>2, <3>1, <4>2, <1>4
        DEF ClearDefault, SetMine, Mine, Cleared, ClearDefaultLocked
    <3>2. CASE req[h].op # "Create"
      BY <2>2, <3>2, <1>4 DEF ClearDefault, SetMine, Mine, Cleared
    <3>. QED  BY <3>1, <3>2
  <2>. QED  BY <2>1, <2>2
<1>7. settled.nextID =
        IF HasItem(h)' /\ pc'[h] # "built" THEN nextID' - 1 ELSE nextID'
  BY <1>1 DEF RefInv, SettledFits, HasItem
<1>8. SettledFits'
  <2>1. Saving(h)' /\ Cleared(h)' = Cleared(h)
    BY <1>1 DEF Saving, At, Cleared
  <2>2. \A g \in Handlers : Saving(g)' => g = h
    BY <1>3 DEF Saving, At, InCriticalSection
  <2>. QED
    BY <1>1, <1>2, <1>3, <1>6, <1>7, <2>1, <2>2, NoHandlerIsNone
    DEF RefInv, SettledFits
<1>9. \A u \in Users :
        /\ DOMAIN items'[u] = DOMAIN items[u]
        /\ \A i \in DOMAIN items[u] :
             /\ items'[u][i].id = items[u][i].id
             /\ items'[u][i].userID = items[u][i].userID
             /\ items'[u][i].updatedAt = items[u][i].updatedAt
  <2>1. items'[me] = Cleared(h) /\ \A u \in Users : u # me => items'[u] = items[u]
    BY <1>4, <1>5, <1>6
  <2>2. Cleared(h) = items[me]
        \/ Cleared(h) = ClearDefaultLocked(items[me], req[h].chain)
    BY <1>4 DEF Cleared
  <2>3. ASSUME NEW i \in DOMAIN items[me]
        PROVE  /\ Cleared(h)[i].id = items[me][i].id
               /\ Cleared(h)[i].userID = items[me][i].userID
               /\ Cleared(h)[i].updatedAt = items[me][i].updatedAt
    <3>1. items[me][i] \in Item
      BY <1>5, <2>3
    <3>2. CASE Cleared(h) = items[me]
      BY <3>2
    <3>3. CASE Cleared(h) = ClearDefaultLocked(items[me], req[h].chain)
      <4>1. \/ Cleared(h)[i] = items[me][i]
            \/ Cleared(h)[i] = [items[me][i] EXCEPT !.isDefault = FALSE]
        BY <3>3, <2>3 DEF ClearDefaultLocked
      <4>. QED  BY <3>1, <4>1 DEF Item
    <3>. QED  BY <3>2, <3>3, <2>2
  <2>4. DOMAIN Cleared(h) = DOMAIN items[me]
    BY <2>2, <1>5, ClearDefaultFacts
  <2>. QED  BY <2>1, <2>3, <2>4
<1>10. \A g \in Handlers :
         /\ HasStamp(g)' => HasStamp(g)
         /\ HasItem(g)' => HasItem(g)
  BY <1>1 DEF HasStamp, HasItem
<1>11. ASSUME NEW g \in Handlers, HasHit(g)'
       PROVE  Mine(g)'[index'[g]].id = req[g].id
  <2>1. g = h /\ HasHit(h)
    BY <1>1, <1>3, <1>11 DEF HasHit, InCriticalSection
  <2>2. index[h] \in DOMAIN items[me] /\ items[me][index[h]].id = req[h].id
    BY <2>1
    DEF HasHit, RefInv, ItemsFit, BothInv, DefaultsInv, LocalsFit, Fits, Mine
  <2>. QED  BY <1>1, <1>5, <1>9, <2>1, <2>2 DEF Mine
<1>12. ItemsFit'
  BY <1>1, <1>9, <1>10, <1>11 DEF RefInv, ItemsFit
<1>. QED  BY <1>8, <1>12

\* An operation that ends leaves everything settled.
LEMMA ReturnKeepsRef ==
  ASSUME RefInv, TypeOK', NEW h \in Handlers, InCriticalSection(h),
         NEW rep, Return(h, rep), ItemsFiled'
  PROVE  SettledFits' /\ ItemsFit'
<1>1. \A g \in Handlers : ~InCriticalSection(g)'
  BY Alone
  DEF Return, Goto, InCriticalSection, RefInv, BothInv, DefaultsInv, TypeOK
<1>2. settled' = [items |-> items', nextID |-> nextID']
  BY DEF Return
<1>3. SettledFits'
  BY <1>1, <1>2
  DEF SettledFits, Saving, At, InCriticalSection, TypeOK
<1>4. ItemsFit'
  BY <1>1
  DEF ItemsFit, ItemsFiled, HasStamp, HasItem, HasHit, InCriticalSection
<1>. QED  BY <1>3, <1>4

\* The steps that release the mutex.
LEMMA ReturnsKeepRef ==
  ASSUME RefInv, TypeOK', NEW h \in Handlers,
         \/ List(h) \/ NotFound(h) \/ CreateAppend(h) \/ UpdateWrite(h)
         \/ DeleteSplice(h)
  PROVE  SettledFits' /\ ItemsFit'
<1>. DEFINE me == UserOf(req[h])
<1>1. InCriticalSection(h)
  BY DEF List, NotFound, CreateAppend, UpdateWrite, DeleteSplice, At,
         InCriticalSection
<1>2. PICK rep : Return(h, rep)
  BY DEF List, NotFound, CreateAppend, UpdateWrite, DeleteSplice
<1>3. now' = now
  BY <1>2 DEF Return
<1>4. me \in Users /\ items \in [Users -> Seq(Item)] /\ items[me] \in Seq(Item)
  BY <1>1, RequestsTyped
  DEF RefInv, BothInv, DefaultsInv, TypeOK, LocalsFit, Fits, InCriticalSection
<1>5. ItemsFiled
  BY DEF RefInv, ItemsFit, ItemsFiled
<1>6. CASE List(h) \/ NotFound(h)
  <2>1. ItemsFiled'
    BY <1>3, <1>5, <1>6 DEF List, NotFound, ItemsFiled
  <2>. QED  BY <2>1, <1>1, <1>2, ReturnKeepsRef
<1>7. CASE CreateAppend(h)
  <2>1. /\ items' = [items EXCEPT ![me] = Append(items[me], item[h])]
        /\ HasItem(h) /\ HasStamp(h)
    BY <1>7 DEF CreateAppend, SetMine, Mine, At, HasItem, HasStamp
  <2>2. /\ item[h].userID = me
        /\ item[h].updatedAt <= now
    BY <2>1 DEF RefInv, ItemsFit, BothInv, IDsInv, Fresh
  <2>3. \A u \in Users : \A i \in DOMAIN items'[u] :
          \/ u = me /\ items'[u][i] = item[h]
          \/ i \in DOMAIN items[u] /\ items'[u][i] = items[u][i]
    BY <2>1, <1>4
  <2>4. ItemsFiled'
    BY <2>2, <2>3, <1>3, <1>5 DEF ItemsFiled
  <2>. QED  BY <2>4, <1>1, <1>2, ReturnKeepsRef
<1>8. CASE UpdateWrite(h)
  <2>. DEFINE k == index[h]
  <2>1. k \in DOMAIN items[me]
    BY <1>8
    DEF UpdateWrite, At, RefInv, BothInv, DefaultsInv, LocalsFit, Fits, Mine
  <2>2. PICK x : /\ items' = [items EXCEPT ![me] = [items[me] EXCEPT ![k] = x]]
                 /\ x.userID = items[me][k].userID
                 /\ x.updatedAt = now
    <3>1. items[me][k] \in Item
      BY <2>1, <1>4
    <3>. DEFINE y == [items[me][k] EXCEPT !.address = Trim(req[h].address),
                                          !.chain = Trim(req[h].chain),
                                          !.isDefault = req[h].isDefault,
                                          !.updatedAt = now]
    <3>2. items' = [items EXCEPT ![me] = [items[me] EXCEPT ![k] = y]]
      BY <1>8 DEF UpdateWrite, SetMine, Mine
    <3>3. y.userID = items[me][k].userID /\ y.updatedAt = now
      BY <3>1 DEF Item
    <3>. QED  BY <3>2, <3>3
  <2>3. now <= now
    BY DEF RefInv, BothInv, DefaultsInv, TypeOK
  <2>4. ItemsFiled'
    BY <2>1, <2>2, <2>3, <1>3, <1>4, <1>5 DEF ItemsFiled
  <2>. QED  BY <2>4, <1>1, <1>2, ReturnKeepsRef
<1>9. CASE DeleteSplice(h)
  <2>. DEFINE k == index[h]
              list == RemoveAt(items[me], k)
  <2>1. k \in DOMAIN items[me]
    BY <1>9
    DEF DeleteSplice, At, RefInv, BothInv, DefaultsInv, LocalsFit, Fits, Mine
  <2>2. items' = [items EXCEPT ![me] = list]
    BY <1>9 DEF DeleteSplice, SetMine, Mine
  <2>3. \A j \in DOMAIN list :
          \E i \in DOMAIN items[me] : list[j] = items[me][i]
    BY <2>1, <1>4, RemoveAtFacts
  <2>. HIDE DEF list
  <2>4. ItemsFiled'
    BY <2>2, <2>3, <1>3, <1>4, <1>5 DEF ItemsFiled
  <2>. QED  BY <2>4, <1>1, <1>2, ReturnKeepsRef
<1>. QED  BY <1>6, <1>7, <1>8, <1>9

\* A store without items, no goroutine inside.
LEMMA FreshStoreIsSettled ==
  ASSUME mu = NoHandler, nextID = 1, items = [u \in Users |-> <<>>],
         pc = [h \in Handlers |-> "idle"],
         settled = [items |-> items, nextID |-> nextID]
  PROVE  SettledFits /\ ItemsFit
<1>1. \A u \in Users : items[u] \in Seq(Item) /\ DOMAIN items[u] = {}
  OBVIOUS
<1>2. \A h \in Handlers : ~InCriticalSection(h) /\ ~Saving(h) /\ ~HasStamp(h)
                          /\ ~HasItem(h) /\ ~HasHit(h)
  BY DEF InCriticalSection, Saving, At, HasStamp, HasItem, HasHit
<1>. QED  BY <1>1, <1>2 DEF SettledFits, ItemsFit

\* A fresh store is as the last unlock left it.
LEMMA RestartIsSettled == Restart => SettledFits' /\ ItemsFit'
<1>. SUFFICES ASSUME Restart PROVE SettledFits' /\ ItemsFit'
  OBVIOUS
<1>1. \A u \in Users : items'[u] \in Seq(Item) /\ DOMAIN items'[u] = {}
  BY DEF Restart
<1>2. \A h \in Handlers : ~InCriticalSection(h)' /\ ~Saving(h)' /\ ~HasStamp(h)'
                          /\ ~HasItem(h)' /\ ~HasHit(h)'
  BY DEF Restart, InCriticalSection, Saving, At, HasStamp, HasItem, HasHit
<1>. QED  BY <1>1, <1>2 DEF Restart, SettledFits, ItemsFit

\* A step that leaves the store and the locals alone.
LEMMA FrameKeepsRef ==
  ASSUME RefInv, Tick \/ UNCHANGED vars
  PROVE  SettledFits' /\ ItemsFit'
<1>1. /\ UNCHANGED <<mu, nextID, items, pc, req, item, index, settled>>
      /\ now \in Nat /\ now' \in Nat /\ now <= now'
  BY DEF Tick, vars, store, locals, RefInv, BothInv, DefaultsInv, TypeOK
<1>2. SettledFits'
  BY <1>1
  DEF RefInv, SettledFits, Saving, At, Cleared, InCriticalSection, HasItem
<1>3. ItemsFiled'
  <2>. SUFFICES ASSUME NEW u \in Users, NEW i \in DOMAIN items[u]
                PROVE  items[u][i].userID = u /\ items[u][i].updatedAt <= now'
    BY <1>1 DEF ItemsFiled
  <2>1. items[u][i] \in Item
    BY DEF RefInv, BothInv, DefaultsInv, TypeOK
  <2>. QED  BY <2>1, <1>1 DEF RefInv, ItemsFit, Item
<1>4. ItemsFit'
  BY <1>1, <1>3
  DEF RefInv, ItemsFit, ItemsFiled, HasStamp, HasItem, HasHit, Mine
<1>. QED  BY <1>2, <1>4

\* RefInv is preserved by every step.
LEMMA StepKeepsRef == RefInv /\ [Next]_vars => RefInv'
<1>. SUFFICES ASSUME RefInv, [Next]_vars PROVE RefInv'
  OBVIOUS
<1>1. BothInv' /\ TypeOK'
  BY StepKeepsBoth DEF RefInv, BothInv, DefaultsInv
<1>2. SettledFits' /\ ItemsFit'
  BY <1>1, OutsideKeepsRef, LockKeepsRef, InsideKeepsRef, ClearDefaultKeepsRef,
     ReturnsKeepRef, RestartIsSettled, FrameKeepsRef
  DEF Next, Step
<1>. QED  BY <1>1, <1>2 DEF RefInv

-----------------------------------------------------------------------------
(* Flags read as pointers. *)

\* What a set of items has to be for its flags to read as pointers.
SlotOf(x) == <<x.userID, NormalizeChain(x.chain)>>

GoodItems(stored) ==
  /\ stored \subseteq Item
  /\ \A x, y \in stored : x.id = y.id => x = y
  /\ \A x \in stored : x.id >= 1
  /\ \A x, y \in stored :
       x.isDefault /\ y.isDefault /\ SlotOf(x) = SlotOf(y) => x = y

\* An entry of the abstract book is an item without its id and its flag.
EntryOf(x) ==
  [userID |-> x.userID, address |-> x.address, chain |-> x.chain,
   createdAt |-> x.createdAt, updatedAt |-> x.updatedAt]

\* x after clearDefaultLocked has run for z.
Unflagged(x, z) ==
  IF z.isDefault /\ SlotOf(x) = SlotOf(z) THEN [x EXCEPT !.isDefault = FALSE]
                                          ELSE x

\* The pointers without those to id.
Without(id, pointers) ==
  [s \in DOMAIN pointers |-> IF pointers[s] = id THEN 0 ELSE pointers[s]]

\* What it is to lie in one of the slices.
LEMMA StoredFacts ==
  ASSUME NEW lists, NEW x
  PROVE  x \in StoredIn(lists) <=>
           \E u \in Users : \E i \in DOMAIN lists[u] : x = lists[u][i]
BY DEF StoredIn, ToSet

\* Slices in which ids identify, with one default per user and chain.
LEMMA ListsAreGood ==
  ASSUME NEW lists \in [Users -> Seq(Item)],
         \A u \in Users : \A i \in DOMAIN lists[u] :
           lists[u][i].userID = u /\ lists[u][i].id >= 1,
         \A u \in Users : \A i, j \in DOMAIN lists[u] :
           i < j => lists[u][i].id < lists[u][j].id,
         \A u, v \in Users : \A i \in DOMAIN lists[u], j \in DOMAIN lists[v] :
           lists[u][i].id = lists[v][j].id => u = v,
         \A u \in Users : OneDefault(lists[u])
  PROVE  GoodItems(StoredIn(lists))
<1>1. \A u \in Users : \A i \in DOMAIN lists[u] : lists[u][i] \in Item /\ i \in Int
  OBVIOUS
<1>2. StoredIn(lists) \subseteq Item
  BY <1>1, StoredFacts
<1>3. ASSUME NEW x \in StoredIn(lists), NEW y \in StoredIn(lists), x.id = y.id
      PROVE  x = y
  <2>1. PICK u, i : /\ u \in Users /\ i \in DOMAIN lists[u]
                    /\ x = lists[u][i]
    BY StoredFacts
  <2>2. PICK v, j : /\ v \in Users /\ j \in DOMAIN lists[v]
                    /\ y = lists[v][j]
    BY StoredFacts
  <2>3. u = v
    BY <1>3, <2>1, <2>2
  <2>4. ~(i < j) /\ ~(j < i)
    <3>1. x.id \in Int
      BY <1>2 DEF Item
    <3>. QED  BY <1>3, <2>1, <2>2, <2>3, <3>1
  <2>. QED  BY <1>1, <2>1, <2>2, <2>3, <2>4
<1>4. \A x \in StoredIn(lists) : x.id >= 1
  BY StoredFacts
<1>5. ASSUME NEW x \in StoredIn(lists), NEW y \in StoredIn(lists),
             x.isDefault, y.isDefault, SlotOf(x) = SlotOf(y)
      PROVE  x = y
  <2>1. PICK u, i : /\ u \in Users /\ i \in DOMAIN lists[u]
                    /\ x = lists[u][i]
    BY StoredFacts
  <2>2. PICK v, j : /\ v \in Users /\ j \in DOMAIN lists[v]
                    /\ y = lists[v][j]
    BY StoredFacts
  <2>3. u = v /\ NormalizeChain(x.chain) = NormalizeChain(y.chain)
    BY <1>5, <2>1, <2>2 DEF SlotOf
  <2>. QED  BY <1>5, <2>1, <2>2, <2>3 DEF OneDefault
<1>. QED  BY <1>2, <1>3, <1>4, <1>5 DEF GoodItems

\* Reading items as entries and flags as pointers.
LEMMA EntriesFacts ==
  ASSUME NEW X, GoodItems(X)
  PROVE  /\ DOMAIN EntriesIn(X) = {x.id : x \in X}
         /\ \A x \in X : EntriesIn(X)[x.id] = EntryOf(x)
<1>1. ASSUME NEW x \in X PROVE (CHOOSE y \in X : y.id = x.id) = x
  BY DEF GoodItems
<1>. QED  BY <1>1 DEF EntriesIn, EntryOf

\* A pointer is the id of the one flagged item of its chain, or 0.
LEMMA DefaultsFacts ==
  ASSUME NEW X, GoodItems(X)
  PROVE  /\ DefaultsIn(X) = [s \in Users \X Chains |-> DefaultsIn(X)[s]]
         /\ \A s \in Users \X Chains :
              /\ DefaultsIn(X)[s] = 0 \/ \E x \in X : DefaultsIn(X)[s] = x.id
              /\ \A x \in X :
                   DefaultsIn(X)[s] = x.id <=> x.isDefault /\ SlotOf(x) = s
<1>1. DefaultsIn(X) = [s \in Users \X Chains |-> DefaultsIn(X)[s]]
  BY DEF DefaultsIn
<1>2. ASSUME NEW s \in Users \X Chains
      PROVE  /\ DefaultsIn(X)[s] = 0 \/ \E x \in X : DefaultsIn(X)[s] = x.id
             /\ \A x \in X :
                  DefaultsIn(X)[s] = x.id <=> x.isDefault /\ SlotOf(x) = s
  <2>. DEFINE flagged == {x \in X : x.isDefault /\ SlotOf(x) = s}
  <2>1. DefaultsIn(X)[s] =
          IF flagged = {} THEN 0 ELSE (CHOOSE x \in flagged : TRUE).id
    BY DEF DefaultsIn, SlotOf
  <2>2. \A x \in X : x.id # 0
    BY DEF GoodItems
  <2>3. CASE flagged = {}
    BY <2>1, <2>2, <2>3
  <2>4. CASE flagged # {}
    <3>. DEFINE d == CHOOSE x \in flagged : TRUE
    <3>1. d \in flagged
      BY <2>4
    <3>2. DefaultsIn(X)[s] = d.id
      BY <2>1, <2>4
    <3>. HIDE DEF d
    <3>3. \A x \in flagged : x = d
      BY <3>1 DEF GoodItems
    <3>4. \A x \in X : x.id = d.id => x = d
      BY <3>1 DEF GoodItems
    <3>. QED  BY <3>1, <3>2, <3>3, <3>4
  <2>. QED  BY <2>3, <2>4
<1>. QED  BY <1>1, <1>2

\* A save, read that way: z replaces what had its id, and the default of its
\* chain moves to it if it has the flag.
LEMMA SaveMaps ==
  ASSUME NEW X, NEW Y, GoodItems(X), GoodItems(Y), NEW z \in Item,
         SlotOf(z) \in Users \X Chains,
         Y = {z} \cup {y \in {Unflagged(x, z) : x \in X} : y.id # z.id}
  PROVE  /\ EntriesIn(Y) = [i \in DOMAIN EntriesIn(X) \cup {z.id} |->
                              IF i = z.id THEN EntryOf(z) ELSE EntriesIn(X)[i]]
         /\ DefaultsIn(Y) =
              IF z.isDefault
              THEN [Without(z.id, DefaultsIn(X)) EXCEPT ![SlotOf(z)] = z.id]
              ELSE Without(z.id, DefaultsIn(X))
<1>1. ASSUME NEW x \in X
      PROVE  /\ Unflagged(x, z).id = x.id
             /\ EntryOf(Unflagged(x, z)) = EntryOf(x)
             /\ SlotOf(Unflagged(x, z)) = SlotOf(x)
             /\ Unflagged(x, z).isDefault <=>
                  x.isDefault /\ ~(z.isDefault /\ SlotOf(x) = SlotOf(z))
             /\ x.id # z.id => Unflagged(x, z) \in Y
  <2>1. x \in Item
    BY DEF GoodItems
  <2>2. /\ Unflagged(x, z).id = x.id
        /\ EntryOf(Unflagged(x, z)) = EntryOf(x)
        /\ SlotOf(Unflagged(x, z)) = SlotOf(x)
        /\ Unflagged(x, z).isDefault <=>
             x.isDefault /\ ~(z.isDefault /\ SlotOf(x) = SlotOf(z))
    BY <2>1 DEF Unflagged, EntryOf, SlotOf, Item
  <2>. QED  BY <2>2
<1>2. \A y \in Y : y # z => \E x \in X : y = Unflagged(x, z) /\ x.id # z.id
  BY <1>1
<1>. HIDE DEF Unflagged
<1>3. DOMAIN EntriesIn(Y) = DOMAIN EntriesIn(X) \cup {z.id}
  <2>1. z \in Y
    OBVIOUS
  <2>2. \A y \in Y : y.id = z.id \/ \E x \in X : y.id = x.id
    BY <1>1, <1>2
  <2>3. \A x \in X : \E y \in Y : y.id = x.id
    BY <1>1, <2>1
  <2>4. {y.id : y \in Y} = {x.id : x \in X} \cup {z.id}
    BY <2>1, <2>2, <2>3
  <2>. QED  BY <2>4, EntriesFacts
<1>4. ASSUME NEW i \in DOMAIN EntriesIn(Y)
      PROVE  EntriesIn(Y)[i] = IF i = z.id THEN EntryOf(z) ELSE EntriesIn(X)[i]
  <2>1. PICK y \in Y : i = y.id
    <3>1. DOMAIN EntriesIn(Y) = {y.id : y \in Y}
      BY EntriesFacts
    <3>. QED  BY <3>1
  <2>2. CASE i = z.id
    <3>1. y = z
      BY <2>1, <2>2 DEF GoodItems
    <3>. QED  BY <2>1, <2>2, <3>1, EntriesFacts
  <2>3. CASE i # z.id
    <3>1. PICK x \in X : y = Unflagged(x, z) /\ x.id # z.id
      BY <1>2, <2>1, <2>3
    <3>2. EntriesIn(Y)[i] = EntryOf(y) /\ EntriesIn(X)[x.id] = EntryOf(x)
      BY <2>1, EntriesFacts
    <3>. QED  BY <2>1, <2>3, <3>1, <3>2, <1>1
  <2>. QED  BY <2>2, <2>3
<1>5. EntriesIn(Y) = [i \in DOMAIN EntriesIn(X) \cup {z.id} |->
                        IF i = z.id THEN EntryOf(z) ELSE EntriesIn(X)[i]]
  <2>1. EntriesIn(Y) = [i \in DOMAIN EntriesIn(Y) |-> EntriesIn(Y)[i]]
    BY DEF EntriesIn
  <2>. QED  BY <2>1, <1>3, <1>4
<1>6. ASSUME NEW s \in Users \X Chains
      PROVE  DefaultsIn(Y)[s] =
               IF z.isDefault /\ s = SlotOf(z) THEN z.id
               ELSE IF DefaultsIn(X)[s] = z.id THEN 0 ELSE DefaultsIn(X)[s]
  <2>1. CASE z.isDefault /\ s = SlotOf(z)
    BY <2>1, DefaultsFacts
  <2>2. CASE ~(z.isDefault /\ s = SlotOf(z))
    <3>1. DefaultsIn(Y)[s] # z.id
      BY <2>2, DefaultsFacts
    <3>2. CASE DefaultsIn(X)[s] = z.id
      <4>1. ASSUME NEW x \in X, x.id # z.id
            PROVE  DefaultsIn(Y)[s] # Unflagged(x, z).id
        <5>1. ~(x.isDefault /\ SlotOf(x) = s)
          BY <3>2, <4>1, DefaultsFacts
        <5>. QED  BY <4>1, <5>1, <1>1, DefaultsFacts
      <4>. QED  BY <2>2, <3>1, <3>2, <4>1, <1>2, DefaultsFacts
    <3>3. CASE DefaultsIn(X)[s] # z.id /\ DefaultsIn(X)[s] # 0
      <4>1. PICK x \in X : DefaultsIn(X)[s] = x.id
        BY <3>3, DefaultsFacts
      <4>2. x.isDefault /\ SlotOf(x) = s
        BY <4>1, DefaultsFacts
      <4>3. /\ Unflagged(x, z) \in Y
            /\ Unflagged(x, z).isDefault
            /\ SlotOf(Unflagged(x, z)) = s
        BY <2>2, <3>3, <4>1, <4>2, <1>1
      <4>4. DefaultsIn(Y)[s] = Unflagged(x, z).id
        BY <4>3, DefaultsFacts
      <4>. QED  BY <2>2, <3>3, <4>1, <4>4, <1>1
    <3>4. CASE DefaultsIn(X)[s] = 0
      <4>1. z.id # 0
        BY DEF GoodItems
      <4>2. ASSUME NEW x \in X, x.id # z.id
            PROVE  DefaultsIn(Y)[s] # Unflagged(x, z).id
        <5>1. x.id # 0
          BY DEF GoodItems
        <5>2. ~(x.isDefault /\ SlotOf(x) = s)
          BY <3>4, <5>1, DefaultsFacts
        <5>. QED  BY <4>2, <5>2, <1>1, DefaultsFacts
      <4>. QED  BY <2>2, <3>1, <3>4, <4>1, <4>2, <1>2, DefaultsFacts
    <3>. QED  BY <3>2, <3>3, <3>4
  <2>. QED  BY <2>1, <2>2
<1>7. DefaultsIn(Y) =
        IF z.isDefault
        THEN [Without(z.id, DefaultsIn(X)) EXCEPT ![SlotOf(z)] = z.id]
        ELSE Without(z.id, DefaultsIn(X))
  <2>1. /\ DefaultsIn(X) = [s \in Users \X Chains |-> DefaultsIn(X)[s]]
        /\ DefaultsIn(Y) = [s \in Users \X Chains |-> DefaultsIn(Y)[s]]
    BY DefaultsFacts
  <2>. HIDE DEF SlotOf
  <2>. QED  BY <2>1, <1>6 DEF Without
<1>. QED  BY <1>5, <1>7

\* A delete, read that way.
LEMMA DeleteMaps ==
  ASSUME NEW X, NEW Y, GoodItems(X), NEW id, id # 0,
         \A x : x \in Y <=> x \in X /\ x.id # id
  PROVE  /\ EntriesIn(Y) = [i \in DOMAIN EntriesIn(X) \ {id} |-> EntriesIn(X)[i]]
         /\ DefaultsIn(Y) = Without(id, DefaultsIn(X))
<1>1. GoodItems(Y)
  BY DEF GoodItems
<1>2. /\ DOMAIN EntriesIn(X) = {x.id : x \in X}
      /\ DOMAIN EntriesIn(Y) = {y.id : y \in Y}
      /\ \A x \in X : EntriesIn(X)[x.id] = EntryOf(x)
      /\ \A y \in Y : EntriesIn(Y)[y.id] = EntryOf(y)
  BY <1>1, EntriesFacts
<1>3. DOMAIN EntriesIn(Y) = DOMAIN EntriesIn(X) \ {id}
  BY <1>2
<1>4. \A i \in DOMAIN EntriesIn(Y) : EntriesIn(Y)[i] = EntriesIn(X)[i]
  BY <1>2
<1>5. EntriesIn(Y) = [i \in DOMAIN EntriesIn(Y) |-> EntriesIn(Y)[i]]
  BY DEF EntriesIn
<1>6. ASSUME NEW s \in Users \X Chains
      PROVE  DefaultsIn(Y)[s] =
               IF DefaultsIn(X)[s] = id THEN 0 ELSE DefaultsIn(X)[s]
  <2>1. CASE DefaultsIn(X)[s] = id
    <3>1. \A y \in Y : DefaultsIn(Y)[s] # y.id
      BY <2>1, <1>1, DefaultsFacts
    <3>. QED  BY <2>1, <3>1, <1>1, DefaultsFacts
  <2>2. CASE DefaultsIn(X)[s] # id /\ DefaultsIn(X)[s] # 0
    BY <2>2, <1>1, DefaultsFacts
  <2>3. CASE DefaultsIn(X)[s] = 0
    <3>1. \A x \in X : x.id # 0
      BY DEF GoodItems
    <3>2. \A y \in Y : DefaultsIn(Y)[s] # y.id
      BY <2>3, <3>1, <1>1, DefaultsFacts
    <3>. QED  BY <2>3, <3>2, <1>1, DefaultsFacts
  <2>. QED  BY <2>1, <2>2, <2>3
<1>7. /\ DefaultsIn(X) = [s \in Users \X Chains |-> DefaultsIn(X)[s]]
      /\ DefaultsIn(Y) = [s \in Users \X Chains |-> DefaultsIn(Y)[s]]
  BY <1>1, DefaultsFacts
<1>. QED  BY <1>3, <1>5, <1>6, <1>7, <1>4 DEF Without

-----------------------------------------------------------------------------
(* The steps of the abstract book that leave its entries alone. *)

\* The abstract book reads requests and writes replies as the store does.
LEMMA SameAPI ==
  /\ Book!Users = Users
  /\ Book!Chains = Chains
  /\ Book!Requests = Requests
  /\ Book!NoRequest = NoRequest
  /\ Book!NoReply = NoReply
  /\ \A r : Book!Invalid(r) <=> Invalid(r)
  /\ \A r : Book!UserOf(r) = UserOf(r)
  /\ \A r : Book!Trim(r) = Trim(r)
  /\ \A r : Book!NormalizeChain(r) = NormalizeChain(r)
  /\ \A err, list : Book!Reply(err, list) = Reply(err, list)
<1>1. \A r : Book!UserOf(r) = UserOf(r)
  BY DEF Book!UserOf, Book!UserIDForWallet, UserOf, UserIDForWallet
<1>2. Book!Users = Users
  BY DEF Book!Users, Book!UserIDForWallet, Users, UserIDForWallet
<1>3. \A r : Book!NormalizeChain(r) = NormalizeChain(r)
  BY DEF Book!NormalizeChain, Book!ChainAliases, NormalizeChain, ChainAliases
<1>4. Book!Chains = Chains
  BY <1>3 DEF Book!Chains, Chains
<1>5. \A r : Book!Trim(r) = Trim(r)
  BY DEF Book!Trim, Trim
<1>6. \A r : Book!Invalid(r) <=> Invalid(r)
  BY DEF Book!Invalid, Book!IsBlank, Invalid, IsBlank
<1>7. Book!Absent = Absent
  BY DEF Book!Absent, Book!Plain, Absent, Plain
<1>8. Book!NoRequest = NoRequest
  BY <1>7 DEF Book!NoRequest, NoRequest
<1>9. Book!Requests = Requests
  BY <1>7
  DEF Book!Requests, Book!ListRequests, Book!CreateRequests,
      Book!UpdateRequests, Book!DeleteRequests, Book!UnboundRequests, Book!Ops,
      Requests, ListRequests, CreateRequests, UpdateRequests, DeleteRequests,
      UnboundRequests, Ops
<1>10. \A err, list : Book!Reply(err, list) = Reply(err, list)
  BY DEF Book!Reply, Reply
<1>11. Book!NoReply = NoReply
  BY <1>10 DEF Book!NoReply, NoReply
<1>. QED  BY <1>1, <1>2, <1>3, <1>4, <1>5, <1>6, <1>8, <1>9, <1>10, <1>11

\* The last unlock left items whose flags read as pointers.
MapInv == RefInv /\ GoodItems(Settled)

\* The invariants make the flags of all slices readable as pointers.
LEMMA ItemsAreGood == BothInv /\ ItemsFit => GoodItems(StoredIn(items))
<1>. SUFFICES ASSUME BothInv, ItemsFit PROVE GoodItems(StoredIn(items))
  OBVIOUS
<1>1. /\ items \in [Users -> Seq(Item)]
      /\ \A u \in Users : OneDefault(items[u])
  BY DEF BothInv, DefaultsInv, TypeOK, OneDefaultPerChain
<1>2. \A u \in Users : \A i \in DOMAIN items[u] :
        items[u][i].userID = u /\ items[u][i].id >= 1
  <2>1. \A u \in Users : \A i \in DOMAIN items[u] :
          items[u][i].id \in 1..(nextID - 1)
    BY DEF BothInv, IDsInv, IDsIdentify
  <2>2. nextID \in Int
    BY DEF BothInv, DefaultsInv, TypeOK
  <2>. QED  BY <2>1, <2>2 DEF ItemsFit
<1>3. /\ \A u \in Users : \A i, j \in DOMAIN items[u] :
           i < j => items[u][i].id < items[u][j].id
      /\ \A u, v \in Users : \A i \in DOMAIN items[u], j \in DOMAIN items[v] :
           items[u][i].id = items[v][j].id => u = v
  BY DEF BothInv, IDsInv, IDsIdentify
<1>. QED  BY <1>1, <1>2, <1>3, ListsAreGood

\* The history stands still or catches up with the slices.
LEMMA SettledFollows ==
  ASSUME [Next]_vars
  PROVE  settled'.items = settled.items \/ settled'.items = items'
<1>1. CASE UNCHANGED settled
  BY <1>1
<1>2. CASE \E h \in Handlers : \E rep : Return(h, rep)
  BY <1>2 DEF Return
<1>3. CASE Restart
  BY <1>3 DEF Restart
<1>. QED
  BY <1>1, <1>2, <1>3
  DEF Next, Step, Receive, Reject, Lock, List, ReadClock, BuildItem, TakeID,
      Find, NotFound, ClearDefault, CreateAppend, UpdateWrite, DeleteSplice,
      Respond, Tick, vars

\* MapInv is preserved by every step.
LEMMA StepKeepsMap == MapInv /\ [Next]_vars => MapInv'
<1>. SUFFICES ASSUME MapInv, [Next]_vars PROVE MapInv'
  OBVIOUS
<1>1. RefInv'
  BY StepKeepsRef DEF MapInv
<1>2. GoodItems(StoredIn(items'))
  <2>1. (BothInv /\ ItemsFit)' => GoodItems(StoredIn(items))'
    BY ItemsAreGood, PTL
  <2>. QED  BY <1>1, <2>1 DEF RefInv, GoodItems, SlotOf, StoredIn
<1>3. settled'.items = settled.items \/ settled'.items = items'
  BY SettledFollows
<1>4. Settled' = StoredIn(settled'.items)
  BY DEF Settled, StoredIn
<1>5. GoodItems(Settled')
  BY <1>2, <1>3, <1>4 DEF MapInv, Settled
<1>. QED  BY <1>1, <1>5 DEF MapInv, GoodItems, SlotOf

-----------------------------------------------------------------------------
(* Steps that the abstract book does not see, or sees as they are. *)

\* How the phase of a request follows the place in the code.
LEMMA PhaseMoves ==
  ASSUME pc \in [Handlers -> PCs], NEW h \in Handlers, NEW label \in PCs,
         pc' = [pc EXCEPT ![h] = label]
  PROVE  PhaseOf' = [PhaseOf EXCEPT ![h] =
                       IF label \in {"idle", "replied"} THEN label
                                                        ELSE "received"]
BY DEF PhaseOf

\* Steps that show clients nothing leave the abstract book alone.
LEMMA QuietInBook ==
  ASSUME UNCHANGED <<now, req, reply, settled>>, PhaseOf' = PhaseOf
  PROVE  UNCHANGED Book!vars
<1>1. Settled' = Settled
  BY DEF Settled, StoredIn
<1>2. EntriesIn(Settled)' = EntriesIn(Settled)
  BY <1>1 DEF EntriesIn
<1>3. DefaultsIn(Settled)' = DefaultsIn(Settled)
  BY <1>1 DEF DefaultsIn
<1>. QED  BY <1>2, <1>3 DEF Book!vars, Book!store

\* Inside the mutex, before it is released.
LEMMA InsideInBook ==
  ASSUME MapInv, NEW h \in Handlers,
         \/ Lock(h) \/ ReadClock(h) \/ BuildItem(h) \/ TakeID(h) \/ Find(h)
         \/ ClearDefault(h)
  PROVE  UNCHANGED Book!vars
<1>1. /\ UNCHANGED <<now, req, reply, settled>>
      /\ pc[h] \in {"received", "locked", "stamped", "built", "clearing"}
  BY DEF Lock, ReadClock, BuildItem, TakeID, Find, ClearDefault, At, store
<1>2. PICK label \in {"locked", "stamped", "built", "clearing", "writing"} :
        pc' = [pc EXCEPT ![h] = label]
  BY DEF Lock, ReadClock, BuildItem, TakeID, Find, ClearDefault, Goto
<1>3. pc \in [Handlers -> PCs]
  BY DEF MapInv, RefInv, BothInv, DefaultsInv, TypeOK
<1>4. PhaseOf' = PhaseOf
  BY <1>1, <1>2, <1>3 DEF PhaseOf
<1>. QED  BY <1>1, <1>4, QuietInBook

\* Who holds the mutex serves a request that passed the checks.
LEMMA InsideIsServing ==
  ASSUME MapInv, NEW h \in Handlers, InCriticalSection(h)
  PROVE  Book!Serving(h, req[h].op)
<1>1. ~Book!Invalid(req[h])
  BY SameAPI DEF MapInv, RefInv, SettledFits
<1>. QED  BY <1>1 DEF Book!Serving, PhaseOf, InCriticalSection

\* A return is an answer of the abstract book.
LEMMA AnswerInBook ==
  ASSUME MapInv, NEW h \in Handlers, NEW rep,
         pc' = [pc EXCEPT ![h] = "replied"],
         reply' = [reply EXCEPT ![h] = rep], UNCHANGED <<now, req>>
  PROVE  Book!Answer(h, rep)
<1>1. PhaseOf' = [PhaseOf EXCEPT ![h] = "replied"]
  BY PhaseMoves DEF MapInv, RefInv, BothInv, DefaultsInv, TypeOK, PCs
<1>. QED  BY <1>1 DEF Book!Answer

\* The store as the last unlock left it, when a step leaves that alone.
LEMMA StoreStays ==
  ASSUME Settled' = Settled, settled'.nextID = settled.nextID
  PROVE  UNCHANGED Book!store
BY DEF Book!store, EntriesIn, DefaultsIn

\* The clock is the same in both.
LEMMA TickInBook == Tick => Book!Tick
<1>. SUFFICES ASSUME Tick PROVE Book!Tick
  OBVIOUS
<1>1. UNCHANGED <<pc, req, reply, settled>>
  BY DEF Tick, locals
<1>2. UNCHANGED <<Book!store, PhaseOf>>
  BY <1>1, StoreStays DEF Settled, StoredIn, PhaseOf
<1>. QED  BY <1>1, <1>2 DEF Tick, Book!Tick

\* The checks before the mutex are the same in both.
LEMMA RejectInBook ==
  ASSUME MapInv, NEW h \in Handlers, Reject(h)
  PROVE  Book!Reject(h)
<1>1. UNCHANGED Book!store
  BY StoreStays DEF Reject, Settled, StoredIn
<1>2. Book!Answer(h, Book!Reply("invalid", <<>>))
  BY AnswerInBook, SameAPI DEF Reject, Goto
<1>3. PhaseOf[h] = "received" /\ Book!Invalid(req[h])
  BY SameAPI DEF Reject, PhaseOf
<1>. QED  BY <1>1, <1>2, <1>3 DEF Book!Reject

\* So is the reply that goes out.
LEMMA RespondInBook ==
  ASSUME MapInv, NEW h \in Handlers, Respond(h)
  PROVE  Book!Respond(h)
<1>1. UNCHANGED Book!store
  BY StoreStays DEF Respond, Settled, StoredIn
<1>2. PhaseOf' = [PhaseOf EXCEPT ![h] = "idle"]
  BY PhaseMoves DEF Respond, Goto, MapInv, RefInv, BothInv, DefaultsInv, TypeOK, PCs
<1>3. PhaseOf[h] = "replied"
  BY DEF Respond, PhaseOf
<1>. QED  BY <1>1, <1>2, <1>3, SameAPI DEF Respond, Book!Respond

\* A Create that was let in by the bound is let in by the book's: the id that a
\* Create has taken but not used yet counts on one side, the Create on the other.
LEMMA ReceiveInBook ==
  ASSUME MapInv, NEW h \in Handlers, NEW r \in Requests, Receive(h, r)
  PROVE  Book!Receive(h, r)
<1>. DEFINE P == PendingCreates
            B == Book!PendingCreates
            T == {g \in Handlers : HasItem(g) /\ pc[g] # "built"}
<1>1. UNCHANGED Book!store
  BY StoreStays DEF Receive, Settled, StoredIn
<1>2. PhaseOf' = [PhaseOf EXCEPT ![h] = "received"]
  BY PhaseMoves DEF Receive, Goto, MapInv, RefInv, BothInv, DefaultsInv, TypeOK, PCs
<1>3. PhaseOf[h] = "idle" /\ UNCHANGED <<now, reply>>
      /\ req' = [req EXCEPT ![h] = r]
  BY DEF Receive, PhaseOf
<1>4. B = P \cup T /\ P \cap T = {}
  BY DEF Book!PendingCreates, PhaseOf, PendingCreates, HasItem, MapInv, RefInv,
         BothInv, DefaultsInv, TypeOK, PCs
<1>5. IsFiniteSet(P) /\ Cardinality(P) \in Nat
  BY HandlersAreFinite, FS_Subset, FS_CardinalityType DEF PendingCreates
<1>6. Cardinality(B) + settled.nextID = Cardinality(P) + nextID
  <2>1. CASE T = {}
    <3>1. settled.nextID = nextID
      <4>1. CASE mu = NoHandler
        BY <4>1 DEF MapInv, RefInv, SettledFits
      <4>2. CASE mu \in Handlers
        BY <2>1, <4>2
        DEF MapInv, RefInv, SettledFits, BothInv, DefaultsInv, LockHeld
      <4>. QED  BY <4>1, <4>2 DEF MapInv, RefInv, BothInv, DefaultsInv, TypeOK
    <3>. QED  BY <2>1, <3>1, <1>4
  <2>2. CASE T # {}
    <3>1. PICK g \in T : TRUE
      BY <2>2
    <3>2. InCriticalSection(g)
      BY <3>1 DEF HasItem, InCriticalSection
    <3>3. T = {g}
      <4>1. \A k \in T : InCriticalSection(k)
        BY DEF HasItem, InCriticalSection
      <4>. QED
        BY <3>1, <3>2, <4>1, Alone DEF MapInv, RefInv, BothInv, DefaultsInv
    <3>4. Cardinality(B) = Cardinality(P) + 1
      BY <1>4, <1>5, <3>3, FS_AddElement
    <3>5. settled.nextID = nextID - 1
      BY <3>1, <3>2 DEF MapInv, RefInv, SettledFits
    <3>6. nextID \in Int
      BY DEF MapInv, RefInv, BothInv, DefaultsInv, TypeOK
    <3>. QED  BY <3>4, <3>5, <3>6, <1>5
  <2>. QED  BY <2>1, <2>2
<1>7. r.op = "Create" => settled.nextID - 1 + Cardinality(B) < MaxID
  <2>1. /\ nextID \in Int /\ settled.nextID \in Int /\ MaxID \in Int
        /\ IsFiniteSet(B) /\ Cardinality(B) \in Int
    <3>1. IsFiniteSet(B) /\ Cardinality(B) \in Nat
      BY HandlersAreFinite, FS_Subset, FS_CardinalityType
      DEF Book!PendingCreates
    <3>. QED
      BY <3>1, NumbersAreNumbers
      DEF MapInv, RefInv, SettledFits, BothInv, DefaultsInv, TypeOK
  <2>. HIDE DEF B, P
  <2>2. r.op = "Create" => nextID + Cardinality(P) <= MaxID
    BY DEF Receive, P
  <2>. QED  BY <2>1, <2>2, <1>5, <1>6
<1>8. Book!Cardinality(B) = Cardinality(B)
  BY DEF Book!Cardinality, Cardinality
<1>. QED  BY <1>1, <1>2, <1>3, <1>7, <1>8 DEF Book!Receive

-----------------------------------------------------------------------------
(* The steps that release the mutex. *)

\* What is known of a goroutine that is about to save.
LEMMA SavingFacts ==
  ASSUME MapInv, NEW h \in Handlers, Saving(h)
  PROVE  /\ InCriticalSection(h)
         /\ req[h] \in Requests /\ ~Invalid(req[h])
         /\ req[h].op \in {"Create", "Update"}
         /\ UserOf(req[h]) \in Users
         /\ req[h].chain \in Raw /\ req[h].chain \in Spellings
         /\ req[h].isDefault \in BOOLEAN
         /\ items \in [Users -> Seq(Item)]
         /\ settled.items \in [Users -> Seq(Item)]
<1>1. InCriticalSection(h) /\ req[h].op \in {"Create", "Update"}
  BY DEF Saving, At, InCriticalSection
<1>2. req[h] \in Requests /\ ~Invalid(req[h])
  BY <1>1
  DEF MapInv, RefInv, SettledFits, BothInv, DefaultsInv, LocalsFit, Fits,
      InCriticalSection
<1>3. req[h].chain \in Spellings
  <2>1. req[h].binds /\ req[h].op \notin {"List", "Delete"}
    BY <1>1, <1>2 DEF Invalid
  <2>2. req[h] \notin ListRequests /\ req[h] \notin DeleteRequests
    BY <2>1 DEF ListRequests, DeleteRequests
  <2>3. req[h] \notin UnboundRequests
    BY <2>1 DEF UnboundRequests
  <2>. QED
    BY <1>2, <2>2, <2>3 DEF Requests, CreateRequests, UpdateRequests
<1>. QED
  BY <1>1, <1>2, <1>3, RequestsTyped, InputsAreRaw
  DEF Request, MapInv, RefInv, SettledFits, BothInv, DefaultsInv, TypeOK

\* The slices that clearDefaultLocked leaves, as a set of items.
LEMMA ClearedStored ==
  ASSUME MapInv, NEW h \in Handlers, Saving(h), NEW z,
         z.isDefault = req[h].isDefault,
         SlotOf(z) = <<UserOf(req[h]), NormalizeChain(req[h].chain)>>
  PROVE  StoredIn(items) = {Unflagged(x, z) : x \in Settled}
<1>. DEFINE me == UserOf(req[h])
            S == settled.items
<1>1. /\ me \in Users /\ S \in [Users -> Seq(Item)]
      /\ req[h].isDefault \in BOOLEAN
      /\ items = [S EXCEPT ![me] = Cleared(h)]
  BY SavingFacts DEF MapInv, RefInv, SettledFits
<1>2. /\ items[me] = Cleared(h)
      /\ \A u \in Users : u # me => items[u] = S[u]
  BY <1>1
<1>3. \A u \in Users : \A i \in DOMAIN items[u] : items[u][i].userID = u
  BY DEF MapInv, RefInv, ItemsFit
<1>4. ASSUME NEW u \in Users
      PROVE  /\ DOMAIN items[u] = DOMAIN S[u]
             /\ \A i \in DOMAIN S[u] : items[u][i] = Unflagged(S[u][i], z)
  <2>1. CASE u # me
    <3>1. ASSUME NEW i \in DOMAIN S[u] PROVE SlotOf(S[u][i]) # SlotOf(z)
      BY <2>1, <1>2, <1>3 DEF SlotOf
    <3>. QED  BY <2>1, <3>1, <1>2 DEF Unflagged
  <2>2. CASE u = me /\ ~req[h].isDefault
    BY <2>2, <1>2 DEF Cleared, Unflagged
  <2>3. CASE u = me /\ req[h].isDefault
    <3>1. items[me] = ClearDefaultLocked(S[me], req[h].chain)
      BY <2>3, <1>2 DEF Cleared
    <3>2. DOMAIN items[me] = DOMAIN S[me]
      BY <3>1 DEF ClearDefaultLocked
    <3>3. ASSUME NEW i \in DOMAIN S[me]
          PROVE  items[me][i] = Unflagged(S[me][i], z)
      <4>1. items[me][i] =
              IF NormalizeChain(S[me][i].chain) = NormalizeChain(req[h].chain)
              THEN [S[me][i] EXCEPT !.isDefault = FALSE] ELSE S[me][i]
        BY <3>1 DEF ClearDefaultLocked
      <4>2. S[me][i] \in Item
        BY <1>1
      <4>3. S[me][i].userID = me
        <5>1. items[me][i].userID = me
          BY <1>1, <1>3, <3>2
        <5>. QED  BY <4>1, <4>2, <5>1 DEF Item
      <4>. QED  BY <2>3, <4>1, <4>3 DEF Unflagged, SlotOf
    <3>. QED  BY <2>3, <3>2, <3>3
  <2>. QED  BY <2>1, <2>2, <2>3, <1>1
<1>5. \A y : y \in StoredIn(items) <=>
               \E u \in Users : \E i \in DOMAIN S[u] : y = Unflagged(S[u][i], z)
  BY <1>4, StoredFacts
<1>6. \A x : x \in Settled <=> \E u \in Users : \E i \in DOMAIN S[u] : x = S[u][i]
  BY StoredFacts DEF Settled
<1>. QED  BY <1>5, <1>6

\* A save moves the abstract book as Save does.
LEMMA SaveInBook ==
  ASSUME MapInv, MapInv', NEW h \in Handlers, Saving(h), NEW z \in Item,
         z.isDefault = req[h].isDefault,
         z.userID = UserOf(req[h]),
         NormalizeChain(z.chain) = NormalizeChain(req[h].chain),
         Return(h, Reply("none", <<z>>)),
         Settled' = {z} \cup {y \in StoredIn(items) : y.id # z.id}
  PROVE  Book!Save(h, z.id, EntryOf(z))
<1>. DEFINE id == z.id
            e == EntryOf(z)
<1>1. SlotOf(z) \in Users \X Chains
  BY SavingFacts DEF SlotOf, Chains
<1>2. Settled' = {z} \cup {y \in {Unflagged(x, z) : x \in Settled} : y.id # z.id}
  <2>1. SlotOf(z) = <<UserOf(req[h]), NormalizeChain(req[h].chain)>>
    BY DEF SlotOf
  <2>. QED  BY <2>1, ClearedStored
<1>3. GoodItems(Settled) /\ GoodItems(Settled')
  BY DEF MapInv, GoodItems, SlotOf
<1>4. /\ EntriesIn(Settled') = [i \in DOMAIN EntriesIn(Settled) \cup {id} |->
                                  IF i = id THEN e ELSE EntriesIn(Settled)[i]]
      /\ DefaultsIn(Settled') =
           IF z.isDefault
           THEN [Without(id, DefaultsIn(Settled)) EXCEPT ![SlotOf(z)] = id]
           ELSE Without(id, DefaultsIn(Settled))
  BY <1>1, <1>2, <1>3, SaveMaps
<1>5. /\ EntriesIn(Settled)' = EntriesIn(Settled')
      /\ DefaultsIn(Settled)' = DefaultsIn(Settled')
  BY DEF EntriesIn, DefaultsIn
<1>6. /\ Book!Slot(e) = SlotOf(z)
      /\ Book!Undefaulted(id) = Without(id, DefaultsIn(Settled))
  BY SameAPI DEF Book!Slot, EntryOf, SlotOf, Book!Undefaulted, Without
<1>7. Book!ItemOf(id, e, DefaultsIn(Settled')) = z
  <2>1. DefaultsIn(Settled')[SlotOf(z)] = id <=> z.isDefault
    <3>1. z \in Settled'
      BY <1>2
    <3>. QED  BY <3>1, <1>1, <1>3, DefaultsFacts
  <2>. HIDE DEF SlotOf
  <2>. QED  BY <2>1, <1>6 DEF Book!ItemOf, EntryOf, Item
<1>8. Book!Answer(h, Reply("none", <<z>>))
  BY AnswerInBook DEF Return, Goto
<1>. QED
  BY <1>4, <1>5, <1>6, <1>7, <1>8, SameAPI DEF Book!Save

\* A time that no stored item is ahead of is one that the book may stamp.
LEMMA StampInBook ==
  ASSUME MapInv, NEW h \in Handlers, Saving(h), NEW t \in Nat, t <= now,
         \A u \in Users : \A i \in DOMAIN items[u] : items[u][i].updatedAt <= t
  PROVE  t \in Book!Stamps
<1>. DEFINE z == [isDefault |-> req[h].isDefault, userID |-> UserOf(req[h]),
                  chain |-> req[h].chain]
<1>1. StoredIn(items) = {Unflagged(x, z) : x \in Settled}
  <2>1. SlotOf(z) = <<UserOf(req[h]), NormalizeChain(req[h].chain)>>
    BY DEF SlotOf
  <2>. QED  BY <2>1, ClearedStored
<1>. HIDE DEF z
<1>2. ASSUME NEW x \in Settled PROVE x.updatedAt <= t
  <2>1. PICK u, i : /\ u \in Users /\ i \in DOMAIN items[u]
                    /\ Unflagged(x, z) = items[u][i]
    <3>1. Unflagged(x, z) \in StoredIn(items)
      BY <1>1
    <3>. QED  BY <3>1, StoredFacts
  <2>2. x \in Item
    BY DEF MapInv, GoodItems
  <2>3. Unflagged(x, z).updatedAt = x.updatedAt
    BY <2>2 DEF Unflagged, Item
  <2>. QED  BY <2>1, <2>3
<1>3. ASSUME NEW i \in DOMAIN EntriesIn(Settled)
      PROVE  EntriesIn(Settled)[i].updatedAt <= t
  <2>1. /\ DOMAIN EntriesIn(Settled) = {x.id : x \in Settled}
        /\ \A x \in Settled : EntriesIn(Settled)[x.id] = EntryOf(x)
    BY EntriesFacts DEF MapInv
  <2>2. PICK x \in Settled : i = x.id
    BY <2>1
  <2>3. EntriesIn(Settled)[i] = EntryOf(x)
    BY <2>1, <2>2
  <2>4. EntriesIn(Settled)[i].updatedAt = x.updatedAt
    BY <2>3 DEF EntryOf
  <2>. QED  BY <2>4, <1>2
<1>4. t \in 0..now
  BY DEF MapInv, RefInv, BothInv, DefaultsInv, TypeOK
<1>. QED  BY <1>3, <1>4 DEF Book!Stamps

\* The append of Create is the abstract Create.
LEMMA CreateInBook ==
  ASSUME MapInv, MapInv', NEW h \in Handlers, CreateAppend(h)
  PROVE  Book!Create(h)
<1>. DEFINE r == req[h]
            me == UserOf(r)
            z == item[h]
<1>1. /\ Saving(h) /\ r.op = "Create" /\ pc[h] = "writing"
      /\ HasItem(h) /\ HasStamp(h)
      /\ items' = [items EXCEPT ![me] = Append(items[me], z)]
      /\ Return(h, Reply("none", <<z>>))
  BY DEF CreateAppend, At, Saving, HasItem, HasStamp, SetMine, Mine
<1>2. /\ z \in Item
      /\ z.chain = Trim(r.chain)
      /\ z.isDefault = r.isDefault
      /\ z.userID = me
      /\ z.address = Trim(r.address)
      /\ z.updatedAt = z.createdAt
      /\ z.createdAt <= now
      /\ z.id = nextID - 1
      /\ \A u \in Users : \A i \in DOMAIN items[u] :
           items[u][i].id < z.id /\ items[u][i].updatedAt <= z.createdAt
  BY <1>1
  DEF MapInv, RefInv, BothInv, DefaultsInv, LocalsFit, Fits, ItemsFit, IDsInv,
      Fresh
<1>3. /\ InCriticalSection(h) /\ me \in Users
      /\ r.chain \in Raw
      /\ items \in [Users -> Seq(Item)]
  BY <1>1, SavingFacts
<1>4. /\ nextID \in Int
      /\ settled.nextID = nextID - 1
      /\ settled' = [items |-> items', nextID |-> nextID]
  BY <1>1, <1>3 
  DEF MapInv, RefInv, SettledFits, BothInv, DefaultsInv, TypeOK, Return
<1>5. Settled' = {z} \cup {y \in StoredIn(items) : y.id # z.id}
  <2>1. \A u \in Users : \A i \in DOMAIN items[u] : items[u][i].id # z.id
    <3>. SUFFICES ASSUME NEW u \in Users, NEW i \in DOMAIN items[u]
                  PROVE  items[u][i].id # z.id
      OBVIOUS
    <3>1. items[u][i] \in Item
      BY <1>3
    <3>. QED  BY <1>2, <3>1 DEF Item
  <2>2. {y \in StoredIn(items) : y.id # z.id} = StoredIn(items)
    BY <2>1, StoredFacts
  <2>3. Settled' = StoredIn(items')
    BY <1>4 DEF Settled, StoredIn
  <2>4. \A u \in Users : u # me => items'[u] = items[u]
    BY <1>1, <1>3
  <2>5. /\ DOMAIN items'[me] = DOMAIN items[me] \cup {Len(items[me]) + 1}
        /\ items'[me][Len(items[me]) + 1] = z
        /\ \A i \in DOMAIN items[me] : items'[me][i] = items[me][i]
    BY <1>1, <1>2, <1>3
  <2>6. ASSUME NEW y \in StoredIn(items') PROVE y = z \/ y \in StoredIn(items)
    BY <2>4, <2>5, StoredFacts
  <2>7. ASSUME NEW y, y = z \/ y \in StoredIn(items) PROVE y \in StoredIn(items')
    <3>1. z \in StoredIn(items')
      BY <2>5, <1>3, StoredFacts
    <3>2. y \in StoredIn(items) => y \in StoredIn(items')
      BY <2>4, <2>5, StoredFacts
    <3>. QED  BY <2>7, <3>1, <3>2
  <2>. QED  BY <2>2, <2>3, <2>6, <2>7
<1>6. Book!Save(h, z.id, EntryOf(z))
  <2>1. NormalizeChain(z.chain) = NormalizeChain(r.chain)
    BY <1>2, <1>3, TrimKeepsChain
  <2>. QED  BY <1>1, <1>2, <1>5, <2>1, SaveInBook
<1>7. z.createdAt \in Book!Stamps
  <2>1. z.createdAt \in Nat
    BY <1>2 DEF Item
  <2>. QED  BY <1>1, <1>2, <2>1, StampInBook
<1>8. EntryOf(z) = [userID |-> Book!UserOf(r), address |-> Book!Trim(r.address),
                    chain |-> Book!Trim(r.chain), createdAt |-> z.createdAt,
                    updatedAt |-> z.createdAt]
  BY <1>2, SameAPI DEF EntryOf
<1>9. z.id = (settled.nextID - 1) + 1 /\ settled'.nextID - 1 = (settled.nextID - 1) + 1
  BY <1>2, <1>4
<1>10. Book!Serving(h, "Create")
  BY <1>1, <1>3, InsideIsServing
<1>. QED  BY <1>6, <1>7, <1>8, <1>9, <1>10 DEF Book!Create

\* What the search of Update or Delete found is an entry of the caller's.
LEMMA FoundIsOwned ==
  ASSUME MapInv, NEW h \in Handlers, NEW x \in Settled,
         x.id = req[h].id, x.userID = UserOf(req[h])
  PROVE  /\ Book!Owns(req[h], req[h].id)
         /\ EntriesIn(Settled)[req[h].id] = EntryOf(x)
<1>1. /\ DOMAIN EntriesIn(Settled) = {y.id : y \in Settled}
      /\ \A y \in Settled : EntriesIn(Settled)[y.id] = EntryOf(y)
  BY EntriesFacts DEF MapInv
<1>. QED  BY <1>1, SameAPI DEF Book!Owns, EntryOf

\* What Update makes of an entry.
Moved(e, address, chain, time) ==
  [e EXCEPT !.address = address, !.chain = chain, !.updatedAt = time]

\* It is the entry of the item that Update makes, field by field.
LEMMA UpdatedEntry ==
  ASSUME NEW new, NEW old, NEW address, NEW chain, NEW time,
         new.userID = old.userID, new.createdAt = old.createdAt,
         new.address = address, new.chain = chain, new.updatedAt = time
  PROVE  EntryOf(new) = Moved(EntryOf(old), address, chain, time)
<1>. DEFINE e == EntryOf(old)
            w == [e EXCEPT !.address = address, !.chain = chain,
                           !.updatedAt = time]
            S == {old.userID, old.address, old.chain, old.createdAt,
                  old.updatedAt, address, chain, time}
<1>1. /\ e \in [userID : S, address : S, chain : S, createdAt : S,
                updatedAt : S]
      /\ e.userID = old.userID /\ e.createdAt = old.createdAt
      /\ address \in S /\ chain \in S /\ time \in S
  BY DEF EntryOf
<1>. HIDE DEF e, S
<1>2. /\ w \in [userID : S, address : S, chain : S, createdAt : S,
                updatedAt : S]
      /\ w.userID = old.userID /\ w.createdAt = old.createdAt
      /\ w.address = address /\ w.chain = chain /\ w.updatedAt = time
  BY <1>1
<1>. HIDE DEF w
<1>3. w = [userID |-> w.userID, address |-> w.address, chain |-> w.chain,
           createdAt |-> w.createdAt, updatedAt |-> w.updatedAt]
  BY <1>2
<1>4. EntryOf(new) = w
  BY <1>2, <1>3 DEF EntryOf
<1>. QED  BY <1>4 DEF Moved, w, e

\* The write of Update is the abstract Update.
LEMMA UpdateInBook ==
  ASSUME MapInv, MapInv', NEW h \in Handlers, UpdateWrite(h)
  PROVE  Book!Update(h)
<1>. DEFINE r == req[h]
            me == UserOf(r)
            k == index[h]
            old == items[me][k]
            z == [old EXCEPT !.address = Trim(r.address),
                             !.chain = Trim(r.chain),
                             !.isDefault = r.isDefault, !.updatedAt = now]
<1>1. /\ Saving(h) /\ r.op = "Update" /\ pc[h] = "writing" /\ HasHit(h)
      /\ items' = [items EXCEPT ![me] = [items[me] EXCEPT ![k] = z]]
      /\ Return(h, Reply("none", <<z>>))
  BY DEF UpdateWrite, At, Saving, HasHit, SetMine, Mine
<1>2. /\ InCriticalSection(h) /\ me \in Users
      /\ r \in Requests /\ r.chain \in Raw /\ r.isDefault \in BOOLEAN
      /\ items \in [Users -> Seq(Item)]
  BY <1>1, SavingFacts
<1>3. /\ k \in DOMAIN items[me]
      /\ old.id = r.id
      /\ old.userID = me
  BY <1>1, <1>2
  DEF HasHit, MapInv, RefInv, BothInv, DefaultsInv, LocalsFit, Fits, ItemsFit,
      Mine
<1>4. old \in Item /\ now \in Nat
  BY <1>2, <1>3 DEF MapInv, RefInv, BothInv, DefaultsInv, TypeOK
<1>5. /\ z \in Item
      /\ z.id = r.id /\ z.userID = me /\ z.isDefault = r.isDefault
      /\ NormalizeChain(z.chain) = NormalizeChain(r.chain)
      /\ EntryOf(z) = [EntryOf(old) EXCEPT !.address = Trim(r.address),
                                           !.chain = Trim(r.chain),
                                           !.updatedAt = now]
  <2>1. /\ Trim(r.chain) \in Raw
        /\ NormalizeChain(Trim(r.chain)) = NormalizeChain(r.chain)
        /\ Trim(r.address) \in Raw
    BY <1>2, RequestsTyped, TrimKeepsChain DEF Request
  <2>2. /\ z \in Item
        /\ z.id = old.id /\ z.userID = old.userID /\ z.isDefault = r.isDefault
        /\ z.chain = Trim(r.chain) /\ z.address = Trim(r.address)
        /\ z.createdAt = old.createdAt /\ z.updatedAt = now
    BY <1>2, <1>4, <2>1 DEF Item
  <2>3. EntryOf(z) = [EntryOf(old) EXCEPT !.address = Trim(r.address),
                                          !.chain = Trim(r.chain),
                                          !.updatedAt = now]
    <3>. DEFINE e == EntryOf(z)
                d == EntryOf(old)
    <3>1. e = Moved(d, Trim(r.address), Trim(r.chain), now)
      <4>. HIDE DEF z, old
      <4>. QED  BY <2>2, UpdatedEntry
    <3>. HIDE DEF e, d
    <3>2. e = [d EXCEPT !.address = Trim(r.address),
                        !.chain = Trim(r.chain), !.updatedAt = now]
      BY <3>1 DEF Moved
    <3>. QED  BY <3>2 DEF e, d
  <2>. QED  BY <1>3, <2>1, <2>2, <2>3
<1>. HIDE DEF z
<1>6. /\ settled' = [items |-> items', nextID |-> nextID]
      /\ settled.nextID = nextID
  BY <1>1, <1>2 DEF Return, MapInv, RefInv, SettledFits, HasItem
<1>7. Settled' = {z} \cup {y \in StoredIn(items) : y.id # z.id}
  <2>1. Settled' = StoredIn(items')
    BY <1>6 DEF Settled, StoredIn
  <2>2. \A u \in Users :
          /\ DOMAIN items'[u] = DOMAIN items[u]
          /\ \A i \in DOMAIN items[u] :
               items'[u][i] = IF u = me /\ i = k THEN z ELSE items[u][i]
    BY <1>1, <1>2, <1>3
  <2>3. ASSUME NEW u \in Users, NEW i \in DOMAIN items[u]
        PROVE  items[u][i].id = z.id <=> u = me /\ i = k
    <3>1. ASSUME items[u][i].id = z.id PROVE u = me /\ i = k
      <4>1. u = me
        BY <3>1, <1>2, <1>3, <1>5
        DEF MapInv, RefInv, BothInv, IDsInv, IDsIdentify
      <4>2. ~(i < k) /\ ~(k < i)
        <5>1. z.id \in Int
          BY <1>5 DEF Item
        <5>. QED
          BY <3>1, <4>1, <5>1, <1>2, <1>3, <1>5
          DEF MapInv, RefInv, BothInv, IDsInv, IDsIdentify
      <4>3. i \in Int /\ k \in Int
        BY <1>2, <1>3
      <4>. QED  BY <4>1, <4>2, <4>3
    <3>. QED  BY <3>1, <1>3, <1>5
  <2>4. ASSUME NEW y \in StoredIn(items')
        PROVE  y = z \/ (y \in StoredIn(items) /\ y.id # z.id)
    <3>1. PICK u, i : u \in Users /\ i \in DOMAIN items'[u] /\ y = items'[u][i]
      BY StoredFacts
    <3>2. CASE u = me /\ i = k
      BY <3>1, <3>2, <2>2
    <3>3. CASE ~(u = me /\ i = k)
      <4>1. i \in DOMAIN items[u] /\ y = items[u][i] /\ y.id # z.id
        BY <3>1, <3>3, <2>2, <2>3
      <4>. QED  BY <3>1, <4>1, StoredFacts
    <3>. QED  BY <3>2, <3>3
  <2>5. z \in StoredIn(items')
    BY <2>2, <1>2, <1>3, StoredFacts
  <2>6. ASSUME NEW y \in StoredIn(items), y.id # z.id
        PROVE  y \in StoredIn(items')
    BY <2>2, <2>3, <2>6, StoredFacts
  <2>. QED  BY <2>1, <2>4, <2>5, <2>6
<1>8. Book!Save(h, z.id, EntryOf(z))
  BY <1>1, <1>5, <1>7, SaveInBook
<1>9. now \in Book!Stamps
  BY <1>1, <1>4, StampInBook DEF MapInv, RefInv, ItemsFit
<1>10. /\ Book!Owns(r, r.id)
       /\ EntriesIn(Settled)[r.id] = EntryOf(old)
  <2>1. StoredIn(items) = {Unflagged(x, z) : x \in Settled}
    BY <1>1, <1>5, ClearedStored DEF SlotOf
  <2>2. old \in StoredIn(items)
    BY <1>2, <1>3, StoredFacts
  <2>3. PICK x \in Settled : old = Unflagged(x, z)
    BY <2>1, <2>2
  <2>4. x \in Item
    BY DEF MapInv, GoodItems
  <2>5. x.id = old.id /\ x.userID = old.userID /\ EntryOf(x) = EntryOf(old)
    BY <2>3, <2>4 DEF Unflagged, Item, EntryOf
  <2>. QED  BY <2>5, <1>3, FoundIsOwned
<1>11. Book!Serving(h, "Update")
  BY <1>1, <1>2, InsideIsServing
<1>12. settled'.nextID = settled.nextID
  BY <1>6
<1>. QED
  BY <1>5, <1>8, <1>9, <1>10, <1>11, <1>12, SameAPI DEF Book!Update

\* Steps that release the mutex and save nothing start from settled slices.
LEMMA NotSaving ==
  ASSUME MapInv, NEW h \in Handlers, InCriticalSection(h), ~Saving(h)
  PROVE  items = settled.items
<1>1. \A g \in Handlers : ~Saving(g)
  BY Alone DEF Saving, At, InCriticalSection, MapInv, RefInv, BothInv, DefaultsInv
<1>. QED  BY <1>1 DEF MapInv, RefInv, SettledFits

\* The splice of Delete is the abstract Delete.
LEMMA DeleteInBook ==
  ASSUME MapInv, MapInv', NEW h \in Handlers, DeleteSplice(h)
  PROVE  Book!Delete(h)
<1>. DEFINE r == req[h]
            me == UserOf(r)
            k == index[h]
            list == RemoveAt(items[me], k)
<1>1. /\ InCriticalSection(h) /\ ~Saving(h) /\ HasHit(h)
      /\ r.op = "Delete" /\ pc[h] = "writing"
      /\ items' = [items EXCEPT ![me] = list]
      /\ Return(h, Reply("none", <<>>))
  BY DEF DeleteSplice, At, InCriticalSection, Saving, HasHit, SetMine, Mine
<1>2. me \in Users /\ items \in [Users -> Seq(Item)] /\ items = settled.items
  BY <1>1, RequestsTyped, NotSaving
  DEF MapInv, RefInv, BothInv, DefaultsInv, TypeOK, LocalsFit, Fits
<1>3. /\ k \in DOMAIN items[me]
      /\ items[me][k].id = r.id
      /\ items[me][k].userID = me
  BY <1>1, <1>2
  DEF HasHit, MapInv, RefInv, BothInv, DefaultsInv, LocalsFit, Fits, ItemsFit,
      Mine
<1>4. /\ settled' = [items |-> items', nextID |-> nextID]
      /\ settled.nextID = nextID
  BY <1>1 DEF Return, MapInv, RefInv, SettledFits, HasItem
<1>5. Settled' = {x \in Settled : x.id # r.id}
  <2>1. Settled' = StoredIn(items') /\ Settled = StoredIn(items)
    BY <1>2, <1>4 DEF Settled, StoredIn
  <2>2. \A u \in Users : items'[u] = IF u = me THEN list ELSE items[u]
    BY <1>1, <1>2
  <2>3. /\ DOMAIN items[me] = 1..Len(items[me])
        /\ Len(items[me]) \in Nat
        /\ DOMAIN list = 1..(Len(items[me]) - 1)
        /\ \A j \in DOMAIN list :
             /\ j \in DOMAIN items[me] /\ j + 1 \in DOMAIN items[me]
             /\ list[j] = IF j < k THEN items[me][j] ELSE items[me][j + 1]
    <3>1. items[me] \in Seq(Item)
      BY <1>2
    <3>2. /\ list \in Seq(Item)
          /\ Len(list) = Len(items[me]) - 1
          /\ \A j \in DOMAIN list :
               /\ j \in DOMAIN items[me] /\ j + 1 \in DOMAIN items[me]
               /\ list[j] = IF j < k THEN items[me][j] ELSE items[me][j + 1]
      BY <3>1, <1>3, RemoveAtFacts
    <3>. HIDE DEF list
    <3>. QED  BY <3>1, <3>2
  <2>. HIDE DEF list
  <2>4. ASSUME NEW u \in Users, NEW i \in DOMAIN items[u]
        PROVE  items[u][i].id = r.id <=> u = me /\ i = k
    <3>1. ASSUME items[u][i].id = r.id PROVE u = me /\ i = k
      <4>1. u = me
        BY <3>1, <1>2, <1>3 DEF MapInv, RefInv, BothInv, IDsInv, IDsIdentify
      <4>2. r.id \in Int
        <5>1. items[me][k] \in Item
          BY <1>2, <1>3
        <5>. QED  BY <5>1, <1>3 DEF Item
      <4>3. ~(i < k) /\ ~(k < i)
        BY <3>1, <4>1, <4>2, <1>2, <1>3
        DEF MapInv, RefInv, BothInv, IDsInv, IDsIdentify
      <4>. QED  BY <4>1, <4>3, <2>3, <1>3
    <3>. QED  BY <3>1, <1>3
  <2>5. ASSUME NEW y \in StoredIn(items')
        PROVE  y \in StoredIn(items) /\ y.id # r.id
    <3>1. PICK u, i : u \in Users /\ i \in DOMAIN items'[u] /\ y = items'[u][i]
      BY StoredFacts
    <3>2. CASE u = me
      <4>1. PICK j \in DOMAIN items[me] : y = items[me][j] /\ j # k
        <5>1. i \in DOMAIN list /\ y = list[i]
          BY <3>1, <3>2, <2>2
        <5>2. i \in Int /\ k \in Int
          BY <5>1, <2>3, <1>3
        <5>3. CASE i < k
          BY <5>1, <5>2, <5>3, <2>3
        <5>4. CASE ~(i < k)
          BY <5>1, <5>2, <5>4, <2>3
        <5>. QED  BY <5>3, <5>4
      <4>. QED  BY <4>1, <2>4, <1>2, StoredFacts
    <3>3. CASE u # me
      BY <3>1, <3>3, <2>2, <2>4, StoredFacts
    <3>. QED  BY <3>2, <3>3
  <2>6. ASSUME NEW y \in StoredIn(items), y.id # r.id
        PROVE  y \in StoredIn(items')
    <3>1. PICK u, i : u \in Users /\ i \in DOMAIN items[u] /\ y = items[u][i]
      BY StoredFacts
    <3>2. CASE u = me
      <4>1. i # k
        BY <2>6, <3>1, <3>2, <2>4
      <4>2. CASE i < k
        <5>1. i \in DOMAIN list /\ list[i] = y
          BY <3>1, <3>2, <4>2, <2>3, <1>3
        <5>. QED  BY <5>1, <2>2, <1>2, StoredFacts
      <4>3. CASE i > k
        <5>1. i - 1 \in DOMAIN list /\ list[i - 1] = y
          BY <3>1, <3>2, <4>3, <2>3, <1>3
        <5>. QED  BY <5>1, <2>2, <1>2, StoredFacts
      <4>. QED  BY <3>1, <3>2, <4>1, <4>2, <4>3, <2>3, <1>3
    <3>3. CASE u # me
      BY <3>1, <3>3, <2>2, StoredFacts
    <3>. QED  BY <3>2, <3>3
  <2>. QED  BY <2>1, <2>5, <2>6
<1>6. PICK x \in Settled : x.id = r.id /\ x.userID = me
  BY <1>2, <1>3, StoredFacts DEF Settled
<1>7. Book!Owns(r, r.id)
  BY <1>6, FoundIsOwned
<1>8. /\ EntriesIn(Settled') = [i \in DOMAIN EntriesIn(Settled) \ {r.id} |->
                                  EntriesIn(Settled)[i]]
      /\ DefaultsIn(Settled') = Without(r.id, DefaultsIn(Settled))
  <2>. DEFINE X == Settled
              Y == Settled'
              id == r.id
  <2>1. /\ GoodItems(X) /\ id # 0
        /\ \A y : y \in Y <=> y \in X /\ y.id # id
    BY <1>5, <1>6 DEF MapInv, GoodItems
  <2>. HIDE DEF X, Y, id
  <2>2. /\ EntriesIn(Y) = [i \in DOMAIN EntriesIn(X) \ {id} |->
                            EntriesIn(X)[i]]
        /\ DefaultsIn(Y) = Without(id, DefaultsIn(X))
    BY <2>1, DeleteMaps
  <2>. QED  BY <2>2 DEF X, Y, id
<1>9. /\ EntriesIn(Settled)' = EntriesIn(Settled')
      /\ DefaultsIn(Settled)' = DefaultsIn(Settled')
  BY DEF EntriesIn, DefaultsIn
<1>10. Book!Answer(h, Book!Reply("none", <<>>))
  BY <1>1, AnswerInBook, SameAPI DEF Return, Goto
<1>11. Book!Serving(h, "Delete")
  BY <1>1, InsideIsServing
<1>12. settled'.nextID = settled.nextID
  BY <1>4
<1>. QED
  BY <1>7, <1>8, <1>9, <1>10, <1>11, <1>12
  DEF Book!Delete, Book!Restrict, Book!Undefaulted, Without

\* A search that falls through means that the id is not the caller's.
LEMMA NotFoundInBook ==
  ASSUME MapInv, MapInv', NEW h \in Handlers, NotFound(h)
  PROVE  Book!NotFound(h)
<1>. DEFINE r == req[h]
            me == UserOf(r)
<1>1. /\ InCriticalSection(h) /\ ~Saving(h)
      /\ r.op \in {"Update", "Delete"} /\ pc[h] = "locked"
      /\ Hits(items[me], r.id) = {}
      /\ UNCHANGED items
      /\ Return(h, Reply("not found", <<>>))
  BY DEF NotFound, At, InCriticalSection, Saving, Mine
<1>2. items = settled.items
  BY <1>1, NotSaving
<1>3. UNCHANGED Book!store
  <2>1. settled' = [items |-> items', nextID |-> nextID] /\ settled.nextID = nextID
    BY <1>1 DEF Return, MapInv, RefInv, SettledFits, HasItem
  <2>2. Settled' = Settled
    BY <2>1, <1>1, <1>2 DEF Settled, StoredIn
  <2>. QED  BY <2>1, <2>2, StoreStays
<1>4. ~Book!Owns(r, r.id)
  <2>. SUFFICES ASSUME r.id \in DOMAIN EntriesIn(Settled),
                       EntriesIn(Settled)[r.id].userID = me
                PROVE  FALSE
    BY SameAPI DEF Book!Owns
  <2>1. /\ DOMAIN EntriesIn(Settled) = {x.id : x \in Settled}
        /\ \A x \in Settled : EntriesIn(Settled)[x.id] = EntryOf(x)
    BY EntriesFacts DEF MapInv
  <2>2. PICK x \in Settled : x.id = r.id
    BY <2>1
  <2>3. EntriesIn(Settled)[r.id] = EntryOf(x)
    BY <2>1, <2>2
  <2>4. x.userID = me
    BY <2>3 DEF EntryOf
  <2>5. PICK u, i : u \in Users /\ i \in DOMAIN items[u] /\ x = items[u][i]
    BY <1>2, StoredFacts DEF Settled
  <2>6. u = me
    BY <2>4, <2>5 DEF MapInv, RefInv, ItemsFit
  <2>. QED  BY <2>2, <2>5, <2>6, <1>1 DEF Hits
<1>5. Book!Answer(h, Book!Reply("not found", <<>>))
  BY <1>1, AnswerInBook, SameAPI DEF Return, Goto
<1>6. Book!Serving(h, "Update") \/ Book!Serving(h, "Delete")
  <2>1. Book!Serving(h, r.op)
    BY <1>1, InsideIsServing
  <2>. QED  BY <1>1, <2>1
<1>. QED  BY <1>3, <1>4, <1>5, <1>6 DEF Book!NotFound

-----------------------------------------------------------------------------
(* Every chain in the store is one that the pointers are kept for. *)

ChainsKnown(lists) ==
  \A u \in Users : \A i \in DOMAIN lists[u] :
    NormalizeChain(lists[u][i].chain) \in Chains

\* A save stores the chain of a request that passed the checks.
LEMMA SavedChainIsKnown ==
  ASSUME MapInv, NEW h \in Handlers, Saving(h)
  PROVE  NormalizeChain(Trim(req[h].chain)) \in Chains
<1>1. req[h].chain \in Raw /\ req[h].chain \in Spellings
  BY SavingFacts
<1>. QED  BY <1>1, TrimKeepsChain DEF Chains

\* Every step keeps the chains known.
LEMMA StepKeepsChains ==
  ASSUME MapInv, ChainsKnown(items), [Next]_vars
  PROVE  ChainsKnown(items')
<1>1. items \in [Users -> Seq(Item)]
  BY DEF MapInv, RefInv, BothInv, DefaultsInv, TypeOK
<1>2. ASSUME NEW h \in Handlers, ClearDefault(h)
      PROVE  ChainsKnown(items')
  <2>. DEFINE me == UserOf(req[h])
              c == IF req[h].op = "Create" THEN item[h].chain ELSE req[h].chain
              list == ClearDefaultLocked(items[me], c)
  <2>1. CASE UNCHANGED items
    BY <2>1
  <2>2. CASE items' = [items EXCEPT ![me] = list]
    <3>1. me \in Users
      BY <1>2, RequestsTyped
      DEF ClearDefault, At, MapInv, RefInv, BothInv, DefaultsInv, LocalsFit, Fits
    <3>2. items[me] \in Seq(Item)
      BY <3>1, <1>1
    <3>3. /\ DOMAIN list = DOMAIN items[me]
          /\ \A i \in DOMAIN items[me] : list[i].chain = items[me][i].chain
      BY <3>2, ClearDefaultFacts
    <3>4. \A i \in DOMAIN list : NormalizeChain(list[i].chain) \in Chains
      BY <3>1, <3>3 DEF ChainsKnown
    <3>. HIDE DEF list, me
    <3>5. \A u \in Users : items'[u] = IF u = me THEN list ELSE items[u]
      BY <2>2, <3>1, <1>1
    <3>. QED  BY <3>4, <3>5 DEF ChainsKnown
  <2>. QED  BY <1>2, <2>1, <2>2 DEF ClearDefault, SetMine, Mine
<1>3. ASSUME NEW h \in Handlers, CreateAppend(h)
      PROVE  ChainsKnown(items')
  <2>. DEFINE me == UserOf(req[h])
              list == Append(items[me], item[h])
  <2>1. /\ Saving(h) /\ HasItem(h)
        /\ items' = [items EXCEPT ![me] = list]
    BY <1>3 DEF CreateAppend, At, Saving, HasItem, SetMine, Mine
  <2>2. me \in Users /\ items[me] \in Seq(Item)
    BY <2>1, <1>1, SavingFacts
  <2>3. /\ item[h] \in Item
        /\ NormalizeChain(item[h].chain) \in Chains
    BY <2>1, SavedChainIsKnown
    DEF MapInv, RefInv, BothInv, DefaultsInv, LocalsFit, Fits
  <2>4. \A i \in DOMAIN list :
          list[i] = item[h] \/ (i \in DOMAIN items[me] /\ list[i] = items[me][i])
    BY <2>2, <2>3, AppendProperties
  <2>. HIDE DEF list, me
  <2>5. \A i \in DOMAIN list : NormalizeChain(list[i].chain) \in Chains
    BY <2>2, <2>3, <2>4 DEF ChainsKnown
  <2>6. \A u \in Users : items'[u] = IF u = me THEN list ELSE items[u]
    BY <2>1, <2>2, <1>1
  <2>. QED  BY <2>5, <2>6 DEF ChainsKnown
<1>4. ASSUME NEW h \in Handlers, UpdateWrite(h)
      PROVE  ChainsKnown(items')
  <2>. DEFINE me == UserOf(req[h])
              k == index[h]
              new == [items[me][k] EXCEPT
                        !.address = Trim(req[h].address),
                        !.chain = Trim(req[h].chain),
                        !.isDefault = req[h].isDefault, !.updatedAt = now]
              list == [items[me] EXCEPT ![k] = new]
  <2>1. Saving(h) /\ HasHit(h) /\ items' = [items EXCEPT ![me] = list]
    BY <1>4 DEF UpdateWrite, At, Saving, HasHit, SetMine, Mine
  <2>2. /\ me \in Users /\ items[me] \in Seq(Item)
        /\ k \in DOMAIN items[me]
        /\ NormalizeChain(Trim(req[h].chain)) \in Chains
    BY <2>1, <1>1, SavingFacts, SavedChainIsKnown
    DEF MapInv, RefInv, BothInv, DefaultsInv, LocalsFit, Fits, HasHit, Mine
  <2>3. new.chain = Trim(req[h].chain)
    BY <2>2 DEF Item
  <2>. HIDE DEF new
  <2>4. \A i \in DOMAIN list :
          list[i] = new \/ (i \in DOMAIN items[me] /\ list[i] = items[me][i])
    BY <2>2
  <2>. HIDE DEF list, me
  <2>5. \A i \in DOMAIN list : NormalizeChain(list[i].chain) \in Chains
    BY <2>2, <2>3, <2>4 DEF ChainsKnown
  <2>6. \A u \in Users : items'[u] = IF u = me THEN list ELSE items[u]
    BY <2>1, <2>2, <1>1
  <2>. QED  BY <2>5, <2>6 DEF ChainsKnown
<1>5. ASSUME NEW h \in Handlers, DeleteSplice(h)
      PROVE  ChainsKnown(items')
  <2>. DEFINE me == UserOf(req[h])
              k == index[h]
              list == RemoveAt(items[me], k)
  <2>1. items' = [items EXCEPT ![me] = list]
    BY <1>5 DEF DeleteSplice, SetMine, Mine
  <2>2. me \in Users /\ k \in DOMAIN items[me] /\ items[me] \in Seq(Item)
    BY <1>5, <1>1, RequestsTyped
    DEF DeleteSplice, At, MapInv, RefInv, BothInv, DefaultsInv, LocalsFit, Fits,
        Mine
  <2>3. \A i \in DOMAIN list : \E j \in DOMAIN items[me] : list[i] = items[me][j]
    BY <2>2, RemoveAtFacts
  <2>. HIDE DEF list, me
  <2>4. \A i \in DOMAIN list : NormalizeChain(list[i].chain) \in Chains
    BY <2>2, <2>3 DEF ChainsKnown
  <2>5. \A u \in Users : items'[u] = IF u = me THEN list ELSE items[u]
    BY <2>1, <2>2, <1>1
  <2>. QED  BY <2>4, <2>5 DEF ChainsKnown
<1>6. CASE Restart
  BY <1>6 DEF Restart, ChainsKnown
<1>7. CASE UNCHANGED items
  BY <1>7
<1>. QED
  BY <1>2, <1>3, <1>4, <1>5, <1>6, <1>7
  DEF Next, Step, Receive, Reject, Lock, List, ReadClock, BuildItem, TakeID,
      Find, NotFound, Respond, Tick, vars, store

\* What the abstract book has to know to read every pointer.
BookInv == MapInv /\ ChainsKnown(items) /\ ChainsKnown(settled.items)

LEMMA StepKeepsBookInv == BookInv /\ [Next]_vars => BookInv'
<1>. SUFFICES ASSUME BookInv, [Next]_vars PROVE BookInv'
  OBVIOUS
<1>1. MapInv' /\ ChainsKnown(items')
  BY StepKeepsMap, StepKeepsChains DEF BookInv
<1>2. settled'.items = settled.items \/ settled'.items = items'
  BY SettledFollows
<1>. QED  BY <1>1, <1>2 DEF BookInv, ChainsKnown

-----------------------------------------------------------------------------
(* List. *)

\* A stored item is what the abstract book makes of its id.
LEMMA ItemIsRead ==
  ASSUME NEW X, GoodItems(X), NEW x \in X, SlotOf(x) \in Users \X Chains
  PROVE  /\ x.id \in DOMAIN EntriesIn(X)
         /\ EntriesIn(X)[x.id] = EntryOf(x)
         /\ Book!ItemOf(x.id, EntriesIn(X)[x.id], DefaultsIn(X)) = x
<1>1. x.id \in DOMAIN EntriesIn(X) /\ EntriesIn(X)[x.id] = EntryOf(x)
  BY EntriesFacts
<1>2. DefaultsIn(X)[SlotOf(x)] = x.id <=> x.isDefault
  BY DefaultsFacts
<1>3. Book!Slot(EntryOf(x)) = SlotOf(x)
  BY SameAPI DEF Book!Slot, EntryOf, SlotOf
<1>4. x \in Item
  BY DEF GoodItems
<1>5. x = [id |-> x.id, userID |-> x.userID, address |-> x.address,
           chain |-> x.chain, isDefault |-> x.isDefault,
           createdAt |-> x.createdAt, updatedAt |-> x.updatedAt]
  BY <1>4 DEF Item
<1>6. Book!ItemOf(x.id, EntryOf(x), DefaultsIn(X)) =
        [id |-> x.id, userID |-> x.userID, address |-> x.address,
         chain |-> x.chain, isDefault |-> (DefaultsIn(X)[SlotOf(x)] = x.id),
         createdAt |-> x.createdAt, updatedAt |-> x.updatedAt]
  BY <1>3 DEF Book!ItemOf, EntryOf
<1>7. (DefaultsIn(X)[SlotOf(x)] = x.id) = x.isDefault
  <2>1. x.isDefault \in BOOLEAN
    BY <1>4 DEF Item
  <2>. QED  BY <1>2, <2>1
<1>. QED  BY <1>1, <1>5, <1>6, <1>7

\* List's loop over the user's slice makes the listing of the abstract book:
\* the slice is in the order of the ids.
LEMMA ListingIsRead ==
  ASSUME BookInv, NEW r, UserOf(r) \in Users, items = settled.items
  PROVE  Book!Listing(r) =
           ItemsAt(items[UserOf(r)],
                   {i \in DOMAIN items[UserOf(r)] :
                      OnListedChain(r, items[UserOf(r)][i].chain)})
<1>. DEFINE me == UserOf(r)
            list == items[me]
            P == {i \in DOMAIN list : OnListedChain(r, list[i].chain)}
            c == Cardinality(P)
            E == EntriesIn(Settled)
            D == DefaultsIn(Settled)
            ids == {i \in DOMAIN E :
                      /\ E[i].userID = me
                      /\ OnListedChain(r, E[i].chain)}
            f == [n \in 1..c |-> list[Ascending(P)[n]].id]
<1>1. /\ items \in [Users -> Seq(Item)]
      /\ list \in Seq(Item)
      /\ GoodItems(Settled)
      /\ Settled = StoredIn(items)
  BY DEF BookInv, MapInv, RefInv, BothInv, DefaultsInv, TypeOK, Settled
<1>2. ASSUME NEW i \in DOMAIN list
      PROVE  /\ list[i] \in Item /\ list[i].userID = me
             /\ list[i] \in Settled
             /\ list[i].id \in DOMAIN E
             /\ E[list[i].id] = EntryOf(list[i])
             /\ E[list[i].id].userID = me
             /\ E[list[i].id].chain = list[i].chain
             /\ Book!ItemOf(list[i].id, E[list[i].id], D) = list[i]
  <2>1. list[i] \in Item /\ list[i].userID = me /\ list[i] \in Settled
    BY <1>1, StoredFacts DEF BookInv, MapInv, RefInv, ItemsFit
  <2>2. SlotOf(list[i]) \in Users \X Chains
    BY <2>1 DEF SlotOf, BookInv, ChainsKnown
  <2>3. /\ list[i].id \in DOMAIN E
        /\ E[list[i].id] = EntryOf(list[i])
        /\ Book!ItemOf(list[i].id, E[list[i].id], D) = list[i]
    BY <1>1, <2>1, <2>2, ItemIsRead
  <2>. HIDE DEF E, D
  <2>4. E[list[i].id].userID = me /\ E[list[i].id].chain = list[i].chain
    BY <2>1, <2>3 DEF EntryOf
  <2>. QED  BY <2>1, <2>3, <2>4
<1>3. ASSUME NEW i \in ids
      PROVE  \E j \in P : list[j].id = i
  <2>1. DOMAIN E = {x.id : x \in Settled}
    BY <1>1, EntriesFacts
  <2>2. PICK x \in Settled : x.id = i
    BY <2>1
  <2>3. E[i] = EntryOf(x)
    BY <1>1, <2>2, EntriesFacts
  <2>4. PICK u, j : u \in Users /\ j \in DOMAIN items[u] /\ x = items[u][j]
    BY <1>1, StoredFacts
  <2>5. x.userID = me /\ OnListedChain(r, x.chain)
    BY <2>3 DEF EntryOf
  <2>6. u = me
    BY <2>4, <2>5 DEF BookInv, MapInv, RefInv, ItemsFit
  <2>7. j \in P /\ list[j].id = i
    BY <2>2, <2>4, <2>5, <2>6
  <2>. QED  BY <2>7
<1>. HIDE DEF E, D
<1>4. /\ c \in Nat
      /\ P \subseteq DOMAIN list
      /\ \A n \in 1..c : Ascending(P)[n] \in P
      /\ ItemsAt(list, P) = [n \in 1..c |-> list[Ascending(P)[n]]]
      /\ \A m, n \in 1..c : m < n => Ascending(P)[m] < Ascending(P)[n]
      /\ \A j \in P : \E n \in 1..c : Ascending(P)[n] = j
  <2>1. IsFiniteSet(P) /\ P \subseteq Int
    BY <1>1, ItemsAtFacts
  <2>2. P \in SUBSET Int
    BY <2>1
  <2>. HIDE DEF P
  <2>3. /\ c \in Nat
        /\ \A n \in 1..c : Ascending(P)[n] \in P
        /\ \A m, n \in 1..c : m < n => Ascending(P)[m] < Ascending(P)[n]
        /\ \A j \in P : \E n \in 1..c : Ascending(P)[n] = j
    BY <2>1, <2>2, AscendingFacts
  <2>4. ItemsAt(list, P) = [n \in 1..c |-> list[Ascending(P)[n]]]
    BY DEF ItemsAt
  <2>5. P \subseteq DOMAIN list
    BY DEF P
  <2>. QED  BY <2>3, <2>4, <2>5
<1>. HIDE DEF c
<1>5. /\ Cardinality(ids) = c
      /\ Ascending(ids) = f
  <2>1. ids \in SUBSET Int
    <3>1. \A i \in ids : \E j \in DOMAIN list : list[j].id = i
      BY <1>3
    <3>. QED  BY <3>1, <1>2 DEF Item
  <2>2. \A j \in P : list[j].id \in ids
    BY <1>2
  <2>3. f \in [1..c -> ids]
    BY <2>2, <1>4
  <2>4. \A i, j \in DOMAIN list : i < j => list[i].id < list[j].id
    BY DEF BookInv, MapInv, RefInv, BothInv, IDsInv, IDsIdentify
  <2>5. \A k, m \in 1..c : k < m => f[k] < f[m]
    BY <2>4, <1>4
  <2>6. \A i \in ids : \E m \in 1..c : f[m] = i
    <3>. SUFFICES ASSUME NEW i \in ids
                  PROVE  \E m \in 1..c : f[m] = i
      OBVIOUS
    <3>1. PICK j \in P : list[j].id = i
      BY <1>3
    <3>2. PICK m \in 1..c : Ascending(P)[m] = j
      BY <1>4
    <3>. QED  BY <3>1, <3>2
  <2>. HIDE DEF f, ids
  <2>. QED  BY <2>1, <2>3, <2>5, <2>6, <1>4, AscendingIsUnique
<1>6. Book!Listing(r) =
        [n \in DOMAIN Ascending(ids) |->
           Book!ItemOf(Ascending(ids)[n], E[Ascending(ids)[n]], D)]
  <2>1. ids = {i \in DOMAIN E : /\ E[i].userID = Book!UserOf(r)
                                /\ Book!OnListedChain(r, E[i].chain)}
    BY SameAPI DEF Book!OnListedChain, OnListedChain
  <2>2. \A S : Book!Ascending(S) = Ascending(S)
    BY DEF Book!Ascending, Ascending, Book!Cardinality, Cardinality
  <2>. HIDE DEF ids
  <2>. QED  BY <2>1, <2>2 DEF Book!Listing, E, D
<1>7. \A n \in 1..c : Book!ItemOf(f[n], E[f[n]], D) = list[Ascending(P)[n]]
  BY <1>2, <1>4
<1>8. DOMAIN f = 1..c
  OBVIOUS
<1>. HIDE DEF f, ids, P, list
<1>9. Book!Listing(r) = [n \in 1..c |-> list[Ascending(P)[n]]]
  BY <1>5, <1>6, <1>7, <1>8
<1>. QED  BY <1>4, <1>9 DEF P, list

\* A List is the abstract List.
LEMMA ListIsInBook ==
  ASSUME BookInv, BookInv', NEW h \in Handlers, List(h)
  PROVE  Book!List(h)
<1>. DEFINE list == ItemsAt(Mine(h), {i \in DOMAIN Mine(h) :
                                        OnListedChain(req[h], Mine(h)[i].chain)})
<1>1. /\ InCriticalSection(h) /\ ~Saving(h)
      /\ req[h].op = "List" /\ pc[h] = "locked"
      /\ UNCHANGED items
      /\ Return(h, Reply("none", list))
  BY DEF List, At, InCriticalSection, Saving
<1>2. MapInv /\ MapInv'
  BY DEF BookInv
<1>3. items = settled.items
  BY <1>1, <1>2, NotSaving
<1>4. UNCHANGED Book!store
  <2>1. settled' = [items |-> items', nextID |-> nextID] /\ settled.nextID = nextID
    BY <1>1, <1>2 DEF Return, MapInv, RefInv, SettledFits, HasItem
  <2>2. Settled' = Settled
    BY <2>1, <1>1, <1>3 DEF Settled, StoredIn
  <2>. QED  BY <2>1, <2>2, StoreStays
<1>5. UserOf(req[h]) \in Users
  BY <1>1, <1>2, RequestsTyped
  DEF MapInv, RefInv, BothInv, DefaultsInv, LocalsFit, Fits
<1>6. Book!Listing(req[h]) = list
  BY <1>3, <1>5, ListingIsRead DEF Mine
<1>. HIDE DEF list
<1>7. Book!Answer(h, Reply("none", list))
  BY <1>1, <1>2, AnswerInBook DEF Return, Goto
<1>8. Book!Serving(h, "List")
  BY <1>1, <1>2, InsideIsServing
<1>. QED  BY <1>4, <1>6, <1>7, <1>8, SameAPI DEF Book!List

\* A store without items is an empty book.
LEMMA EmptyStoreIsEmptyBook ==
  ASSUME NEW lists, lists = [u \in Users |-> <<>>]
  PROVE  /\ EntriesIn(StoredIn(lists)) = <<>>
         /\ DefaultsIn(StoredIn(lists)) = [s \in Users \X Chains |-> 0]
<1>1. StoredIn(lists) = {}
  <2>1. \A u \in Users : DOMAIN lists[u] = {}
    OBVIOUS
  <2>. QED  BY <2>1, StoredFacts
<1>2. DefaultsIn({}) = [s \in Users \X Chains |-> 0]
  BY DEF DefaultsIn
<1>3. EntriesIn({}) = <<>>
  BY DEF EntriesIn
<1>. QED  BY <1>1, <1>2, <1>3

\* An empty store is an empty book.
LEMMA InitInBook == Init => MapInv /\ Book!Init
<1>. SUFFICES ASSUME Init PROVE MapInv /\ Book!Init
  OBVIOUS
<1>1. BothInv
  BY FreshStoreIsRight, EmptyStoreIsInOrder DEF Init, BothInv
<1>2. SettledFits /\ ItemsFit
  BY FreshStoreIsSettled DEF Init
<1>3. GoodItems(Settled)
  <2>1. GoodItems(StoredIn(items))
    BY <1>1, <1>2, ItemsAreGood
  <2>2. settled.items = items
    BY DEF Init
  <2>. QED  BY <2>1, <2>2 DEF Settled
<1>4. /\ EntriesIn(Settled) = <<>>
      /\ DefaultsIn(Settled) = [s \in Users \X Chains |-> 0]
      /\ settled.nextID - 1 = 0
  BY EmptyStoreIsEmptyBook DEF Init, Settled
<1>5. PhaseOf = [h \in Handlers |-> "idle"]
  BY DEF Init, PhaseOf
<1>6. Book!Init
  BY <1>4, <1>5, SameAPI DEF Init, Book!Init
<1>. QED  BY <1>1, <1>2, <1>3, <1>6 DEF MapInv, RefInv

\* A restarted store is a restarted book.
LEMMA RestartInBook == Restart => Book!Restart
<1>. SUFFICES ASSUME Restart PROVE Book!Restart
  OBVIOUS
<1>1. /\ EntriesIn(StoredIn(items')) = <<>>
      /\ DefaultsIn(StoredIn(items')) = [s \in Users \X Chains |-> 0]
  BY EmptyStoreIsEmptyBook DEF Restart
<1>2. /\ EntriesIn(Settled)' = EntriesIn(StoredIn(items'))
      /\ DefaultsIn(Settled)' = DefaultsIn(StoredIn(items'))
      /\ settled'.nextID - 1 = 0
  BY DEF Restart, Settled, StoredIn, EntriesIn, DefaultsIn
<1>3. PhaseOf' = [h \in Handlers |-> "idle"]
  BY DEF Restart, PhaseOf
<1>. QED  BY <1>1, <1>2, <1>3, SameAPI DEF Restart, Book!Restart

-----------------------------------------------------------------------------
(* The theorem about the abstract book. *)

\* Every step of the goroutines is a step of the abstract book or none of its
\* business.
LEMMA StepInBook == BookInv /\ [Next]_vars => [Book!Next]_(Book!vars)
<1>. SUFFICES ASSUME BookInv, [Next]_vars
              PROVE  Book!Next \/ UNCHANGED Book!vars
  OBVIOUS
<1>1. BookInv' /\ MapInv /\ MapInv'
  <2>1. BookInv'
    BY StepKeepsBookInv
  <2>. QED  BY <2>1 DEF BookInv
<1>2. ASSUME NEW h \in Handlers, NEW r \in Requests, Receive(h, r)
      PROVE  Book!Next
  BY <1>1, <1>2, ReceiveInBook, SameAPI DEF Book!Next
<1>3. ASSUME NEW h \in Handlers,
             Lock(h) \/ ReadClock(h) \/ BuildItem(h) \/ TakeID(h) \/ Find(h)
             \/ ClearDefault(h)
      PROVE  UNCHANGED Book!vars
  BY <1>1, <1>3, InsideInBook
<1>4. ASSUME NEW h \in Handlers,
             \/ Reject(h) \/ NotFound(h) \/ CreateAppend(h) \/ UpdateWrite(h)
             \/ DeleteSplice(h) \/ Respond(h)
      PROVE  Book!Next
  BY <1>1, <1>4, RejectInBook, NotFoundInBook, CreateInBook, UpdateInBook,
     DeleteInBook, RespondInBook
  DEF Book!Next
<1>5. ASSUME NEW h \in Handlers, List(h)
      PROVE  Book!Next
  BY <1>1, <1>5, ListIsInBook DEF Book!Next
<1>6. CASE Tick \/ Restart
  BY <1>6, TickInBook, RestartInBook DEF Book!Next
<1>7. CASE UNCHANGED vars
  <2>1. UNCHANGED <<now, req, reply, settled, pc>>
    BY <1>7 DEF vars, locals
  <2>. QED  BY <2>1, QuietInBook DEF PhaseOf
<1>. QED  BY <1>2, <1>3, <1>4, <1>5, <1>6, <1>7 DEF Next, Step

\* The store implements the abstract book: what clients see of slices, flags
\* and mutex could have come from a book of entries and pointers that serves
\* one request at a time.
THEOREM StoreImplementsBook == Spec => ImplementsBook
<1>1. Init => BookInv /\ Book!Init
  <2>1. Init => ChainsKnown(items) /\ ChainsKnown(settled.items)
    BY DEF Init, ChainsKnown
  <2>. QED  BY <2>1, InitInBook DEF BookInv
<1>2. BookInv /\ [Next]_vars => BookInv'
  BY StepKeepsBookInv
<1>3. BookInv /\ [Next]_vars => [Book!Next]_(Book!vars)
  BY StepInBook
<1>. QED  BY <1>1, <1>2, <1>3, PTL DEF Spec, ImplementsBook, Book!Spec

=============================================================================
