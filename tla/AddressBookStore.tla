--------------------------- MODULE AddressBookStore ---------------------------
(***************************************************************************)
(* appapi.AddressBookStore as the code has it: goroutines that take a mutex, *)
(* then work on the shared slices one statement group at a time.  Between    *)
(* Lock and the step that unlocks, another goroutine may run and would see   *)
(* a half-done operation if the mutex did not keep it out.                   *)
(***************************************************************************)
EXTENDS AddressBookAPI, Enumeration, SequencesExt

VARIABLES
  mu,      \* the goroutine that holds s.mu, or NoHandler
  nextID,  \* s.nextID
  items,   \* s.items: user -> the user's slice
  now,     \* time.Now().Unix()
  pc,      \* handler -> the statement it runs next
  req,     \* handler -> the request it serves
  item,    \* handler -> the local item of Create
  index,   \* handler -> the loop index at which Update and Delete stopped
  reply,   \* handler -> the answer it is about to write
  settled  \* history: items and nextID at the last unlock

store == <<mu, nextID, items>>
locals == <<pc, req, item, index, reply>>
vars == <<store, now, locals, settled>>

CONSTANT NoHandler

ASSUME NoHandlerIsNone == NoHandler \notin Handlers

PCs ==
  {"idle", "received", "locked", "stamped", "built", "clearing", "writing",
   "replied"}

\* Where a goroutine holds the mutex.
InCriticalSection(h) ==
  pc[h] \in {"locked", "stamped", "built", "clearing", "writing"}

\* The local item of Create, before it has all its fields; Go's zero value.
NoUser == <<"", "">>

LocalItem ==
  [id : Int, userID : Users \cup {NoUser}, address : Raw, chain : Raw,
   isDefault : BOOLEAN, createdAt : Nat, updatedAt : Nat]

NoItem ==
  [id |-> 0, userID |-> NoUser, address |-> Absent, chain |-> Absent,
   isDefault |-> FALSE, createdAt |-> 0, updatedAt |-> 0]

\* s.items[userID] for the user of h's request
Mine(h) == items[UserOf(req[h])]

SetMine(h, list) == items' = [items EXCEPT ![UserOf(req[h])] = list]

\* The positions that the search loop of Update and Delete stops at.
Hits(list, id) == {i \in DOMAIN list : list[i].id = id}

\* Mutant of ClearDefaultLocked: it compares the names as they were written.
ClearDefaultExactName(list, chain) ==
  [i \in DOMAIN list |->
     IF list[i].chain = chain THEN [list[i] EXCEPT !.isDefault = FALSE]
                              ELSE list[i]]

\* clearDefaultLocked, on one user's slice
ClearDefaultLocked(list, chain) ==
  [i \in DOMAIN list |->
     IF NormalizeChain(list[i].chain) = NormalizeChain(chain)
     THEN [list[i] EXCEPT !.isDefault = FALSE]
     ELSE list[i]]

PendingCreates ==
  {h \in Handlers :
     /\ pc[h] \in {"received", "locked", "stamped", "built"}
     /\ req[h].op = "Create"}

-----------------------------------------------------------------------------
(* Mutant of Init: the counter starts at its zero value. *)
InitFromZero ==
  /\ mu = NoHandler
  /\ nextID = 0
  /\ items = [u \in Users |-> <<>>]
  /\ now = 0
  /\ pc = [h \in Handlers |-> "idle"]
  /\ req = [h \in Handlers |-> NoRequest]
  /\ item = [h \in Handlers |-> NoItem]
  /\ index = [h \in Handlers |-> 0]
  /\ reply = [h \in Handlers |-> NoReply]
  /\ settled = [items |-> items, nextID |-> nextID]

(* NewAddressBookStore; make(map) yields the nil slice for every user. *)
Init ==
  /\ mu = NoHandler
  /\ nextID = 1
  /\ items = [u \in Users |-> <<>>]
  /\ now = 0
  /\ pc = [h \in Handlers |-> "idle"]
  /\ req = [h \in Handlers |-> NoRequest]
  /\ item = [h \in Handlers |-> NoItem]
  /\ index = [h \in Handlers |-> 0]
  /\ reply = [h \in Handlers |-> NoReply]
  /\ settled = [items |-> items, nextID |-> nextID]

Goto(h, label) == pc' = [pc EXCEPT ![h] = label]

At(h, label, ops) == pc[h] = label /\ req[h].op \in ops

\* A request arrives.  Bound: no more creates than ids left.
Receive(h, r) ==
  /\ pc[h] = "idle"
  /\ r.op = "Create" => nextID + Cardinality(PendingCreates) <= MaxID
  /\ Goto(h, "received")
  /\ req' = [req EXCEPT ![h] = r]
  /\ UNCHANGED <<store, now, item, index, reply, settled>>

Reject(h) ==
  /\ pc[h] = "received"
  /\ Invalid(req[h])
  /\ Goto(h, "replied")
  /\ reply' = [reply EXCEPT ![h] = Reply("invalid", <<>>)]
  /\ UNCHANGED <<store, now, req, item, index, settled>>

\* Mutant of Lock: nobody waits.
LockUnguarded(h) ==
  /\ pc[h] = "received"
  /\ ~Invalid(req[h])
  /\ mu' = h
  /\ Goto(h, "locked")
  /\ UNCHANGED <<nextID, items, now, req, item, index, reply, settled>>

\* s.mu.Lock()
Lock(h) ==
  /\ pc[h] = "received"
  /\ ~Invalid(req[h])
  /\ mu = NoHandler
  /\ mu' = h
  /\ Goto(h, "locked")
  /\ UNCHANGED <<nextID, items, now, req, item, index, reply, settled>>

\* The deferred s.mu.Unlock() and the return of rep; the locals go away.
Return(h, rep) ==
  /\ UNCHANGED <<now, req, nextID>>
  /\ mu' = NoHandler
  /\ Goto(h, "replied")
  /\ reply' = [reply EXCEPT ![h] = rep]
  /\ item' = [item EXCEPT ![h] = NoItem]
  /\ index' = [index EXCEPT ![h] = 0]
  /\ settled' = [items |-> items', nextID |-> nextID']

List(h) ==
  /\ At(h, "locked", {"List"})
  /\ UNCHANGED items
  /\ Return(h, Reply("none",
       ItemsAt(Mine(h), {i \in DOMAIN Mine(h) :
                           OnListedChain(req[h], Mine(h)[i].chain)})))

\* Create: now := time.Now().Unix(), kept in the local item ...
ReadClock(h) ==
  /\ At(h, "locked", {"Create"})
  /\ item' = [item EXCEPT ![h] =
                 [NoItem EXCEPT !.createdAt = now, !.updatedAt = now]]
  /\ Goto(h, "stamped")
  /\ UNCHANGED <<store, now, req, index, reply, settled>>

\* Mutant of BuildItem: the id is the item's position in the user's slice.
BuildItemByLength(h) ==
  LET r == req[h]
  IN  /\ At(h, "stamped", {"Create"})
      /\ item' = [item EXCEPT ![h] =
                    [@ EXCEPT !.id = Len(Mine(h)) + 1, !.userID = UserOf(r),
                              !.address = Trim(r.address),
                              !.chain = Trim(r.chain),
                              !.isDefault = r.isDefault]]
      /\ Goto(h, "built")
      /\ UNCHANGED <<store, now, req, index, reply, settled>>

\* ... which gets its fields and the next id ...
BuildItem(h) ==
  LET r == req[h]
  IN  /\ At(h, "stamped", {"Create"})
      /\ item' = [item EXCEPT ![h] =
                    [@ EXCEPT !.id = nextID, !.userID = UserOf(r),
                              !.address = Trim(r.address),
                              !.chain = Trim(r.chain),
                              !.isDefault = r.isDefault]]
      /\ Goto(h, "built")
      /\ UNCHANGED <<store, now, req, index, reply, settled>>

\* ... and s.nextID++.
TakeID(h) ==
  /\ At(h, "built", {"Create"})
  /\ nextID' = nextID + 1
  /\ Goto(h, "clearing")
  /\ UNCHANGED <<mu, items, now, req, item, index, reply, settled>>

\* The search loop of Update and Delete finds the id in the caller's slice ...
Find(h) ==
  /\ At(h, "locked", {"Update", "Delete"})
  /\ \E i \in Hits(Mine(h), req[h].id) :
       /\ \A j \in Hits(Mine(h), req[h].id) : i <= j
       /\ index' = [index EXCEPT ![h] = i]
  /\ Goto(h, IF req[h].op = "Update" THEN "clearing" ELSE "writing")
  /\ UNCHANGED <<store, now, req, item, reply, settled>>

\* Mutant of NotFound: it returns without unlocking.
NotFoundLocked(h) ==
  /\ At(h, "locked", {"Update", "Delete"})
  /\ Hits(Mine(h), req[h].id) = {}
  /\ Goto(h, "replied")
  /\ reply' = [reply EXCEPT ![h] = Reply("not found", <<>>)]
  /\ UNCHANGED <<store, now, req, item, index, settled>>

\* ... or falls through.
NotFound(h) ==
  /\ At(h, "locked", {"Update", "Delete"})
  /\ Hits(Mine(h), req[h].id) = {}
  /\ UNCHANGED items
  /\ Return(h, Reply("not found", <<>>))

\* if isDefault { s.clearDefaultLocked(userID, chain) }: Create passes the
\* trimmed chain, Update the chain as it came.
ClearDefault(h) ==
  /\ At(h, "clearing", {"Create", "Update"})
  /\ IF req[h].isDefault
     THEN SetMine(h, ClearDefaultLocked(Mine(h),
            IF req[h].op = "Create" THEN item[h].chain ELSE req[h].chain))
     ELSE UNCHANGED items
  /\ Goto(h, "writing")
  /\ UNCHANGED <<mu, nextID, now, req, item, index, reply, settled>>

CreateAppend(h) ==
  /\ At(h, "writing", {"Create"})
  /\ SetMine(h, Append(Mine(h), item[h]))
  /\ Return(h, Reply("none", <<item[h]>>))

\* Mutant of UpdateWrite: both times are set.
UpdateWriteRestamped(h) ==
  LET r == req[h]
      updated == [Mine(h)[index[h]] EXCEPT
                    !.address = Trim(r.address), !.chain = Trim(r.chain),
                    !.isDefault = r.isDefault, !.createdAt = now,
                    !.updatedAt = now]
  IN  /\ At(h, "writing", {"Update"})
      /\ SetMine(h, [Mine(h) EXCEPT ![index[h]] = updated])
      /\ Return(h, Reply("none", <<updated>>))

UpdateWrite(h) ==
  LET r == req[h]
      updated == [Mine(h)[index[h]] EXCEPT
                    !.address = Trim(r.address), !.chain = Trim(r.chain),
                    !.isDefault = r.isDefault, !.updatedAt = now]
  IN  /\ At(h, "writing", {"Update"})
      /\ SetMine(h, [Mine(h) EXCEPT ![index[h]] = updated])
      /\ Return(h, Reply("none", <<updated>>))

DeleteSplice(h) ==
  /\ At(h, "writing", {"Delete"})
  /\ SetMine(h, RemoveAt(Mine(h), index[h]))
  /\ Return(h, Reply("none", <<>>))

\* The handler writes the response; the goroutine takes the next request.
Respond(h) ==
  /\ pc[h] = "replied"
  /\ Goto(h, "idle")
  /\ req' = [req EXCEPT ![h] = NoRequest]
  /\ reply' = [reply EXCEPT ![h] = NoReply]
  /\ UNCHANGED <<store, now, item, index, settled>>

\* The clock advances.  Bound: MaxTime.
Tick ==
  /\ now < MaxTime
  /\ now' = now + 1
  /\ UNCHANGED <<store, locals, settled>>

\* The process dies, wherever its goroutines are, and is started again.
Restart ==
  /\ mu' = NoHandler
  /\ nextID' = 1
  /\ items' = [u \in Users |-> <<>>]
  /\ pc' = [h \in Handlers |-> "idle"]
  /\ req' = [h \in Handlers |-> NoRequest]
  /\ item' = [h \in Handlers |-> NoItem]
  /\ index' = [h \in Handlers |-> 0]
  /\ reply' = [h \in Handlers |-> NoReply]
  /\ settled' = [items |-> items', nextID |-> nextID']
  /\ UNCHANGED now

\* The steps a running goroutine takes by itself.
Step(h) ==
  \/ Reject(h)
  \/ List(h)
  \/ ReadClock(h)
  \/ BuildItem(h)
  \/ TakeID(h)
  \/ Find(h)
  \/ NotFound(h)
  \/ ClearDefault(h)
  \/ CreateAppend(h)
  \/ UpdateWrite(h)
  \/ DeleteSplice(h)
  \/ Respond(h)

Next ==
  \/ \E h \in Handlers :
       \/ \E r \in Requests : Receive(h, r)
       \/ Lock(h)
       \/ Step(h)
  \/ Tick
  \/ Restart

Spec == Init /\ [][Next]_vars

\* The scheduler runs every runnable goroutine (WF); sync.Mutex hands itself
\* to a waiter that has starved for a millisecond (SF).  Arrivals, the clock
\* and restarts need not happen.
Fairness ==
  \A h \in Handlers : WF_vars(Step(h)) /\ SF_vars(Lock(h))

FairSpec == Spec /\ Fairness
-----------------------------------------------------------------------------
(* Properties *)

\* Every variable holds values of its kind.
TypeOK ==
  /\ mu \in Handlers \cup {NoHandler}
  /\ nextID \in Nat \ {0}
  /\ items \in [Users -> Seq(Item)]
  /\ now \in Nat
  /\ pc \in [Handlers -> PCs]
  /\ req \in [Handlers -> Requests \cup {NoRequest}]
  /\ item \in [Handlers -> LocalItem]
  /\ index \in [Handlers -> Nat]

OneDefault(list) ==
  \A i, j \in DOMAIN list :
    /\ list[i].isDefault
    /\ list[j].isDefault
    /\ NormalizeChain(list[i].chain) = NormalizeChain(list[j].chain)
    => i = j

\* At no instant, not even half-way through an operation, does a user have two
\* default items on one chain, under whatever names the chain was written
\* (clearDefaultLocked runs before the flag is set, and normalises both names).
OneDefaultPerChain == \A u \in Users : OneDefault(items[u])

\* The mutex is held by the one goroutine that is between Lock and the step
\* that unlocks, if there is one.
LockHeld ==
  \A h \in Handlers : InCriticalSection(h) <=> mu = h

\* Where Create has built its item.
HasItem(h) ==
  pc[h] \in {"built", "clearing", "writing"} /\ req[h].op = "Create"

\* What a goroutine inside Create, Update or Delete knows: its request, the
\* item it built, the position it found.
Fits(h) ==
  /\ pc[h] # "idle" => req[h] \in Requests
  /\ pc[h] \in {"stamped", "built"} => req[h].op = "Create"
  /\ pc[h] = "clearing" => req[h].op \in {"Create", "Update"}
  /\ pc[h] = "writing" => req[h].op # "List"
  /\ HasItem(h) =>
       /\ item[h] \in Item
       /\ item[h].chain = Trim(req[h].chain)
       /\ item[h].isDefault = req[h].isDefault
  /\ pc[h] \in {"clearing", "writing"} /\ req[h].op \in {"Update", "Delete"} =>
       index[h] \in DOMAIN Mine(h)

LocalsFit == \A h \in Handlers : Fits(h)

\* When a new default is about to be written, its chain has no default.
ChainCleared ==
  \A h \in Handlers :
    At(h, "writing", {"Create", "Update"}) /\ req[h].isDefault =>
      \A i \in DOMAIN Mine(h) :
        NormalizeChain(Mine(h)[i].chain) = NormalizeChain(req[h].chain) =>
          ~Mine(h)[i].isDefault

\* The inductive invariant behind OneDefaultPerChain: the flags are right at
\* every instant because only the holder of the mutex touches the slices, what
\* it found is still there when it writes, and it cleared before it writes.
DefaultsInv ==
  TypeOK /\ LockHeld /\ LocalsFit /\ ChainCleared /\ OneDefaultPerChain

\* Ids identify: they grow along every slice, stay below the next id, and no
\* two users share one, so the first hit of the search loop is the only one.
IDsIdentify ==
  /\ \A u \in Users : \A i, j \in DOMAIN items[u] :
       i < j => items[u][i].id < items[u][j].id
  /\ \A u, v \in Users : \A i \in DOMAIN items[u], j \in DOMAIN items[v] :
       items[u][i].id = items[v][j].id => u = v
  /\ \A u \in Users : \A i \in DOMAIN items[u] :
       items[u][i].id \in 1..(nextID - 1)

\* Later ids carry later creation times, over all users: id and time are taken
\* under one hold of the mutex.
StampsFollowIDs ==
  \A u, v \in Users : \A i \in DOMAIN items[u], j \in DOMAIN items[v] :
    items[u][i].id < items[v][j].id =>
      items[u][i].createdAt <= items[v][j].createdAt

\* Every request that arrives is answered, unless the process dies: each path
\* through the store releases the mutex.
EveryRequestAnswered ==
  \A h \in Handlers : pc[h] = "received" ~> pc[h] \in {"replied", "idle"}

\* Where Create has read the clock.
HasStamp(h) == pc[h] = "stamped" \/ HasItem(h)

\* Every item in the book is older than the one that h is making, whose id is
\* the next one until h takes it.
Fresh(h) ==
  /\ HasStamp(h) =>
       /\ item[h].createdAt <= now
       /\ \A u \in Users : \A i \in DOMAIN items[u] :
            items[u][i].createdAt <= item[h].createdAt
  /\ HasItem(h) =>
       /\ item[h].id = IF pc[h] = "built" THEN nextID ELSE nextID - 1
       /\ item[h].id >= 1
       /\ \A u \in Users : \A i \in DOMAIN items[u] :
            items[u][i].id < item[h].id

StampsArePast ==
  \A u \in Users : \A i \in DOMAIN items[u] : items[u][i].createdAt <= now

\* The inductive invariant behind IDsIdentify and StampsFollowIDs: an item that
\* is being made is later than every item that is stored, in id and in time,
\* because id and clock are read by the one goroutine that holds the mutex.
IDsInv ==
  /\ IDsIdentify
  /\ StampsFollowIDs
  /\ StampsArePast
  /\ \A h \in Handlers : Fresh(h)

-----------------------------------------------------------------------------
(* Refinement: the store as the last unlock left it, with the flags read as *)
(* pointers, implements AddressBook; a request takes effect when its hold of *)
(* the mutex ends.                                                          *)

StoredIn(lists) == UNION {ToSet(lists[u]) : u \in Users}

EntriesIn(stored) ==
  [id \in {x.id : x \in stored} |->
     LET x == CHOOSE y \in stored : y.id = id
     IN  [userID |-> x.userID, address |-> x.address, chain |-> x.chain,
          createdAt |-> x.createdAt, updatedAt |-> x.updatedAt]]

DefaultsIn(stored) ==
  [s \in Users \X Chains |->
     LET flagged == {x \in stored :
                       /\ x.isDefault
                       /\ <<x.userID, NormalizeChain(x.chain)>> = s}
     IN  IF flagged = {} THEN 0 ELSE (CHOOSE x \in flagged : TRUE).id]

Settled == StoredIn(settled.items)

PhaseOf ==
  [h \in Handlers |->
     IF pc[h] \in {"idle", "replied"} THEN pc[h] ELSE "received"]

Book == INSTANCE AddressBook WITH
  entries <- EntriesIn(Settled), default <- DefaultsIn(Settled),
  lastID <- settled.nextID - 1, phase <- PhaseOf

\* Where the flags of a chain may be cleared already and the new one not set.
Saving(h) == At(h, "writing", {"Create", "Update"})

\* The slice that h saves to, as the last unlock left it but for those flags.
Cleared(h) ==
  LET list == settled.items[UserOf(req[h])]
  IN  IF req[h].isDefault THEN ClearDefaultLocked(list, req[h].chain) ELSE list

\* The holder of the mutex is ahead of the last unlock by the flags it cleared
\* and the id it took, and by nothing else.
SettledFits ==
  /\ settled \in [items : [Users -> Seq(Item)], nextID : Nat \ {0}]
  /\ \A h \in Handlers :
       Saving(h) =>
         items = [settled.items EXCEPT ![UserOf(req[h])] = Cleared(h)]
  /\ (\A h \in Handlers : ~Saving(h)) => items = settled.items
  /\ \A h \in Handlers :
       InCriticalSection(h) =>
         /\ ~Invalid(req[h])
         /\ settled.nextID =
              IF HasItem(h) /\ pc[h] # "built" THEN nextID - 1 ELSE nextID
  /\ mu = NoHandler => settled.nextID = nextID

\* Where the search of Update or Delete has found its item.
HasHit(h) ==
  pc[h] \in {"clearing", "writing"} /\ req[h].op \in {"Update", "Delete"}

\* Items lie in their user's slice and were updated before now; the one that
\* Create makes has what the request says, and no stored one was updated later;
\* the one that was searched for is still where it was found.
ItemsFit ==
  /\ \A u \in Users : \A i \in DOMAIN items[u] :
       items[u][i].userID = u /\ items[u][i].updatedAt <= now
  /\ \A h \in Handlers :
       /\ HasStamp(h) =>
            /\ item[h].updatedAt = item[h].createdAt
            /\ \A u \in Users : \A i \in DOMAIN items[u] :
                 items[u][i].updatedAt <= item[h].createdAt
       /\ HasItem(h) =>
            /\ item[h].userID = UserOf(req[h])
            /\ item[h].address = Trim(req[h].address)
       /\ HasHit(h) => Mine(h)[index[h]].id = req[h].id

\* The slices, flags and mutex keep every promise of the abstract book: what
\* clients see could have come from requests served one at a time.
ImplementsBook == Book!Spec

=============================================================================
