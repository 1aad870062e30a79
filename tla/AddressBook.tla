----------------------------- MODULE AddressBook -----------------------------
(***************************************************************************)
(* What the address book promises its clients: every request takes effect   *)
(* at one instant between its arrival and its answer, and a user has one     *)
(* default per chain.  The default is a pointer per user and chain here; the *)
(* flags, slices and mutex that implement it are in AddressBookStore.        *)
(***************************************************************************)
EXTENDS AddressBookAPI, Enumeration, Functions

VARIABLES
  entries,  \* id -> what was saved under it, for the ids in the book
  default,  \* <<user, chain>> -> id of the default entry, 0 if there is none
  lastID,   \* the last id handed out since the process started
  now,      \* time.Now().Unix()
  phase,    \* handler -> where its request stands
  req,      \* handler -> the request it serves
  reply     \* handler -> the answer it is about to write

store == <<entries, default, lastID>>
vars == <<store, now, phase, req, reply>>

Entry ==
  [userID : Users, address : Raw, chain : Raw, createdAt : Nat,
   updatedAt : Nat]

Phases == {"idle", "received", "replied"}

\* The pair that owns the default an entry competes for.
Slot(e) == <<e.userID, NormalizeChain(e.chain)>>

ItemOf(id, e, d) ==
  [id |-> id, userID |-> e.userID, address |-> e.address, chain |-> e.chain,
   isDefault |-> d[Slot(e)] = id, createdAt |-> e.createdAt,
   updatedAt |-> e.updatedAt]

\* The user's entries that a List request asks for, oldest first.
Listing(r) ==
  LET ids == {i \in DOMAIN entries :
                 /\ entries[i].userID = UserOf(r)
                 /\ OnListedChain(r, entries[i].chain)}
      sorted == Ascending(ids)
  IN  [k \in DOMAIN sorted |-> ItemOf(sorted[k], entries[sorted[k]], default)]

\* The times a request may stamp: the clock is read while the request takes
\* effect, so never before a stamp that is already in the book.
Stamps ==
  {t \in 0..now : \A i \in DOMAIN entries : entries[i].updatedAt <= t}

\* Mutant of Owns: the search does not look at the caller's user id.
OwnsUnchecked(r, id) == id \in DOMAIN entries

Owns(r, id) == id \in DOMAIN entries /\ entries[id].userID = UserOf(r)

\* The defaults once the flag that id had is gone: Update writes the request's
\* flag over it, Delete takes it away with the item.
Undefaulted(id) ==
  [s \in DOMAIN default |-> IF default[s] = id THEN 0 ELSE default[s]]

PendingCreates ==
  {h \in Handlers : phase[h] = "received" /\ req[h].op = "Create"}

-----------------------------------------------------------------------------
Init ==
  /\ entries = <<>>
  /\ default = [s \in Users \X Chains |-> 0]
  /\ lastID = 0
  /\ now = 0
  /\ phase = [h \in Handlers |-> "idle"]
  /\ req = [h \in Handlers |-> NoRequest]
  /\ reply = [h \in Handlers |-> NoReply]

\* A request arrives.  Bound: no more creates than ids left.
Receive(h, r) ==
  /\ phase[h] = "idle"
  /\ r.op = "Create" => lastID + Cardinality(PendingCreates) < MaxID
  /\ phase' = [phase EXCEPT ![h] = "received"]
  /\ req' = [req EXCEPT ![h] = r]
  /\ UNCHANGED <<store, now, reply>>

Answer(h, rep) ==
  /\ phase' = [phase EXCEPT ![h] = "replied"]
  /\ reply' = [reply EXCEPT ![h] = rep]
  /\ UNCHANGED <<now, req>>

Serving(h, op) ==
  /\ phase[h] = "received"
  /\ req[h].op = op
  /\ ~Invalid(req[h])

Reject(h) ==
  /\ phase[h] = "received"
  /\ Invalid(req[h])
  /\ Answer(h, Reply("invalid", <<>>))
  /\ UNCHANGED store

List(h) ==
  /\ Serving(h, "List")
  /\ Answer(h, Reply("none", Listing(req[h])))
  /\ UNCHANGED store

\* Mutant of Save: the clearing loop does not compare the items' chains.
SaveClearingUser(h, id, e) ==
  /\ entries' = [i \in DOMAIN entries \cup {id} |->
                   IF i = id THEN e ELSE entries[i]]
  /\ default' = IF req[h].isDefault
                THEN [s \in DOMAIN default |->
                        IF s = Slot(e) THEN id
                        ELSE IF s[1] = e.userID THEN 0 ELSE default[s]]
                ELSE Undefaulted(id)
  /\ Answer(h, Reply("none", <<ItemOf(id, e, default')>>))

\* A successful Create or Update saves e under id; when it asks for the
\* default, clearDefaultLocked makes way for it on e's chain.
Save(h, id, e) ==
  /\ entries' = [i \in DOMAIN entries \cup {id} |->
                   IF i = id THEN e ELSE entries[i]]
  /\ default' = IF req[h].isDefault
                THEN [Undefaulted(id) EXCEPT ![Slot(e)] = id]
                ELSE Undefaulted(id)
  /\ Answer(h, Reply("none", <<ItemOf(id, e, default')>>))

\* Mutant of Create: the id is the number of entries plus one.
CreateByCount(h) ==
  LET r == req[h]
      id == Cardinality(DOMAIN entries) + 1
  IN  /\ Serving(h, "Create")
      /\ lastID' = lastID + 1
      /\ \E t \in Stamps :
           Save(h, id,
                [userID |-> UserOf(r), address |-> Trim(r.address),
                 chain |-> Trim(r.chain), createdAt |-> t, updatedAt |-> t])

Create(h) ==
  LET r == req[h]
  IN  /\ Serving(h, "Create")
      /\ lastID' = lastID + 1
      /\ \E t \in Stamps :
           Save(h, lastID + 1,
                [userID |-> UserOf(r), address |-> Trim(r.address),
                 chain |-> Trim(r.chain), createdAt |-> t, updatedAt |-> t])

Update(h) ==
  LET r == req[h]
  IN  /\ Serving(h, "Update")
      /\ Owns(r, r.id)
      /\ \E t \in Stamps :
           Save(h, r.id,
                [entries[r.id] EXCEPT !.address = Trim(r.address),
                                      !.chain = Trim(r.chain),
                                      !.updatedAt = t])
      /\ UNCHANGED lastID

Delete(h) ==
  LET r == req[h]
  IN  /\ Serving(h, "Delete")
      /\ Owns(r, r.id)
      /\ entries' = Restrict(entries, DOMAIN entries \ {r.id})
      /\ default' = Undefaulted(r.id)
      /\ Answer(h, Reply("none", <<>>))
      /\ UNCHANGED lastID

NotFound(h) ==
  /\ Serving(h, "Update") \/ Serving(h, "Delete")
  /\ ~Owns(req[h], req[h].id)
  /\ Answer(h, Reply("not found", <<>>))
  /\ UNCHANGED store

Respond(h) ==
  /\ phase[h] = "replied"
  /\ phase' = [phase EXCEPT ![h] = "idle"]
  /\ req' = [req EXCEPT ![h] = NoRequest]
  /\ reply' = [reply EXCEPT ![h] = NoReply]
  /\ UNCHANGED <<store, now>>

\* The clock advances.  Bound: MaxTime.
Tick ==
  /\ now < MaxTime
  /\ now' = now + 1
  /\ UNCHANGED <<store, phase, req, reply>>

\* The process dies and is started again: the book is in memory only.
Restart ==
  /\ entries' = <<>>
  /\ default' = [s \in Users \X Chains |-> 0]
  /\ lastID' = 0
  /\ phase' = [h \in Handlers |-> "idle"]
  /\ req' = [h \in Handlers |-> NoRequest]
  /\ reply' = [h \in Handlers |-> NoReply]
  /\ UNCHANGED now

Next ==
  \/ \E h \in Handlers :
       \/ \E r \in Requests : Receive(h, r)
       \/ Reject(h)
       \/ List(h)
       \/ Create(h)
       \/ Update(h)
       \/ Delete(h)
       \/ NotFound(h)
       \/ Respond(h)
  \/ Tick
  \/ Restart

Spec == Init /\ [][Next]_vars

-----------------------------------------------------------------------------
(* Properties *)

\* Every variable holds values of its kind.
TypeOK ==
  /\ DOMAIN entries \subseteq 1..lastID
  /\ \A id \in DOMAIN entries : entries[id] \in Entry
  /\ default \in [Users \X Chains -> Nat]
  /\ lastID \in Nat
  /\ now \in Nat
  /\ phase \in [Handlers -> Phases]
  /\ req \in [Handlers -> Requests \cup {NoRequest}]
  /\ DOMAIN reply = Handlers
  /\ \A h \in Handlers : reply[h].err \in Errors

\* The handlers whose request takes effect in this step.
Taking(h) == phase[h] = "received" /\ phase'[h] = "replied"

\* The process is started again in this step.
Restarted == lastID' < lastID

\* An id that left the book is not used again in the same life of the
\* process, so a client that sends a delete or an update a second time can
\* never hit another entry (nextID only grows).
NoIDReuse ==
  [][Restarted \/ \A id \in 1..lastID :
       id \in DOMAIN entries' => id \in DOMAIN entries]_vars

\* An entry changes or disappears only by a request that names its id and
\* comes from its owner; its owner and its creation time never change.
OnlyOwnersChange ==
  [][Restarted \/ \A id \in DOMAIN entries :
       \/ /\ id \in DOMAIN entries'
          /\ entries'[id] = entries[id]
       \/ \E h \in Handlers :
            /\ Taking(h)
            /\ req[h].id = id
            /\ UserOf(req[h]) = entries[id].userID
            /\ id \in DOMAIN entries' =>
                 /\ entries'[id].userID = entries[id].userID
                 /\ entries'[id].createdAt = entries[id].createdAt]_vars

\* A chain's default changes hands only when its owner saves a new default for
\* that chain, or updates or deletes the very entry that was the default.
DefaultsChangeOnRequest ==
  [][Restarted \/ \A s \in Users \X Chains :
       \/ default'[s] = default[s]
       \/ \E h \in Handlers :
            /\ Taking(h)
            /\ UserOf(req[h]) = s[1]
            /\ \/ req[h].isDefault /\ NormalizeChain(req[h].chain) = s[2]
               \/ default[s] # 0 /\ req[h].id = default[s]]_vars

=============================================================================
