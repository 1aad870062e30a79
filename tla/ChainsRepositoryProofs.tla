------------------------ MODULE ChainsRepositoryProofs ------------------------
(***************************************************************************)
(* Machine-checked proofs about ChainsRepository: the import, for every set *)
(* of seeds and every sequence of crashes, failures and restarts, and the   *)
(* pages that a client reads, for every filter and size; and about Numbers:   *)
(* a timeout, for every width of int, and amounts of any size.                *)
(***************************************************************************)
EXTENDS ChainsRepository, Numbers, EnumerationProofs, SequenceTheorems, TLAPS

\* The part of the state that the import works on.
ImportTyped ==
  /\ table \in Seq(Row)
  /\ seed \in Seq(Entry)
  /\ next \in 1..(Len(seed) + 1)
  /\ phase = "executing" => next <= Len(seed)

ImportInv == ImportTyped /\ ImportedSoFar

\* An upsert puts the entry into one row and leaves the rows of the other keys,
\* and their ids, alone.
LEMMA UpsertedFacts ==
  ASSUME NEW rows \in Seq(Row), NEW entry \in Entry, NEW index \in Nat,
         \A i, j \in DOMAIN rows : rows[i].key = rows[j].key => i = j,
         NEW new, new = Upserted(rows, entry, index),
         NEW row, row = [key |-> entry.key, order |-> index, doc |-> entry.doc]
  PROVE  /\ new \in Seq(Row)
         /\ \A i, j \in DOMAIN new : new[i].key = new[j].key => i = j
         /\ \E i \in DOMAIN new : new[i] = row
         /\ \A i \in DOMAIN rows :
              rows[i].key # entry.key => i \in DOMAIN new /\ new[i] = rows[i]
<1>. DEFINE old == {i \in DOMAIN rows : rows[i].key = entry.key}
<1>1. row \in Row /\ row.key = entry.key
  BY DEF Row, Entry
<1>2. DOMAIN rows = 1..Len(rows) /\ Len(rows) \in Nat
  OBVIOUS
<1>3. CASE old = {}
  <2>1. new = Append(rows, row)
    BY <1>3 DEF Upserted
  <2>2. /\ new \in Seq(Row)
        /\ DOMAIN new = 1..(Len(rows) + 1)
        /\ \A i \in 1..Len(rows) : new[i] = rows[i]
        /\ new[Len(rows) + 1] = row
    BY <2>1, <1>1, AppendProperties
  <2>3. \A i \in DOMAIN rows : rows[i].key # entry.key
    BY <1>3
  <2>4. \A i \in DOMAIN new : i \in DOMAIN rows \/ i = Len(rows) + 1
    BY <2>2, <1>2
  <2>5. \A i, j \in DOMAIN new : new[i].key = new[j].key => i = j
    BY <2>2, <2>3, <2>4, <1>1, <1>2
  <2>6. Len(rows) + 1 \in DOMAIN new
    BY <2>2, <1>2
  <2>. QED  BY <2>2, <2>5, <2>6, <1>2
<1>4. CASE old # {}
  <2>1. new = [i \in DOMAIN rows |-> IF i \in old THEN row ELSE rows[i]]
    BY <1>4 DEF Upserted
  <2>2. \A i \in DOMAIN rows : rows[i] \in Row
    BY <1>2
  <2>3. new \in [1..Len(rows) -> Row]
    BY <2>1, <2>2, <1>1, <1>2
  <2>4. new \in Seq(Row) /\ DOMAIN new = DOMAIN rows
    BY <2>3, <1>2
  <2>5. \A i, j \in DOMAIN new : new[i].key = new[j].key => i = j
    BY <2>1, <1>1
  <2>6. \E i \in DOMAIN new : new[i] = row
    BY <2>1, <1>4
  <2>. QED  BY <2>1, <2>4, <2>5, <2>6
<1>. QED  BY <1>3, <1>4

\* One turn of the loop: entry number next joins the installed ones.
LEMMA UpsertInstalls ==
  ASSUME ImportInv, phase = "executing", table' = Executed, seed' = seed
  PROVE  /\ table' \in Seq(Row)
         /\ UniqueKeys'
         /\ next' = next + 1 => Installed(next - 1)'
<1>1. /\ table \in Seq(Row) /\ seed \in Seq(Entry)
      /\ next \in 1..Len(seed) /\ next - 1 \in Nat
      /\ seed[next] \in Entry
      /\ table' = Upserted(table, seed[next], next - 1)
  BY DEF ImportInv, ImportTyped, Executed
<1>2. UniqueKeys /\ Installed(next - 1)
  BY DEF ImportInv, ImportedSoFar
<1>. DEFINE row == [key |-> seed[next].key, order |-> next - 1,
                    doc |-> seed[next].doc]
<1>3. /\ table' \in Seq(Row)
      /\ \A i, j \in DOMAIN table' : table'[i].key = table'[j].key => i = j
      /\ \E i \in DOMAIN table' : table'[i] = row
      /\ \A i \in DOMAIN table : table[i].key # seed[next].key =>
           i \in DOMAIN table' /\ table'[i] = table[i]
  <2>1. \A i, j \in DOMAIN table : table[i].key = table[j].key => i = j
    BY <1>2 DEF UniqueKeys
  <2>. QED  BY <1>1, <2>1, UpsertedFacts
<1>4. ASSUME next' = next + 1
      PROVE  Installed(next - 1)'
  <2>. SUFFICES ASSUME NEW e \in 1..next,
                       \A f \in (e + 1)..next : seed[f].key # seed[e].key
                PROVE  \E i \in DOMAIN table' :
                         table'[i] = [key |-> seed[e].key, order |-> e - 1,
                                      doc |-> seed[e].doc]
    <3>1. next' - 1 = next
      BY <1>1, <1>4
    <3>. QED  BY <3>1 DEF Installed
  <2>1. CASE e = next
    BY <2>1, <1>3
  <2>2. CASE e # next
    <3>1. /\ e \in 1..(next - 1)
          /\ \A f \in (e + 1)..(next - 1) : seed[f].key # seed[e].key
          /\ seed[next].key # seed[e].key
      BY <2>2, <1>1
    <3>2. PICK i \in DOMAIN table :
            table[i] = [key |-> seed[e].key, order |-> e - 1,
                        doc |-> seed[e].doc]
      BY <3>1, <1>2 DEF Installed
    <3>3. table[i].key # seed[next].key
      BY <3>1, <3>2
    <3>. QED  BY <3>2, <3>3, <1>3
  <2>. QED  BY <2>1, <2>2
<1>. QED  BY <1>3, <1>4 DEF UniqueKeys

\* No step, no failure and no restart breaks what the import has done.
LEMMA StepKeepsImport == ImportInv /\ [Next]_vars => ImportInv'
<1>. SUFFICES ASSUME ImportInv, [Next]_vars
              PROVE  ImportInv'
  OBVIOUS
<1>. USE DEF ImportInv, ImportTyped
<1>1. CASE \E s \in Seeds : Start(s)
  <2>1. PICK s \in Seeds : Start(s)
    BY <1>1
  <2>2. s \in Seq(Entry) /\ Len(s) \in Nat
    BY SeedsAreSequences
  <2>3. ImportTyped' /\ phase' = "importing" /\ next' = 1
    BY <2>1, <2>2 DEF Start
  <2>4. UniqueKeys'
    BY <2>1 DEF Start, ImportedSoFar, UniqueKeys
  <2>5. Installed(next - 1)'
    BY <2>3 DEF Installed
  <2>. QED  BY <2>3, <2>4, <2>5 DEF ImportedSoFar
<1>2. CASE Upsert
  <2>1. /\ phase = "executing" /\ phase' = "importing"
        /\ next <= Len(seed) /\ next' = next + 1 /\ seed' = seed
        /\ table' = Executed
    BY <1>2 DEF Upsert
  <2>2. table' \in Seq(Row) /\ UniqueKeys' /\ Installed(next - 1)'
    BY <2>1, UpsertInstalls
  <2>. QED  BY <2>1, <2>2 DEF ImportedSoFar
<1>3. CASE UpsertFails \/ Stop
  <2>1. /\ phase' \in {"serving", "down"}
        /\ phase' = "serving" => phase = "executing"
        /\ next' = next /\ seed' = seed
        /\ table' = table \/ (phase = "executing" /\ table' = Executed)
    BY <1>3 DEF UpsertFails, Stop
  <2>2. table' \in Seq(Row) /\ UniqueKeys'
    BY <2>1, UpsertInstalls DEF ImportedSoFar, UniqueKeys
  <2>. QED  BY <2>1, <2>2 DEF ImportedSoFar
<1>4. CASE RejectEntry \/ Send
  <2>1. /\ phase = "importing" /\ phase' \in {"serving", "executing"}
        /\ next <= Len(seed)
        /\ UNCHANGED <<table, seed, next>>
    BY <1>4 DEF RejectEntry, Send
  <2>2. Installed(next - 1) /\ UniqueKeys
    BY <2>1 DEF ImportedSoFar
  <2>3. Installed(next - 1)' /\ UniqueKeys'
    BY <2>1, <2>2 DEF Installed, UniqueKeys
  <2>. QED  BY <2>1, <2>3 DEF ImportedSoFar
<1>5. CASE Listen
  <2>1. /\ phase = "importing" /\ next = Len(seed) + 1
        /\ UNCHANGED <<table, seed, next>>
    BY <1>5 DEF Listen
  <2>2. Installed(Len(seed)) /\ UniqueKeys
    BY <2>1 DEF ImportedSoFar
  <2>3. Installed(Len(seed))' /\ UniqueKeys'
    BY <2>1, <2>2 DEF Installed, UniqueKeys
  <2>. QED  BY <1>5, <2>1, <2>3 DEF Listen, ImportedSoFar
<1>6. CASE \/ StartDegraded \/ Refuse \/ Count \/ Page
           \/ \E q \in Queries, size \in Sizes : StartWalk(q, size)
           \/ UNCHANGED vars
  <2>1. /\ UNCHANGED <<table, seed, next>>
        /\ phase' = phase \/ phase' = "degraded"
    BY <1>6 DEF StartDegraded, Refuse, Count, Page, StartWalk, vars,
                process
  <2>. QED  BY <2>1 DEF ImportedSoFar, UniqueKeys, Installed
<1>. QED  BY <1>1, <1>2, <1>3, <1>4, <1>5, <1>6 DEF Next, Loop

\* For all seeds: the import may be cut off and begun again any number of
\* times, and a process that served after a whole import serves its own seed.
THEOREM ImportInstalls == Spec => []ImportedSoFar
<1>1. Init => ImportInv
  BY DEF Init, ImportInv, ImportTyped, ImportedSoFar, UniqueKeys
<1>2. ImportInv => ImportedSoFar
  BY DEF ImportInv
<1>. QED  BY <1>1, <1>2, StepKeepsImport, PTL DEF Spec

-----------------------------------------------------------------------------
(* The types of the whole state. *)

\* The client's walk; the ids it has seen stay ids of the table, which never
\* loses a row.
WalkTyped ==
  /\ walk \in [stage : {"none", "asked", "done"}, keys : SUBSET Texts,
               size : Nat \ {0}, page : Nat \ {0}, seen : Seq(DOMAIN table),
               still : BOOLEAN]
  /\ total \in Nat \cup {-1}
  /\ phase \in {"down", "importing", "executing", "serving", "degraded"}
  /\ seed \in Seeds \cup {<<>>}

TypeInv == ImportInv /\ WalkTyped

\* An upsert keeps every id.
LEMMA UpsertedKeepsIDs ==
  ASSUME NEW rows \in Seq(Row), NEW entry \in Entry, NEW index \in Nat
  PROVE  DOMAIN rows \subseteq DOMAIN Upserted(rows, entry, index)
<1>. DEFINE row == [key |-> entry.key, order |-> index, doc |-> entry.doc]
<1>1. row \in Row
  BY DEF Row, Entry
<1>2. DOMAIN rows = 1..Len(rows) /\ Len(rows) \in Nat
  OBVIOUS
<1>3. DOMAIN Append(rows, row) = 1..(Len(rows) + 1)
  BY <1>1, AppendProperties
<1>. QED  BY <1>2, <1>3 DEF Upserted

\* The rows of a listing can be counted, and each order of them is a sequence
\* of ids.
LEMMA SelectedFacts ==
  ASSUME table \in Seq(Row), NEW keys
  PROVE  /\ Cardinality(Selected(keys)) \in Nat
         /\ \A o \in Orders(Selected(keys)) : o \in Seq(DOMAIN table)
<1>1. Selected(keys) \subseteq 1..Len(table) /\ Len(table) \in Nat /\ DOMAIN table = 1..Len(table)
  BY DEF Selected
<1>2. IsFiniteSet(Selected(keys))
  <2>1. IsFiniteSet(1..Len(table))
    BY <1>1, FS_Interval
  <2>. QED  BY <1>1, <2>1, FS_Subset
<1>3. Cardinality(Selected(keys)) \in Nat
  BY <1>2, FS_CardinalityType
<1>4. ASSUME NEW o \in Orders(Selected(keys))
      PROVE  o \in Seq(DOMAIN table)
  <2>1. o \in [1..Cardinality(Selected(keys)) -> Selected(keys)]
    BY DEF Orders, SetToSeqs
  <2>. QED  BY <2>1, <1>1, <1>3
<1>. QED  BY <1>3, <1>4

\* A page adds ids of the table to those that were seen.
LEMMA PageKeepsTypes == TypeInv /\ Page => WalkTyped'
<1>. SUFFICES ASSUME TypeInv, Page PROVE WalkTyped'
  OBVIOUS
<1>. USE DEF TypeInv, ImportInv, ImportTyped, WalkTyped
<1>. DEFINE size == IF walk.size > MaxSize THEN MaxSize ELSE walk.size
            offset == (walk.page - 1) * size
            last == walk.page * walk.size >= total
            to(o) == IF offset + size > Len(o) THEN Len(o) ELSE offset + size
<1>1. /\ total' = -1 /\ UNCHANGED <<table, phase, seed, next>>
  BY DEF Page, process
<1>2. PICK o \in Orders(Selected(walk.keys)) :
        walk' = [walk EXCEPT !.seen = @ \o SubSeq(o, offset + 1, to(o)),
                             !.stage = IF last THEN "done" ELSE "asked",
                             !.page = IF last THEN @ ELSE @ + 1]
  BY DEF Page
<1>3. size \in Nat /\ offset \in Nat
  <2>1. size \in Nat /\ walk.page - 1 \in Nat
    BY SizesArePositive
  <2>2. \A x, y \in Nat : x * y \in Nat
    OBVIOUS
  <2>. QED  BY <2>1, <2>2
<1>4. o \in Seq(DOMAIN table)
  BY SelectedFacts
<1>5. SubSeq(o, offset + 1, to(o)) \in Seq(DOMAIN table)
  <2>1. offset + 1 \in Int /\ to(o) \in Int
    BY <1>3, <1>4
  <2>2. \A i \in (offset + 1)..to(o) : i \in 1..Len(o)
    BY <1>3, <1>4
  <2>. HIDE DEF to, offset, size
  <2>3. \A i \in (offset + 1)..to(o) : o[i] \in DOMAIN table
    BY <2>2, <1>4
  <2>. QED  BY <2>1, <2>3, SubSeqProperties
<1>6. walk.seen \o SubSeq(o, offset + 1, to(o)) \in Seq(DOMAIN table)
  BY <1>5
<1>. HIDE DEF to, offset, size, last
<1>7. walk' \in [stage : {"none", "asked", "done"}, keys : SUBSET Texts,
                 size : Nat \ {0}, page : Nat \ {0}, seen : Seq(DOMAIN table),
                 still : BOOLEAN]
  <2>1. walk.page \in Nat \ {0} /\ walk.page + 1 \in Nat \ {0}
    OBVIOUS
  <2>. DEFINE seen == walk.seen \o SubSeq(o, offset + 1, to(o))
  <2>2. walk' = [walk EXCEPT !.seen = seen,
                             !.stage = IF last THEN "done" ELSE "asked",
                             !.page = IF last THEN walk.page ELSE walk.page + 1]
    BY <1>2
  <2>3. seen \in Seq(DOMAIN table)
    BY <1>6
  <2>. HIDE DEF seen
  <2>. QED  BY <2>1, <2>2, <2>3
<1>. QED  BY <1>1, <1>7

\* No step breaks the types.
LEMMA StepKeepsTypes == TypeInv /\ [Next]_vars => TypeInv'
<1>. SUFFICES ASSUME TypeInv, [Next]_vars
              PROVE  WalkTyped'
  BY StepKeepsImport DEF TypeInv
<1>. USE DEF TypeInv, WalkTyped
<1>1. CASE \/ \E s \in Seeds : Start(s)
           \/ StartDegraded \/ RejectEntry \/ Send \/ Listen \/ UNCHANGED vars
  <2>1. /\ UNCHANGED <<table, walk, total>> /\ seed' \in Seeds \cup {<<>>}
        /\ phase' \in {"down", "importing", "executing", "serving", "degraded"}
    BY <1>1 DEF Start, StartDegraded, RejectEntry, Send, Listen, vars, process
  <2>. QED  BY <2>1
<1>2. CASE Upsert \/ UpsertFails \/ Stop
  <2>1. /\ UNCHANGED seed /\ total' \in {total, -1}
        /\ table' = table \/ (phase = "executing" /\ table' = Executed)
        /\ phase' \in {"importing", "serving", "down"}
        /\ walk' = Disturbed(table')
    BY <1>2 DEF Upsert, UpsertFails, Stop
  <2>2. DOMAIN table \subseteq DOMAIN table'
    <3>1. ASSUME phase = "executing", table' = Executed
          PROVE  DOMAIN table \subseteq DOMAIN table'
      <4>1. table \in Seq(Row) /\ seed[next] \in Entry /\ next - 1 \in Nat
        BY <3>1 DEF ImportInv, ImportTyped
      <4>. QED  BY <3>1, <4>1, UpsertedKeepsIDs DEF Executed
    <3>. QED  BY <2>1, <3>1
  <2>3. Seq(DOMAIN table) \subseteq Seq(DOMAIN table')
    BY <2>2
  <2>4. walk' \in [stage : {"none", "asked", "done"}, keys : SUBSET Texts,
                   size : Nat \ {0}, page : Nat \ {0}, seen : Seq(DOMAIN table'),
                   still : BOOLEAN]
    <3>. DEFINE held == walk.still /\ Sorting(table') = Sorting(table)
    <3>1. held \in BOOLEAN /\ walk' = [walk EXCEPT !.still = held]
      BY <2>1 DEF Disturbed
    <3>. HIDE DEF held
    <3>. QED  BY <3>1, <2>3
  <2>. QED  BY <2>1, <2>4
<1>3. CASE \E q \in Queries, size \in Sizes : StartWalk(q, size)
  <2>1. PICK q \in Queries, size \in Sizes : StartWalk(q, size)
    BY <1>3
  <2>2. ParseKeys(q) \in SUBSET Texts
    BY SizesArePositive DEF ParseKeys, Raw
  <2>3. SizeOf(size) \in Nat \ {0}
    BY SizesArePositive DEF SizeOf
  <2>4. <<>> \in Seq(DOMAIN table)
    OBVIOUS
  <2>5. /\ walk' = [stage |-> "asked", keys |-> ParseKeys(q),
                    size |-> SizeOf(size), page |-> 1, seen |-> <<>>,
                    still |-> TRUE]
        /\ total' = -1
        /\ UNCHANGED <<table, phase, seed>>
    BY <2>1 DEF StartWalk, process
  <2>. QED  BY <2>2, <2>3, <2>4, <2>5
<1>4. CASE Refuse
  <2>1. total' = -1 /\ UNCHANGED <<table, phase, seed, walk>>
    BY <1>4 DEF Refuse, process
  <2>. QED  BY <2>1
<1>5. CASE Count
  <2>1. /\ total' = Cardinality(Selected(walk.keys))
        /\ UNCHANGED <<table, phase, seed, walk>>
    BY <1>5 DEF Count, process
  <2>2. Cardinality(Selected(walk.keys)) \in Nat
    BY SelectedFacts DEF ImportInv, ImportTyped
  <2>. QED  BY <2>1, <2>2
<1>6. CASE Page
  BY <1>6, PageKeepsTypes
<1>. QED  BY <1>1, <1>2, <1>3, <1>4, <1>5, <1>6 DEF Next, Loop

LEMMA InitIsTyped == Init => TypeInv
<1>. SUFFICES ASSUME Init PROVE TypeInv
  OBVIOUS
<1>1. /\ table = <<>> /\ phase = "down" /\ seed = <<>> /\ next = 1
      /\ walk = NoWalk /\ total = -1 /\ Len(seed) = 0
  BY DEF Init
<1>2. ImportInv
  BY <1>1 DEF ImportInv, ImportTyped, ImportedSoFar, UniqueKeys
<1>3. WalkTyped
  BY <1>1 DEF WalkTyped, NoWalk
<1>. QED  BY <1>2, <1>3 DEF TypeInv

\* Every variable holds values of its kind; above all, the loop index stays in
\* the seed, and what a client has seen are rows that the table still has.
THEOREM TypeCorrect == Spec => []TypeOK
<1>1. TypeInv => TypeOK
  BY DEF TypeInv, ImportInv, ImportTyped, WalkTyped, TypeOK
<1>. QED  BY <1>1, InitIsTyped, StepKeepsTypes, PTL DEF Spec

-----------------------------------------------------------------------------
(* The walk. *)

\* ORDER BY sort_order, id leaves no two rows of a listing in a tie.
LEMMA BeforeIsTotal ==
  ASSUME table \in Seq(Row)
  PROVE  /\ \A i, j \in DOMAIN table : Before(i, j) => ~Before(j, i) /\ i # j
         /\ \A i, j \in DOMAIN table : i = j \/ Before(i, j) \/ Before(j, i)
<1>1. \A i \in DOMAIN table : i \in Int /\ table[i] \in Row
  OBVIOUS
<1>2. \A r \in Row : r.order \in Int
  BY DEF Row
<1>. QED  BY <1>1, <1>2 DEF Before

\* seen is a beginning of the listing of ids: no row of it comes after one that
\* it does not have.
Leads(seen, ids) ==
  /\ ToSet(seen) \subseteq ids
  /\ \A m, n \in DOMAIN seen : m < n => Before(seen[m], seen[n])
  /\ \A m \in DOMAIN seen : \A i \in ids \ ToSet(seen) : Before(seen[m], i)

\* The database has one order to answer a listing in: each row once, and each
\* before the rows that follow.
LEMMA OrderFacts ==
  ASSUME table \in Seq(Row), NEW keys, NEW o \in Orders(Selected(keys))
  PROVE  /\ IsFiniteSet(Selected(keys))
         /\ Cardinality(Selected(keys)) \in Nat
         /\ o \in [1..Cardinality(Selected(keys)) -> Selected(keys)]
         /\ \A m, n \in DOMAIN o : m < n => Before(o[m], o[n])
         /\ \A i \in Selected(keys) : \E m \in DOMAIN o : o[m] = i
<1>. DEFINE ids == Selected(keys)
            c == Cardinality(ids)
<1>1. ids \subseteq DOMAIN table /\ DOMAIN table = 1..Len(table) /\ Len(table) \in Nat
  BY DEF Selected
<1>2. IsFiniteSet(ids) /\ c \in Nat
  <2>1. IsFiniteSet(1..Len(table))
    BY <1>1, FS_Interval
  <2>2. IsFiniteSet(ids)
    BY <1>1, <2>1, FS_Subset
  <2>. QED  BY <2>2, FS_CardinalityType
<1>. HIDE DEF ids
<1>3. /\ o \in [1..c -> ids]
      /\ \A m, n \in 1..c : m # n => o[m] # o[n]
      /\ \A m, n \in DOMAIN o : m < n => ~Before(o[n], o[m])
  BY DEF Orders, SetToSeqs, ids
<1>4. \A m, n \in DOMAIN o : m < n => Before(o[m], o[n])
  <2>. SUFFICES ASSUME NEW m \in DOMAIN o, NEW n \in DOMAIN o, m < n
                PROVE  Before(o[m], o[n])
    OBVIOUS
  <2>1. m \in 1..c /\ n \in 1..c /\ m # n
    BY <1>2, <1>3
  <2>2. o[m] \in DOMAIN table /\ o[n] \in DOMAIN table /\ o[m] # o[n]
    BY <2>1, <1>1, <1>3
  <2>. QED  BY <2>2, <1>3, BeforeIsTotal
<1>5. \A i \in ids : \E m \in DOMAIN o : o[m] = i
  <2>1. o \in Injection(1..c, ids)
    BY <1>3 DEF Injection, IsInjective
  <2>2. IsFiniteSet(1..c) /\ Cardinality(1..c) = c
    BY <1>2, FS_Interval
  <2>3. o \in Surjection(1..c, ids)
    BY <1>2, <2>1, <2>2, FS_Injection
  <2>. QED  BY <2>3, <1>3 DEF Surjection
<1>. QED  BY <1>2, <1>3, <1>4, <1>5 DEF ids

\* A sequence without repetition is as long as it has elements.
LEMMA DistinctAreCounted ==
  ASSUME NEW S, NEW s \in Seq(S),
         \A m, n \in DOMAIN s : m < n => s[m] # s[n]
  PROVE  IsFiniteSet(ToSet(s)) /\ Cardinality(ToSet(s)) = Len(s)
<1>1. DOMAIN s = 1..Len(s) /\ Len(s) \in Nat /\ s \in [1..Len(s) -> ToSet(s)]
  BY DEF ToSet
<1>2. s \in Surjection(1..Len(s), ToSet(s))
  BY <1>1 DEF ToSet, Surjection
<1>3. \A m, n \in 1..Len(s) : s[m] = s[n] => m = n
  BY <1>1
<1>4. s \in Injection(1..Len(s), ToSet(s))
  BY <1>1, <1>3 DEF Injection, IsInjective
<1>5. IsFiniteSet(1..Len(s)) /\ Cardinality(1..Len(s)) = Len(s)
  BY <1>1, FS_Interval
<1>. QED  BY <1>2, <1>4, <1>5, FS_Surjection

\* Two beginnings of one listing that are of one length hold the same rows.
LEMMA BeginningsAgree ==
  ASSUME table \in Seq(Row), NEW keys, NEW o \in Orders(Selected(keys)),
         NEW seen \in Seq(DOMAIN table), Leads(seen, Selected(keys))
  PROVE  /\ Len(seen) <= Len(o)
         /\ \A m \in 1..Len(seen) : o[m] \in ToSet(seen)
         /\ \A i \in ToSet(seen) : \E m \in 1..Len(seen) : o[m] = i
<1>. DEFINE ids == Selected(keys)
            c == Cardinality(ids)
            k == Len(seen)
            A == {o[m] : m \in 1..k}
            B == ToSet(seen)
<1>1. ids \subseteq DOMAIN table
  BY DEF Selected
<1>2. /\ IsFiniteSet(ids) /\ c \in Nat
      /\ o \in [1..c -> ids]
      /\ \A m, n \in 1..c : m < n => Before(o[m], o[n])
      /\ \A i \in ids : \E m \in 1..c : o[m] = i
  BY OrderFacts
<1>3. Len(o) = c
  BY <1>2
<1>4. /\ B \subseteq ids /\ k \in Nat /\ DOMAIN seen = 1..k
      /\ \A m, n \in 1..k : m < n => Before(seen[m], seen[n])
      /\ \A j \in B : \A i \in ids \ B : Before(j, i)
  BY DEF Leads, ToSet
<1>. HIDE DEF ids
<1>5. IsFiniteSet(B) /\ Cardinality(B) = k
  <2>1. \A m, n \in DOMAIN seen : m < n => seen[m] # seen[n]
    BY <1>4, BeforeIsTotal
  <2>. QED  BY <2>1, DistinctAreCounted
<1>6. k <= c
  BY <1>2, <1>4, <1>5, FS_Subset
<1>7. IsFiniteSet(A) /\ Cardinality(A) = k /\ A \subseteq ids
  <2>. DEFINE a == [m \in 1..k |-> o[m]]
  <2>1. a \in Seq(ids) /\ Len(a) = k
    BY <1>2, <1>4, <1>6
  <2>2. \A m, n \in DOMAIN a : m < n => a[m] # a[n]
    <3>1. \A m, n \in 1..k : m < n => Before(o[m], o[n])
      BY <1>2, <1>4, <1>6
    <3>2. \A m \in 1..k : o[m] \in DOMAIN table
      BY <1>1, <1>2, <1>4, <1>6
    <3>. QED  BY <3>1, <3>2, BeforeIsTotal
  <2>3. ToSet(a) = A
    BY DEF ToSet
  <2>. HIDE DEF a
  <2>4. IsFiniteSet(A) /\ Cardinality(A) = k
    BY <2>1, <2>2, <2>3, DistinctAreCounted
  <2>. QED  BY <2>4, <1>2, <1>4, <1>6
<1>8. A \subseteq B
  <2>. SUFFICES ASSUME NEW m \in 1..k, o[m] \notin B
                PROVE  FALSE
    OBVIOUS
  <2>1. m \in 1..c /\ o[m] \in ids
    BY <1>2, <1>4, <1>6
  <2>2. ASSUME NEW j \in B
        PROVE  j \in A
    <3>1. Before(j, o[m])
      BY <2>1, <1>4
    <3>2. PICK n \in 1..c : o[n] = j
      BY <1>2, <1>4
    <3>3. j \in DOMAIN table /\ o[m] \in DOMAIN table
      BY <2>1, <1>1, <1>4
    <3>4. n < m
      <4>1. m < n => Before(o[m], o[n])
        BY <1>2, <2>1
      <4>2. ~(m < n)
        BY <4>1, <3>1, <3>2, <3>3, BeforeIsTotal
      <4>3. m # n
        BY <3>1, <3>2, <3>3, BeforeIsTotal
      <4>. QED  BY <4>2, <4>3, <1>2, <2>1
    <3>. QED  BY <3>2, <3>4, <1>4
  <2>3. B = A
    BY <2>2, <1>5, <1>7, FS_Subset
  <2>. QED  BY <2>3
<1>9. A = B
  BY <1>8, <1>5, <1>7, FS_Subset
<1>. QED  BY <1>3, <1>6, <1>9 DEF ids

\* A page that follows a beginning of the listing makes a longer beginning.
LEMMA PageExtends ==
  ASSUME table \in Seq(Row), NEW keys, NEW o \in Orders(Selected(keys)),
         NEW seen \in Seq(DOMAIN table), Leads(seen, Selected(keys)),
         NEW to \in Nat, Len(seen) <= to, to <= Len(o)
  PROVE  /\ Leads(seen \o SubSeq(o, Len(seen) + 1, to), Selected(keys))
         /\ Len(seen \o SubSeq(o, Len(seen) + 1, to)) = to
<1>. DEFINE ids == Selected(keys)
            c == Cardinality(ids)
            k == Len(seen)
            new == seen \o SubSeq(o, k + 1, to)
<1>1. ids \subseteq DOMAIN table
  BY DEF Selected
<1>2. /\ c \in Nat
      /\ o \in [1..c -> ids]
      /\ \A m, n \in 1..c : m < n => Before(o[m], o[n])
      /\ \A i \in ids : \E m \in 1..c : o[m] = i
  BY OrderFacts
<1>3. Len(o) = c /\ o \in Seq(ids) /\ DOMAIN o = 1..c /\ k \in Nat
  <2>. HIDE DEF c, ids
  <2>. QED  BY <1>2
<1>4. /\ k <= c
      /\ \A m \in 1..k : o[m] \in ToSet(seen)
      /\ \A i \in ToSet(seen) : \E m \in 1..k : o[m] = i
  BY <1>3, BeginningsAgree
<1>. HIDE DEF ids
<1>5. /\ SubSeq(o, k + 1, to) \in Seq(ids)
      /\ Len(SubSeq(o, k + 1, to)) = to - k
      /\ \A n \in 1..(to - k) : SubSeq(o, k + 1, to)[n] = o[k + n]
  BY <1>3
<1>6. /\ Len(new) = to /\ DOMAIN new = 1..to
      /\ \A n \in 1..k : new[n] = seen[n]
      /\ \A n \in (k + 1)..to : new[n] = o[n]
  <2>. DEFINE rest == SubSeq(o, k + 1, to)
  <2>1. seen \in Seq(DOMAIN table) /\ rest \in Seq(DOMAIN table)
    BY <1>1, <1>5
  <2>2. /\ Len(rest) = to - k
        /\ \A n \in 1..(to - k) : rest[n] = o[k + n]
    BY <1>5
  <2>. HIDE DEF rest
  <2>3. /\ Len(seen \o rest) = k + Len(rest)
        /\ DOMAIN (seen \o rest) = 1..(k + Len(rest))
        /\ \A n \in 1..(k + Len(rest)) :
             (seen \o rest)[n] = IF n <= k THEN seen[n] ELSE rest[n - k]
    BY <2>1, ConcatProperties
  <2>4. new = seen \o rest
    BY DEF rest
  <2>5. ASSUME NEW n \in (k + 1)..to
        PROVE  new[n] = o[n]
    <3>1. n - k \in 1..(to - k) /\ n \in 1..(k + Len(rest)) /\ ~(n <= k)
      BY <1>3, <2>2
    <3>2. new[n] = rest[n - k] /\ rest[n - k] = o[k + (n - k)]
      BY <2>2, <2>3, <2>4, <3>1
    <3>. QED  BY <3>2, <1>3
  <2>. QED  BY <2>2, <2>3, <2>4, <2>5, <1>3
<1>. HIDE DEF new
<1>7. ToSet(new) = {o[m] : m \in 1..to}
  <2>1. ASSUME NEW m \in 1..to
        PROVE  o[m] \in ToSet(new)
    <3>1. CASE m <= k
      <4>1. o[m] \in ToSet(seen)
        BY <3>1, <1>4
      <4>2. PICK n \in 1..k : seen[n] = o[m]
        BY <4>1, <1>3 DEF ToSet
      <4>3. n \in DOMAIN new /\ new[n] = o[m]
        BY <4>2, <1>3, <1>6
      <4>. QED  BY <4>3 DEF ToSet
    <3>2. CASE m > k
      <4>1. m \in DOMAIN new /\ new[m] = o[m]
        BY <3>2, <1>3, <1>6
      <4>. QED  BY <4>1 DEF ToSet
    <3>. QED  BY <3>1, <3>2, <1>3
  <2>2. ASSUME NEW n \in 1..to
        PROVE  new[n] \in {o[m] : m \in 1..to}
    <3>1. CASE n <= k
      <4>1. new[n] \in ToSet(seen)
        BY <3>1, <1>3, <1>6 DEF ToSet
      <4>2. PICK m \in 1..k : o[m] = new[n]
        BY <4>1, <1>4
      <4>3. m \in 1..to
        BY <1>3
      <4>. QED  BY <4>2, <4>3
    <3>2. CASE n > k
      <4>1. new[n] = o[n]
        BY <3>2, <1>3, <1>6
      <4>. QED  BY <4>1
    <3>. QED  BY <3>1, <3>2, <1>3
  <2>3. ToSet(new) = {new[n] : n \in 1..to}
    BY <1>6 DEF ToSet
  <2>. QED  BY <2>1, <2>2, <2>3
<1>8. ToSet(new) \subseteq ids
  BY <1>2, <1>3, <1>7
<1>9. ASSUME NEW m \in 1..to, NEW n \in 1..to, m < n
      PROVE  Before(new[m], new[n])
  <2>1. CASE n <= k
    BY <2>1, <1>3, <1>6, <1>9 DEF Leads
  <2>2. CASE m > k
    <3>1. new[m] = o[m] /\ new[n] = o[n] /\ m \in 1..c /\ n \in 1..c
      BY <2>2, <1>3, <1>6, <1>9
    <3>. QED  BY <3>1, <1>2, <1>9
  <2>3. CASE m <= k /\ k < n
    <3>1. new[m] = seen[m] /\ new[n] = o[n] /\ seen[m] \in ToSet(seen)
      BY <2>3, <1>3, <1>6 DEF ToSet
    <3>2. PICK p \in 1..k : o[p] = seen[m]
      BY <3>1, <1>4
    <3>. QED  BY <3>1, <3>2, <2>3, <1>2, <1>3
  <2>. QED  BY <2>1, <2>2, <2>3, <1>3
<1>10. ASSUME NEW n \in 1..to, NEW i \in ids \ ToSet(new)
       PROVE  Before(new[n], i)
  <2>1. PICK m \in 1..to : o[m] = new[n]
    <3>1. new[n] \in ToSet(new)
      BY <1>6 DEF ToSet
    <3>. QED  BY <3>1, <1>7
  <2>2. PICK p \in 1..c : o[p] = i
    BY <1>2
  <2>3. m \in 1..c /\ m < p
    BY <2>2, <1>3, <1>7
  <2>. QED  BY <2>1, <2>2, <2>3, <1>2
<1>11. Leads(new, ids)
  BY <1>6, <1>8, <1>9, <1>10 DEF Leads
<1>. QED  BY <1>6, <1>11 DEF ids, new

\* A beginning as long as the whole listing is the whole listing.
LEMMA WholeListing ==
  ASSUME table \in Seq(Row), NEW keys, NEW seen \in Seq(DOMAIN table),
         Leads(seen, Selected(keys)),
         Len(seen) = Cardinality(Selected(keys)),
         IsFiniteSet(Selected(keys))
  PROVE  /\ ToSet(seen) = Selected(keys)
         /\ \A m, n \in DOMAIN seen :
              m < n => table[seen[m]].order <= table[seen[n]].order
<1>1. \A m, n \in DOMAIN seen : m < n => Before(seen[m], seen[n])
  BY DEF Leads
<1>2. \A m \in DOMAIN seen : seen[m] \in DOMAIN table
  OBVIOUS
<1>3. \A m, n \in DOMAIN seen : m < n => seen[m] # seen[n]
  BY <1>1, <1>2, BeforeIsTotal
<1>4. IsFiniteSet(ToSet(seen)) /\ Cardinality(ToSet(seen)) = Len(seen)
  BY <1>3, DistinctAreCounted
<1>5. ToSet(seen) = Selected(keys)
  BY <1>4, FS_Subset DEF Leads
<1>6. \A i \in DOMAIN table : table[i].order \in Int
  <2>1. \A r \in Row : r.order \in Int
    BY DEF Row
  <2>2. \A i \in DOMAIN table : table[i] \in Row
    OBVIOUS
  <2>. QED  BY <2>1, <2>2
<1>7. \A i, j \in DOMAIN table : Before(i, j) => table[i].order <= table[j].order
  BY <1>6 DEF Before
<1>. QED  BY <1>1, <1>2, <1>5, <1>7

\* What the walk relies on: while a client is in the middle of a listing, it
\* has read the pages before the one it asks for, and they are a beginning of
\* the listing, unless an import has disturbed it; what was counted still counts,
\* since nothing is imported while the process serves.
WalkInv ==
  /\ total # -1 =>
       /\ phase = "serving" /\ walk.stage = "asked"
       /\ total = Cardinality(Selected(walk.keys))
  /\ walk.stage = "asked" /\ walk.still /\ walk.size <= MaxSize =>
       /\ Leads(walk.seen, Selected(walk.keys))
       /\ Len(walk.seen) = (walk.page - 1) * walk.size
  /\ WalkSeesEveryRow

\* A page takes the walk further, or to its end.
LEMMA PageKeepsWalk == TypeInv /\ WalkInv /\ Page => WalkInv'
<1>. SUFFICES ASSUME TypeInv, WalkInv, Page PROVE WalkInv'
  OBVIOUS
<1>. DEFINE ids == Selected(walk.keys)
            c == Cardinality(ids)
            size == IF walk.size > MaxSize THEN MaxSize ELSE walk.size
            offset == (walk.page - 1) * size
            last == walk.page * walk.size >= total
            to(o) == IF offset + size > Len(o) THEN Len(o) ELSE offset + size
<1>1. /\ phase = "serving" /\ walk.stage = "asked" /\ total # -1
      /\ total' = -1 /\ UNCHANGED <<table, phase>>
  BY DEF Page, process
<1>2. PICK o \in Orders(Selected(walk.keys)) :
        walk' = [walk EXCEPT !.seen = @ \o SubSeq(o, offset + 1, to(o)),
                             !.stage = IF last THEN "done" ELSE "asked",
                             !.page = IF last THEN @ ELSE @ + 1]
  BY DEF Page
<1>3. /\ walk \in [stage : {"none", "asked", "done"}, keys : SUBSET Texts,
                   size : Nat \ {0}, page : Nat \ {0}, seen : Seq(DOMAIN table),
                   still : BOOLEAN]
      /\ table \in Seq(Row)
  BY DEF TypeInv, WalkTyped, ImportInv, ImportTyped
<1>4. total = c
  BY <1>1 DEF WalkInv
<1>5. /\ IsFiniteSet(ids) /\ c \in Nat /\ o \in [1..c -> ids] /\ Len(o) = c
  <2>1. /\ IsFiniteSet(ids) /\ c \in Nat /\ o \in [1..c -> ids]
    BY <1>3, OrderFacts
  <2>. HIDE DEF c, ids
  <2>. QED  BY <2>1
<1>. DEFINE new == walk.seen \o SubSeq(o, offset + 1, to(o))
<1>6. /\ walk'.seen = new /\ walk'.keys = walk.keys /\ walk'.size = walk.size
      /\ walk'.stage = IF last THEN "done" ELSE "asked"
      /\ walk'.still = walk.still
      /\ walk'.page = IF last THEN walk.page ELSE walk.page + 1
  <2>. HIDE DEF last, to, offset
  <2>. QED  BY <1>2, <1>3
<1>7. Selected(walk.keys)' = ids
  BY <1>1, <1>6 DEF Selected
<1>8. ASSUME walk.size <= MaxSize, walk.still
      PROVE  /\ Leads(new, ids)
             /\ last => Len(new) = c
             /\ ~last => Len(new) = walk.page * walk.size
  <2>1. size = walk.size /\ offset = (walk.page - 1) * walk.size
    BY <1>8, <1>3, SizesArePositive
  <2>2. /\ offset \in Nat /\ size \in Nat /\ offset + size = walk.page * walk.size
    <3>1. walk.page \in Nat \ {0} /\ walk.size \in Nat
      BY <1>3
    <3>2. \A p \in Nat \ {0}, s \in Nat : (p - 1) * s + s = p * s /\ (p - 1) * s \in Nat
      OBVIOUS
    <3>. QED  BY <2>1, <3>1, <3>2
  <2>3. Leads(walk.seen, ids) /\ Len(walk.seen) = offset
    BY <1>1, <1>8, <2>1 DEF WalkInv
  <2>4. walk.seen \in Seq(DOMAIN table)
    BY <1>3
  <2>5. Len(walk.seen) <= Len(o)
    BY <2>3, <2>4, <1>3, BeginningsAgree
  <2>. HIDE DEF offset, size, c
  <2>6. to(o) \in Nat /\ Len(walk.seen) <= to(o) /\ to(o) <= Len(o)
    BY <2>2, <2>3, <2>5, <1>5
  <2>7. Leads(new, ids) /\ Len(new) = to(o)
    <3>. DEFINE t == to(o)
    <3>1. new = walk.seen \o SubSeq(o, Len(walk.seen) + 1, t)
      BY <2>3
    <3>2. Leads(walk.seen, Selected(walk.keys))
      BY <2>3
    <3>3. t \in Nat /\ Len(walk.seen) <= t /\ t <= Len(o)
      BY <2>6
    <3>4. table \in Seq(Row)
      BY <1>3
    <3>. HIDE DEF new, t
    <3>5. LET longer == walk.seen \o SubSeq(o, Len(walk.seen) + 1, t)
          IN  Leads(longer, Selected(walk.keys)) /\ Len(longer) = t
      BY <3>2, <3>3, <3>4, <2>4, PageExtends
    <3>. QED  BY <3>1, <3>5 DEF t
  <2>8. last <=> offset + size >= c
    BY <2>2, <1>4
  <2>9. last => to(o) = c
    BY <2>2, <2>8, <1>5
  <2>10. ~last => to(o) = offset + size
    BY <2>2, <2>8, <1>5
  <2>. HIDE DEF last, new, ids, to
  <2>. QED  BY <2>2, <2>7, <2>9, <2>10
<1>. HIDE DEF last, new
<1>9. Leads(walk.seen, Selected(walk.keys))' <=> Leads(new, ids)
  <2>. HIDE DEF ids
  <2>. QED  BY <1>1, <1>6, <1>7 DEF Leads, Before
<1>10. (walk.stage = "asked" /\ walk.still /\ walk.size <= MaxSize =>
          /\ Leads(walk.seen, Selected(walk.keys))
          /\ Len(walk.seen) = (walk.page - 1) * walk.size)'
  <2>. SUFFICES ASSUME walk'.stage = "asked", walk'.still, walk'.size <= MaxSize
                PROVE  /\ Leads(new, ids)
                       /\ Len(new) = (walk'.page - 1) * walk.size
    BY <1>6, <1>9
  <2>1. ~last /\ walk'.page - 1 = walk.page
    BY <1>3, <1>6
  <2>. QED  BY <2>1, <1>6, <1>8
<1>11. WalkSeesEveryRow'
  <2>. SUFFICES ASSUME walk'.stage = "done", walk'.still, walk'.size <= MaxSize
                PROVE  /\ ToSet(new) = ids
                       /\ Len(new) = c
                       /\ \A m, n \in DOMAIN new :
                            m < n => table[new[m]].order <= table[new[n]].order
    BY <1>1, <1>6, <1>7 DEF WalkSeesEveryRow, Complete
  <2>1. Leads(new, ids) /\ Len(new) = c
    BY <1>6, <1>8
  <2>2. new \in Seq(DOMAIN table)
    <3>1. walk'.seen \in Seq(DOMAIN table')
      BY PageKeepsTypes DEF WalkTyped
    <3>. QED  BY <3>1, <1>1, <1>6
  <2>. QED  BY <2>1, <2>2, <1>3, <1>5, WholeListing
<1>. QED  BY <1>1, <1>10, <1>11 DEF WalkInv

\* What a walk rests on is the same for two tables that sort alike.
LEMMA SortingDecides ==
  ASSUME Sorting(table') = Sorting(table)
  PROVE  /\ DOMAIN table' = DOMAIN table
         /\ \A i \in DOMAIN table :
              table'[i].key = table[i].key /\ table'[i].order = table[i].order
         /\ \A keys : Selected(keys)' = Selected(keys)
         /\ \A s, S : ToSet(s) \subseteq DOMAIN table /\ S \subseteq DOMAIN table =>
              (Leads(s, S)' <=> Leads(s, S))
<1>1. DOMAIN table' = DOMAIN table
  BY DEF Sorting
<1>2. ASSUME NEW i \in DOMAIN table
      PROVE  table'[i].key = table[i].key /\ table'[i].order = table[i].order
  <2>1. Sorting(table')[i] = <<table'[i].key, table'[i].order>>
    BY <1>1 DEF Sorting
  <2>2. Sorting(table)[i] = <<table[i].key, table[i].order>>
    BY DEF Sorting
  <2>. QED  BY <2>1, <2>2
<1>3. \A keys : Selected(keys)' = Selected(keys)
  BY <1>1, <1>2 DEF Selected, Matches
<1>5. ASSUME NEW s, NEW S, ToSet(s) \subseteq DOMAIN table, S \subseteq DOMAIN table
      PROVE  Leads(s, S)' <=> Leads(s, S)
  <2>1. \A m \in DOMAIN s : s[m] \in DOMAIN table
    BY <1>5 DEF ToSet
  <2>2. \A m, n \in DOMAIN s : Before(s[m], s[n])' <=> Before(s[m], s[n])
    BY <1>2, <2>1 DEF Before
  <2>3. \A m \in DOMAIN s : \A i \in S : Before(s[m], i)' <=> Before(s[m], i)
    BY <1>2, <1>5, <2>1 DEF Before
  <2>. QED  BY <2>2, <2>3 DEF Leads
<1>. QED  BY <1>1, <1>2, <1>3, <1>5

\* A step that leaves the order of the listings alone, or marks the walk as
\* disturbed, keeps what the walk relies on.
LEMMA DisturbanceIsMarked ==
  ASSUME TypeInv, WalkInv,
         (UNCHANGED <<table, walk>>) \/ walk' = Disturbed(table'),
         total' \in {total, -1},
         total' # -1 => phase' = "serving" /\ table' = table
  PROVE  WalkInv'
<1>1. /\ walk \in [stage : {"none", "asked", "done"}, keys : SUBSET Texts,
                   size : Nat \ {0}, page : Nat \ {0}, seen : Seq(DOMAIN table),
                   still : BOOLEAN]
  BY DEF TypeInv, WalkTyped
<1>2. /\ walk'.stage = walk.stage /\ walk'.keys = walk.keys
      /\ walk'.size = walk.size /\ walk'.page = walk.page
      /\ walk'.seen = walk.seen
      /\ walk'.still => walk.still /\ Sorting(table') = Sorting(table)
  <2>1. CASE UNCHANGED <<table, walk>>
    BY <2>1
  <2>2. CASE walk' = Disturbed(table')
    <3>. DEFINE held == walk.still /\ Sorting(table') = Sorting(table)
    <3>1. walk' = [walk EXCEPT !.still = held]
      BY <2>2 DEF Disturbed
    <3>. HIDE DEF held
    <3>2. walk'.still = held
      BY <3>1, <1>1
    <3>. QED  BY <3>1, <3>2, <1>1 DEF held
  <2>. QED  BY <2>1, <2>2
<1>3. total' # -1 =>
        /\ phase' = "serving" /\ walk'.stage = "asked"
        /\ total' = Cardinality(Selected(walk.keys))'
  <2>. SUFFICES ASSUME total' # -1
                PROVE  /\ phase' = "serving" /\ walk'.stage = "asked"
                       /\ total' = Cardinality(Selected(walk.keys))'
    OBVIOUS
  <2>1. /\ total' = total /\ total # -1 /\ table' = table /\ phase' = "serving"
    OBVIOUS
  <2>2. Selected(walk.keys)' = Selected(walk.keys)
    BY <2>1, <1>2 DEF Selected, Matches
  <2>. QED  BY <2>1, <2>2, <1>2 DEF WalkInv
<1>4. ASSUME walk'.still
      PROVE  /\ Selected(walk.keys)' = Selected(walk.keys)
             /\ Leads(walk.seen, Selected(walk.keys))'
                  <=> Leads(walk.seen, Selected(walk.keys))
             /\ \A m \in DOMAIN walk.seen :
                  table'[walk.seen[m]].order = table[walk.seen[m]].order
  <2>1. Sorting(table') = Sorting(table)
    BY <1>2, <1>4
  <2>2. Selected(walk.keys)' = Selected(walk.keys)
    BY <2>1, <1>2, SortingDecides DEF Selected
  <2>3. Selected(walk.keys) \subseteq DOMAIN table
    BY DEF Selected
  <2>4. \A m \in DOMAIN walk.seen : walk.seen[m] \in DOMAIN table
    BY <1>1
  <2>5. ToSet(walk.seen) \subseteq DOMAIN table
    BY <2>4 DEF ToSet
  <2>6. Leads(walk.seen, Selected(walk.keys))'
          <=> Leads(walk.seen, Selected(walk.keys))
    <3>1. PICK s : s = walk.seen
      OBVIOUS
    <3>2. PICK S : S = Selected(walk.keys)
      OBVIOUS
    <3>3. walk'.seen = s /\ Selected(walk.keys)' = S
      BY <1>2, <2>2, <3>1, <3>2
    <3>4. Leads(s, S)' <=> Leads(s, S)
      BY <2>1, <2>3, <2>5, <3>1, <3>2, SortingDecides
    <3>. QED  BY <3>1, <3>2, <3>3, <3>4 DEF Leads
  <2>7. \A m \in DOMAIN walk.seen :
          table'[walk.seen[m]].order = table[walk.seen[m]].order
    BY <2>1, <2>4, SortingDecides
  <2>. QED  BY <2>2, <2>6, <2>7
<1>5. (walk.stage = "asked" /\ walk.still /\ walk.size <= MaxSize =>
         /\ Leads(walk.seen, Selected(walk.keys))
         /\ Len(walk.seen) = (walk.page - 1) * walk.size)'
  BY <1>2, <1>4 DEF WalkInv
<1>6. WalkSeesEveryRow'
  BY <1>2, <1>4 DEF WalkInv, WalkSeesEveryRow, Complete
<1>. QED  BY <1>2, <1>3, <1>5, <1>6 DEF WalkInv, Selected

\* Nor does any other step put a walk out of order.
LEMMA StepKeepsWalk == TypeInv /\ WalkInv /\ [Next]_vars => WalkInv'
<1>. SUFFICES ASSUME TypeInv, WalkInv, [Next]_vars
              PROVE  WalkInv'
  OBVIOUS
<1>1. CASE \/ \E s \in Seeds : Start(s)
           \/ StartDegraded \/ RejectEntry \/ Send \/ Listen \/ UNCHANGED vars
  <2>1. UNCHANGED <<table, walk>> /\ total' = total
    BY <1>1 DEF Start, StartDegraded, RejectEntry, Send, Listen, vars, process
  <2>2. phase = "serving" => phase' = "serving"
    BY <1>1 DEF Start, StartDegraded, RejectEntry, Send, Listen, vars, process
  <2>3. total' # -1 => phase' = "serving"
    BY <2>1, <2>2 DEF WalkInv
  <2>. QED  BY <2>1, <2>3, DisturbanceIsMarked
<1>2. CASE Upsert \/ UpsertFails \/ Stop
  <2>1. /\ walk' = Disturbed(table') /\ total' \in {total, -1}
        /\ total' # -1 => phase = "executing"
    BY <1>2 DEF Upsert, UpsertFails, Stop
  <2>2. total' = -1
    BY <2>1 DEF WalkInv
  <2>. QED  BY <2>1, <2>2, DisturbanceIsMarked
<1>3. CASE \E q \in Queries, size \in Sizes : StartWalk(q, size)
  <2>1. PICK q \in Queries, size \in Sizes : StartWalk(q, size)
    BY <1>3
  <2>2. /\ UNCHANGED <<table, phase>>
        /\ total' = -1
        /\ walk' = [stage |-> "asked", keys |-> ParseKeys(q),
                    size |-> SizeOf(size), page |-> 1, seen |-> <<>>,
                    still |-> TRUE]
    BY <2>1 DEF StartWalk, process
  <2>4. Leads(walk.seen, Selected(walk.keys))'
    <3>1. walk'.seen = <<>> /\ DOMAIN walk'.seen = {}
      BY <2>2
    <3>. QED  BY <3>1 DEF Leads, ToSet
  <2>5. Len(walk'.seen) = (walk'.page - 1) * walk'.size
    <3>1. SizeOf(size) \in Nat
      BY SizesArePositive DEF SizeOf
    <3>2. \A s \in Nat : (1 - 1) * s = 0
      OBVIOUS
    <3>3. (1 - 1) * SizeOf(size) = 0
      BY <3>1, <3>2
    <3>. QED  BY <2>2, <3>3
  <2>. QED  BY <2>2, <2>4, <2>5 DEF WalkInv, WalkSeesEveryRow
<1>4. CASE Refuse
  <2>1. total' = -1 /\ UNCHANGED <<table, walk>>
    BY <1>4 DEF Refuse
  <2>. QED  BY <2>1, DisturbanceIsMarked
<1>5. CASE Count
  <2>1. /\ UNCHANGED <<table, phase, walk>> /\ walk.stage = "asked"
        /\ phase = "serving"
        /\ total' = Cardinality(Selected(walk.keys))
    BY <1>5 DEF Count, process
  <2>2. \A keys : Selected(keys)' = Selected(keys)
    BY <2>1 DEF Selected
  <2>3. \A s, S : Leads(s, S)' = Leads(s, S)
    BY <2>1 DEF Leads, Before
  <2>. QED  BY <2>1, <2>2, <2>3 DEF WalkInv, WalkSeesEveryRow, Complete
<1>6. CASE Page
  BY <1>6, PageKeepsWalk
<1>. QED  BY <1>1, <1>2, <1>3, <1>4, <1>5, <1>6 DEF Next, Loop

\* For every seed, filter and page size up to the largest, and whatever ties
\* older seeds left in sort_order: a client that reads on while the replies say
\* that there is more has in the end each row it selected, once, in the seed's
\* order.
THEOREM WalkIsComplete == Spec => []WalkSeesEveryRow
<1>1. Init => TypeInv /\ WalkInv
  <2>1. Init => TypeInv
    BY InitIsTyped
  <2>2. Init => WalkInv
    BY DEF Init, WalkInv, NoWalk, WalkSeesEveryRow
  <2>. QED  BY <2>1, <2>2
<1>2. WalkInv => WalkSeesEveryRow
  BY DEF WalkInv
<1>. QED  BY <1>1, <1>2, StepKeepsTypes, StepKeepsWalk, PTL DEF Spec

-----------------------------------------------------------------------------
(* Numbers: the timeout of the market's clients. *)

\* x % b for a b that is not a numeral.
LEMMA ModFacts ==
  ASSUME NEW a \in Nat, NEW b \in Nat \ {0}
  PROVE  /\ a % b \in 0..(b - 1)
         /\ a < b => a % b = a
OBVIOUS

\* A machine integer that is neither negative nor too large stays what it is.
LEMMA WrapFacts ==
  ASSUME NEW x \in Nat
  PROVE  /\ Wrap(x) \in Int /\ Wrap(x) <= MaxInt
         /\ x <= MaxInt => Wrap(x) = x
<1>. DEFINE a == x + MaxInt + 1
            b == 2 * (MaxInt + 1)
<1>0. MaxInt \in Nat
  BY MachineIntegers
<1>1. a \in Nat /\ b \in Nat \ {0} /\ (x <= MaxInt => a < b)
  BY <1>0
<1>2. a % b \in 0..(b - 1) /\ (a < b => a % b = a)
  <2>. HIDE DEF a, b
  <2>. QED  BY <1>1, ModFacts
<1>3. Wrap(x) = (a % b) - (MaxInt + 1)
  BY DEF Wrap
<1>. HIDE DEF a
<1>. QED  BY <1>0, <1>1, <1>2, <1>3 DEF a

Shown(raw, decimals, price) ==
  LET balance == FormatTokenAmount(raw, decimals)
  IN  [op |-> "value", balance |-> balance,
       value |-> CalculateEqualUSDT(balance, FormatUSDPrice(price))]

\* The result is what the code computes from what was asked.
NumbersInv ==
  /\ asked.op = "timeout" => asked.seconds \in Int
  /\ asked.op = "value" =>
       asked.raw \in Nat /\ asked.decimals \in Nat /\ asked.price \in [m : Nat, k : Nat]
  /\ result = Nothing
     \/ (asked.op = "timeout"
           /\ result = [op |-> "timeout", timeout |-> ClientTimeout(asked.seconds)])
     \/ (asked.op = "value" /\ result = Shown(asked.raw, asked.decimals, asked.price))

LEMMA NumbersStart == Ask => NumbersInv
BY MachineIntegers, Amounts DEF Ask, NumbersInv

LEMMA NumbersKeep == NumbersInv /\ [Convert]_conversion => NumbersInv'
<1>. SUFFICES ASSUME NumbersInv, [Convert]_conversion PROVE NumbersInv'
  OBVIOUS
<1>1. CASE Configure
  BY <1>1 DEF NumbersInv, Configure, Asked
<1>2. CASE Show
  BY <1>2 DEF NumbersInv, Show, Shown, Asked
<1>3. CASE UNCHANGED conversion
  BY <1>3 DEF NumbersInv, conversion
<1>. QED  BY <1>1, <1>2, <1>3 DEF Convert

\* Whatever number of seconds the environment says, also one whose product with
\* time.Second wraps around: the clients have a timeout, and the one it says if
\* a duration can hold it.
THEOREM TimeoutIsAlwaysSet == Conversions => []TimeoutIsSet
<1>1. NumbersInv => TimeoutIsSet
  <2>. SUFFICES ASSUME NumbersInv, result.op = "timeout"
                PROVE  LET said == ParsePositive(asked.seconds, 15) * Second
                       IN  /\ result.timeout \in 1..MaxInt
                           /\ said <= MaxInt => result.timeout = said
    BY DEF TimeoutIsSet
  <2>1. /\ asked.seconds \in Int
        /\ result.timeout = ClientTimeout(asked.seconds)
    BY DEF NumbersInv, Nothing, Shown
  <2>. DEFINE n == ParsePositive(asked.seconds, 15)
  <2>2. n \in Nat \ {0}
    BY <2>1 DEF ParsePositive
  <2>3. /\ Second \in Nat \ {0} /\ MaxInt \in Nat /\ 15 * Second <= MaxInt
    BY MachineIntegers
  <2>4. n * Second \in Nat \ {0}
    <3>1. \A i, k \in Nat \ {0} : i * k \in Nat \ {0}
      OBVIOUS
    <3>. QED  BY <2>2, <2>3, <3>1
  <2>5. RequestTimeout(asked.seconds) = Wrap(n * Second)
    BY DEF RequestTimeout
  <2>. HIDE DEF n
  <2>6. /\ Wrap(n * Second) \in Int /\ Wrap(n * Second) <= MaxInt
        /\ n * Second <= MaxInt => Wrap(n * Second) = n * Second
    BY <2>4, WrapFacts
  <2>7. ClientTimeout(asked.seconds)
          = IF Wrap(n * Second) > 0 THEN Wrap(n * Second) ELSE 15 * Second
    BY <2>5 DEF ClientTimeout
  <2>8. /\ result.timeout \in 1..MaxInt
        /\ n * Second <= MaxInt => result.timeout = n * Second
    BY <2>1, <2>3, <2>4, <2>6, <2>7
  <2>. QED  BY <2>8 DEF n
<1>2. Ask => NumbersInv
  BY NumbersStart
<1>. QED  BY <1>1, <1>2, NumbersKeep, PTL DEF Conversions

-----------------------------------------------------------------------------
(* Numbers: amounts.  The powers of ten are a recursive function, so that there *)
(* is one has to be proved first.                                              *)

\* The powers up to 10^n, one by one.
Powers(n) == {f \in [0..n -> Nat] : f[0] = 1 /\ \A i \in 1..n : f[i] = 10 * f[i - 1]}

\* Each list of powers exists.
LEMMA PowersExist == \A n \in Nat : Powers(n) # {}
<1>. DEFINE T == {n \in Nat : Powers(n) = {}}
<1>. SUFFICES ASSUME T # {} PROVE FALSE
  OBVIOUS
<1>1. PICK n \in T : \A m \in T : n <= m
  <2>. HIDE DEF T
  <2>1. T \in SUBSET Nat
    BY DEF T
  <2>. QED  BY <2>1, LeastNumber
<1>2. CASE n = 0
  <2>1. [i \in 0..0 |-> 1] \in Powers(0)
    BY DEF Powers
  <2>. QED  BY <1>2, <2>1
<1>3. CASE n # 0
  <2>1. n - 1 \in Nat /\ n - 1 \notin T
    BY <1>1, <1>3
  <2>2. PICK f \in Powers(n - 1) : TRUE
    BY <2>1
  <2>. DEFINE g == [i \in 0..n |-> IF i = n THEN 10 * f[n - 1] ELSE f[i]]
  <2>3. g \in [0..n -> Nat]
    BY <2>1, <2>2 DEF Powers
  <2>4. g[0] = 1
    BY <1>3, <2>1, <2>2 DEF Powers
  <2>5. ASSUME NEW i \in 1..n PROVE g[i] = 10 * g[i - 1]
    <3>1. CASE i = n
      BY <2>1, <3>1
    <3>2. CASE i # n
      BY <2>1, <2>2, <3>2 DEF Powers
    <3>. QED  BY <3>1, <3>2
  <2>6. g \in Powers(n)
    BY <2>3, <2>4, <2>5 DEF Powers
  <2>. QED  BY <2>6
<1>. QED  BY <1>2, <1>3

\* Two lists of powers agree as far as both go.
LEMMA PowersAgree ==
  ASSUME NEW m \in Nat, NEW n \in Nat, NEW f \in Powers(m), NEW g \in Powers(n),
         NEW i \in 0..m, i \in 0..n
  PROVE  f[i] = g[i]
<1>. DEFINE T == {j \in 0..m : j \in 0..n /\ f[j] # g[j]}
<1>. SUFFICES ASSUME T # {} PROVE FALSE
  OBVIOUS
<1>1. PICK k \in T : \A j \in T : k <= j
  <2>. HIDE DEF T
  <2>1. T \in SUBSET Nat
    BY DEF T
  <2>. QED  BY <2>1, LeastNumber
<1>2. k # 0
  BY DEF Powers
<1>3. k - 1 \in 0..m /\ k - 1 \in 0..n /\ k - 1 \notin T
  BY <1>1, <1>2
<1>4. f[k - 1] = g[k - 1]
  BY <1>3
<1>5. f[k] = 10 * f[k - 1] /\ g[k] = 10 * g[k - 1]
  BY <1>2 DEF Powers
<1>. QED  BY <1>4, <1>5

\* Ten is what its definition says.
LEMMA TenIsDefined ==
  /\ Ten = [n \in Nat |-> IF n = 0 THEN 1 ELSE 10 * Ten[n - 1]]
  /\ \A n \in Nat : Ten[n + 1] = 10 * Ten[n]
  /\ Ten[0] = 1
<1>. DEFINE h == [n \in Nat |-> (CHOOSE f \in Powers(n) : TRUE)[n]]
<1>1. \A n \in Nat : (CHOOSE f \in Powers(n) : TRUE) \in Powers(n)
  BY PowersExist
<1>2. h[0] = 1
  BY <1>1 DEF Powers
<1>3. ASSUME NEW n \in Nat, n # 0 PROVE h[n] = 10 * h[n - 1]
  <2>. DEFINE p == CHOOSE f \in Powers(n) : TRUE
              q == CHOOSE f \in Powers(n - 1) : TRUE
  <2>1. p \in Powers(n) /\ q \in Powers(n - 1) /\ n - 1 \in Nat
    BY <1>1, <1>3
  <2>2. h[n] = p[n] /\ h[n - 1] = q[n - 1]
    BY <2>1
  <2>. HIDE DEF p, q, h
  <2>3. p[n] = 10 * p[n - 1]
    BY <2>1 DEF Powers
  <2>4. p[n - 1] = q[n - 1]
    BY <2>1, PowersAgree
  <2>. QED  BY <2>2, <2>3, <2>4
<1>4. h = [n \in Nat |-> IF n = 0 THEN 1 ELSE 10 * h[n - 1]]
  <2>1. h = [n \in Nat |-> h[n]]
    OBVIOUS
  <2>2. \A n \in Nat : h[n] = IF n = 0 THEN 1 ELSE 10 * h[n - 1]
    BY <1>2, <1>3
  <2>. HIDE DEF h
  <2>. QED  BY <2>1, <2>2
<1>5. Ten = [n \in Nat |-> IF n = 0 THEN 1 ELSE 10 * Ten[n - 1]]
  <2>. HIDE DEF h
  <2>. QED  BY <1>4 DEF Ten
<1>. HIDE DEF Ten
<1>6. \A n \in Nat : Ten[n] = IF n = 0 THEN 1 ELSE 10 * Ten[n - 1]
  BY <1>5
<1>7. \A n \in Nat : n + 1 \in Nat /\ n + 1 # 0 /\ (n + 1) - 1 = n
  OBVIOUS
<1>8. \A n \in Nat : Ten[n + 1] = 10 * Ten[n]
  BY <1>6, <1>7
<1>. QED  BY <1>5, <1>6, <1>8

LEMMA TenIsPositive == \A n \in Nat : Ten[n] \in Nat \ {0}
<1>. DEFINE T == {n \in Nat : Ten[n] \notin Nat \ {0}}
<1>. SUFFICES ASSUME T # {} PROVE FALSE
  OBVIOUS
<1>1. PICK n \in T : \A m \in T : n <= m
  <2>. HIDE DEF T
  <2>1. T \in SUBSET Nat
    BY DEF T
  <2>. QED  BY <2>1, LeastNumber
<1>2. n # 0
  BY TenIsDefined
<1>3. n - 1 \in Nat /\ n - 1 \notin T
  BY <1>1, <1>2
<1>4. Ten[n - 1] \in Nat \ {0}
  BY <1>3
<1>5. Ten[n] = 10 * Ten[n - 1]
  <2>1. (n - 1) + 1 = n
    OBVIOUS
  <2>. QED  BY <1>3, <2>1, TenIsDefined
<1>. QED  BY <1>4, <1>5

\* The law of exponents.
LEMMA TenAdds == \A a, b \in Nat : Ten[a + b] = Ten[a] * Ten[b]
<1>. SUFFICES ASSUME NEW a \in Nat PROVE \A b \in Nat : Ten[a + b] = Ten[a] * Ten[b]
  OBVIOUS
<1>. DEFINE T == {b \in Nat : Ten[a + b] # Ten[a] * Ten[b]}
<1>. SUFFICES ASSUME T # {} PROVE FALSE
  OBVIOUS
<1>1. PICK b \in T : \A m \in T : b <= m
  <2>. HIDE DEF T
  <2>1. T \in SUBSET Nat
    BY DEF T
  <2>. QED  BY <2>1, LeastNumber
<1>2. b # 0
  BY TenIsDefined, TenIsPositive
<1>3. b - 1 \in Nat /\ b - 1 \notin T
  BY <1>1, <1>2
<1>4. Ten[a + (b - 1)] = Ten[a] * Ten[b - 1]
  BY <1>3
<1>5. Ten[b] = 10 * Ten[b - 1]
  <2>1. (b - 1) + 1 = b
    OBVIOUS
  <2>. QED  BY <1>3, <2>1, TenIsDefined
<1>6. Ten[a + b] = 10 * Ten[a + (b - 1)]
  <2>1. (a + (b - 1)) + 1 = a + b /\ a + (b - 1) \in Nat
    BY <1>3
  <2>. QED  BY <2>1, TenIsDefined
<1>7. \A x, y \in Int : 10 * (x * y) = x * (10 * y)
  OBVIOUS
<1>. QED  BY <1>3, <1>4, <1>5, <1>6, <1>7, TenIsPositive

LEMMA DivFacts ==
  ASSUME NEW a \in Nat, NEW b \in Nat \ {0}
  PROVE  a \div b \in Nat /\ a % b \in 0..(b - 1) /\ a = (b * (a \div b)) + (a % b)
OBVIOUS

LEMMA MultipleMod ==
  ASSUME NEW b \in Nat \ {0}, NEW r \in Nat
  PROVE  (b * r) % b = 0
<1>1. b * r \in Nat
  OBVIOUS
<1>. DEFINE q == (b * r) \div b
            e == (b * r) % b
<1>2. q \in Nat /\ e \in 0..(b - 1) /\ b * r = (b * q) + e
  BY <1>1, DivFacts
<1>. HIDE DEF q, e
<1>. DEFINE d == r - q
<1>3. d \in Int /\ b * d = e
  <2>1. b * d = (b * r) - (b * q)
    BY <1>2
  <2>. QED  BY <1>1, <1>2, <2>1
<1>. HIDE DEF d
<1>4. ASSUME d >= 1 PROVE FALSE
  <2>1. b * d >= b
    BY <1>3, <1>4
  <2>. QED  BY <1>2, <1>3, <2>1
<1>5. ASSUME d <= -1 PROVE FALSE
  <2>1. b * d <= -b
    BY <1>3, <1>5
  <2>. QED  BY <1>2, <1>3, <2>1
<1>6. d = 0
  BY <1>3, <1>4, <1>5
<1>7. e = 0
  BY <1>3, <1>6
<1>. QED  BY <1>7 DEF e

LEMMA ScaledBound ==
  ASSUME NEW x \in Int, NEW u \in Int, NEW c \in Nat, -u <= x, x <= u
  PROVE  -(u * c) <= x * c /\ x * c <= u * c
<1>1. \A a, b \in Int : a <= b => a * c <= b * c
  OBVIOUS
<1>2. (-u) * c = -(u * c)
  OBVIOUS
<1>. QED  BY <1>1, <1>2

\* The largest of some numbers that a bound cuts off.
LEMMA MaxFacts ==
  ASSUME NEW k \in Nat, NEW S \in SUBSET (0..k), S # {}
  PROVE  Max(S) \in S /\ \A j \in S : j <= Max(S)
<1>. DEFINE T == {k - j : j \in S}
<1>0. \A j \in S : j \in 0..k /\ k - j \in Nat
  OBVIOUS
<1>1. T \in SUBSET Nat /\ T # {}
  BY <1>0
<1>2. PICK n \in T : \A m \in T : n <= m
  <2>. HIDE DEF T
  <2>. QED  BY <1>1, LeastNumber
<1>3. PICK z \in S : n = k - z
  OBVIOUS
<1>4. ASSUME NEW j \in S PROVE z >= j
  <2>1. k - z <= k - j
    BY <1>2, <1>3
  <2>. QED  BY <1>0, <2>1
<1>. QED  BY <1>4 DEF Max

\* Trimming takes z zeros off the fraction, and then none is left there.
LEMMA TrimmedFacts ==
  ASSUME NEW m \in Nat, NEW k \in Nat
  PROVE  \E z \in 0..k, t \in Nat :
           /\ Trimmed(Numeral(m, k)) = Numeral(t, k - z)
           /\ t * Ten[z] = m
           /\ k - z > 0 => t % 10 # 0
<1>. DEFINE S == {j \in 0..k : m % Ten[j] = 0}
            z == Max(S)
            t == m \div Ten[z]
<1>1. 0 \in S
  BY TenIsDefined
<1>2. z \in 0..k /\ m % Ten[z] = 0 /\ \A j \in S : j <= z
  <2>1. S \in SUBSET (0..k) /\ S # {}
    BY <1>1
  <2>2. Max(S) \in S /\ \A j \in S : j <= Max(S)
    <3>. HIDE DEF S
    <3>. QED  BY <2>1, MaxFacts
  <2>. QED  BY <2>2
<1>3. Ten[z] \in Nat \ {0}
  BY <1>2, TenIsPositive
<1>4. t \in Nat /\ Ten[z] * t = m
  <2>. HIDE DEF z
  <2>1. t \in Nat /\ m = (Ten[z] * t) + (m % Ten[z])
    BY <1>3, DivFacts
  <2>2. Ten[z] * t \in Nat
    BY <1>3, <2>1
  <2>. HIDE DEF t
  <2>. QED  BY <1>2, <2>1, <2>2
<1>5. Max({k - z, 0}) = k - z
  <2>. HIDE DEF z
  <2>1. {k - z, 0} \in SUBSET (0..k) /\ {k - z, 0} # {} /\ k - z \in {k - z, 0}
    BY <1>2
  <2>2. Max({k - z, 0}) \in {k - z, 0} /\ \A j \in {k - z, 0} : j <= Max({k - z, 0})
    BY <2>1, MaxFacts
  <2>. QED  BY <1>2, <2>2
<1>6. Trimmed(Numeral(m, k)) = Numeral(t, k - z)
  <2>1. Numeral(m, k).m = m /\ Numeral(m, k).k = k
    BY DEF Numeral
  <2>2. WithoutZeros(Numeral(m, k), k) = Numeral(m \div Ten[Max(S)], Max({k - Max(S), 0}))
    BY <2>1 DEF WithoutZeros
  <2>. QED  BY <1>5, <2>1, <2>2 DEF Trimmed
<1>7. ASSUME k - z > 0, t % 10 = 0 PROVE FALSE
  <2>. DEFINE r == t \div 10
  <2>. HIDE DEF t, z
  <2>1. z + 1 \in 0..k /\ z + 1 \notin S
    <3>1. z + 1 \in 0..k /\ ~(z + 1 <= z)
      BY <1>2, <1>7
    <3>. HIDE DEF S
    <3>. QED  BY <1>2, <3>1
  <2>2. r \in Nat /\ t = 10 * r
    <3>1. r \in Nat /\ t = (10 * r) + (t % 10)
      BY <1>4
    <3>. QED  BY <1>7, <3>1
  <2>. HIDE DEF r
  <2>3. m = (10 * Ten[z]) * r
    BY <1>3, <1>4, <2>2
  <2>4. Ten[z + 1] = 10 * Ten[z]
    BY <1>2, TenIsDefined
  <2>5. Ten[z + 1] \in Nat \ {0}
    BY <1>2, TenIsPositive
  <2>6. m % Ten[z + 1] = 0
    BY <2>2, <2>3, <2>4, <2>5, MultipleMod
  <2>. QED  BY <2>1, <2>6
<1>8. t * Ten[z] = m
  <2>. HIDE DEF t, z
  <2>. QED  BY <1>3, <1>4
<1>. HIDE DEF t, z
<1>. QED  BY <1>2, <1>4, <1>6, <1>7, <1>8

\* A balance is its amount without the zeros at the end.
LEMMA BalanceFacts ==
  ASSUME NEW raw \in Nat, NEW decimals \in Nat
  PROVE  \E z \in 0..decimals, t \in Nat :
           /\ FormatTokenAmount(raw, decimals) = Numeral(t, decimals - z)
           /\ t * Ten[z] = raw
           /\ decimals - z > 0 => t % 10 # 0
<1>1. CASE decimals = 0
  <2>1. FormatTokenAmount(raw, decimals) = Numeral(raw, decimals - 0)
    BY <1>1 DEF FormatTokenAmount
  <2>2. raw * Ten[0] = raw
    BY TenIsDefined
  <2>. QED  BY <1>1, <2>1, <2>2
<1>2. CASE decimals # 0
  BY <1>2, TrimmedFacts DEF FormatTokenAmount
<1>. QED  BY <1>1, <1>2

\* Rounding moves a number by at most half a unit of the last digit it keeps.
LEMMA RoundedFacts ==
  ASSUME NEW m \in Nat, NEW k \in Nat, NEW d \in Nat
  PROVE  \E j \in 0..k, t \in Nat :
           /\ Rounded(m, k, d) = Numeral(t, j)
           /\ -Ten[k] <= 2 * ((t * Ten[k + d - j]) - (m * Ten[d]))
           /\ 2 * ((t * Ten[k + d - j]) - (m * Ten[d])) <= Ten[k]
<1>1. Ten[k] \in Nat \ {0} /\ Ten[d] \in Nat \ {0}
  BY TenIsPositive
<1>2. CASE k <= d
  <2>1. PICK z \in 0..k, t \in Nat : /\ Trimmed(Numeral(m, k)) = Numeral(t, k - z)
                                     /\ t * Ten[z] = m
    BY TrimmedFacts
  <2>2. k - z \in 0..k /\ k + d - (k - z) = z + d /\ Ten[z] \in Nat
    BY <2>1, TenIsPositive
  <2>3. t * Ten[z + d] = m * Ten[d]
    <3>1. Ten[z + d] = Ten[z] * Ten[d]
      BY TenAdds
    <3>2. t * (Ten[z] * Ten[d]) = (t * Ten[z]) * Ten[d]
      BY <1>1, <2>2
    <3>. QED  BY <2>1, <3>1, <3>2
  <2>4. m * Ten[d] \in Int
    BY <1>1
  <2>5. /\ -Ten[k] <= 2 * ((t * Ten[k + d - (k - z)]) - (m * Ten[d]))
        /\ 2 * ((t * Ten[k + d - (k - z)]) - (m * Ten[d])) <= Ten[k]
    BY <1>1, <2>2, <2>3, <2>4
  <2>6. Rounded(m, k, d) = Numeral(t, k - z)
    BY <1>2, <2>1 DEF Rounded
  <2>. QED  BY <2>2, <2>5, <2>6
<1>3. CASE d < k
  <2>. DEFINE u == Ten[k - d]
              h == u \div 2
              r == (m + h) \div u
              e == (m + h) % u
  <2>1. k - d \in Nat /\ u \in Nat \ {0}
    BY <1>3, TenIsPositive
  <2>2. h \in Nat /\ 2 * h <= u /\ u <= (2 * h) + 1
    <3>. HIDE DEF u
    <3>. QED  BY <2>1
  <2>3. r \in Nat /\ e \in 0..(u - 1) /\ m + h = (u * r) + e
    <3>. HIDE DEF u, h
    <3>1. m + h \in Nat
      BY <2>2
    <3>. QED  BY <2>1, <3>1, DivFacts
  <2>4. Rounded(m, k, d) = Trimmed(Numeral(r, d))
    BY <1>3 DEF Rounded
  <2>5. PICK z \in 0..d, t \in Nat : /\ Trimmed(Numeral(r, d)) = Numeral(t, d - z)
                                     /\ t * Ten[z] = r
    <3>. HIDE DEF r
    <3>. QED  BY <2>3, TrimmedFacts
  <2>6. d - z \in 0..k /\ k + d - (d - z) = z + k /\ Ten[z] \in Nat
    BY <1>3, <2>5, TenIsPositive
  <2>7. Ten[k] = u * Ten[d]
    <3>1. (k - d) + d = k
      OBVIOUS
    <3>. QED  BY <2>1, <3>1, TenAdds
  <2>. HIDE DEF u, h, r, e
  <2>8. t * Ten[z + k] = (u * r) * Ten[d]
    <3>1. Ten[z + k] = Ten[z] * Ten[k]
      BY TenAdds
    <3>2. t * (Ten[z] * Ten[k]) = (t * Ten[z]) * Ten[k]
      BY <1>1, <2>6
    <3>3. r * (u * Ten[d]) = (u * r) * Ten[d]
      BY <1>1, <2>1, <2>3
    <3>. QED  BY <2>5, <2>7, <3>1, <3>2, <3>3
  <2>. DEFINE x == 2 * ((u * r) - m)
  <2>9. x \in Int /\ -u <= x /\ x <= u
    <3>1. u * r \in Int
      BY <2>1, <2>3
    <3>2. (u * r) - m = h - e
      BY <2>2, <2>3, <3>1
    <3>. QED  BY <2>1, <2>2, <2>3, <3>1, <3>2
  <2>10. -(u * Ten[d]) <= x * Ten[d] /\ x * Ten[d] <= u * Ten[d]
    <3>. HIDE DEF x
    <3>. QED  BY <1>1, <2>1, <2>9, ScaledBound
  <2>11. x * Ten[d] = 2 * (((u * r) * Ten[d]) - (m * Ten[d]))
    <3>1. \A a, b, c \in Int : (2 * (a - b)) * c = 2 * ((a * c) - (b * c))
      OBVIOUS
    <3>2. u * r \in Int
      BY <2>1, <2>3
    <3>. QED  BY <1>1, <3>1, <3>2
  <2>. HIDE DEF x
  <2>12. /\ -Ten[k] <= 2 * ((t * Ten[k + d - (d - z)]) - (m * Ten[d]))
         /\ 2 * ((t * Ten[k + d - (d - z)]) - (m * Ten[d])) <= Ten[k]
    BY <2>6, <2>7, <2>8, <2>10, <2>11
  <2>. QED  BY <2>4, <2>5, <2>6, <2>12
<1>. QED  BY <1>2, <1>3

\* How far a value is off, and how far it may be, in units of all the digits.
Off(value, raw, D, p) ==
  (value.m * Ten[D + p.k + ValueDigits + PriceDigits - value.k])
    - ((raw * p.m) * Ten[ValueDigits + PriceDigits])

Bound(raw, D, p) ==
  Ten[D + p.k + PriceDigits] + (raw * Ten[p.k + ValueDigits])

\* The value of an amount: two roundings, the first of which the amount scales.
LEMMA ValueFacts ==
  ASSUME NEW raw \in Nat, NEW D \in Nat, NEW p \in [m : Nat, k : Nat], NEW value,
         value = CalculateEqualUSDT(FormatTokenAmount(raw, D), FormatUSDPrice(p))
  PROVE  /\ Off(value, raw, D, p) \in Int /\ Bound(raw, D, p) \in Int
         /\ -Bound(raw, D, p) <= 2 * Off(value, raw, D, p)
         /\ 2 * Off(value, raw, D, p) <= Bound(raw, D, p)
<1>. DEFINE K == p.k
            V == ValueDigits
            P == PriceDigits
<1>0. K \in Nat /\ p.m \in Nat /\ V \in Nat /\ P \in Nat
  BY MachineIntegers
<1>. HIDE DEF K, V, P
<1>1. PICK z \in 0..D, t1 \in Nat :
        FormatTokenAmount(raw, D) = Numeral(t1, D - z) /\ t1 * Ten[z] = raw
  BY BalanceFacts
<1>2. PICK j2 \in 0..K, t2 \in Nat :
        /\ FormatUSDPrice(p) = Numeral(t2, j2)
        /\ -Ten[K] <= 2 * ((t2 * Ten[K + P - j2]) - (p.m * Ten[P]))
        /\ 2 * ((t2 * Ten[K + P - j2]) - (p.m * Ten[P])) <= Ten[K]
  <2>1. FormatUSDPrice(p) = Rounded(p.m, K, P)
    BY DEF FormatUSDPrice, K, P
  <2>. QED  BY <1>0, <2>1, RoundedFacts
<1>. DEFINE kk == (D - z) + j2
            w == t1 * t2
<1>3. kk \in Nat /\ w \in Nat
  BY <1>1, <1>2
<1>4. CalculateEqualUSDT(FormatTokenAmount(raw, D), FormatUSDPrice(p)) = Rounded(w, kk, V)
  BY <1>1, <1>2 DEF CalculateEqualUSDT, Numeral, V
<1>5. PICK j3 \in 0..kk, t3 \in Nat :
        /\ Rounded(w, kk, V) = Numeral(t3, j3)
        /\ -Ten[kk] <= 2 * ((t3 * Ten[kk + V - j3]) - (w * Ten[V]))
        /\ 2 * ((t3 * Ten[kk + V - j3]) - (w * Ten[V])) <= Ten[kk]
  <2>. HIDE DEF kk, w
  <2>. QED  BY <1>0, <1>3, RoundedFacts
<1>. DEFINE n2 == K + P - j2
            n3 == kk + V - j3
            c == Ten[z] * Ten[n2]
            at == D + K + V + P
<1>6. /\ n2 \in Nat /\ n3 \in Nat /\ z \in Nat
      /\ z + n2 + n3 = at - j3
      /\ z + n2 + kk = D + K + P
  BY <1>0, <1>1, <1>2, <1>5
<1>7. /\ Ten[z] \in Nat /\ Ten[n2] \in Nat /\ Ten[n3] \in Nat /\ Ten[kk] \in Nat
      /\ Ten[V] \in Nat /\ Ten[P] \in Nat /\ Ten[K] \in Nat
  <2>. HIDE DEF n2, n3, kk
  <2>. QED  BY <1>0, <1>3, <1>6, TenIsPositive
<1>. HIDE DEF n2, n3, kk, w, at
<1>8. c \in Nat
  BY <1>7
<1>9. c * Ten[n3] = Ten[at - j3] /\ c * Ten[kk] = Ten[D + K + P]
  <2>1. Ten[z + n2] = c /\ z + n2 \in Nat
    BY <1>6, TenAdds
  <2>2. Ten[(z + n2) + n3] = c * Ten[n3] /\ Ten[(z + n2) + kk] = c * Ten[kk]
    BY <1>3, <1>6, <2>1, TenAdds
  <2>. QED  BY <1>6, <2>2
<1>. DEFINE A == t2 * Ten[n2]
            B == p.m * Ten[P]
            y == 2 * (A - B)
            x == 2 * ((t3 * Ten[n3]) - (w * Ten[V]))
            s == raw * Ten[V]
<1>10. /\ A \in Nat /\ B \in Nat /\ s \in Nat /\ y \in Int /\ x \in Int
       /\ -Ten[K] <= y /\ y <= Ten[K] /\ -Ten[kk] <= x /\ x <= Ten[kk]
  <2>1. A \in Nat /\ B \in Nat /\ s \in Nat /\ t3 * Ten[n3] \in Nat /\ w * Ten[V] \in Nat
    BY <1>0, <1>3, <1>7
  <2>. QED  BY <1>2, <1>5, <2>1 DEF n2, n3
<1>11. -(Ten[K] * s) <= y * s /\ y * s <= Ten[K] * s
  <2>. HIDE DEF y, s
  <2>. QED  BY <1>7, <1>10, ScaledBound
<1>12. -(Ten[kk] * c) <= x * c /\ x * c <= Ten[kk] * c
  <2>. HIDE DEF x, c
  <2>. QED  BY <1>7, <1>8, <1>10, ScaledBound
<1>13. x * c = 2 * ((t3 * Ten[at - j3]) - (A * s))
  <2>1. \A a, b : a \in Int /\ b \in Int => (2 * (a - b)) * c = 2 * ((a * c) - (b * c))
    <3>. HIDE DEF c
    <3>. QED  BY <1>8
  <2>2. t3 * Ten[n3] \in Int /\ w * Ten[V] \in Int
    BY <1>3, <1>7
  <2>3. x * c = 2 * (((t3 * Ten[n3]) * c) - ((w * Ten[V]) * c))
    <3>. HIDE DEF c
    <3>. QED  BY <2>1, <2>2
  <2>4. (t3 * Ten[n3]) * c = t3 * (c * Ten[n3])
    <3>. HIDE DEF c
    <3>. QED  BY <1>7, <1>8
  <2>5. (w * Ten[V]) * c = A * s
    <3>1. \A a, b, d, e, f \in Nat : ((a * b) * d) * (e * f) = (b * f) * ((a * e) * d)
      OBVIOUS
    <3>2. ((t1 * t2) * Ten[V]) * (Ten[z] * Ten[n2]) = (t2 * Ten[n2]) * ((t1 * Ten[z]) * Ten[V])
      BY <1>7, <3>1
    <3>. QED  BY <1>1, <3>2 DEF w
  <2>. HIDE DEF c, A, s, x
  <2>. QED  BY <1>9, <2>3, <2>4, <2>5
<1>14. y * s = 2 * ((A * s) - ((raw * p.m) * Ten[V + P]))
  <2>1. \A a, b, d \in Int : (2 * (a - b)) * d = 2 * ((a * d) - (b * d))
    OBVIOUS
  <2>2. y * s = 2 * ((A * s) - (B * s))
    <3>. HIDE DEF A, B, s
    <3>. QED  BY <1>10, <2>1
  <2>3. Ten[V + P] = Ten[V] * Ten[P]
    BY <1>0, TenAdds
  <2>4. \A a, b, d, e \in Nat : (a * b) * (d * e) = (d * a) * (e * b)
    OBVIOUS
  <2>5. B * s = (raw * p.m) * (Ten[V] * Ten[P])
    BY <1>0, <1>7, <2>4
  <2>. HIDE DEF A, B, s, y
  <2>. QED  BY <2>2, <2>3, <2>5
<1>15. Ten[K] * s = raw * Ten[K + V]
  <2>1. Ten[K + V] = Ten[K] * Ten[V]
    BY <1>0, TenAdds
  <2>2. \A a, b, d \in Nat : a * (b * d) = b * (a * d)
    OBVIOUS
  <2>. QED  BY <1>7, <2>1, <2>2
<1>. DEFINE off == (t3 * Ten[at - j3]) - ((raw * p.m) * Ten[V + P])
            bound == Ten[D + K + P] + (raw * Ten[K + V])
<1>16. off \in Int /\ bound \in Int /\ -bound <= 2 * off /\ 2 * off <= bound
  <2>1. /\ t3 * Ten[at - j3] \in Int /\ A * s \in Int /\ (raw * p.m) * Ten[V + P] \in Int
        /\ Ten[D + K + P] \in Int /\ raw * Ten[K + V] \in Int
    <3>1. /\ at - j3 \in Nat /\ V + P \in Nat /\ D + K + P \in Nat /\ K + V \in Nat
      BY <1>0, <1>6
    <3>2. /\ Ten[at - j3] \in Nat /\ Ten[V + P] \in Nat /\ Ten[D + K + P] \in Nat
          /\ Ten[K + V] \in Nat
      BY <3>1, TenIsPositive
    <3>3. A * s \in Int
      <4>. HIDE DEF A, s
      <4>. QED  BY <1>10
    <3>. QED  BY <1>0, <3>2, <3>3
  <2>2. Ten[kk] * c = Ten[D + K + P]
    <3>. HIDE DEF c
    <3>. QED  BY <1>7, <1>8, <1>9
  <2>. HIDE DEF A, s, x, y, c
  <2>. QED  BY <1>11, <1>12, <1>13, <1>14, <1>15, <2>1, <2>2
<1>17. value.m = t3 /\ value.k = j3
  BY <1>4, <1>5 DEF Numeral
<1>18. off = Off(value, raw, D, p) /\ bound = Bound(raw, D, p)
  <2>1. (value.m * Ten[at - value.k]) = t3 * Ten[at - j3]
    BY <1>17
  <2>2. Off(value, raw, D, p)
          = (value.m * Ten[at - value.k]) - ((raw * p.m) * Ten[V + P])
    <3>1. at = D + p.k + ValueDigits + PriceDigits
      BY DEF at, K, V, P
    <3>2. at - value.k = D + p.k + ValueDigits + PriceDigits - value.k
      BY <1>0, <1>17, <3>1 DEF K, V, P
    <3>3. V + P = ValueDigits + PriceDigits
      BY DEF V, P
    <3>. HIDE DEF at
    <3>. QED  BY <3>2, <3>3 DEF Off
  <2>3. bound = Bound(raw, D, p)
    BY DEF K, V, P, Bound
  <2>. QED  BY <2>1, <2>2, <2>3
<1>. HIDE DEF off, bound
<1>. QED  BY <1>16, <1>18

\* For every amount, number of decimals and price: the text of a balance is
\* exact, and there is one text only for an amount.
THEOREM BalanceIsAlwaysExact == Conversions => []BalanceIsExact
<1>1. NumbersInv => BalanceIsExact
  <2>. SUFFICES ASSUME NumbersInv, result.op = "value"
                PROVE  LET b == result.balance
                       IN  /\ b.k <= asked.decimals
                           /\ b.m * Ten[asked.decimals - b.k] = asked.raw
                           /\ b.k > 0 => b.m % 10 # 0
    BY DEF BalanceIsExact
  <2>1. /\ asked.raw \in Nat /\ asked.decimals \in Nat
        /\ result.balance = FormatTokenAmount(asked.raw, asked.decimals)
    BY DEF NumbersInv, Nothing, Shown
  <2>2. PICK z \in 0..asked.decimals, t \in Nat :
          /\ result.balance = Numeral(t, asked.decimals - z)
          /\ t * Ten[z] = asked.raw
          /\ asked.decimals - z > 0 => t % 10 # 0
    <3>. DEFINE raw == asked.raw
                D == asked.decimals
    <3>1. \E z \in 0..D, t \in Nat :
            /\ FormatTokenAmount(raw, D) = Numeral(t, D - z)
            /\ t * Ten[z] = raw
            /\ D - z > 0 => t % 10 # 0
      <4>. HIDE DEF raw, D
      <4>. QED  BY <2>1, BalanceFacts DEF raw, D
    <3>. QED  BY <2>1, <3>1
  <2>3. result.balance.m = t /\ result.balance.k = asked.decimals - z
    BY <2>2 DEF Numeral
  <2>4. asked.decimals - (asked.decimals - z) = z
    BY <2>1
  <2>. QED  BY <2>1, <2>2, <2>3, <2>4
<1>2. Ask => NumbersInv
  BY NumbersStart
<1>. QED  BY <1>1, <1>2, NumbersKeep, PTL DEF Conversions

\* For every amount, price and number of digits: a value is off by no more than
\* the two roundings that the code makes.
THEOREM ValueIsAlwaysNearest == Conversions => []ValueIsNearest
<1>1. NumbersInv => ValueIsNearest
  <2>. SUFFICES ASSUME NumbersInv, result.op = "value" PROVE ValueIsNearest
    BY DEF ValueIsNearest
  <2>. DEFINE p == asked.price
              D == asked.decimals
              raw == asked.raw
              value == result.value
              scale == D + p.k
  <2>1. /\ raw \in Nat /\ D \in Nat /\ p \in [m : Nat, k : Nat] /\ p.k \in Nat
        /\ value = CalculateEqualUSDT(FormatTokenAmount(raw, D), FormatUSDPrice(p))
    BY DEF NumbersInv, Nothing, Shown
  <2>2. /\ Off(value, raw, D, p) \in Int /\ Bound(raw, D, p) \in Int
        /\ -Bound(raw, D, p) <= 2 * Off(value, raw, D, p)
        /\ 2 * Off(value, raw, D, p) <= Bound(raw, D, p)
    <3>. HIDE DEF p, D, raw, value
    <3>. QED  BY <2>1, ValueFacts
  <2>3. 2 * Abs(Off(value, raw, D, p)) <= Bound(raw, D, p)
    BY <2>2 DEF Abs
  <2>4. ValueDigits \in Nat /\ PriceDigits \in Nat
    BY MachineIntegers
  <2>5. /\ scale + ValueDigits + PriceDigits - scale = ValueDigits + PriceDigits
        /\ scale + ValueDigits + PriceDigits - ValueDigits = scale + PriceDigits
        /\ scale + ValueDigits + PriceDigits - (D + PriceDigits) = p.k + ValueDigits
        /\ 1 * Ten[scale + PriceDigits] = Ten[scale + PriceDigits]
    <3>1. Ten[scale + PriceDigits] \in Nat
      BY <2>1, <2>4, TenIsPositive
    <3>. QED  BY <2>1, <2>4, <3>1
  <2>. QED  BY <2>3, <2>5 DEF ValueIsNearest, Off, Bound
<1>2. Ask => NumbersInv
  BY NumbersStart
<1>. QED  BY <1>1, <1>2, NumbersKeep, PTL DEF Conversions

=============================================================================
