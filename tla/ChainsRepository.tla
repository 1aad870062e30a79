--------------------------- MODULE ChainsRepository ---------------------------
(***************************************************************************)
(* The chains table: the seed file that main imports row by row before it    *)
(* listens, and the pages that GET /api/v1/chains reads with two statements. *)
(* One process is up at a time; it may die anywhere and be started again    *)
(* with another release's seed.  A client walks the pages of one listing,   *)
(* across restarts too: each page is a request of its own.                  *)
(***************************************************************************)
EXTENDS Integers, SequencesExt, RawText

CONSTANTS
  Docs,      \* the documents a seed file may hold for a chain
  Seeds,     \* the seed files of the releases: sequences of entries
  Queries,   \* the "key" parameter, split at its commas: sets of Raw
  Sizes,     \* values of the "size" parameter; not positive if left out
  DefaultSize,  \* the size of a page without that parameter; 30 in the code
  MaxSize    \* the largest page List reads; 100 in the code

\* An element of the file's "chains": the chain's key, the document itself, and
\* whether json.Unmarshal accepts it.
Entry == [key : Raw, doc : Docs, parses : BOOLEAN]

ASSUME SeedsAreSequences == Seeds \subseteq Seq(Entry)

ASSUME SizesArePositive ==
  /\ \A q \in Queries : q \subseteq Raw
  /\ Sizes \subseteq Int
  /\ MaxSize \in Nat \ {0}
  /\ DefaultSize \in 1..MaxSize

VARIABLES
  table,   \* the rows of chains in the order of their ids
  phase,   \* what the process does; in "executing" the import waits for the
           \* database, "degraded" is serving without one
  seed,    \* seed.Chains of the import that ran last
  next,    \* the loop index of that import
  walk,    \* the client: its listing, the page it is at, the ids it has seen
  total    \* what List counted, between its two statements; -1 outside

process == <<phase, seed, next>>
vars == <<table, process, walk, total>>

Row == [key : Raw, order : Nat, doc : Docs]

\* What the order of a listing depends on.
Sorting(rows) == [i \in DOMAIN rows |-> <<rows[i].key, rows[i].order>>]

\* still: no import has changed what is listed, or in which order, since the
\* first page was asked for.
NoWalk ==
  [stage |-> "none", keys |-> {}, size |-> 1, page |-> 1, seen |-> <<>>,
   still |-> TRUE]

Disturbed(rows) == [walk EXCEPT !.still = @ /\ Sorting(rows) = Sorting(table)]

-----------------------------------------------------------------------------
(* The import *)

\* Mutant of Upserted: ON CONFLICT DO NOTHING.
UpsertedDoingNothing(rows, entry, index) ==
  LET row == [key |-> entry.key, order |-> index, doc |-> entry.doc]
  IN  IF \E i \in DOMAIN rows : rows[i].key = entry.key
      THEN rows ELSE Append(rows, row)

\* INSERT ... ON CONFLICT (chain_key) DO UPDATE: the row keeps its id.
Upserted(rows, entry, index) ==
  LET row == [key |-> entry.key, order |-> index, doc |-> entry.doc]
      old == {i \in DOMAIN rows : rows[i].key = entry.key}
  IN  IF old = {} THEN Append(rows, row)
      ELSE [i \in DOMAIN rows |-> IF i \in old THEN row ELSE rows[i]]

\* The import wants a key, but does not trim it.
Acceptable(entry) == entry.parses /\ entry.key # Absent

Init ==
  /\ table = <<>>
  /\ phase = "down"
  /\ seed = <<>>
  /\ next = 1
  /\ walk = NoWalk
  /\ total = -1

\* main with a database: ImportFromFile reads a release's file.  The empty
\* sequence stands for a file that is missing or does not parse as a whole.
Start(s) ==
  /\ phase = "down"
  /\ phase' = "importing"
  /\ seed' = s
  /\ next' = 1
  /\ UNCHANGED <<table, walk, total>>

\* main without a database: the repository stays nil as long as the process
\* lives.
StartDegraded ==
  /\ phase = "down"
  /\ phase' = "degraded"
  /\ UNCHANGED <<table, seed, next, walk, total>>

\* An element that does not parse, or has no key, ends the import.
RejectEntry ==
  /\ phase = "importing"
  /\ next <= Len(seed)
  /\ ~Acceptable(seed[next])
  /\ phase' = "serving"
  /\ UNCHANGED <<table, seed, next, walk, total>>

\* One turn of the loop sends its statement, under a context without a deadline.
Send ==
  /\ phase = "importing"
  /\ next <= Len(seed)
  /\ Acceptable(seed[next])
  /\ phase' = "executing"
  /\ UNCHANGED <<table, seed, next, walk, total>>

Executed == Upserted(table, seed[next], next - 1)

\* Mutant of Upsert: the position is counted from one before the first.
UpsertOneOff ==
  /\ phase = "executing"
  /\ table' = Upserted(table, seed[next], next - 2)
  /\ phase' = "importing"
  /\ next' = next + 1
  /\ walk' = Disturbed(table')
  /\ UNCHANGED <<seed, total>>

\* The database answers that the row is written.
Upsert ==
  /\ phase = "executing"
  /\ table' = Executed
  /\ phase' = "importing"
  /\ next' = next + 1
  /\ walk' = Disturbed(table')
  /\ UNCHANGED <<seed, total>>

\* Mutant of UpsertFails: the import begins again.
UpsertRetries ==
  /\ phase = "executing"
  /\ table' \in {table, Executed}
  /\ phase' = "importing"
  /\ next' = 1
  /\ walk' = Disturbed(table')
  /\ UNCHANGED <<seed, total>>

\* Exec returns an error, whether or not the statement took effect; main logs it
\* and serves what there is.
UpsertFails ==
  /\ phase = "executing"
  /\ table' \in {table, Executed}
  /\ phase' = "serving"
  /\ walk' = Disturbed(table')
  /\ UNCHANGED <<seed, next, total>>

\* The loop is over; the server listens.
Listen ==
  /\ phase = "importing"
  /\ next > Len(seed)
  /\ phase' = "serving"
  /\ UNCHANGED <<table, seed, next, walk, total>>

\* A signal or a crash ends the process wherever it is.  A statement that it
\* waits for takes effect at once or never.
Stop ==
  /\ phase # "down"
  /\ phase' = "down"
  /\ table' \in {table} \cup (IF phase = "executing" THEN {Executed} ELSE {})
  /\ walk' = Disturbed(table')
  /\ total' = -1
  /\ UNCHANGED <<seed, next>>

-----------------------------------------------------------------------------
(* The listing *)

\* parseKeys
ParseKeys(parts) == {p.text : p \in parts} \ {""}

\* cardinality($1) = 0 OR lower(chain_key) = ANY($1)
Matches(row, keys) ==
  keys = {} \/ (~row.key.padded /\ row.key.text \in keys)

\* Mutant of Before: ORDER BY sort_order ASC.
BeforeByOrder(i, j) == table[i].order < table[j].order

\* ORDER BY sort_order ASC, id ASC
Before(i, j) ==
  \/ table[i].order < table[j].order
  \/ table[i].order = table[j].order /\ i < j

\* The orders of a set of ids the database may answer in.
Orders(ids) ==
  {o \in SetToSeqs(ids) : \A m, n \in DOMAIN o : m < n => ~Before(o[n], o[m])}

Selected(keys) == {i \in DOMAIN table : Matches(table[i], keys)}

\* parsePositiveIntQuery for "size": what the handler echoes and hands to List.
SizeOf(parameter) == IF parameter <= 0 THEN DefaultSize ELSE parameter

\* The client starts on a listing, whatever it was doing, and asks a process that
\* listens for its first page.
StartWalk(parts, size) ==
  /\ phase \in {"serving", "degraded"}
  /\ walk' = [stage |-> "asked", keys |-> ParseKeys(parts),
              size |-> SizeOf(size), page |-> 1, seen |-> <<>>, still |-> TRUE]
  /\ total' = -1
  /\ UNCHANGED <<table, process>>

\* No list: nobody listens, the repository is nil (503), or a statement fails
\* (500).  The client may ask for the page again.
Refuse ==
  /\ walk.stage = "asked"
  /\ total' = -1
  /\ UNCHANGED <<table, process, walk>>

\* SELECT count(*)
Count ==
  /\ phase = "serving"
  /\ walk.stage = "asked"
  /\ total = -1
  /\ total' = Cardinality(Selected(walk.keys))
  /\ UNCHANGED <<table, process, walk>>

\* SELECT raw_data ... LIMIT size OFFSET (page - 1) * size, and the reply.  The
\* client goes on while the reply's page, size and total say that there is more.
Page ==
  LET size == IF walk.size > MaxSize THEN MaxSize ELSE walk.size
      offset == (walk.page - 1) * size
      last == walk.page * walk.size >= total
  IN  /\ phase = "serving"
      /\ walk.stage = "asked"
      /\ total # -1
      /\ \E o \in Orders(Selected(walk.keys)) :
           walk' = [walk EXCEPT
                      !.seen = @ \o SubSeq(o, offset + 1,
                                           IF offset + size > Len(o)
                                           THEN Len(o) ELSE offset + size),
                      !.stage = IF last THEN "done" ELSE "asked",
                      !.page = IF last THEN @ ELSE @ + 1]
      /\ total' = -1
      /\ UNCHANGED <<table, process>>

Loop == RejectEntry \/ Send \/ Listen

Next ==
  \/ \E s \in Seeds : Start(s)
  \/ StartDegraded
  \/ Loop
  \/ Upsert
  \/ UpsertFails
  \/ Stop
  \/ \E q \in Queries, size \in Sizes : StartWalk(q, size)
  \/ Refuse
  \/ Count
  \/ Page

Spec == Init /\ [][Next]_vars

\* The import is one loop in main.  Nothing makes the database answer.
FairSpec == Spec /\ WF_vars(Loop)
-----------------------------------------------------------------------------
(* Properties *)

\* Every variable holds values of its kind.
TypeOK ==
  /\ table \in Seq(Row)
  /\ phase \in {"down", "importing", "executing", "serving", "degraded"}
  /\ phase = "executing" => next <= Len(seed)
  /\ seed \in Seeds \cup {<<>>}
  /\ next \in 1..(Len(seed) + 1)
  /\ walk.stage \in {"none", "asked", "done"}
  /\ walk.seen \in Seq(DOMAIN table)
  /\ total \in Nat \cup {-1}

UniqueKeys ==
  \A i, j \in DOMAIN table : table[i].key = table[j].key => i = j

\* The first n entries of seed are what the table holds for their keys; where a
\* key occurs twice the later entry counts.
Installed(n) ==
  \A e \in 1..n :
    (\A f \in (e + 1)..n : seed[f].key # seed[e].key) =>
      \E i \in DOMAIN table :
        table[i] = [key |-> seed[e].key, order |-> e - 1, doc |-> seed[e].doc]

\* Whatever imports were cut off before, and whatever other seed they came from:
\* an import that gets to entry n has put the first n entries in place, each in
\* one row, and a process that served after a whole import serves its own seed.
ImportedSoFar ==
  /\ UniqueKeys
  /\ phase \in {"importing", "executing"} => Installed(next - 1)
  /\ phase = "serving" /\ next > Len(seed) => Installed(Len(seed))

\* What a client collects that reads page after page, as long as the replies say
\* that there is more: every row it selected, once each, in the seed's order.
Complete ==
  /\ ToSet(walk.seen) = Selected(walk.keys)
  /\ Len(walk.seen) = Cardinality(Selected(walk.keys))
  /\ \A m, n \in DOMAIN walk.seen :
       m < n => table[walk.seen[m]].order <= table[walk.seen[n]].order

\* Rows left over from an older seed tie with new ones on sort_order; still the
\* pages of one size cut one listing, whatever fails in between, and across a
\* restart whose import changes documents only (ORDER BY falls back to the id,
\* and an upsert keeps it).
WalkSeesEveryRow ==
  walk.stage = "done" /\ walk.still /\ walk.size <= MaxSize => Complete

\* A page of the size that the reply states and of the total that it states:
\* with these, a client knows when it has read everything.
ReportedSizePages ==
  walk.stage = "done" /\ walk.still => Complete

\* An import whose statements are answered, if only with an error, ends, and
\* the process serves unless it is stopped.  A statement without an answer holds
\* it up for good: main waits with context.Background().
ImportEnds ==
  []<>(phase # "executing") =>
    (phase = "importing" ~> phase \in {"serving", "down"})

=============================================================================
