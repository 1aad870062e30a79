------------------------- MODULE MCChainsRepository -------------------------
(* Constants for checking ChainsRepository. *)
EXTENDS ChainsRepository

MCTexts == {"", "eth", "bsc", "sol"}

\* Keys that differ from others in letter case or white space only.
Upper == [text |-> "eth", upper |-> TRUE, padded |-> FALSE]

Padded == [text |-> "sol", upper |-> FALSE, padded |-> TRUE]

E(key, doc) == [key |-> key, doc |-> doc, parses |-> TRUE]

\* A release, its successor with one more chain and another document, one that
\* drops, moves and adds chains, one that names a chain twice, one that does not
\* parse after its first entry, one with a nameless entry, and no file.
MCSeeds ==
  {<<E(Plain("eth"), "d1"), E(Plain("bsc"), "d1")>>,
   <<E(Plain("eth"), "d2"), E(Plain("bsc"), "d1"), E(Upper, "d1")>>,
   <<E(Padded, "d1"), E(Plain("eth"), "d1")>>,
   <<E(Plain("bsc"), "d1"), E(Plain("eth"), "d1"), E(Plain("bsc"), "d1")>>,
   <<E(Padded, "d1"), [E(Plain("bsc"), "d1") EXCEPT !.parses = FALSE]>>,
   <<E(Absent, "d1")>>,
   <<>>}

\* No filter, a filter of blanks, one key, and two keys as a client spells them.
MCQueries ==
  {{}, {Absent},
   {[text |-> "eth", upper |-> TRUE, padded |-> TRUE]},
   {Plain("eth"), [text |-> "bsc", upper |-> FALSE, padded |-> TRUE]}}

MCDocs == {"d1", "d2"}

=============================================================================
