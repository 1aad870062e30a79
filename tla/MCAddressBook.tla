---------------------------- MODULE MCAddressBook ----------------------------
(* Constants for checking AddressBook. *)
EXTENDS AddressBook

MCTexts == {"", "0xa", "0xb", "0x1", "bsc", "bnb", "eth"}

\* Two spellings of one user's address, another user, and a blank header.
MCWallets ==
  {Plain("0xa"), [text |-> "0xa", upper |-> TRUE, padded |-> TRUE],
   Plain("0xb"), Absent}

\* Two spellings of BSC, one of another chain, and no chain.
MCSpellings ==
  {Plain("bsc"), [text |-> "bnb", upper |-> TRUE, padded |-> TRUE],
   Plain("eth"), Absent}

MCAddresses == {[text |-> "0x1", upper |-> FALSE, padded |-> TRUE], Absent}

MCIDs == 0..2

=============================================================================
