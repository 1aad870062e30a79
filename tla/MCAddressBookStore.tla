------------------------- MODULE MCAddressBookStore -------------------------
(* Constants for checking AddressBookStore. *)
EXTENDS AddressBookStore

\* Goroutines are interchangeable.
Symmetry == Permutations(Handlers)

MCTexts == {"", "0xa", "0xb", "0x1", "bsc", "bnb"}

\* For two goroutines at once: either two users and one chain name, or one user
\* and two names of one chain.
TwoWallets == {Plain("0xa"), Plain("0xb")}
OneSpelling == {[text |-> "bnb", upper |-> TRUE, padded |-> TRUE]}
OneWallet == {Plain("0xa")}
TwoSpellings == {Plain("bsc")} \cup OneSpelling
OneAddress == {[text |-> "0x1", upper |-> FALSE, padded |-> TRUE]}

=============================================================================
