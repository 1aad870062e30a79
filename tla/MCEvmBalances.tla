---------------------------- MODULE MCEvmBalances ----------------------------
(* Constants for checking EvmBalances. *)
EXTENDS EvmBalances

\* None to three parts, one more than a batch may hold here.
MCAddressLists ==
  UNION {[1..n -> Addresses \cup {BadAddress, NoAddress}] : n \in 0..3}

MCAssets == {"NATIVE", "BNB", "USDT", "DOGE"}

=============================================================================
