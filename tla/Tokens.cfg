SPECIFICATION FairSpec
CHECK_DEADLOCK FALSE
CONSTANTS
  Requests = {r1, r2}
  Queries <- MCQueries
  Prices = {p1}
  Wallets = {w1}
  NoPrice = NoPrice
  NoWallet = NoWallet
  BadWallet = BadWallet
  Package = Package
INVARIANTS
  TypeOK
  RepliesAreExact
  ClientsClosed
PROPERTIES
  PriceListsEnd
  AbandonedRequestsEnd
