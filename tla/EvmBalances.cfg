SPECIFICATION FairSpec
CHECK_DEADLOCK FALSE
CONSTANTS
  Addresses = {a1, a2}
  BadAddress = BadAddress
  NoAddress = NoAddress
  AddressLists <- MCAddressLists
  Assets <- MCAssets
  MaxBatch = 2
INVARIANTS
  ReplyIsComplete
  StatusIsJustified
PROPERTY
  AbandonedRequestEnds
