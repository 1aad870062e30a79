SPECIFICATION FairSpec
CONSTANTS
  Handlers = {h1, h2}
  NoHandler = NoHandler
  Texts <- MCTexts
  Wallets <- TwoWallets
  Spellings <- OneSpelling
  Addresses <- OneAddress
  IDs = {1, 2}
  MaxID = 2
  MaxTime = 0
INVARIANTS
  IDsIdentify
PROPERTY
  EveryRequestAnswered
