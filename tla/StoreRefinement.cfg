SPECIFICATION Spec
SYMMETRY Symmetry
CONSTANTS
  Handlers = {h1, h2}
  NoHandler = NoHandler
  Texts <- MCTexts
  Wallets <- OneWallet
  Spellings <- TwoSpellings
  Addresses <- OneAddress
  IDs = {0, 1, 2}
  MaxID = 2
  MaxTime = 1
INVARIANTS
  TypeOK
  OneDefaultPerChain
  StampsFollowIDs
PROPERTIES
  ImplementsBook
