SPECIFICATION Spec
CONSTANTS
  Handlers = {h1}
  Texts <- MCTexts
  Wallets <- MCWallets
  Spellings <- MCSpellings
  Addresses <- MCAddresses
  IDs <- MCIDs
  MaxID = 2
  MaxTime = 1
PROPERTIES
  NoIDReuse
  OnlyOwnersChange
  DefaultsChangeOnRequest
