SPECIFICATION AppSpec
CHECK_DEADLOCK FALSE
CONSTANTS
  Texts <- MCTexts
  AppWallets <- MCAppWallets
  ChainNames <- MCChainNames
  Flags <- MCFlags
INVARIANT
  OneCoin
