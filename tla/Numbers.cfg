SPECIFICATION Conversions
CHECK_DEADLOCK FALSE
CONSTANTS
  MaxInt = 32767
  Second = 100
  PriceDigits = 2
  ValueDigits = 1
  Seconds <- MCSeconds
  Raws <- MCRaws
  Decimals <- MCDecimals
  Prices <- MCPrices
INVARIANTS
  TimeoutIsSet
  BalanceIsExact
  ValueIsNearest
