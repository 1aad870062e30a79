SPECIFICATION FairSpec
CHECK_DEADLOCK FALSE
CONSTANTS
  Handlers = {h1, h2, h3}
INVARIANTS
  ClosedOnlyAfterTimeout
  PoolClosedLast
  ClosesUnwind
PROPERTY
  StopsUnlessQueryHangs
