SPECIFICATION FairProbe
CHECK_DEADLOCK FALSE
CONSTANTS
  Budget = 3
  Latencies <- MCLatencies
INVARIANTS
  OkMeansAnswered
  BlameIsEarned
PROPERTY
  ProbeEnds
