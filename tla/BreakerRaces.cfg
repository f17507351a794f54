SPECIFICATION FairSpec
CONSTANTS
  w1 = w1  w2 = w2  w3 = w3
  Workers = {w1, w2, w3}
  Detecting = {w1, w2}
  MaxFailures = 2
  ResetTimeout = 2
  HalfOpenProbes = 2
  CallTimeout = 1
  ErrorsReported = TRUE
  MaxOutages = 1
INVARIANTS TypeOK PermitNotLeaked
PROPERTIES OpenIsLeft
