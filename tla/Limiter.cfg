SPECIFICATION FairSpec
CONSTANTS
  n1 = n1  n2 = n2  n3 = n3
  Nodes = {n1, n2, n3}
  CordonNodes = {n3}
  MaxConcurrent = 1
  Cooldown = 3
  StaleAfter = 1
  ActionsMayFail = TRUE
  MaxCrashes = 1
INVARIANTS TypeOK SlotsCapped RecoveriesCapped
PROPERTIES KeepsServing
