SPECIFICATION Spec
CONSTANTS
  n1 = n1  n2 = n2  n3 = n3
  Nodes = {n1, n2, n3}
  CordonNodes = {}
  MaxConcurrent = 2
  Cooldown = 1
  StaleAfter = 2
  ActionsMayFail = TRUE
  MaxCrashes = 0
SYMMETRY Symmetry
INVARIANT RecoveriesCapped
