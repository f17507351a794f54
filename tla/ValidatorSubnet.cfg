SPECIFICATION Spec
CONSTANTS
  n1 = n1  n2 = n2  rival = rival  k1 = k1  none = none
  Nodes = {n1, n2}
  Rival = rival
  DefaultImage = "latest"
  Submissions <- ValidatorSubmissions
  Hotkeys = {k1}
  NoKey = none
  InitialKey = k1
  Defaulting = {FALSE}
  MaxEvents = 0
INVARIANT OneValidatorPerSubnet
