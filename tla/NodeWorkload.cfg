SPECIFICATION FairSpec
CONSTANTS
  n1 = n1  rival = rival  v1 = v1  k1 = k1  k2 = k2  none = none
  Nodes = {n1}
  Rival = rival
  DefaultImage = "latest"
  Submissions <- FleetSubmissions
  Hotkeys = {k1, k2}
  NoKey = none
  InitialKey = k1
  Defaulting = {TRUE, FALSE}
  MaxEvents = 2
INVARIANTS TypeOK KeyMaterialConfined
PROPERTIES LiveLeaseRespected WorkloadConverges RivalKeepsValidatorDown
