SPECIFICATION Spec
CONSTANTS
  n1 = n1  rival = rival  k1 = k1  none = none
  Nodes = {n1}
  Rival = rival
  DefaultImage = "latest"
  Submissions <- FleetSubmissions
  Hotkeys = {k1}
  NoKey = none
  InitialKey = k1
  Defaulting = {TRUE}
  MaxEvents = 0
PROPERTY ReplacedOnlyOnDrift
