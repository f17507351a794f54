SPECIFICATION FairSpec
CONSTANTS
  n1 = n1  n2 = n2
  Nodes = {n1}
  CordonNodes = {}
  MaxConcurrent = 1
  Cooldown = 1
  StaleAfter = 0
  Verdicts <- FailingOnly
  ProbesMayFail = FALSE
  MaxSlips = 2
  PromptOperator = TRUE
  Faults = {"ensure", "delete", "persist", "evict"}
  MaxFaults = 1
  MaxCrashes = 1
  MaxAdvisories = 1
  Deletable = {n1}
  MaxRestartAttempts = 1
  SyncTimeout = 0
INVARIANTS TypeOK CleanedBeforeGone WorkStopsWithObject RestartsCharged
PROPERTY DeletionCompletes
CHECK_DEADLOCK FALSE
