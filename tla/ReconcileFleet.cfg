SPECIFICATION FairSpec
CONSTANTS
  n1 = n1  n2 = n2
  Nodes = {n1, n2}
  CordonNodes = {n2}
  MaxConcurrent = 1
  Cooldown = 1
  StaleAfter = 0
  Verdicts <- MixedVerdicts
  ProbesMayFail = TRUE
  MaxSlips = 0
  PromptOperator = FALSE
  Faults = {}
  MaxFaults = 0
  MaxCrashes = 0
  MaxAdvisories = 0
  Deletable = {}
  MaxRestartAttempts = 2
  SyncTimeout = 0
INVARIANT BudgetRespected
PROPERTY DegradedIsHandled
