SPECIFICATION Spec
CONSTANTS
  n1 = n1  n2 = n2
  Nodes = {n1}
  CordonNodes = {}
  MaxConcurrent = 1
  Cooldown = 1
  StaleAfter = 1
  Verdicts <- HealthVerdicts
  ProbesMayFail = FALSE
  MaxSlips = 1
  PromptOperator = TRUE
  Faults = {}
  MaxFaults = 0
  MaxCrashes = 0
  MaxAdvisories = 0
  Deletable = {}
  MaxRestartAttempts = 1
  SyncTimeout = 1
INVARIANT BudgetRespected
